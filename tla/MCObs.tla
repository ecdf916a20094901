------------------------------- MODULE MCObs -------------------------------
(***************************************************************************)
(* Decisions at and around every bound the layout depends on.              *)
(***************************************************************************)
EXTENDS ObsLayout

VARIABLES version, decision

Decisions ==
  { [score |-> score, kyoku |-> kyoku, honba |-> honba, kyotaku |-> 0, kawa |-> kawa,
     fuuro |-> fuuro, doras |-> fuuro * 2, unseen |-> 19, shanten |-> 6 - fuuro,
     discards |-> d, sp |-> sp, turns |-> 17, yama |-> 1 + kawa, rinshan |-> r] :
      score \in {0, 60000}, kyoku \in {0, 3}, honba \in {0, 11}, kawa \in {0, 6, 7, 19},
      fuuro \in {0, 4}, d \in BOOLEAN, sp \in {"failed", "improbable", "probable"},
      r \in {0, 2} }

Idle == version = 0 /\ decision = 0
Init == version \in Versions /\ decision \in Decisions

(* The rows the encoders write are those of the version's shape, whatever the
   lengths of the rivers, the open sets, the scores and what sp returns. *)
RowsFit == version # 0 => Fits(version, decision)
=============================================================================
