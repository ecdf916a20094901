------------------------------ MODULE MCBoard ------------------------------
(***************************************************************************)
(* Two corners of the kyoku, in one run.  At the table of "discards" any   *)
(* tile may be discarded and everybody may declare riichi, with at most    *)
(* one call: four riichi, four winds, nagashi mangan, noten payments.  At  *)
(* the table of "calls" there are up to MaxCalls calls, of dragons, and    *)
(* seat 2 may declare riichi: four kans of one or more players, chains of  *)
(* kans, chankan, pao.                                                     *)
(***************************************************************************)
EXTENDS Board

VARIABLE table

(* Seat 2 can afford one riichi. *)
MCScores == [p \in Seats |-> IF p = 2 THEN 1000 ELSE 25000]
MCOyaPoints == {[ron |-> 2900, tsumo_ko |-> 1000, tsumo_oya |-> 0]}
MCKoPoints == {[ron |-> 2000, tsumo_ko |-> 500, tsumo_oya |-> 1000]}

MCInit == Init /\ table \in {"discards", "calls"}

(* Two or three winners of one discard are left to the table of "calls". *)
OneOf(winners) == table = "discards" => Cardinality(winners) = 1

InCorner ==
  /\ table' = table
  /\ table = "discards" => Calls' <= 1 /\ pai' # "dragon"
  /\ table = "calls" => /\ pai' \in {"dragon", NoTile}
                        /\ \A p \in Seats \ {2} : ~riichi_declared'[p]

MCNext ==
  \/ Haipai /\ InCorner
  \/ Draw /\ InCorner
  \/ \E p \in Seats :
       \/ Reach(p) /\ InCorner
       \/ Chi(p) /\ InCorner
       \/ Pon(p) /\ InCorner
       \/ Daiminkan(p) /\ InCorner
       \/ Kakan(p) /\ InCorner
       \/ Ankan(p) /\ InCorner
       \/ Tsumo(p) /\ InCorner
       \/ KyuushuKyuuhai(p) /\ InCorner
  \/ \E p \in Seats, k \in Kinds : Dahai(p, k) /\ InCorner
  \/ \E winners \in SUBSET Seats : OneOf(winners) /\ Ron(winners) /\ InCorner
  \/ \E tenpai \in SUBSET Seats : ExhaustiveRyukyoku(tenpai) /\ InCorner
  \/ FourRiichi /\ InCorner
  \/ FourKan /\ InCorner

MCSpec == MCInit /\ [][MCNext]_<<vars, table>>
=============================================================================
