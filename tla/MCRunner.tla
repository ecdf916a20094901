------------------------------ MODULE MCRunner ------------------------------
(***************************************************************************)
(* Forced discards of the prefix: none, one with a riichi, two players.    *)
(***************************************************************************)
EXTENDS Runner

Step(p, riichi) ==
  [actor |-> p, is_riichi |-> riichi, accumulate_likelihood |-> p # target]
MCForced == {
  <<>>, <<Step(0, TRUE)>>,
  <<Step(2, TRUE), Step(0, FALSE)>>, <<Step(1, TRUE), Step(2, FALSE)>> }
=============================================================================
