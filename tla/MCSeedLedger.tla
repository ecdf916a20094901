---------------------------- MODULE MCSeedLedger ----------------------------
(* Instances of SeedLedger for TLC: a hand with two plain discards and one of
   them declared as a riichi discard. *)
EXTENDS SeedLedger

CONSTANTS discardA, discardB, riichiA

MCCands == {discardA, discardB, riichiA}
MCTile == [c \in MCCands |-> IF c = riichiA THEN discardA ELSE c]
PlainCands == {discardA, discardB}
PlainTile == [c \in PlainCands |-> c]
=============================================================================
