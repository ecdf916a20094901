--------------------------- MODULE MCPlayerState ---------------------------
(***************************************************************************)
(* Hands of one set and a pair, from 5s to 9s and the east wind: with runs,*)
(* pairs, triplets, an honour and the red five.  The east wind is the kind *)
(* that follows 9s: a call of 7s with 89s must not bar it.                 *)
(***************************************************************************)
EXTENDS PlayerState

Deal(tiles, marker, first, wall) ==
  [tiles |-> tiles, marker |-> marker, first |-> first, wall |-> wall]
MCDeals == {
  Deal(<<23, 24, 25, 25>>, 24, 0, 4), Deal(<<23, 24, 25, 27>>, 22, 3, 4),
  Deal(<<Red, 22, 22, 23>>, 27, 3, 5), Deal(<<24, 24, 24, 27>>, 23, 0, 5),
  Deal(<<22, 23, 27, 27>>, Red, 3, 4), Deal(<<25, 26, 27, 27>>, 22, 3, 4) }

(* Tanyao, which has no 9s and no east wind, or a triplet of the east wind. *)
MCHasYaku(hand, melds) ==
  \/ \A k \in {26, 27} : hand[k] = 0 /\ \A m \in ToSet(melds) : k \notin ToSet(m)
  \/ hand[27] = 3 \/ \E m \in ToSet(melds) : m[1] = 27
=============================================================================
