------------------------------- MODULE Kyoku -------------------------------
(***************************************************************************)
(* What one kyoku (one deal) promises to the game that plays it: the part  *)
(* of KyokuResult that Game::poll relies on.  Board is shown to keep the   *)
(* promise, Hanchan is built on it.                                        *)
(***************************************************************************)
EXTENDS Integers

(* The four seats; the oya of the first kyoku is seat 0. *)
Seats == 0..3

Total(points) == points[0] + points[1] + points[2] + points[3]

Stick == 1000

(* Points on the table: those of the players and the riichi sticks that
   nobody owns yet. *)
Purse(scores, kyotaku) == Total(scores) + Stick * kyotaku

(* The result `r` of a kyoku that began with `scores` and `kyotaku`.       *)
(* Points are neither made nor lost, a win takes every stick, without one  *)
(* no stick disappears and no more than four appear.  An abortive draw is  *)
(* not a win, the dealer stays, and nobody pays more than one stick.       *)
LegalOutcome(scores, kyotaku, r) ==
  /\ Purse(r.scores, r.kyotaku) = Purse(scores, kyotaku)
  /\ r.has_hora => r.kyotaku = 0
  /\ ~r.has_hora => r.kyotaku \in kyotaku .. kyotaku + 4
  /\ r.has_abortive => /\ ~r.has_hora
                       /\ r.can_renchan
                       /\ \A p \in Seats :
                            r.scores[p] \in {scores[p], scores[p] - Stick}
=============================================================================
