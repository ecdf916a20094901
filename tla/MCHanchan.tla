----------------------------- MODULE MCHanchan -----------------------------
(***************************************************************************)
(* The scores of a kyoku's result are one of a few distributions, in every *)
(* order of the seats: nobody, one or two players at 30000 or above, a     *)
(* stick on the table, a player below zero.                                *)
(***************************************************************************)
EXTENDS Hanchan, FiniteSets

Distribution == {
  <<25000, 25000, 25000, 25000>>, <<24000, 25000, 25000, 25000>>,
  <<30000, 30000, 20000, 20000>>, <<31000, 29000, 20000, 20000>>,
  <<30000, 29000, 20000, 20000>>, <<29000, 29000, 22000, 20000>>,
  <<-1000, 41000, 30000, 30000>> }

Outcomes ==
  { [scores |-> [p \in Seats |-> d[order[p]]], kyotaku |-> k, can_renchan |-> again,
     has_hora |-> hora, has_abortive |-> abortive] :
      d \in Distribution,
      order \in {f \in [Seats -> 1..4] : \A p, q \in Seats : f[p] = f[q] => p = q},
      k \in 0..1, again \in BOOLEAN, hora \in BOOLEAN, abortive \in BOOLEAN }

(* Those that can follow some state of the game at all. *)
MCResults ==
  { r \in Outcomes : /\ Purse(r.scores, r.kyotaku) = 100000
                     /\ r.has_hora => r.kyotaku = 0 /\ ~r.has_abortive
                     /\ r.has_abortive => r.can_renchan }

MCInitScores == [p \in Seats |-> 25000]
=============================================================================
