------------------------------ MODULE MCAgari ------------------------------
(***************************************************************************)
(* Hands for the calculator: four runs or triplets of one family and a     *)
(* pair, some of the sets called, won on any of the concealed tiles; the   *)
(* seat goes with the tile, which makes dealers and others win both ways.  *)
(***************************************************************************)
EXTENDS Agari

VARIABLES blocks, pair, hand, dealt

S(t) == <<"run", t>>
K(t) == <<"triplet", t>>

(* Sets a hand is made of, and its pair: runs that are triplets as well, one
   suit, three suits, honors, terminals, the green tiles, simples. *)
Families == {
  <<<<S(0), S(1), S(2), K(0), K(1), K(2), K(3)>>, {1, 4}>>,
  <<<<S(0), S(3), S(6), K(0), K(8), K(27)>>, {8, 33}>>,
  <<<<S(0), S(9), S(18), K(0), K(9), K(18)>>, {4, 26}>>,
  <<<<K(27), K(28), K(29), K(30), K(31), K(32), K(33)>>, {30, 33}>>,
  <<<<K(0), K(8), K(9), K(17)>>, {26}>>,
  <<<<S(19), K(20), K(25), K(32)>>, {23}>>,
  <<<<S(3), S(4), S(12), K(4)>>, {4, 17}>>}

Count(bs, p, t) ==
  Cardinality({i \in DOMAIN bs : bs[i][1] = "run" /\ t \in bs[i][2]..(bs[i][2] + 2)})
  + 3 * Cardinality({i \in DOMAIN bs : bs[i] = K(t)}) + (IF t = p THEN 2 ELSE 0)

Idle == blocks = <<>> /\ pair = 0 /\ hand = <<>> /\ dealt = FALSE
Init ==
  /\ \E f \in Families : \E q \in [1..4 -> DOMAIN f[1]] :
       /\ \A i \in 1..3 : q[i] <= q[i + 1]
       /\ blocks = [i \in 1..4 |-> f[1][q[i]]]
       /\ pair \in f[2]
  /\ \A t \in Kinds : Count(blocks, pair, t) <= 4
  /\ hand = <<>> /\ dealt = FALSE

(* The first n sets of bs are called, triplets in the way of `kind'. *)
Hand(bs, n, kind) ==
  LET called == SubSeq(bs, 1, n)
      chis == SelectSeq(called, LAMBDA b : b[1] = "run")
      of(x) == IF kind = x THEN {b[2] : b \in ToSet(called) \ ToSet(chis)} ELSE {}
      concealed == SubSeq(bs, n + 1, 4)
  IN  [tehai |-> [k \in Kinds |-> Count(concealed, pair, k)],
       chis |-> [i \in DOMAIN chis |-> chis[i][2]],
       pons |-> of("pon"), minkans |-> of("minkan"), ankans |-> of("ankan")]

Win ==
  /\ ~dealt /\ dealt' = TRUE
  /\ \E n \in {0, 1, 4}, kind \in {"pon", "minkan", "ankan"}, bs \in {blocks, Reverse(blocks)} :
       /\ n = 0 => kind = "pon" /\ bs = blocks
       /\ \E h \in {Hand(bs, n, kind)} :
            /\ \A k \in h.minkans \cup h.ankans : Count(blocks, pair, k) = 3
            /\ \E t \in {k \in Kinds : h.tehai[k] > 0}, ron \in BOOLEAN :
                 hand' = h @@ [bakaze |-> 27, jikaze |-> 27 + (t % 2),
                               winning_tile |-> t, is_ron |-> ron]
  /\ UNCHANGED <<blocks, pair>>

(* What is paid for a hand is the most that any reading of it is worth, with
   or without hans and dora on top (IsBest), although
   AgariCalculator puts the winning tile by one rule of thumb and compares han
   before fu. *)
ScoreIsBest ==
  dealt => \A more \in {<<0, 0>>, <<1, 0>>, <<2, 3>>} :
    (more[1] = 0 => hand.is_ron \/ ~is_menzen(hand)) =>
      IsBest(hand, more[1], more[2], hand.jikaze = 27)
=============================================================================
