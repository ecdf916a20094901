--------------------------- MODULE HanchanProofs ---------------------------
(***************************************************************************)
(* What module Hanchan promises, for every length of the game, every set   *)
(* of kyoku results, and every bound on the counters.                      *)
(***************************************************************************)
EXTENDS Hanchan, TLAPS

USE DEF Seats

(* A kyoku is only dealt before W4 is over, and a renchan does not lead past it. *)
RoundInv == phase = "playing" \/ (phase = "between" /\ in_renchan) => kyoku < Length + 4

TypeInv == TypeOK /\ RoundInv

-----------------------------------------------------------------------------

(* The counters stay below the width of their type: adding one is exact. *)
LEMMA HonbaIsExact ==
  ASSUME honba \in 0..MaxHonba, AddHonba
  PROVE  honba' = honba + 1 /\ honba' \in 0..MaxHonba
  BY HonbaAssumption DEF AddHonba, HonbaWidth

LEMMA InitTypeInv == Init => TypeInv
<1> SUFFICES ASSUME Init PROVE TypeInv
  OBVIOUS
<1>1. kyoku \in 0 .. Length + 4 /\ honba \in 0..MaxHonba /\ kyotaku \in Nat
  BY LengthAssumption, HonbaAssumption DEF Init
<1>2. scores \in [Seats -> Int]
  BY ScoresAssumption DEF Init
<1>3. dealt \in (0 .. Length + 4) \X (-1 .. MaxHonba)
  BY LengthAssumption, HonbaAssumption DEF Init
<1>4. phase = "between" /\ in_renchan = FALSE /\ last = NoResult
  BY DEF Init
<1> QED BY <1>1, <1>2, <1>3, <1>4 DEF TypeInv, TypeOK, RoundInv

(* One seat is the top of any scores. *)
LEMMA TopIsSeat ==
  ASSUME NEW points \in [Seats -> Int]
  PROVE  Top(points) \in Seats
<1> DEFINE Best(p) == \A q \in Seats :
                        points[q] < points[p] \/ (points[q] = points[p] /\ p <= q)
<1>1. points[0] \in Int /\ points[1] \in Int /\ points[2] \in Int /\ points[3] \in Int
  OBVIOUS
<1>2. Best(0) \/ Best(1) \/ Best(2) \/ Best(3)
  BY <1>1
<1>3. \E p \in Seats : Best(p)
  BY <1>2
<1> QED BY <1>3 DEF Top

(* Every step keeps the types and the round. *)
LEMMA NextTypeInv == TypeInv /\ [Next]_vars => TypeInv'
<1> SUFFICES ASSUME TypeInv, [Next]_vars PROVE TypeInv'
  OBVIOUS
<1> USE DEF TypeInv, TypeOK, RoundInv
<1>1. CASE UNCHANGED vars
  BY <1>1 DEF vars
<1>2. CASE GameOver
  BY <1>2 DEF GameOver
<1>3. CASE Deal
  BY <1>3, LengthAssumption, HonbaAssumption DEF Deal, SuddenDeath
<1>4. ASSUME NEW r \in KyokuResults,
             EndByTobi(r) \/ Abortive(r) \/ OyaPasses(r) \/ EndByOya(r) \/ Renchan(r)
      PROVE  TypeInv'
  <2> r \in Result
    BY ResultsAssumption
  <2>1. /\ phase = "playing" /\ kyoku < Length + 4
        /\ scores' \in [Seats -> Int] /\ kyotaku' \in Nat /\ last' \in Result
        /\ UNCHANGED dealt
    BY <1>4 DEF Settle, EndByTobi, Abortive, OyaPasses, EndByOya, Renchan, Result
  <2>2. CASE EndByTobi(r)
    BY <2>1, <2>2, LengthAssumption DEF EndByTobi
  <2>3. CASE Abortive(r)
    BY <2>1, <2>3, HonbaIsExact, LengthAssumption DEF Abortive
  <2>4. CASE OyaPasses(r)
    <3>1. kyoku' \in 0 .. Length + 4
      BY <2>1, <2>4, LengthAssumption DEF OyaPasses
    <3>2. honba' \in 0..MaxHonba
      BY <2>4, HonbaIsExact, HonbaAssumption DEF OyaPasses
    <3> QED BY <2>1, <2>4, <3>1, <3>2 DEF OyaPasses
  <2>5. CASE EndByOya(r)
    BY <2>1, <2>5, LengthAssumption DEF EndByOya
  <2>6. CASE Renchan(r)
    BY <2>1, <2>6, HonbaIsExact, LengthAssumption DEF Renchan
  <2> QED BY <1>4, <2>2, <2>3, <2>4, <2>5, <2>6
<1>5. CASE Commit
  <2>1. Top(scores) \in Seats
    BY TopIsSeat
  <2>2. scores' \in [Seats -> Int]
    BY <1>5, <2>1 DEF Commit, Stick
  <2> QED BY <1>5, <2>2 DEF Commit
<1> QED BY <1>1, <1>2, <1>3, <1>4, <1>5 DEF Next

(* Game::poll and Game::commit keep every number in its range: at most the   *)
(* extra round is played, for any length of the game and any results.        *)
THEOREM TypeCorrect == Spec => []TypeOK
<1>1. TypeInv => TypeOK
  BY DEF TypeInv
<1> QED BY <1>1, InitTypeInv, NextTypeInv, PTL DEF Spec

(* The invariant as a fact of every behaviour, for the theorems below. *)
LEMMA TypeInvHolds == Spec => []TypeInv
  BY InitTypeInv, NextTypeInv, PTL DEF Spec
-----------------------------------------------------------------------------
(* Conservation of points. *)

(* A payment to one seat raises the total by the payment. *)
LEMMA TotalOfPayment ==
  ASSUME NEW points \in [Seats -> Int], NEW p \in Seats, NEW n \in Int
  PROVE  Total([points EXCEPT ![p] = @ + n]) = Total(points) + n
<1>1. points[0] \in Int /\ points[1] \in Int /\ points[2] \in Int /\ points[3] \in Int
  OBVIOUS
<1>2. p = 0 \/ p = 1 \/ p = 2 \/ p = 3
  OBVIOUS
<1> QED BY <1>1, <1>2 DEF Total

LEMMA NextPoints ==
  ASSUME TypeInv, GamePointsConserved, [Next]_vars
  PROVE  GamePointsConserved'
<1> USE DEF GamePointsConserved
<1>1. CASE UNCHANGED vars
  BY <1>1 DEF vars, Purse, Total
<1>2. CASE GameOver
  BY <1>2 DEF GameOver, Purse, Total
<1>3. CASE Deal
  BY <1>3 DEF Deal, Purse, Total
<1>4. ASSUME NEW r \in KyokuResults,
             EndByTobi(r) \/ Abortive(r) \/ OyaPasses(r) \/ EndByOya(r) \/ Renchan(r)
      PROVE  GamePointsConserved'
  <2>1. Settle(r) /\ phase' \in {"between", "ended"}
    BY <1>4 DEF EndByTobi, Abortive, OyaPasses, EndByOya, Renchan
  <2>2. Purse(r.scores, r.kyotaku) = Purse(scores, kyotaku)
    BY <2>1 DEF Settle, LegalOutcome
  <2>3. scores' = r.scores /\ kyotaku' = r.kyotaku /\ phase = "playing"
    BY <2>1 DEF Settle
  <2>4. Purse(scores, kyotaku)' = Purse(scores, kyotaku)
    BY <2>2, <2>3 DEF Purse, Total
  <2> QED BY <2>1, <2>3, <2>4 DEF Purse, Total
<1>5. CASE Commit
  <2>1. scores \in [Seats -> Int] /\ kyotaku \in Nat
    BY DEF TypeInv, TypeOK
  <2>2. Top(scores) \in Seats /\ Stick * kyotaku \in Int
    BY <2>1, TopIsSeat DEF Stick
  <2>3. Total([scores EXCEPT ![Top(scores)] = @ + Stick * kyotaku])
          = Total(scores) + Stick * kyotaku
    BY <2>1, <2>2, TotalOfPayment
  <2>4. Total(scores)' = Purse(scores, kyotaku)
    BY <1>5, <2>3 DEF Commit, Purse, Total
  <2> QED BY <1>5, <2>4 DEF Commit, Total
<1> QED BY <1>1, <1>2, <1>3, <1>4, <1>5 DEF Next

(* No point of a game is made or lost, whatever results its kyoku have, and  *)
(* commit leaves no stick on the table.                                      *)
THEOREM PointsOfTheGame == Spec => []GamePointsConserved
<1>1. Init => GamePointsConserved
  <2> SUFFICES ASSUME Init PROVE GamePointsConserved
    OBVIOUS
  <2>1. Total(InitScores) \in Int
    BY ScoresAssumption DEF Total
  <2> QED BY <2>1 DEF Init, GamePointsConserved, Purse, Stick
<1>2. TypeInv /\ GamePointsConserved /\ [Next]_vars => GamePointsConserved'
  BY NextPoints
<1> QED BY <1>1, <1>2, TypeInvHolds, PTL DEF Spec
-----------------------------------------------------------------------------
(* The order of the kyoku and the end of the game. *)

(* What was dealt last is the kyoku that is played, or lies behind. *)
DealtInv ==
  /\ phase = "playing" => dealt = <<kyoku, honba>>
  /\ phase = "between" => Later(<<kyoku, honba>>, dealt)

(* A renchan under way was not the end at all-last, and keeps in_renchan. *)
RenchanInv ==
  phase = "between" /\ last # NoResult /\ last.can_renchan /\ ~last.has_abortive =>
    in_renchan /\ (kyoku >= Length - 1 => ~EndsForOya)

CourseInv == DealtInv /\ RenchanInv /\ EndIsDue /\ RenchanHasPriority

LEMMA InitCourse == Init => CourseInv
  BY DEF Init, CourseInv, DealtInv, RenchanInv, EndIsDue, RenchanHasPriority, Later

LEMMA OyaIsSeat == ASSUME kyoku \in Nat PROVE Oya \in Seats
  BY DEF Oya

(* The walls come in order. *)
LEMMA NextDealt == ASSUME TypeInv, DealtInv, [Next]_vars PROVE DealtInv'
<1> USE DEF TypeInv, TypeOK, DealtInv
<1>1. CASE UNCHANGED vars
  BY <1>1 DEF vars, Later
<1>2. CASE GameOver
  BY <1>2 DEF GameOver
<1>3. CASE Deal
  BY <1>3 DEF Deal
<1>4. ASSUME NEW r \in KyokuResults,
             EndByTobi(r) \/ Abortive(r) \/ OyaPasses(r) \/ EndByOya(r) \/ Renchan(r)
      PROVE  DealtInv'
  <2>1. dealt = <<kyoku, honba>> /\ dealt' = dealt /\ kyoku \in Nat /\ honba \in Nat
    BY <1>4, LengthAssumption, HonbaAssumption
       DEF Settle, EndByTobi, Abortive, OyaPasses, EndByOya, Renchan
  <2>2. CASE EndByTobi(r) \/ EndByOya(r)
    BY <2>2 DEF EndByTobi, EndByOya
  <2>3. CASE Abortive(r) \/ Renchan(r)
    <3>1. kyoku' = kyoku /\ honba' = honba + 1 /\ phase' = "between"
      BY <2>3, HonbaIsExact DEF Abortive, Renchan
    <3> QED BY <2>1, <3>1 DEF Later
  <2>4. CASE OyaPasses(r)
    <3>1. kyoku' = kyoku + 1 /\ phase' = "between"
      BY <2>4 DEF OyaPasses
    <3> QED BY <2>1, <3>1 DEF Later
  <2> QED BY <1>4, <2>2, <2>3, <2>4
<1>5. CASE Commit
  BY <1>5 DEF Commit
<1> QED BY <1>1, <1>2, <1>3, <1>4, <1>5 DEF Next

(* A game ends when it is due, and not while the dealer stays. *)
LEMMA NextEnd ==
  ASSUME TypeInv, RenchanInv, EndIsDue, RenchanHasPriority, [Next]_vars
  PROVE  RenchanInv' /\ EndIsDue' /\ RenchanHasPriority'
<1> USE DEF RenchanInv, EndIsDue, RenchanHasPriority
<1> kyoku \in Nat /\ Oya \in Seats
  BY OyaIsSeat, LengthAssumption DEF TypeInv, TypeOK
<1>1. CASE UNCHANGED vars
  BY <1>1 DEF vars, Tobi, Above30000, EndsForOya, Oya, Top
<1>2. CASE GameOver
  <2>1. /\ phase = "between" /\ phase' = "ended" /\ SuddenDeath
        /\ UNCHANGED <<kyoku, scores, in_renchan, last>>
    BY <1>2 DEF GameOver
  <2>2. in_renchan => kyoku < Length + 4
    BY <2>1 DEF TypeInv, RoundInv
  <2>3. ~in_renchan
    BY <2>1, <2>2, LengthAssumption DEF SuddenDeath
  <2>4. kyoku >= Length - 1 /\ (kyoku >= Length + 4 \/ Above30000(scores))
    BY <2>1, LengthAssumption DEF SuddenDeath
  <2> QED BY <2>1, <2>3, <2>4 DEF Tobi, Above30000
<1>3. CASE Deal
  BY <1>3 DEF Deal
<1>4. ASSUME NEW r \in KyokuResults,
             EndByTobi(r) \/ Abortive(r) \/ OyaPasses(r) \/ EndByOya(r) \/ Renchan(r)
      PROVE  RenchanInv' /\ EndIsDue' /\ RenchanHasPriority'
  <2>1. scores' = r.scores /\ last' = r
    BY <1>4 DEF Settle, EndByTobi, Abortive, OyaPasses, EndByOya, Renchan
  <2>2. CASE EndByTobi(r)
    BY <2>1, <2>2 DEF EndByTobi, Tobi
  <2>3. CASE Abortive(r)
    BY <2>1, <2>3 DEF Abortive
  <2>4. CASE OyaPasses(r)
    BY <2>1, <2>4 DEF OyaPasses
  <2>5. CASE EndByOya(r)
    <3>1. /\ phase' = "ended" /\ kyoku' = kyoku /\ kyoku >= Length - 1
          /\ scores'[Oya] >= 30000 /\ Top(scores') = Oya
      BY <2>1, <2>5 DEF EndByOya, RenchanOwari
    <3>2. Oya' = Oya
      BY <3>1 DEF Oya
    <3>3. EndsForOya' /\ Above30000(scores')
      BY <3>1, <3>2 DEF EndsForOya, Above30000, Top
    <3> QED BY <3>1, <3>3 DEF Above30000, EndsForOya, Tobi
  <2>6. CASE Renchan(r)
    <3>1. /\ phase' = "between" /\ kyoku' = kyoku /\ in_renchan'
          /\ ~RenchanOwari(scores')
      BY <2>1, <2>6 DEF Renchan
    <3>2. kyoku >= Length - 1 => ~(scores'[Oya] >= 30000 /\ Top(scores') = Oya)
      BY <3>1 DEF RenchanOwari
    <3>3. Oya' = Oya /\ (EndsForOya' <=> (scores'[Oya] >= 30000 /\ Top(scores') = Oya))
      BY <3>1 DEF Oya, EndsForOya, Top
    <3> QED BY <3>1, <3>2, <3>3
  <2> QED BY <1>4, <2>2, <2>3, <2>4, <2>5, <2>6
<1>5. CASE Commit
  BY <1>5 DEF Commit
<1> QED BY <1>1, <1>2, <1>3, <1>4, <1>5 DEF Next

LEMMA CourseHolds == Spec => [](TypeInv /\ CourseInv)
<1>1. TypeInv /\ CourseInv /\ [Next]_vars => CourseInv'
  BY NextDealt, NextEnd DEF CourseInv
<1> QED BY <1>1, InitCourse, TypeInvHolds, PTL DEF Spec

(* Every deal is shuffled from later numbers than the one before: poll moves *)
(* the kyoku or the counters after every result that does not end the game.  *)
THEOREM WallsComeInOrder == Spec => NoWallTwice
<1>1. CourseInv /\ [Next]_vars
        => [phase = "between" /\ phase' = "playing" => Later(<<kyoku, honba>>, dealt)]_vars
  BY DEF CourseInv, DealtInv
<1> QED BY <1>1, CourseHolds, PTL DEF Spec, NoWallTwice

(* No game ends before all-last except by bankruptcy, nor without 30000      *)
(* points before W4.                                                         *)
THEOREM GameEndsWhenDue == Spec => []EndIsDue
<1>1. CourseInv => EndIsDue
  BY DEF CourseInv
<1> QED BY <1>1, CourseHolds, PTL

(* The renchan of a dealer who won or was tenpai comes before sudden death.  *)
THEOREM RenchanFirst == Spec => []RenchanHasPriority
<1>1. CourseInv => RenchanHasPriority
  BY DEF CourseInv
<1> QED BY <1>1, CourseHolds, PTL
=============================================================================
