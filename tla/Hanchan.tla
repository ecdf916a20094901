------------------------------ MODULE Hanchan ------------------------------
(***************************************************************************)
(* The course of one game, `Game::poll` and `Game::commit` of              *)
(* libriichi/src/arena/game.rs: which kyoku is dealt next, with how many   *)
(* counters and sticks, and when the game is over.  What happens within a  *)
(* kyoku is its result, any that keeps the promise of module Kyoku.        *)
(***************************************************************************)
EXTENDS Kyoku

CONSTANTS
  Length,        \* 8 for a hanchan, 4 for a tonpuu
  InitScores,    \* 25000 each
  KyokuResults,  \* the results a kyoku may have
  MaxHonba,      \* bound on the counters
  NoResult       \* before the first kyoku has ended

HonbaWidth == 256      \* honba is a u8, built without overflow checks

Result == [scores : [Seats -> Int], kyotaku : Nat,
           can_renchan : BOOLEAN, has_hora : BOOLEAN, has_abortive : BOOLEAN]

ASSUME LengthAssumption == Length \in Nat \ {0}
ASSUME ScoresAssumption == InitScores \in [Seats -> Nat]
ASSUME ResultsAssumption == KyokuResults \subseteq Result /\ NoResult \notin Result
ASSUME HonbaAssumption == MaxHonba \in Nat /\ MaxHonba < HonbaWidth

VARIABLES
  phase,       \* kyoku_started, ended, and whether commit has taken the game
  kyoku, honba, kyotaku, scores,
  in_renchan,
  last,        \* the result of the last kyoku
  dealt        \* history: the kyoku and honba the last wall was shuffled from

vars == <<phase, kyoku, honba, kyotaku, scores, in_renchan, last, dealt>>

TypeOK ==
  /\ phase \in {"between", "playing", "ended", "committed"}
  /\ kyoku \in 0 .. Length + 4 /\ honba \in 0..MaxHonba /\ kyotaku \in Nat
  /\ scores \in [Seats -> Int]
  /\ in_renchan \in BOOLEAN
  /\ last \in Result \cup {NoResult}
  /\ dealt \in (0 .. Length + 4) \X (-1 .. MaxHonba)

Init ==
  /\ phase = "between"
  /\ kyoku = 0 /\ honba = 0 /\ kyotaku = 0 /\ scores = InitScores
  /\ in_renchan = FALSE
  /\ last = NoResult /\ dealt = <<0, -1>>

Oya == kyoku % 4
Tobi(points) == \E p \in Seats : points[p] < 0
Above30000(points) == \E p \in Seats : points[p] >= 30000

(* min_by_key of the negated scores: the first seat of the highest score *)
Top(points) == CHOOSE p \in Seats : \A q \in Seats :
                 points[q] < points[p] \/ (points[q] = points[p] /\ p <= q)

(* mutant: a renchan has no priority *)
SuddenDeathFirst ==
  \/ kyoku >= Length + 4
  \/ kyoku >= Length /\ Above30000(scores)

(* After W4, or in the extra round once somebody has 30000 and no renchan is *)
(* under way, no further kyoku is dealt.                                     *)
SuddenDeath ==
  \/ kyoku >= Length + 4
  \/ kyoku >= Length /\ ~in_renchan /\ Above30000(scores)

GameOver ==
  /\ phase = "between" /\ SuddenDeath
  /\ phase' = "ended"
  /\ UNCHANGED <<kyoku, honba, kyotaku, scores, in_renchan, last, dealt>>

(* init_from_seed shuffles the wall from the seed of the game, the number of *)
(* the kyoku and the counters.                                               *)
Deal ==
  /\ phase = "between" /\ ~SuddenDeath
  /\ dealt' = <<kyoku, honba>>
  /\ phase' = "playing"
  /\ UNCHANGED <<kyoku, honba, kyotaku, scores, in_renchan, last>>

(* Poll::End, common to all results *)
Settle(r) ==
  /\ phase = "playing"
  /\ LegalOutcome(scores, kyotaku, r)
  /\ scores' = r.scores /\ kyotaku' = r.kyotaku /\ last' = r
  /\ UNCHANGED dealt

AddHonba == honba < MaxHonba /\ honba' = (honba + 1) % HonbaWidth

EndByTobi(r) ==
  /\ Settle(r) /\ Tobi(r.scores)
  /\ phase' = "ended" /\ in_renchan' = FALSE
  /\ UNCHANGED <<kyoku, honba>>

Abortive(r) ==
  /\ Settle(r) /\ ~Tobi(r.scores) /\ r.has_abortive
  /\ AddHonba
  /\ phase' = "between" /\ in_renchan' = FALSE
  /\ UNCHANGED kyoku

OyaPasses(r) ==
  /\ Settle(r) /\ ~Tobi(r.scores) /\ ~r.has_abortive /\ ~r.can_renchan
  /\ kyoku' = kyoku + 1
  /\ IF r.has_hora THEN honba' = 0 ELSE AddHonba
  /\ phase' = "between" /\ in_renchan' = FALSE

(* mutant: one kyoku too early *)
RenchanOwariEarly(points) == /\ kyoku >= Length - 2
                             /\ points[Oya] >= 30000 /\ Top(points) = Oya

(* renchan owari: at all-last the dealer is the top, with 30000 or more *)
RenchanOwari(points) == /\ kyoku >= Length - 1
                        /\ points[Oya] >= 30000 /\ Top(points) = Oya

EndByOya(r) ==
  /\ Settle(r) /\ ~Tobi(r.scores) /\ ~r.has_abortive /\ r.can_renchan
  /\ RenchanOwari(r.scores)
  /\ phase' = "ended" /\ in_renchan' = FALSE
  /\ UNCHANGED <<kyoku, honba>>

(* mutant: the counters are forgotten *)
RenchanUncounted(r) ==
  /\ Settle(r) /\ ~Tobi(r.scores) /\ ~r.has_abortive /\ r.can_renchan
  /\ ~RenchanOwari(r.scores)
  /\ phase' = "between" /\ in_renchan' = TRUE
  /\ UNCHANGED <<kyoku, honba>>

Renchan(r) ==
  /\ Settle(r) /\ ~Tobi(r.scores) /\ ~r.has_abortive /\ r.can_renchan
  /\ ~RenchanOwari(r.scores)
  /\ AddHonba
  /\ phase' = "between" /\ in_renchan' = TRUE
  /\ UNCHANGED kyoku

(* mutant: the sticks stay on the table *)
CommitBare ==
  /\ phase = "ended"
  /\ phase' = "committed"
  /\ UNCHANGED <<kyoku, honba, kyotaku, scores, in_renchan, last, dealt>>

(* commit: the sticks left on the table go to the top. *)
Commit ==
  /\ phase = "ended"
  /\ scores' = [scores EXCEPT ![Top(scores)] = @ + Stick * kyotaku]
  /\ phase' = "committed"
  /\ UNCHANGED <<kyoku, honba, kyotaku, in_renchan, last, dealt>>

Next ==
  \/ GameOver
  \/ Deal
  \/ \E r \in KyokuResults :
       EndByTobi(r) \/ Abortive(r) \/ OyaPasses(r) \/ EndByOya(r) \/ Renchan(r)
  \/ Commit

Spec == Init /\ [][Next]_vars

-----------------------------------------------------------------------------

(* The points of a finished game are those it began with, none of them is    *)
(* left on the table, and until then every point is at a player or a stick.  *)
GamePointsConserved ==
  IF phase = "committed" THEN Total(scores) = Total(InitScores)
                         ELSE Purse(scores, kyotaku) = Total(InitScores)

(* No two kyoku of a game are shuffled from the same numbers: every deal is   *)
(* later than the one before, by its kyoku or by its counters, after any     *)
(* sequence of renchan, draws and wins.                                      *)
Later(v, w) == v[1] > w[1] \/ (v[1] = w[1] /\ v[2] > w[2])
NoWallTwice ==
  [][phase = "between" /\ phase' = "playing" => Later(<<kyoku, honba>>, dealt)]_vars

(* A game ends by bankruptcy, or not before all-last and then with somebody  *)
(* at 30000 or after W4.                                                     *)
EndIsDue ==
  phase = "ended" /\ ~Tobi(scores) =>
    kyoku >= Length - 1 /\ (kyoku >= Length + 4 \/ Above30000(scores))

(* "A renchan of the dealer has priority" over the 30000 points of sudden    *)
(* death: a game whose dealer stays after a win or a draw in tenpai ends     *)
(* only by bankruptcy or with the dealer as the top.  (An abortive draw      *)
(* clears in_renchan, and the priority is lost.)                             *)
EndsForOya == scores[Oya] >= 30000 /\ Top(scores) = Oya
RenchanHasPriority ==
  phase = "ended" /\ last # NoResult /\ last.can_renchan /\ ~last.has_abortive =>
    Tobi(scores) \/ EndsForOya
=============================================================================
