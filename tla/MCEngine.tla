------------------------------ MODULE MCEngine ------------------------------
(***************************************************************************)
(* The parts of libriichi that a game passes through one after the other,  *)
(* each with the instance it is checked on: the course of a game, the made *)
(* up games of "the x-th discard", the value of a win, the decisions of a  *)
(* batch of games, and what is read back from a log, as statistics, as     *)
(* training records and as rows of features.  They share no state: `part'  *)
(* is the one that runs, the others stay where they are.                   *)
(***************************************************************************)
EXTENDS MCHanchan, MortalBatch

CONSTANTS
  HandSize, DeadWall, Yama, Requests, Orders, MaxSwaps, NoTile,      \* Prefix
  t1, t2, t3,                                                        \* tiles of the Scenes
  Movers, Winners, Hands, MaxRounds, MaxTurns, MaxCallers,           \* Stat
  OwnOffers, CallOffers, AlwaysKan, Discards, MaxLog, MaxKyoku       \* Gameplay

VARIABLES
  part,
  req, dealing, deals, hands, swaps, board, hand, wall, turn, tile, rivers, index,
  blocks, pair, won, valued,
  log, scoring, bank, sticks, oya, turns, rounds, called, riichi, discarder, pending,
  record, chosen, playing, mover, reached, doraAtDiscard, doraAtTsumo, rinshan, yama, dead, played,
  version, decision

PR == INSTANCE Prefix WITH last <- tile, stage <- dealing
AG == INSTANCE MCAgari WITH hand <- won, dealt <- valued
ST == INSTANCE Stat WITH phase <- scoring, last <- discarder
GP == INSTANCE Gameplay WITH log <- record, phase <- playing, turn <- mover, riichi <- reached,
                             kyoku <- played
OB == INSTANCE MCObs

hanchan == vars
prefix == <<req, dealing, deals, hands, swaps, board, hand, wall, turn, tile, rivers, index>>
agari == <<blocks, pair, won, valued>>
stat == <<log, scoring, bank, sticks, oya, turns, rounds, called, riichi, discarder, pending>>
gameplay == <<record, chosen, playing, mover, reached, doraAtDiscard, doraAtTsumo, rinshan,
              yama, dead, played>>
obs == <<version, decision>>

-----------------------------------------------------------------------------
(* The requests looked at: the second discard at most, any rivers from the hand,
   and any mixture of tsumogiri in the rivers of a target on its turn. *)
RiversUpTo(n) == UNION {[1..k -> BOOLEAN] : k \in 0..n}
MCRequests ==
  LET offset(p) == (p + 3) % 4 IN
  { r \in [oya : {1}, target : Seats, x : {1, 2}, rivers : [Seats -> RiversUpTo(2)],
           reacts : BOOLEAN] :
      /\ Len(r.rivers[r.target]) \in {r.x - 1, r.x}
      /\ \/ \A p \in Seats : \A i \in DOMAIN r.rivers[p] : ~r.rivers[p][i]
         \/ /\ Len(r.rivers[r.target]) = r.x - 1
            /\ \A p \in Seats \ {r.target} :
                 Len(r.rivers[p]) = r.x - (IF offset(p) < offset(r.target) THEN 0 ELSE 1) }

(* A forced discard, one with a kan, one with kans and a win, an answer. *)
Scene(d, o, k) ==
  [discards |-> d, others |-> o, kans |-> k, called |-> t3, wise |-> "ron" \notin o]
MCScenes == {
  Scene({t1}, {}, {}), Scene({t1}, {}, {t1}),
  Scene({t1}, {"tsumo_agari"}, {t1, t2}),
  Scene({}, {"daiminkan", "ron"}, {}) }

Offer(acts) == [acts |-> acts, ankans |-> {}, kakans |-> {}]
MCOwnOffers == {
  Offer({"dahai", "reach", "hora"}), Offer({"dahai", "ryukyoku"}), Offer({"dahai", "hora"}),
  [acts |-> {"dahai", "ankan", "kakan"}, ankans |-> {1, 2}, kakans |-> {1}] }
MCCallOffers == {
  Offer({}), Offer({"chi"}), Offer({"chi", "ron"}), Offer({"pon", "daiminkan"}), Offer({"ron"}) }

-----------------------------------------------------------------------------
(* A part that does not run has no state to speak of. *)
NoPrefix ==
  /\ req = 0 /\ dealing = "idle" /\ deals = 0 /\ hands = 0 /\ swaps = 0 /\ board = 0
  /\ hand = 0 /\ wall = 0 /\ turn = 0 /\ tile = 0 /\ rivers = 0 /\ index = 0
NoStat ==
  /\ log = 0 /\ scoring = "idle" /\ bank = 0 /\ sticks = 0 /\ oya = 0 /\ turns = 0 /\ rounds = 0
  /\ called = 0 /\ riichi = 0 /\ discarder = 0 /\ pending = 0
NoGameplay ==
  /\ record = 0 /\ chosen = 0 /\ playing = "idle" /\ mover = 0 /\ reached = 0
  /\ doraAtDiscard = 0 /\ doraAtTsumo = 0 /\ rinshan = 0 /\ yama = 0 /\ dead = 0 /\ played = 0

EngineInit ==
  /\ Init /\ BatchInit
  /\ part \in {"hanchan", "prefix", "agari", "batch", "stat", "gameplay", "obs"}
  /\ IF part = "prefix" THEN PR!Init ELSE NoPrefix
  /\ IF part = "agari" THEN AG!Init ELSE AG!Idle
  /\ IF part = "stat" THEN ST!Init ELSE NoStat
  /\ IF part = "gameplay" THEN GP!Init ELSE NoGameplay
  /\ IF part = "obs" THEN OB!Init ELSE OB!Idle

EngineNext ==
  /\ UNCHANGED <<part, obs>>
  /\ \/ /\ part = "hanchan" /\ Next
        /\ UNCHANGED <<prefix, agari, batchVars, stat, gameplay>>
     \/ /\ part = "prefix" /\ PR!Next
        /\ UNCHANGED <<hanchan, agari, batchVars, stat, gameplay>>
     \/ /\ part = "agari" /\ AG!Win
        /\ UNCHANGED <<hanchan, prefix, batchVars, stat, gameplay>>
     \/ /\ part = "batch" /\ BatchNext
        /\ UNCHANGED <<hanchan, prefix, agari, stat, gameplay>>
     \/ /\ part = "stat" /\ ST!Next
        /\ UNCHANGED <<hanchan, prefix, agari, batchVars, gameplay>>
     \/ /\ part = "gameplay" /\ GP!Next
        /\ UNCHANGED <<hanchan, prefix, agari, batchVars, stat>>

EngineSpec == EngineInit /\ [][EngineNext]_<<part, hanchan, prefix, agari, batchVars, stat, gameplay, obs>>

-----------------------------------------------------------------------------
(* The properties of the parts; each is stated and explained in its module. *)

(* Prefix: no tile of a made-up game is dealt twice and none is missing, but for
   the one tile too many of a dealer's first decision, and the request is replayed
   to its decision point, with its hand and rivers. *)
MadeUpGamesAreReal == part = "prefix" => PR!DealtAsAsked /\ PR!ReplayIsExact
(* Agari: a win pays the most that any reading of the hand is worth. *)
ScoreIsBest == part = "agari" => AG!ScoreIsBest
(* Stat: the four players' statistics of one game fit together, and nothing of
   one kyoku leaks into the counters of another. *)
StatisticsAddUp == part = "stat" => ST!SeatsAddUp /\ ST!RoundsAddUp
(* Gameplay: the records read back from a log are the player's decisions. *)
RecordsTellTheGame == part = "gameplay" => GP!RecordsTellTheGame
(* ObsLayout: the encoders fill the rows of the version's shape. *)
RowsFit == OB!RowsFit
=============================================================================
