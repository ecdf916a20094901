------------------------------- MODULE Runner -------------------------------
(***************************************************************************)
(* CustomKyokuRunner::run_many (libriichi/src/arena/custom_kyoku.rs): a    *)
(* batch of games of one candidate, played in rounds.  A round scans the   *)
(* games for players that can act, asks the engine once for all of them,   *)
(* advances every game and collects those that ended.  Before it, when the *)
(* request has rivers, run_prefix_only_pass plays the forced discards of a *)
(* first batch to weigh its deals.                                         *)
(*                                                                         *)
(* The board is what the rounds see of it: who can do what (`cans'), and   *)
(* how a poll with the reactions of all players changes that.  Module      *)
(* Board is the board itself; every poll of it makes progress, which is    *)
(* the bound `left' here.  Module Prefix makes the deals and the steps.    *)
(***************************************************************************)
EXTENDS Integers, FiniteSets, SequencesExt

CONSTANTS
  Games,        \* indices of the batch, 1..count
  Players,      \* player ids, in the order they are scanned
  target,       \* target_seat
  Want,         \* the first actions requested of some batch
  Follow,       \* the follow-up discard: "none", "held" or "missing" then
  Forced,       \* the forced_steps of some batch
  MaxPolls,     \* bound on the polls of one game
  None          \* no reaction, no error

Calls == {"chi", "pon", "daiminkan", "ron"}
OnDraw == {"discard", "riichi", "tsumo", "ryukyoku", "ankan", "kakan"}
Actions == OnDraw \cup Calls
FirstCalls == {"ron", "pass", "chi", "pon", "daiminkan"}

ASSUME BatchAssumption == Games = 1..Cardinality(Games) /\ target \in Players
ASSUME PlayerAssumption == Players = 0..(Cardinality(Players) - 1) /\ Cardinality(Players) >= 3
ASSUME WantAssumption == Want \subseteq {"discard", "riichi", "tsumo", "ron", "pass", "chi",
                                         "pon", "daiminkan", "ryukyoku", "ankan"}
ASSUME FollowAssumption == Follow \subseteq {"none", "held", "missing"}
ASSUME PollsAssumption == MaxPolls \in Nat \ {0}
ASSUME ForcedAssumption ==
  Forced \subseteq Seq([actor : Players, is_riichi : BOOLEAN, accumulate_likelihood : BOOLEAN])
ASSUME NoneAssumption == None \notin Actions \cup {"pass"}

VARIABLES
  want, follow_up, prefix_steps,  \* the request: the same for every game
  pass,      \* "prefix" in run_prefix_only_pass, then "main"
  phase,     \* of the round
  game,      \* the GameStates, with the board's state
  todo,      \* the games and players still to be scanned
  batch_map, \* the same of every row of the batch
  unpolled,  \* games not yet advanced in this round
  results    \* what is returned, in the order it was pushed

request == <<want, follow_up, prefix_steps>>
vars == <<request, pass, phase, game, todo, batch_map, unpolled, results>>

Least(S) == CHOOSE p \in S : \A q \in S : p <= q
(* The scan goes through the games in order, and in each through the players. *)
NotAfter(s, r) == s[1] < r[1] \/ (s[1] = r[1] /\ s[2] <= r[2])
After(p) == Least(IF \E q \in Players : q > p THEN {q \in Players : q > p} ELSE Players)
Oya == IF prefix_steps = <<>> THEN target ELSE prefix_steps[1].actor
Silent == [p \in Players |-> None]
NoCans == [p \in Players |-> {}]

(* A game as build_game_state_from_spec and build_game make it.  The fields
   of the last line are history. *)
Fresh ==
  [cans |-> NoCans, turn |-> Oya, left |-> MaxPolls,   \* the board
   reactions |-> Silent,
   is_first |-> TRUE, pending_riichi |-> FALSE, pending_meld |-> FALSE,
   prefix_index |-> 1, reach_declared |-> FALSE, prefix_completed |-> prefix_steps = <<>>,
   likes |-> [i \in DOMAIN prefix_steps |-> 0],        \* log_likelihoods, by step
   ended |-> FALSE, collected |-> FALSE, error |-> FALSE, hora |-> {},
   first |-> None, did |-> None, followed |-> None, recovered |-> FALSE]

-----------------------------------------------------------------------------
(***************************************************************************)
(* The board.                                                              *)
(***************************************************************************)
Only(p, acts) == [q \in Players |-> IF q = p THEN acts ELSE {}]

(* What a player may be offered on its draw. *)
Draws(p) ==
  LET declares == \E i \in DOMAIN prefix_steps : prefix_steps[i].actor = p
                                                  /\ prefix_steps[i].is_riichi
  IN  {{"discard"}}
      \cup (IF declares THEN {{"discard", "riichi"}} ELSE {})
      \cup (IF p # target THEN {{"discard", "tsumo"}} ELSE {{"discard", want}} \cap SUBSET OnDraw)

(* What the target and one rival may be offered on a discard of p. *)
OwnCalls(p) ==
  LET calls == IF want \in Calls THEN {want} ELSE IF want = "pass" THEN {"pon"} ELSE {}
  IN  {{}} \cup IF p = target \/ (want = "chi" /\ After(p) # target) THEN {}
                ELSE {{c} : c \in calls}
RivalCalls(own) == {"ron"} \cup IF own \cap {"pon", "daiminkan"} = {} THEN {"pon"} ELSE {}
Asked(own, q, call) == [Only(q, {call}) EXCEPT ![target] = own]
Offers(p) ==
  UNION {{Only(target, own)} \cup
         {Asked(own, q, call) : q \in Players \ {p, target}, call \in RivalCalls(own)}
         : own \in OwnCalls(p)}

(* poll goes on by itself until somebody can act. *)
ToMove(p) == {[turn |-> p, cans |-> Only(p, d)] : d \in Draws(p)}
AfterDiscard(p) ==
  {[turn |-> p, cans |-> c] : c \in Offers(p) \ {NoCans}} \cup ToMove(After(p))

(* min_by_key takes the first of the reactions of the highest priority. *)
Priority(ev) ==
  CASE ev \in {"ron", "tsumo"} -> 0
    [] ev \in {"pon", "daiminkan"} -> 1
    [] ev \in {None, "pass"} -> 3
    [] OTHER -> 2
Chosen(rx) == Least({p \in Players : \A q \in Players : Priority(rx[p]) <= Priority(rx[q])})

Outcomes(g, rx) ==
  LET p == Chosen(rx) IN
  CASE g.cans = NoCans -> ToMove(g.turn)                      \* the haipai
    [] g.cans # NoCans /\ rx[p] \in {None, "pass"} ->
         IF g.cans[g.turn] # {} THEN ToMove(g.turn)           \* a second draw
         ELSE ToMove(After(g.turn))
    [] rx[p] = "discard" -> AfterDiscard(p)
    [] rx[p] \in {"riichi", "chi", "pon"} -> {[turn |-> p, cans |-> Only(p, {"discard"})]}
    [] rx[p] \in {"ankan", "daiminkan"} -> ToMove(p)
    [] OTHER -> {}
Ends(g, rx) == g.left = 1 \/ rx[Chosen(rx)] \in {"ron", "tsumo", "ryukyoku"}
Horas(g, rx) ==
  {[actor |-> p, target |-> g.turn] : p \in {q \in Players : rx[q] \in {"ron", "tsumo"}}}

(* validate_reaction refuses what is not offered, and may refuse the tiles
   the request names for its first action. *)
Refuses(g, rx) == \E p \in Players : rx[p] \notin {None, "pass"} /\ rx[p] \notin g.cans[p]
MayRefuse(g, rx) == rx[target] = want /\ want # "pass" /\ g.first = None /\ g.prefix_completed

-----------------------------------------------------------------------------
(***************************************************************************)
(* Phase 1: the scan.  It answers for the players whose next action is     *)
(* fixed and makes a row of the batch for the others.                      *)
(***************************************************************************)
Say(g, p, ev) == [g |-> [g EXCEPT !.reactions[p] = ev], row |-> FALSE]
Skip(g) == [g |-> g, row |-> FALSE]
Ask(g) == [g |-> g, row |-> TRUE]

(* The next forced discard, when it is the turn of p: a riichi is declared
   first; the engine weighs the discards of the opponents. *)
InPrefix(g) == g.prefix_index <= Len(prefix_steps)
Declares(g, p) ==
  /\ pass = "main" /\ prefix_steps[g.prefix_index].is_riichi /\ ~g.reach_declared
  /\ "riichi" \in g.cans[p]
ForcedDiscard(g, p) ==
  Say([g EXCEPT !.prefix_index = @ + 1, !.reach_declared = FALSE], p, "discard")

ScanPrefixAsksFirst(g, p) ==   \* mutant: the row comes before the declaration
  LET step == prefix_steps[g.prefix_index] IN
  IF p # step.actor \/ "discard" \notin g.cans[p] THEN Skip(g)
  ELSE IF step.accumulate_likelihood THEN Ask(g)
  ELSE IF Declares(g, p) THEN Say([g EXCEPT !.reach_declared = TRUE], p, "riichi")
  ELSE ForcedDiscard(g, p)
ScanPrefix(g, p) ==
  LET step == prefix_steps[g.prefix_index] IN
  IF p # step.actor \/ "discard" \notin g.cans[p] THEN Skip(g)
  ELSE IF Declares(g, p) THEN Say([g EXCEPT !.reach_declared = TRUE], p, "riichi")
  ELSE IF step.accumulate_likelihood THEN Ask(g)
  ELSE ForcedDiscard(g, p)

(* The decision point of a game whose forced discards are all made. *)
AtDecision(g, p) ==
  /\ p = target
  /\ \/ "discard" \in g.cans[p]
     \/ pass = "main" /\ g.is_first /\ want \in FirstCalls

(* The first action of the target.  An action that is not offered ends the
   game in an error; pass, chi, daiminkan and ankan are said unchecked. *)
ScanFirstAsks(g) ==   \* mutant: the engine decides instead
  IF want \in g.cans[target] \/ want = "pass"
  THEN Say([g EXCEPT !.is_first = FALSE], target, want) ELSE Ask([g EXCEPT !.is_first = FALSE])
ScanFirst(g) ==
  LET tried == [g EXCEPT !.is_first = FALSE] IN
  CASE want \in {"tsumo", "ron", "pon", "ryukyoku", "riichi"} /\ want \notin g.cans[target] ->
         Skip([tried EXCEPT !.ended = TRUE, !.error = TRUE])
    [] want = "riichi" /\ want \in g.cans[target] ->
         Say([tried EXCEPT !.pending_riichi = TRUE], target, want)
    [] want = "chi" \/ (want = "pon" /\ want \in g.cans[target]) ->
         Say([tried EXCEPT !.pending_meld = TRUE], target, want)
    [] OTHER -> Say(tried, target, want)

Owes(g) == g.pending_meld /\ follow_up = "held"
ScanTarget(g) ==
  IF g.pending_riichi THEN Say([g EXCEPT !.pending_riichi = FALSE], target, "discard")
  ELSE IF g.is_first THEN ScanFirst(g)
  ELSE IF Owes(g) THEN Say([g EXCEPT !.pending_meld = FALSE, !.followed = g.did], target, "discard")
  ELSE Ask([g EXCEPT !.pending_meld = FALSE])

ScanPlayer(g, p) ==
  IF g.cans[p] = {} THEN Skip(g)
  ELSE IF ~g.prefix_completed /\ InPrefix(g) THEN ScanPrefix(g, p)
  ELSE IF ~g.prefix_completed /\ ~AtDecision(g, p) THEN Skip(g)
  ELSE LET reached == [g EXCEPT !.prefix_completed = TRUE] IN
       IF pass = "prefix" THEN Skip(reached)
       ELSE IF p = target THEN ScanTarget(reached) ELSE Ask(reached)

-----------------------------------------------------------------------------
Init ==
  /\ want \in Want /\ follow_up \in Follow
  /\ prefix_steps \in Forced
  /\ IF want \in FirstCalls   \* the decision is on the last forced discard, or after it
     THEN prefix_steps # <<>> /\ Last(prefix_steps).actor # target
     ELSE prefix_steps # <<>> => After(Last(prefix_steps).actor) = target
  /\ want \notin {"chi", "pon", "pass"} => follow_up = "none"
  /\ pass \in {"prefix", "main"} /\ (prefix_steps = <<>> => pass = "main")
  /\ phase = "begin" /\ todo = {} /\ batch_map = <<>> /\ unpolled = {} /\ results = <<>>
  /\ game = [gi \in Games |-> Fresh]

Busy == IF pass = "prefix"
        THEN \E gi \in Games : ~game[gi].prefix_completed /\ ~game[gi].ended
        ELSE Len(results) < Cardinality(Games)

(* The games in their order and in each the players that can act.  A first
   action that is refused does not stop the scan of its game. *)
Begin ==
  /\ phase = "begin" /\ Busy
  /\ LET acting(gi) == {p \in Players : game[gi].cans[p] # {}}
         scanned(gi) == ~game[gi].ended /\ (pass = "prefix" => ~game[gi].prefix_completed)
     IN  todo' = {s \in Games \X Players : scanned(s[1]) /\ s[2] \in acting(s[1])}
  /\ unpolled' = Games /\ phase' = "round"
  /\ UNCHANGED <<request, pass, game, batch_map, results>>

Scan ==
  /\ \E next \in {s \in todo : \A r \in todo : NotAfter(s, r)} :
       LET s == ScanPlayer(game[next[1]], next[2])
       IN  /\ game' = [game EXCEPT ![next[1]] = s.g]
           /\ batch_map' = IF s.row THEN Append(batch_map, next) ELSE batch_map
           /\ todo' = todo \ {next}
  /\ UNCHANGED <<request, pass, phase, unpolled, results>>

(* Phase 2: the engine answers the rows, in the order of the batch.  A
   forced discard is weighed: it is legal in the mask of the row, so that
   softmax_log_prob gives a number; any other answer is a legal action. *)
Legal(g, p) == g.cans[p] \cup (IF "discard" \in g.cans[p] THEN {} ELSE {"pass"})
Weigh(g, p) ==
  LET weighed == [g EXCEPT !.likes[g.prefix_index] = @ + 1] IN
  IF Declares(g, p) THEN Say([weighed EXCEPT !.reach_declared = TRUE], p, "riichi").g
  ELSE ForcedDiscard(weighed, p).g
Answer ==
  /\ todo = {} /\ batch_map # <<>>
  /\ LET gi == Head(batch_map)[1]
         p == Head(batch_map)[2]
         g == game[gi]
     IN  IF InPrefix(g)
         THEN game' = [game EXCEPT ![gi] = Weigh(g, p)]
         ELSE \E a \in Legal(g, p) : game' = [game EXCEPT ![gi].reactions[p] = a]
  /\ batch_map' = Tail(batch_map)
  /\ UNCHANGED <<request, pass, phase, todo, unpolled, results>>

(* Phase 3: advance_game.  A refused poll is retried with the tsumogiri of
   the player who can discard, which is never refused; unless that ends the
   round the game is given up all the same. *)
Submitted(g) ==
  LET own == g.reactions[target] IN
  [g EXCEPT !.reactions = Silent,
            !.first = IF @ = None /\ g.prefix_completed THEN own ELSE @,
            !.did = IF own = None THEN @ ELSE own]
Retried(g) ==
  LET drawn == {p \in Players : "discard" \in g.cans[p] /\ g.did \notin {"chi", "pon"}}
  IN  [p \in Players |-> IF p \in drawn THEN "discard" ELSE None]
KeepsError(g) == [g EXCEPT !.ended = TRUE, !.error = TRUE]

Polled(g) ==
  LET after == Submitted(g)
      rx == g.reactions
      recovered == [after EXCEPT !.recovered = TRUE]
  IN  (IF Refuses(g, rx) \/ MayRefuse(g, rx)
       THEN IF Ends(g, Retried(g)) THEN {[recovered EXCEPT !.ended = TRUE]}
            ELSE {KeepsError(recovered)}
       ELSE {})
      \cup
      (IF Refuses(g, rx) THEN {}
       ELSE IF Ends(g, rx) THEN {[after EXCEPT !.ended = TRUE, !.hora = Horas(g, rx)]}
       ELSE {[after EXCEPT !.turn = b.turn, !.cans = b.cans, !.left = @ - 1]
             : b \in Outcomes(g, rx)})

advance_game(g) == IF g.ended THEN {g} ELSE Polled(g)

Advance ==
  /\ phase = "round" /\ todo = {} /\ batch_map = <<>>
  /\ LET gi == Least(unpolled) IN
       /\ \E g \in advance_game(game[gi]) : game' = [game EXCEPT ![gi] = g]
       /\ unpolled' = unpolled \ {gi}
  /\ phase' = IF unpolled' # {} THEN phase ELSE IF pass = "main" THEN "collect" ELSE "begin"
  /\ UNCHANGED <<request, pass, todo, batch_map, results>>

(* Phase 4: the games that ended, in the order of the batch.  The hands of
   several winners are told from the target's side. *)
classify_round_outcome(g) ==
  IF g.error THEN "error"
  ELSE IF g.hora = {} THEN "draw"
  ELSE IF \E h \in g.hora : h.actor = target THEN "self_win"
  ELSE IF \E h \in g.hora : h.target = target THEN "self_deal_in"
  ELSE IF \E h \in g.hora : h.actor = h.target THEN "other_tsumo" ELSE "sideways"

FinishedAgain == {gi \in Games : game[gi].ended}   \* mutant
FinishedPlayed == {gi \in Games : game[gi].ended /\ ~game[gi].error /\ ~game[gi].collected}   \* mutant
Finished == {gi \in Games : game[gi].ended /\ ~game[gi].collected}
Collect ==
  /\ phase = "collect"
  /\ \E gi \in Finished :
       /\ \A other \in Finished : gi <= other
       /\ results' = Append(results, [game |-> gi, outcome |-> classify_round_outcome(game[gi])])
       /\ game' = [game EXCEPT ![gi].collected = TRUE]
  /\ UNCHANGED <<request, pass, phase, todo, batch_map, unpolled>>
EndRound ==
  /\ phase = "collect" /\ Finished = {}
  /\ phase' = "begin"
  /\ UNCHANGED <<request, pass, game, todo, batch_map, unpolled, results>>

(* The deals are weighed: the games are built again from the assembled
   hands and played from the start. *)
Rebuild ==
  /\ phase = "begin" /\ pass = "prefix" /\ ~Busy
  /\ pass' = "main" /\ game' = [gi \in Games |-> Fresh]
  /\ UNCHANGED <<request, phase, todo, batch_map, unpolled, results>>

Next == Begin \/ Scan \/ Answer \/ Advance \/ Collect \/ EndRound \/ Rebuild

Spec == Init /\ [][Next]_vars
FairSpec == Spec /\ WF_vars(Next)

-----------------------------------------------------------------------------
(* Every game of the batch is returned exactly once, in whatever round it
   ends and however it ends; nothing is returned before it ended, and what
   is told of it is what the target made of the round: an error is never
   counted as a played round, a win of the target, shared or not, never as
   a loss, a discard the target lost to never as a neutral round. *)
EachGameOnce ==
  /\ \A m, n \in DOMAIN results : results[m].game = results[n].game => m = n
  /\ \A gi \in Games : game[gi].collected <=> \E n \in DOMAIN results : results[n].game = gi
  /\ \A n \in DOMAIN results :
       LET g == game[results[n].game]
           lost == \E h \in g.hora : h.target = target /\ h.actor # target
           won == \E h \in g.hora : h.actor = target
       IN  /\ g.ended
           /\ g.error <=> results[n].outcome = "error"
           /\ won => results[n].outcome = "self_win"
           /\ lost => results[n].outcome = "self_deal_in"

(* A deal is weighed by every forced discard of the opponents exactly once,
   and by no other, whether or not a riichi is declared before it: the
   likelihood of a game is over all of the river or over none it skipped. *)
LikelihoodOnce ==
  \A gi \in Games : LET g == game[gi] IN
    \A i \in DOMAIN prefix_steps :
      g.likes[i] = IF i < g.prefix_index /\ prefix_steps[i].accumulate_likelihood THEN 1 ELSE 0

(* A game that is returned as played began, on the target's side, with the
   action of the request, made exactly once and before any answer of the
   engine for the target, or it ended before the target could act. *)
RequestIsFirst ==
  \A gi \in Games : LET g == game[gi] IN
    /\ g.first \in {None, want}
    /\ g.ended /\ ~g.error /\ g.first = None => g.left = 1

(* When the boards are polled, every player that can act on one has been
   answered for, by the request or by the engine: no player is dealt past or
   passed without a decision.  A decision point on a discard is the
   exception, see NobodyIsPassedOver. *)
Answered(g) == \A p \in Players : g.cans[p] # {} => g.reactions[p] # None
Polling ==
  /\ phase = "round" /\ todo = {} /\ batch_map = <<>> /\ unpolled = Games
  /\ pass = "main"
EveryoneIsAsked ==
  Polling => \A gi \in Games : LET g == game[gi] IN
    /\ ~g.ended /\ g.prefix_completed /\ (want \in FirstCalls => g.first # None)
    => Answered(g)

(* The discard a request names after its call is made on the very next
   action after a pon and never later, on a draw that came after a pass or a
   kan.  A chi is left out: it may be overruled, and the discard stays owed. *)
FollowUpFollowsTheCall ==
  \A gi \in Games : want # "chi" => game[gi].followed \in {None, "pon"}

(* The rounds of a batch are played from the decision the request names, by
   everybody who is to act: the three above. *)
FirstActionIsRequested == RequestIsFirst /\ EveryoneIsAsked /\ FollowUpFollowsTheCall

(* Everyone who can act on the discard that the target is asked about is
   asked, whatever seat he has. *)
NobodyIsPassedOver ==
  Polling => \A gi \in Games :
    ~game[gi].ended /\ game[gi].prefix_completed => Answered(game[gi])

(* Every game of the batch is returned in the end. *)
EveryGameIsReturned == <>(Len(results) = Cardinality(Games))
=============================================================================
