---------------------------- MODULE MortalBatch ----------------------------
(***************************************************************************)
(* How a batch of games gets its decisions (arena/game.rs, agent/mortal.rs,*)
(* agent/batchify.rs).  Each cycle polls every game, which shows its scene *)
(* to its agent, and then commits every game, which takes the reaction.    *)
(* The agent of a network encodes each scene in a thread pool, in any      *)
(* order, into one batch, which the first reaction asked for sends to the  *)
(* network; a scene that may need the choice of a kan has two rows there.  *)
(* One seat of each game decides here; what the network prefers is any     *)
(* action of a row's mask.                                                 *)
(***************************************************************************)
EXTENDS Naturals, Sequences, FiniteSets, SequencesExt

CONSTANTS
  Games,           \* positions of the games in a call of run, 1 .. n
  Single,          \* the games whose agent decides by itself (BatchifiedAgent)
  Scenes,          \* the decisions met: see Scene
  QuickEval,       \* enable_quick_eval of the engine
  None,
  MaxCycles        \* bound

VARIABLES
  games,           \* the vector of the games that are still played
  cursor, stage,   \* what the loop of run is at
  cycle,           \* bounded count of the cycles
  scene,           \* what each game is to decide in this cycle, or None
  over,            \* the games that poll found at their end
  result,          \* game_results: the game whose result is at each position
  to_remove,
  spawned,         \* the encodings the thread pool has not finished
  rows,            \* states and masks of the batch
  action_idxs, kan_action_idxs,
  answered,        \* the rows of the last batch the network answered
  actions,         \* its answers
  evaluated,
  quick,           \* quick_eval_reactions, and last_actions of a BatchifiedAgent
  reaction         \* what each game took in this cycle

loop == <<games, cursor, stage, cycle, over, result, to_remove>>
batch == <<spawned, rows, action_idxs, kan_action_idxs, answered, actions, evaluated>>
batchVars == <<loop, scene, batch, quick, reaction>>

(* A scene: the tiles that may be discarded, other actions, the tiles a kan may
   take, the discard a call takes, whether the rules of thumb want a win. *)
Calls == {"chi_low", "chi_mid", "chi_high", "pon", "daiminkan", "ron"}
Others == Calls \cup {"riichi", "tsumo_agari", "ryukyoku"}
MayPass(s) == s.others \cap Calls # {}
MayAgari(s) == s.others \cap {"ron", "tsumo_agari"} # {}
MayKan(s) == "daiminkan" \in s.others \/ s.kans # {}

-----------------------------------------------------------------------------
(* The mask of a row, and the reaction an action stands for *)

Mask(s, atKan) ==
  IF atKan THEN s.kans \cup (IF "daiminkan" \in s.others THEN {s.called} ELSE {})
  ELSE s.discards \cup (s.others \cap {"riichi", "chi_low", "chi_mid", "chi_high", "pon", "ryukyoku"})
       \cup (IF MayPass(s) THEN {"pass"} ELSE {})
       \cup (IF MayKan(s) THEN {"kan"} ELSE {}) \cup (IF MayAgari(s) THEN {"agari"} ELSE {})

Failed == <<"failed", None>>
KanOf(s, choice) ==
  LET tile == CASE choice # None -> choice
                [] choice = None /\ "daiminkan" \in s.others -> s.called
                [] OTHER -> CHOOSE t \in s.kans : TRUE
  IN CASE choice # None /\ choice \notin s.kans -> Failed
       [] "daiminkan" \in s.others -> <<"daiminkan", tile>>
       [] OTHER -> <<"kan", tile>>

(* get_reaction, for one action of the engine; it fails when the scene does not
   allow what the action stands for. *)
Decode(s, action, choice) ==
  CASE action \in s.discards -> <<"dahai", action>>
    [] action \in s.others -> <<action, None>>
    [] action = "kan" /\ MayKan(s) -> KanOf(s, choice)
    [] action = "agari" /\ MayAgari(s) -> <<"hora", None>>
    [] action = "pass" -> <<"none", None>>
    [] OTHER -> Failed

(* What a scene allows. *)
Legal(s) ==
  {<<"dahai", t>> : t \in s.discards} \cup {<<"kan", t>> : t \in s.kans}
  \cup {<<a, None>> : a \in s.others \cap
          {"riichi", "chi_low", "chi_mid", "chi_high", "pon", "ryukyoku"}}
  \cup (IF "daiminkan" \in s.others THEN {<<"daiminkan", s.called>>} ELSE {})
  \cup (IF MayAgari(s) THEN {<<"hora", None>>} ELSE {})
  \cup (IF MayPass(s) THEN {<<"none", None>>} ELSE {})

(* The constants: games are named by their positions, a tile is not the name of
   another action, nobody can call a discard and declare a kan of his own at once,
   and None is nothing else. *)
SceneOK(s) ==
  /\ s.others \subseteq Others
  /\ s.discards \cap (Others \cup {"pass", "kan", "agari"}) = {}
  /\ "daiminkan" \in s.others => s.kans = {}
  /\ None \notin Legal(s)
ASSUME BatchAssumption ==
  /\ IsFiniteSet(Games) /\ Games = 1 .. Cardinality(Games)
  /\ \A s \in Scenes : SceneOK(s)
  /\ None \notin Nat /\ None \notin Scenes

-----------------------------------------------------------------------------
BatchInit ==
  /\ games = [g \in Games |-> g] /\ cursor = 1 /\ stage = "poll" /\ cycle = 1
  /\ scene = [g \in Games |-> None] /\ over = {}
  /\ result = [g \in Games |-> None] /\ to_remove = <<>>
  /\ spawned = {} /\ rows = <<>> /\ answered = <<>> /\ actions = <<>>
  /\ action_idxs = [g \in Games |-> 1] /\ kan_action_idxs = [g \in Games |-> None]
  /\ evaluated = FALSE
  /\ quick = [g \in Games |-> None] /\ reaction = [g \in Games |-> None]

(* A single discard and nothing else to think about. *)
IsQuick(s) == QuickEval /\ Cardinality(s.discards) = 1 /\ s.kans = {}
              /\ s.others \cap {"riichi", "tsumo_agari", "ryukyoku"} = {}
NeedKanSelect(s) == s.kans # {} /\ (QuickEval => Cardinality(s.kans) > 1)

SetScene(g, s) ==
  IF g \in Single
  THEN /\ \E r \in Legal(s) : quick' = [quick EXCEPT ![g] = r]
       /\ UNCHANGED <<spawned, evaluated>>
  ELSE /\ evaluated' = FALSE
       /\ IF IsQuick(s)
          THEN /\ quick' = [quick EXCEPT ![g] = <<"dahai", CHOOSE t \in s.discards : TRUE>>]
               /\ UNCHANGED spawned
          ELSE /\ spawned' = spawned \cup {g} /\ UNCHANGED quick

(* The game is polled: it comes to a decision, or to its end. *)
Poll ==
  /\ stage = "poll" /\ cursor <= Len(games) /\ cycle <= MaxCycles
  /\ LET g == games[cursor]
     IN \/ /\ over' = over \cup {g}
           /\ UNCHANGED <<scene, spawned, evaluated, quick>>
        \/ \E s \in Scenes :
             /\ scene' = [scene EXCEPT ![g] = s] /\ SetScene(g, s)
             /\ UNCHANGED over
  /\ cursor' = cursor + 1
  /\ UNCHANGED <<games, stage, cycle, result, to_remove, rows, action_idxs,
                 kan_action_idxs, answered, actions, reaction>>

Polled ==
  /\ stage = "poll" /\ games # <<>> /\ cursor = Len(games) + 1
  /\ stage' = "commit" /\ cursor' = 1
  /\ UNCHANGED <<games, cycle, scene, over, result, to_remove, batch, quick, reaction>>

(* A thread of the pool has encoded a scene and holds the lock of the batch. *)
Row(g, atKan) == [game |-> g, at |-> cycle, kan |-> atKan, mask |-> Mask(scene[g], atKan)]
Encode(g) ==
  LET kan == NeedKanSelect(scene[g])
  IN /\ g \in spawned
     /\ rows' = rows \o (IF kan THEN <<Row(g, TRUE)>> ELSE <<>>) \o <<Row(g, FALSE)>>
     /\ action_idxs' = [action_idxs EXCEPT ![g] = Len(rows) + (IF kan THEN 2 ELSE 1)]
     /\ kan_action_idxs' = IF kan THEN [kan_action_idxs EXCEPT ![g] = Len(rows) + 1]
                           ELSE kan_action_idxs
     /\ spawned' = spawned \ {g}
     /\ UNCHANGED <<loop, scene, answered, actions, evaluated, quick, reaction>>

Committing == games[cursor]
Asks == stage = "commit" /\ cursor <= Len(games) /\ Committing \notin over

(* The first reaction asked for waits for the encodings and calls the network,
   unless there is nothing to ask it. *)
Evaluate ==
  /\ Asks /\ quick[Committing] = None /\ ~evaluated /\ spawned = {}
  /\ evaluated' = TRUE
  /\ IF rows = <<>> THEN UNCHANGED <<rows, answered, actions>>
     ELSE /\ \E answer \in [DOMAIN rows -> UNION {rows[i].mask : i \in DOMAIN rows}] :
               /\ \A i \in DOMAIN rows : answer[i] \in rows[i].mask
               /\ actions' = answer
          /\ answered' = rows /\ rows' = <<>>
  /\ UNCHANGED <<loop, scene, spawned, action_idxs, kan_action_idxs, quick, reaction>>

(* The guard: the best action but the win, when the rules of thumb are against. *)
Guarded(s, i) ==
  IF actions[i] = "agari" /\ ~s.wise THEN answered[i].mask \ {"agari"} ELSE {actions[i]}

TakeQuick ==
  /\ Asks /\ quick[Committing] # None
  /\ reaction' = [reaction EXCEPT ![Committing] = quick[Committing]]
  /\ quick' = [quick EXCEPT ![Committing] = None]
  /\ cursor' = cursor + 1
  /\ UNCHANGED <<games, stage, cycle, scene, over, result, to_remove, batch>>

AnswerKeeps ==                          \* mutant: the row of the choice of a kan is kept
  /\ Asks /\ quick[Committing] = None /\ evaluated
  /\ LET g == Committing
         k == kan_action_idxs[g]
     IN /\ \E a \in Guarded(scene[g], action_idxs[g]) :
             reaction' = [reaction EXCEPT ![g] =
               Decode(scene[g], a, IF k = None THEN None ELSE actions[k])]
        /\ UNCHANGED kan_action_idxs
  /\ cursor' = cursor + 1
  /\ UNCHANGED <<games, stage, cycle, scene, over, result, to_remove, spawned, rows,
                 action_idxs, answered, actions, evaluated, quick>>
Answer ==
  /\ Asks /\ quick[Committing] = None /\ evaluated
  /\ LET g == Committing
         k == kan_action_idxs[g]
     IN /\ \E a \in Guarded(scene[g], action_idxs[g]) :
             reaction' = [reaction EXCEPT ![g] =
               Decode(scene[g], a, IF k = None THEN None ELSE actions[k])]
        /\ kan_action_idxs' = [kan_action_idxs EXCEPT ![g] = None]
  /\ cursor' = cursor + 1
  /\ UNCHANGED <<games, stage, cycle, scene, over, result, to_remove, spawned, rows,
                 action_idxs, answered, actions, evaluated, quick>>

Finish ==
  /\ stage = "commit" /\ cursor <= Len(games) /\ Committing \in over
  /\ result' = [result EXCEPT ![Committing] = Committing]
  /\ to_remove' = Append(to_remove, cursor) /\ cursor' = cursor + 1
  /\ UNCHANGED <<games, stage, cycle, scene, over, batch, quick, reaction>>

(* swap_remove: the last game takes the place of the one that is removed. *)
SwapRemove(v, i) == [j \in 1 .. Len(v) - 1 |-> IF j = i THEN v[Len(v)] ELSE v[j]]

(* The finished games are taken out from the last position to the first. *)
RemovedForwards ==                      \* mutant: from the first to the last
  FoldLeft(LAMBDA v, i : IF i <= Len(v) THEN SwapRemove(v, i) ELSE v, games, to_remove)
Removed ==
  LET n == Len(to_remove)
      left[k \in 0 .. n] == IF k = 0 THEN games
                            ELSE SwapRemove(left[k - 1], to_remove[n - k + 1])
  IN left[n]
Sweep ==
  /\ stage = "commit" /\ cursor = Len(games) + 1
  /\ games' = Removed /\ to_remove' = <<>>
  /\ stage' = "poll" /\ cursor' = 1 /\ cycle' = cycle + 1
  /\ scene' = [g \in Games |-> None] /\ reaction' = [g \in Games |-> None]
  /\ UNCHANGED <<over, result, batch, quick>>

BatchNext ==
  \/ Poll \/ Polled \/ Evaluate \/ TakeQuick \/ Answer \/ Finish \/ Sweep
  \/ \E g \in Games : Encode(g)

BatchSpec == BatchInit /\ [][BatchNext]_batchVars

-----------------------------------------------------------------------------
(* Properties *)

(* Whatever the order in which the pool encodes the scenes, a game acts on the
   network's answer to its own scene of this cycle, row by row: what it does is
   allowed in its scene, and no check of get_reaction fails. *)
OwnAnswers ==
  \A g \in Games :
    /\ reaction[g] # None => reaction[g] \in Legal(scene[g])
    /\ (stage = "commit" /\ evaluated /\ scene[g] # None /\ g \notin Single
          /\ ~IsQuick(scene[g]) /\ reaction[g] = None) =>
         LET i == action_idxs[g]
             k == kan_action_idxs[g]
         IN /\ answered[i].game = g /\ answered[i].at = cycle /\ ~answered[i].kan
            /\ (k # None) = NeedKanSelect(scene[g])
            /\ k # None => /\ answered[k].game = g /\ answered[k].at = cycle
                           /\ answered[k].kan

(* No game is lost or played twice when finished ones leave the vector: a game is
   in it until its own result stands at its own position. *)
EveryGameCounted ==
  /\ \A g \in Games : result[g] \in {g, None}
  /\ \A i, j \in DOMAIN games : games[i] = games[j] => i = j
  /\ stage = "poll" => {games[i] : i \in DOMAIN games} = {g \in Games : result[g] = None}
=============================================================================
