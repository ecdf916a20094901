# Formal models of MortalSim

TLA+ specifications of MortalSim, the Monte-Carlo analyser of riichi-mahjong
decisions: what is modelled, what TLC checks on small instances and what TLAPS
proves for instances of every size. Paths are relative to the repository root.

## 1. Inventory

### 1.1 Components

| component | source | state it keeps | operations |
|---|---|---|---|
| job manager | `apps/api/job_manager.py` | dictionary of jobs, their status, result, worker process, GPU monitor and event log; one JSON record per run on disk | create, create_extension, cancel, delete, get, list, monitor loop, `_finish`, `_persist`, `_load_existing` |
| API endpoints | `apps/api/main.py`, `models.py`, `services.py`, `exports.py` | none of their own | validate a request, call the job manager, stream events, export |
| history store | `mortal_app/history_store.py` | SQLite table `canonical_history`, one LRU cache per process | get, save_reduction, fingerprint, verdict |
| analysis service | `mortal_app/service.py` | none between runs | parse the request, simulate, summarise, reduce into the history, merge extensions |
| GPU monitor, GPU lease | `mortal_app/gpu_monitor.py`, `gpu_lease.py` | telemetry thread; lock file shared by processes | start, stop, sample; acquire with time-out, release |
| model registry, hanchan model, reviewer, parsers | `mortal_app/*` | files | look up, infer, convert |
| QQ bot | `bot/src/bot.py`, `quota.py`, `mortal_client.py` | persisted task queue, spool of unsent results, daily quota table | enqueue, execute, cancel, restore, flush; reserve, release; create with retry, wait |
| bot daemon | `bot/src/daemon.py` | child processes, heartbeat, gateway state | watch, kill, respawn |
| hanchan | `libriichi/src/arena/game.rs` | kyoku, counters, sticks, scores, `in_renchan`, `ended` | poll, commit |
| board | `libriichi/src/arena/board.rs`, `state/update.rs`, `state/agent_helper.rs` | piles of tiles, what each kan still owes, riichi to be accepted, pao, four-wind and nagashi flags; of each player melds, riichi, first go-around | haipai, poll, step, handle_hora, exhaustive and abortive draws, end |
| simulation of decision points | `arena/custom_kyoku.rs`, `mcmc.rs`, `prefix.rs`, `weighted.rs` | hands and walls of made-up games, a batch of games with their forced steps, first action, retries and likelihoods | sample and assemble hands, lay the wall, scan, ask, answer, advance, collect |
| player state | `libriichi/src/state` | what one seat knows: hand, melds, waits, shanten, furiten, dora counts, candidates; rows of the observation | update, validate_reaction, discard candidates, encode_obs |
| agents and batching | `agent/mortal.rs`, `batchify.rs`, `arena/game.rs` | a batch of encoded decisions, indices of games | set_scene, evaluate, get_reaction; run |
| tile algorithms | `libriichi/src/algo` | none | readings, fu, yaku, points; shanten |
| statistics and datasets | `stat.rs`, `rankings.rs`, `dataset/` | sums over logs; records of one player's decisions | from_game, from_dir; load_events_by_player |
| neural engines, simulator | `mortal/`, `simulator/` | weights | infer |
| launcher, web UI, packaging, tools | `apps/desktop_launcher`, `apps/web`, `packaging`, `tools` | presentation | - |

### 1.2 Who calls whom

A browser or the bot sends a request to the API. FastAPI runs the synchronous
endpoints in a pool of threads; they call the one `JobManager` object.
`_create_job` reserves seeds in the history store, starts a worker process and a
monitor thread. The worker simulates with the game engine and the neural engine,
reads and saves the history row, and puts its result on a queue. The monitor
thread takes it, merges it into the parent if the job is an extension, and
writes the record. Readers of the event stream poll the job's log until
`job.done` is set. The bot polls `GET /api/runs/{id}`. In the engine, a game
deals a board, polls it with the reactions of the agents until it has ended, and
takes over its result; a step of the board broadcasts events to four player
states, whose flags say what each agent may answer next. A worker does not play
such games: for every candidate `custom_kyoku.rs` makes up many, with hands
sampled so that the rivers seen so far can be replayed, forces the moves of the
past and the first action of the candidate, and lets a batch of boards play on
with the engine's answers. Games played by agents (`game.rs`) leave logs, from
which `stat.rs` and `dataset/` read statistics and training records.

### 1.3 What is hard

* **Threads without a lock.** Only `_create_job` and `get` hold the lock.
  `cancel`, `delete`, `_finish` and `_persist` run beside each other on the same
  job, the two `_finish` of a cancelled job included.
* **Check then act.** `cancel` joins the worker for three seconds between
  reading the status and writing it; `delete` and `create_extension` check
  outside the lock.
* **Crashes.** Two files are written when an extension ends.
* **Two caches over one table.** The API process caches history rows that the
  workers replace.
* **Sequences of operations** on one analysis: seeds, counts and sums of a run,
  its extensions and its later candidates have to fit together.
* **Message queues, retries and quotas** of the bot; **batching** across threads
  in the engine: an answer must reach the game and the seat that asked, although
  rows are appended in the order threads finish and games leave the array.
* **State carried along and recomputed now and then**: waits, furiten and dora
  counts of a player; the flags of a statistics fold; a wall index over a log;
  the row index of an observation.
* **Games made up backwards**: a wall has to be laid so that, played forward by
  the ordinary rules, every forced discard is in the hand when it is due.
* **Rules with a memory** in the board: an indicator, a stick, a liability or an
  abortive draw is decided in one step, by one object, and due in a later one,
  and any reaction may come in between.

`PROJECT.json` lists every hazard at the line where it bites, with the
properties that watch it.

### 1.4 What makes each component correct

* job manager: one active run at a time; every run ends and is announced; an
  ended run stays ended; a failed, cancelled or interrupted extension leaves its
  parent as it was; memory and disk agree when nobody is working; results hold
  delivered samples only; deletes and cancels are final.
* history store and seeds: no saved game is lost, none is counted twice; seeds
  continue; candidates of one analysis are compared on the same seeds; merged
  statistics are those of the union of the games.
* bot: an accepted task is executed or answered, a quota is charged once, a
  cancel hits the task it names, a result reaches the group at least once.
* event stream: every reader sees each event once, in order, and the last one.
* board: points are conserved, kans and riichi are settled once and in time, an
  abortive draw happens exactly when it should, no error path is reached, every
  kyoku ends.
* hanchan: points are conserved up to the last stick, the game ends when it is
  due and not before, no wall is dealt twice.
* agents: a decision reaches the game that asked for it, no game is lost.
* simulation: a made-up game deals every tile once and replays the request; each
  game is returned once, starts with the requested action, and weighs each forced
  discard of an opponent once.
* player state: furiten, waits, shanten and dora counts are those of the hand; a
  discard that is offered is legal. Score: no reading of a hand is worth more.
* statistics and records: what one seat wins others lose, nothing leaks from one
  kyoku into the next; a record says what the player chose and saw.

## 2. Modules

| module | models | lines of code it stands for |
|---|---|---|
| `JobManager` | threads, jobs, records, workers and crashes | `job_manager.py` whole, `merge_results` by its effect |
| `SingleSlot` | abstract: one slot for one run at a time | - |
| `JobManagerProofs` | theorems about `JobManager` | - |
| `SeedLedger` | seeds and samples of a decision point across runs, extensions, kills, restarts | `history_store.py`, seed reservation, reduction and merging in `service.py` |
| `BotQueue` | tasks, cancels, quota and delivery of the QQ bot, restarts of bot and server | `bot.py` queue, worker, cancel, spool; `quota.py`; `mortal_client.py` |
| `Kyoku` | what a kyoku promises the game that plays it, no state | the part of `KyokuResult` that `game.rs` relies on |
| `Board` | one kyoku, one action per arm of `step` | `board.rs`, the legality of reactions in `update.rs` |
| `Hanchan` | one game, with any results that keep the promise of `Kyoku` | `Game` in `game.rs` |
| `Prefix` | hands, wall and forced steps of a made-up game, and their replay | `prefix.rs`, the swaps of `mcmc.rs`, the prefix branch of `custom_kyoku.rs` |
| `Runner` | the loop that plays a batch of made-up games | `run_many_custom_kyoku`, `run_prefix_only_pass`, `advance_game` in `custom_kyoku.rs` |
| `PlayerState` | one player's view of a kyoku, one operator per event | `update.rs`, `action.rs`, `agent_helper.rs` |
| `Agari` | the score of a hand and its reference | `agari.rs`, `point.rs` |
| `MortalBatch` | an agent that serves several games, and the loop that runs them | `agent/mortal.rs`, `BatchGame::run` in `game.rs` |
| `Stat` | a log of a game and the fold over it | `stat.rs`, `rankings.rs` |
| `Gameplay` | a log of a game and the records made from it | `dataset/gameplay.rs` |
| `ObsLayout` | rows of the observation and of the hidden tiles | `obs_repr.rs`, `invisible.rs`, `consts.rs` |
| `SeedLedgerProofs`, `BotQueueProofs`, `BoardProofs`, `HanchanProofs`, `RunnerProofs`, `MortalBatchProofs` | theorems about the module each is named after | - |
| `SetInduction` | induction over numbers as facts about sets, for the proofs | - |
| `MCJobManager`, `MCSeedLedger`, `MCBotQueue`, `MCBoard`, `MCRunner`, `MCPlayerState` | instances for TLC | - |
| `MCLive` | `JobManager` and `BotQueue` under fairness, one of them per behaviour | - |
| `MCEngine`, with `MCHanchan`, `MCAgari`, `MCObs` | the parts of libriichi that share no state, one of them per behaviour | - |

### 2.1 JobManager

*State.* `mem` is the dictionary; `status`, `result`, `parent`, `gpu`, `done`
and `log` are the attributes of the `Job` objects; `disk` and `tmp` the JSON
record and its temporary file; `proc` and `events` the worker process and its
queue; `lock` the manager's lock; `th` has a program counter and the locals of
each request and monitor thread. A result is the set of operations whose samples
it holds: merging is union. `delivered` is a history variable.

*Atomicity.* A step ends where another thread could see or change something the
thread has read or is going to write. `_create_job` up to its first `_persist`
is one step, because the job is unknown to others and the lock is held. `cancel`,
`delete`, `_finish`, `_persist` are split at every shared access: check, kill, join;
check, pop, unlink; GPU check, GPU stop, merge, graft, status, result; write,
rename; announce. The payload of `_persist` is taken with the assignment before it.

*Correspondence.* Requests: `ExtensionCheck`, `Refuse`, `Create`, `Start`,
`PersistCreated`, `Cancel`, `Kill`, `Join`, `Delete`, `Pop`, `Unlink`. Monitor:
`TakeEvent`, `GetTimesOut`, `CheckWorker`. `_finish`, in whichever thread:
`CheckGpu`, `StopGpu`, `Merge`, `Graft`, `SetStatus`, `SetResult`, `Write`,
`Replace`, `Announce`. Worker: `Report`, `Exit`. `Restart` is the death of the
process and `_load_existing` in the next one. `Raise` is the path of an
exception: a second `_finish("failed")` after a completed event, otherwise the
end of the monitor thread or an HTTP error.

*Left out.* Progress and GPU events (they change no status), error texts, the
contents of results, the identity checks of `merge_results` (merging may fail at
any time instead), write errors of log files. `get` and `list` only read.

*Bounds.* `Limits` is a set of environments, one of which is chosen at the start
(`budget.given`): how many cancels, deletes, restarts and write errors it has, and
whether it is `quick`. Without `quick` no worker ends while another thread is in the
middle of `_finish` or `_create_job`, which holds for every simulation that takes
longer than a few file operations. `Jobs` limits the ids. The proofs cover every set
of environments. An environment is `Calm` if it has no cancel and no write error and is
not `quick`; it may delete and crash.

### 2.2 SeedLedger

*State.* `rows` is the table, `lru` the cache of the API process, `op` the active
operation with its request and reserved seed, `results` the merged result of each
analysis. `workers` are the worker processes: the operation they were started for, the
cache they were born with, the row they have read or saved, and whether a monitor
still listens to them. An accumulator has `n`, the count the code keeps, and `seen`,
which it does not keep: the seeds of the games in it. `paid` is a history variable:
the games that were saved, by whichever worker, whatever became of them.

*Correspondence.* `Create`, `ExtendRuns` and `ExtendCandidates` are the request
and the seed reservation of `_create_job`; `ReadRow` and `SaveRow` the two transactions
at the end of the simulation, between which any other process may write; `Deliver` the
result that is stored, merged or refused; `Fail` a worker or monitor that ends without
one, at any moment; `Cancel` a cancel, `Restart` a new API process. A fingerprint is the multiset of candidate names: a new
request names a riichi candidate by its identity, the request an extension is
built from by its tile. `StartMethod` is the start method of `multiprocessing`:
a spawned worker has an empty cache, a forked one that of the API process. `Outlive` says
whether a worker may survive a `"cancel"` (whose `join(timeout=3)` is not looked at) or a
`"crash"` of the application, and go on to read and save; a result that is already in the
queue survives a cancel in any case.

*Left out.* Moments and the verdict on them (counts and sets of games stand for
them), eviction from the cache (2000 positions), games that fail, deletes, candidates that are not discards, and
the change of a parent between the check and the creation of its extension.

### 2.3 BotQueue

*State.* `queue`, `pending` and `file` are the asyncio queue, its mirror and
`queue.json`; `worker` says where the worker coroutine awaits, with
`active_item`, `current_run_id` and the deliveries tried; `marked` is
`cancelled_user`; `call` the cancel request a user's message is waiting for;
`charge` the quota row of today; `spool` the results in `data/pending_results`.
`run` and `busy` are the server: the run of each task, and a run of somebody
else. `ticket`, `outcome` and `refunded` are history variables.

*Atomicity.* The bot is one asyncio thread, so a step runs to the next `await`
that can wait; `put` on an unbounded queue cannot. An answer of the server and the
arrival of the request there are two steps, and everything may happen in between.

*Correspondence.* Messages: `Submit`, `Cancel`, `CancelArrives`,
`CancelAnswered`, `CancelFails`. Worker: `Take`, `Post`, `Refused`, `GiveUp`,
`Answer`, `Completed`, `RunFailed`, `Breaks`, `Deliver`, `Undelivered`, `Report`,
with `Fail` for its `except` and `Finally` for its `finally` clause. `Flush` is
the loop that sends spooled results. Environment: `RunEnds`, `Others`,
`ServerRestart` (running becomes interrupted, as in `_load_existing`),
`BotRestart`, `Midnight`. `Breaks` is any exception in `execute`: a failing
call, also one whose request the server has accepted, or the rendering.

*Left out.* Numbers of games in the quota (requests are counted), cooldown and
limits per request, texts, the review queue and the OCR quota. The bot dies at
an `await`, never between two writes of one step. One cancel of a user is under
way at a time; the deadline of `create_run` may pass whenever the server has
refused once.

### 2.4 Kyoku, Board, Hanchan

`Kyoku` holds the seats, the purse (scores and sticks) and `LegalOutcome`, the
contract between the two others: `Board` is checked to keep it (`KeepsContract`),
`Hanchan` assumes nothing else of a kyoku.

*State of Board.* `tiles_left`, `yama`, `rinshan` and `dora_indicators` are the
lengths of the piles; `deal_from_rinshan`, `need_new_dora_at_discard` and
`need_new_dora_at_tsumo` what the last kans are still owed; `kans` the
`kans_on_board` of the players, which every one of them counts from the same
events. Melds are numbers per player, `paos`, `scores`, the riichi and
first-go-around flags are the code's. `phase` stands for the `last_cans` of the
players: who may answer with what. `outcome` stands for `has_hora`,
`has_abortive_ryukyoku` and its reason, `opening` is a history variable.

*Hands.* The tiles in the hands are abstracted: what depends on a hand alone (a
wait, a pair, tenpai, the worth of a win, nine terminals, which honours its
triplets are) is chosen freely, and what depends on melds, riichi, kans and the
wall is a guard. A discard is one of a few `Kinds`; a hand with a liable player
is a yakuman. So the model has every behaviour of the code, and some in which
the hands do not fit together; no invariant is owed to the fit.

*Correspondence.* `Haipai` is the first `step`; `Draw` an answer of four passes,
with the rinshan, the indicator due and `check_riichi_accepted`; `Reach`,
`Dahai` (with `check_four_wind` and the four-kan check), `Chi`, `Pon`,
`Daiminkan`, `Kakan`, `Ankan` the arms of `step` and what `PlayerState::update`
makes of the event; `Ron`, `Tsumo` are `handle_hora`, with pao and multiple ron;
`ExhaustiveRyukyoku`, `KyuushuKyuuhai`, `FourRiichi`, `FourKan` and the abort in
`Dahai` the draws. `poll` grants the renchan of an abortive draw after the step;
both are one action. A pile is popped without a test, so an empty pile, an
error in the code, is a negative number here and `NoErrorPath` is about it. An
agent answers with an action it was offered, which `validate_reaction` enforces,
and it discards when it must. `Kakan` leaves out `check_riichi_accepted`: no
riichi waits in the turn of somebody who has drawn (`RiichiSettled`).

*State of Hanchan.* The fields of `Game`; `phase` stands for `kyoku_started`,
`ended` and whether `commit` has taken the game; `last` and `dealt` are history
variables. `Deal` and `GameOver` are the beginning of `poll`; `EndByTobi`,
`Abortive`, `OyaPasses`, `EndByOya`, `Renchan` the returns of its `Poll::End`
arm; `Commit` is `commit`.

*Left out.* Furiten, kuikae and waits (`PlayerState` has them), the log
(`Gameplay`, `Stat`), the observation (`ObsLayout`), `Index` and agents
(`MortalBatch`).

### 2.5 Prefix

*State.* `req` is a request: the seats, the number of the decision and the rivers
with their tsumogiri flags. `deals` and `hands` are the sampled and the assembled
hands, `board` what `build_prefix_game_from_hands` returns, `hand`, `wall`, `turn`, `last`,
`rivers` the board that replays it. Tiles are tokens named by where the request
has them, so that a tile dealt twice, or to the wrong hand, shows.

*Correspondence.* `Deal`, `UseDeal`, `Perturb`, `Assemble` are the ways the runner
obtains hands; `TakeTurn`, `FirstDraw`, `DrawBefore`, `Laid` the backward
construction; `Build`, `Draw`, `ForcedDiscard`, `Decide` the replay with the board.
`Swap` keeps a hand's number of tiles and leaves the target alone; energies and the
choice of the swap are free.

*Left out.* Weights, priors and temperatures; a river is discards only, since a request
has no calls of the past; the whole-hand mode without a prefix. The properties are about
requests whose rivers are in turn order up to the decision (`OnTurn`, `OnCall`); others are
replayed as far as the code gets. One of them gets a wall with a tile too many: a dealer who
decides on the first draw (`DealerFirst`, see 3.2). `DealtAsAsked` says exactly
which tile that is, and that every other request is dealt each tile once.

### 2.6 Runner

*State.* `game[i]` has what the loop reads and writes of a `GameState` (forced steps
and index, first-action flags, pending riichi or follow-up discard, retries, errors)
and `cans`, the answers the board offers. `todo` and `batch_map` are the scan and its
rows, `results` what is returned. The board is what the loop relies on: after a poll,
somebody may answer or the game is over. `likes` and the like are history fields.

*Correspondence.* `Begin` starts a cycle, `Scan` is one (game, seat) of it, taken in the
order of the two loops from the set `todo`, `Answer` one row answered by the engine,
`Advance` is `advance_game` with its three retries (the games are advanced in parallel, but
share nothing), `Collect` takes one game that ended, in the order of the batch, and
`EndRound` is the end of that loop; `Rebuild` is the second pass after
`run_prefix_only_pass`.

*Left out.* The numbers: values, likelihoods and weights are counted, not computed;
metrics and profiles; a panic in the engine.

### 2.7 PlayerState

*State.* `s` has the fields of the struct that decide what may be answered, `turn`,
`phase` and `owed` are the board. `passed` is a history variable: the
winning tiles the player has let go. Players 1 to 3 are seen only by their events, which
is all `PlayerState` is told. A hand has `Sets` sets and a pair on few `Kinds`, with one
red five; waits and shanten are computed by definition (`AgariHands`), as the tables do.
Each event operator is the whole arm of `update`, the recomputations at its end included.

*Left out.* Nine kinds, ranks and scores, the rivers kept for the observation.

### 2.8 Agari

Pure operators: `Divisions` are the readings in `AGARI_TABLE` (compared outside the
model: the table lacks only one dominated reading of four consecutive triplets),
`calc_fu`, `Han` and `YakuOf` the calculation, `winning_tile_makes_minkou` the rule of
thumb, `AtLeast` the order, `agari` the result. The reference `Best` tries every set the
winning tile may complete, and `ScoreIsBest` compares the points. Ura indicators, red
fives and kinds of dora only add han and are a number. Kokushi has no division and is left out.

### 2.9 MortalBatch

*State.* `games` is the array, `cursor` and `stage` the loop of `run`; `rows`, `action_idxs`,
`kan_action_idxs`, `actions`, `evaluated` the fields of the agent; `spawned` the encodings under
way; `scene` what each game asks. *Correspondence.* `Poll`, `Polled`, `SetScene`, `Encode`
(in any order, up to the wait in `evaluate`), `Evaluate`, `Answer` with its `Guarded` part,
`TakeQuick`, `Finish`, `Sweep`. The engine answers with any action its mask allows; an
answer carries the identity of its row. *Left out.* What the engine prefers, metadata, and
agents that answer one by one, which appear as the games in `Single`.

### 2.10 Stat, Gameplay, ObsLayout

`Stat` writes a log as the board does (calls, riichi accepted or not, wins of one player
or of up to three on a discard, draws with or without payments, sticks) and folds it; `SeatsAddUp` relates the
statistics of the four seats to each other, `RoundsAddUp` those of one seat to the kyoku it
was in, seen one by one. `Gameplay` writes the log of a table in which one player is asked
and his answers are remembered, also those the board drops (`FourRiichi`, `FourKans`);
`RecordsTellTheGame` compares the records read back with these answers, the wall and the ends
of the kyoku. Where the log does not tell, it says what the record is instead: an answer
after the fourth riichi has none, and a call that an abort by four kans drops, or a chi that
another's pon overrides, reads as a denied one if more than a chi was on offer (`ReadsAsDenied`).
Kans, winds and riichi are not counted here: whether the fourth has come is left open. `ObsLayout` has no steps: it sums the
rows each part of the encoder moves the index by and writes, for every version and branch.

## 3. Runs

Every passing run explores its whole state space. All cfgs disable the deadlock
check: with bounded budgets and ids the system stops when everything has been
used, a game or a log ends, and a manager with nothing to do may wait for ever.

| run | question |
|---|---|
| `jm_main` | the job manager in the three environments of `MCJobManager`; the action constraint `InOrder` hands the ids out in one order and says how many an environment uses. `Race`: all faults at once around one run, whose worker may end at any moment. `Kills`: two runs, a delete, two restarts at any moment. `Benign`: three runs and a delete, so that an extension of an extension or of a parent being deleted happens. One active run, one-slot abstraction, delivered samples only, ended for good; in the latter two, which are calm, disk and memory agree and samples survive |
| `live` | liveness, see 3.1: a created run ends and is announced, an accepted task of the bot is settled, with a daily limit of one request that a midnight or a release lifts; `part` chooses the one or the other per behaviour |
| `sl_history` | three operations on two analyses: the third is the first whose reservation can be stale; a plain and a riichi discard of one tile. No worker outlives its operation; each row holds exactly the games saved into it, whatever was interrupted in between, its last seed covers them, and a fresh cache gives fresh seeds |
| `bq_tasks` | two users, three tasks (two of one user), two cancels, one failing call, a restart of the bot and one of the server, or instead of these three a midnight (`CalmNights`) |
| `board` | one kyoku to its end: points, the promise to the game, indicators, riichi, four winds, four kans, error paths, progress |
| `runner` | two made-up games of one candidate, for each first action: forced steps, riichi, retries, collection, termination |
| `player` | a player's view of a kyoku on the kinds from 5s to 9s and the east wind |
| `engine` | the parts of libriichi that share no state: `part` chooses one per behaviour (hanchan, prefix, agari, batch, statistics, records, layout) |

Two request threads are enough for the races of the job manager: every one of
them is between one request and the monitor, or between two requests. One run
is enough where they meet on one job, two for a parent and its extension or for
two competing creations, three for a chain. In the bot the races are between one
task that runs and one that waits of the same user, or of another; one fault is
enough because the worker deals with one task at a time.

`board` explores two corners (`MCBoard`): a table where everybody may declare
riichi and discard anything, with one call, and one with up to three calls and
one riichi. Closed and added kans do not count against `MaxCalls` when they are
declared, so four kans of one player or of several are reached with three. Eight
draws are enough for a fourth riichi, which needs four tiles left after three
others, and for four kans with their draws. Seat 2 can afford one riichi only.
One value per hand and one kind of honour per table suffice because payments
add up linearly: that they sum to zero depends on who pays, not on the amounts.

`runner`: two games, because the scan, the rows and the collection of one must not
disturb the other; three players are the target, one before and one after it, which is
what the order of calls distinguishes; five polls reach a forced riichi with its
discard, the first action with its follow-up and an answer of somebody else. Forced
prefixes have no step, a riichi, or steps of two players (`MCForced`).

`player`: the six kinds have runs, triplets, tiles on both sides of a call and an honour; one set
and a pair are the smallest hand with two-sided, closed and pair waits, and enough for a
riichi, a call and a kan. Walls of four or five draws let a win be passed, an own turn
follow and another win be offered. Waits on two kinds of which one is discarded occur. The east
wind is the kind after 9s, so a call of 7s with 89s shows whether a suit ends for kuikae; the
other end, a call of 3 with 12 beside the 9 of the suit before, has no tile in this set.

`sl_history`: workers end with their operation, because the property is false where they do not
(`sl_v_lost` has one that survives). That last seeds cover their games and that reservations
from a fresh record are fresh is proved for workers that outlive cancels and crashes, too
(section 4).

`engine`:
* hanchan: eight kyoku and the extra round, results at each side of 30000 and of zero in
  every order of the seats; two counters are enough, because `poll` compares none and
  adds one.
* prefix: hands of three tiles, a dead wall of two and a wall of sixteen keep the indices
  of the code apart; the decisions are the first and the second, before or after the
  target's discard, with up to two discards in each river and any pattern of tsumogiri;
  one swap, and one order of the wall, since the construction never compares tiles.
* agari: whole hands of four sets and a pair from seven families (runs that are triplets as well,
  one suit, three suits, honours, terminals, green tiles, simples), none, one or all of the
  sets called, each way of calling, every winning tile, on a discard and self-drawn.
* batch: three games, of which one is asked apart, two cycles and every order of the
  encodings: with three games a finished game can be first, last or in between.
* statistics: two kyoku, so that something can leak, two turns, one caller, and discards won
  by one player, two, or all three.
* records: logs of up to seven events and two kyoku, a window of the loader being four.
* layout: every combination of what the branches look at, at their extremes.

### 3.1 Fairness

`FairSpec` assumes weak fairness of every thread's own next step (the operating
system schedules threads), of the monitor loop and of `Exit`: a worker ends some
day, by itself or because it was killed. Requests, restarts and failing writes
are not fair. Weak fairness is enough because no step of a thread that is under
way is disabled again by others, except at `Merge` and requests, where the lock
is held for a bounded time. `EveryJobSettles` assumes no
write error: with one, `_persist` raises in `_create_job` and leaves a queued job
without a worker that blocks the manager until the next start, and in the failed
path it ends the monitor before `done.set()`. `live` has workers that do not
end inside `_finish` of another thread and no deletes; outside these bounds the
two `_finish` of one job can both be refused.

In `BotQueue`, `FairSpec` assumes that the event loop goes on running the worker
(`WF_vars(Work)`: some step that is not waiting for the server) and that a run
on the server ends some day, which is `EveryJobSettles` of `JobManager`. Users,
faults and restarts are not fair. `Work` stays possible while the server is
occupied because the deadline of `create_run` ends the waiting. A task that a
restart of the bot finds in the hands of the worker is lost; `EveryTaskSettled`
counts it as settled and says that there is no other way to lose one.

`live` assumes the `Fairness` of both; the module that does not run stays in its initial state,
where none of its fair steps is possible.

In `Runner`, `FairSpec` is weak fairness of the whole next step: the loop is one
thread that nothing else blocks. That a poll of a board gets on with the kyoku is
`EveryStepProgresses` of `Board`, proved there; `MaxPolls` stands for it here.

### 3.2 Where code and documents disagree

Each of these runs checks one property the repository states; TLC's trace is the
scenario. The lines and quotes are in `PROJECT.json`.

| run | scenario |
|---|---|
| `jm_v_cancel` | cancel reads "running", the monitor merges the extension into its parent, cancel marks it cancelled |
| `sl_v_twice` | three operations on one position in one API process |
| `sl_v_lost` | the application is killed while a worker simulates; one of the next start reads the row before the first saves, and saves after it |
| `bd_v_chihou` | on the first go-around a player calls a daiminkan, draws the rinshan tile and wins on it: the win is paid as tenhou or chihou |

Met while modelling, without a run of their own:

* job manager: a cancel that saw "running" discards a result announced meanwhile
  (`KeepsCompleted` where a job may be cancelled); a crash between the parent's record
  and the extension's has the effect of `jm_v_cancel`; a worker that survives
  `join(timeout=3)` runs beside the next one, with the effect of `sl_v_lost`; a delete
  during `_persist` brings the record back.
* merged means: of a run and its extension the count has the first games twice and the sum
  once, because the worker overwrites the count of `value.point` with that of the whole history
  (`service.py:1763`) and leaves its sum that of the run; `docs/RESULT_SCHEMA_V2.md:32` makes the
  three "the merge state used by history extensions", and `tests/statistics/test_schema_v2.py:271`
  expects the mean of one run over all the games.
* start method: a worker that is forked begins with the record the application has cached, and
  saves its games over a newer row without any overlap (`HistoryIsExact` with
  `StartMethod = "fork"`, the default on Linux before Python 3.14).
* made-up games: where the dealer is the target and the first draw is the decision, the tile is
  laid down for both (`prefix.rs:380` and `:421`), so the game has 137 tiles, although the header
  deducts everything "from the 136-tile pool"; `DealtAgain` of `Prefix` says which tile it is.
* seeds: after an extension of the runs a new
  candidate is simulated on other seeds than the old ones; repeated after a kill it
  is given other seeds than its parent and refused by `merge_results`; the first
  extension skips one seed, because `last_seed` is written exclusive and read
  inclusive; the fingerprint leaves out `tau` and `weighted`.
* bot: a user who cancels a running task pays for it when it then fails, because
  the mark suppresses the release (`FailureIsFree` of `BotQueue`); a server that
  restarts between two polls leaves the run "interrupted", which ends no waiting
  (`EveryTaskSettled` with `MaxServerRestarts = 1` under `FairSpec`).
* hanchan: an abortive draw keeps the dealer but clears `in_renchan`, so in the
  extra round it may end the game although the comment in `poll` expects a
  renchan to go on; `RenchanHasPriority` leaves abortive draws out.
* bot: the task that runs when the bot restarts is neither repeated nor reported;
  a cancel before the server has answered does nothing; the answer to a cancel that
  comes after the task ended marks the next one; a release after midnight goes to
  the new day.
* simulation, hands: with a reaction as first action the target's fourteenth tile is in
  no pile if it is not drawn before, and when the dealer answers to the first discard it is
  laid down twice; uniform hands with a prefix but without rivers do not replay. The properties
  about the tiles are therefore about decisions on a draw.
* simulation, loop: not every player who may act is asked (`NobodyIsPassedOver` of
  `Runner`; `custom_kyoku.rs:709` says "collect obs for all acting players"): on a decision about
  a discard, the others who could call are not; a chi
  overridden by a pon leaves its follow-up discard pending; a game a retry has put
  right, and that would go on, is ended as "failed after 3 retries" all the same;
  weights are attributed in the order in which games complete; a first win that is
  forced carries no metrics.
* player state: `validate_reaction` accepts discards that were not offered
  (`AcceptedDiscardsAreLegal` of `PlayerState`; `action.rs` calls it a check of valid
  reactions); unconditional tenpai counts a wait all of whose tiles are seen while riichi
  is declared.
* records: an abort by four winds labels an offer nobody was asked about "pass", and so
  does a pon that overrides the player's chi where a ron was offered too, and an abort by
  four kans that drops the player's call (`PassMeansDenied` of `Gameplay`); ura indicators are taken from the first of several wins only.
* observation: the board encodes as many hidden tiles as will be drawn, the dataset all
  that are left (`SameOracle` of `ObsLayout`; `invisible.rs` has a TODO that says they should be
  identical).
* statistics: the comment on score differences leaves sticks out, and `ryukyoku_point` counts
  the stick of a riichi where `houjuu` does not; a discard that several win counts as many deal-ins; a chase
  is counted for each chaser.

### 3.3 Hazards without a property

A result that is delivered and whose worker exits between the time-out of `get` and
`is_alive` (`job_manager.py:320`): the run fails and the result is dropped, which the steps of
`JobManager` contain and no property forbids; a failing write in `_create_job` (see 3.1);
extensions of one parent whose totals are read before the lock (`job_manager.py:255`), where
`SeedLedger` builds and creates in one step; a delete while the record is being written
(`job_manager.py:438`), where the record comes back; readers of the event stream
(`main.py:492`); the late answer to a cancel of the bot (`bot.py:416`), a kill between two of
its writes (`bot.py:449`), and a release after midnight (`quota.py:62`). The first is known to
go wrong, and so are the second, fourth and sixth, see 3.1 and 3.2.

## 4. Proofs

`JobManagerProofs` proves for any numbers of request threads, runs, cancels,
deletes, restarts and write errors, and workers that are `quick` or not:

* `TypeCorrect`: `Spec => []TypeOK`. The inductive invariant `TypeInv` adds
  `ThreadOK`: which locals are set at which program counter (a thread in
  `_finish` has a job, one about to write has a payload). Without it a step
  could index `status` with "no job".
* `MutualExclusion`: `Spec => []AtMostOneActive`, from `SlotInv`. The property is
  not inductive: `Create` is guarded by `ActiveJobs`, which looks into `mem` only,
  and `Start` sets a status without looking. `SlotInv` adds that an active job is
  in `mem` and was issued, that a thread between `Create` and `Start` holds the
  lock and its job is the queued one, and that a job about to be popped has ended.
* `EndedForGood`: `Spec => NeverReactivated`, an action property from the same invariant.
* `Refinement`: `Spec => Slot!Spec`. Initial states map to initial states, every
  step to `Acquire`, `Free` or a stutter.
* `SamplesAreDelivered`: `Spec => []OnlyDeliveredSamples`, from `DeliveryInv`: a
  completed event waiting in a queue is one of a job in `delivered`, and so are
  the payloads and locals made from it.
* `RecordsStayTrue`: `Spec => []RecordsAgree`, and `MergedSamplesSurvive`: `Spec =>
  SamplesSurvive`, from `CalmInv`. `RecordsAgree` speaks of runs nobody works on, so the
  invariant has to say what those who work on one have in their hands. Control: a thread in
  `_finish` is the monitor of the running job and alone at work, or the creator of a run whose
  worker did not start, which has no result (`WaitInv`, `EndInv`, `CreateInv`); two threads are on
  one job only while the creator saves it for the first time and the monitor already waits
  (`HandsInv`); hence `_finish` finds its telemetry and is not entered twice. Data: the
  result a thread is to set fits the status it is to set, and what it grafted is the parent's
  result (`LocalInv`); a record has one saver, which has read the memory as it still is
  (`SaverInv`, `PayloadInv`), so a rename finds its temporary file; a result fits its status
  except for a run between `job.status =` and `job.result =` (`MemoryInv`); the record of an
  ended run agrees with memory or has a saver, and that of an announced one is completed on disk
  (`DiskInv`), which is all a restart reads. `KnownInv`, in every environment: what is in
  memory or on disk has a status. Outside `Calm` both fail: a cancel in the middle of
  `_finish` makes two savers (3.2).

`SeedLedgerProofs` proves for any candidates, analyses, seeds, sizes of runs, number of
operations and workers beside each other, from `LedgerInv`: rows, caches and results are well
typed (`RowsInv`, `ResultsInv`), a worker runs its reference and, if it says it has saved,
has a row (`WorkersInv`), a new analysis has no result and one worker that is listened to,
an extension has a result to extend (`ModeInv`), and what was saved is typed (`PaidInv`).

* `TypeCorrect`: `Spec => []TypeOK`.
* `LastSeedCovers`: `Spec => []RowCoversItsGames`. Not inductive about rows alone, because a worker
  starts from a cached record: `RecordOK` says it of rows and of every copy in a cache, and
  `Covered` of each candidate, of which the row keeps the greatest last seed.
* `ReservedSeedsAreFresh`: `Spec => FreshCacheMeansFreshSeeds`, an action property: reserved seeds
  start at the last seed of the record, which covers its games.
* `AnalysesGrow`: `Spec => AnalysesOnlyGrow`, for both start methods.
* `HistoryExact`: `Spec => []HistoryIsExact` under the hypotheses `StartMethod = "spawn"` and
  `Outlive = {}`, as in `sl_history`; without either it is false (see 3.2). The
  invariant is `ExactInv`: the worker that has not saved yet is that of the active
  operation and alone (`TasksInv`, `AloneInv`: an id is given once), so what it read is still the row
  when it saves.

`BotQueueProofs` proves for any tasks, users, limits, cancels, faults, restarts and midnights,
from `QueueInv`:

* `TypeCorrect`, `QueueIsKept`: queue, mirror and file are equal (`QueueMirrored`), and tickets
  rise along the queue and from the worker's task to it (`OrderInv`), which makes the tasks
  distinct, so that a cancel takes out what it names.
* `ServedOnce`: `Spec => ServedAtMostOnce`, an action property. `RunInv`: a task that waits, or
  that the worker has not got on the server yet, has no run, and a withdrawn one never gets any.
* `ChargesAreExact`: `Spec => []ChargesMatch`. `ChargeInv`: until midnight the row of a
  user is the number of accepted, not refunded tasks; what waits or runs is not refunded, so no
  release is repeated.

What `Without` (the queue less the withdrawn tasks) keeps, its order and its members, is
proved by induction over its recursion, see below.

`HanchanProofs` proves for a game of any length, any set of results that keep the
contract, any initial scores and any bound on the counters below their width:

* `TypeCorrect`: `TypeInv` adds `RoundInv`, that no kyoku is played after W4,
  without which `kyoku` could leave its range.
* `PointsOfTheGame`: `GamePointsConserved` is inductive; the one hard step is
  `Commit`, where `Top` has to be a seat (`TopIsSeat`: a finite set of scores has
  a first maximum).
* `WallsComeInOrder`, `GameEndsWhenDue`, `RenchanFirst`: from `CourseInv`, which adds
  `DealtInv` (between two kyoku the next numbers are later than those dealt) and
  `RenchanInv` (a renchan under way has `in_renchan` set and was not the end).

`BoardProofs` proves for any dealer, scores, sticks, counters, number of tiles,
kinds, values of hands and calls, all of the hands' free choices included:

* `TypeCorrect`: `TypeInv` adds `MeldsInv` (at most four melds in a hand: an added
  kan keeps their number) and `StartInv`.
* `IndicatorsFollowKans`: `DoraFollowsKan` says what the players see; `PileInv` says
  why: the length of each pile in terms of the kans and of what they are owed
  (`WallInv`, `DoraInv`), and in which phase something may be owed (`DuesInv`).
* `ErrorsUnreachable`: from `PileInv`, with `WindInv`: as long as no wind is recorded
  and four winds are possible, nobody has left the first go-around.
* `FourKansEndThePlay`: an action property, from `SplitInv`: with four kans of
  several players a discard that is on the table has set `check_four_kan`.
* `RiichiAlwaysSettled`: `Spec => []RiichiSettled`, from `SettledInv`: a riichi that waits
  is of the player whose turn it is and was declared with four draws left (`PendingInv`).
  That is why a call or a kan finds nothing waiting and an exhausted wall cannot either.
* `NoPointIsLost`: `Spec => []PointsConserved`. Each payment is a lemma: ron of one player
  or of each of a set of winners in turn, tsumo with and without a liable player, noten payments
  by the number of players in tenpai (the sets of four seats by size), nagashi mangan.
  `PaoInv` is needed: nobody is liable for a hand of his own.
* `ContractKept`: `Spec => []KeepsContract`, the promise `Hanchan` rests on: with
  `HanchanProofs` the conservation of points holds for whole games of kyoku played by `Board`.
* `FourWindsAreExact`: `Spec => []FourWindsExact`, from `OpeningInv`: the history of the opening
  is kept exactly while `can_four_wind` is set, and then it has as many discards as players
  have left the first go-around, in order, with no call (`GoAround`).
* `EveryKyokuEnds`: `Measure` is a natural number and every action lowers it, which
  is the termination of `poll`.

`RunnerProofs` proves for any batch, any players, any forced discards, any first action and
any bound on the polls:

* `GamesReturnedOnce`: `Spec => []EachGameOnce`, from `ReturnInv`. The property is not
  inductive: what was returned of a game has to stay true, so a game that was collected
  must not be in the scan or in a row (`Pending`), and the passes must not mix
  (`LoopInv`). That a win and a loss of the target exclude each other needs
  `OneInTurn`: while the player in turn may act nobody else may, and a poll accepts
  only what was offered.
* `WeighedOnce`: `Spec => []LikelihoodOnce`, from `WeighInv`: a row of a forced discard is
  for the player whose turn it is, its riichi is declared, and it is the only row of its
  game and is not scanned again (`RowsInv`), so that an answer weighs it once.
* `RequestComesFirst`: `Spec => []FirstActionIsRequested`, from `FirstInv`, with the two above
  as hypotheses of its step. A game owes the first action until it is tried, then the reaction of
  the target is the one requested until a poll takes it, and from then on it is what was
  requested (`FirstOf`). Past the forced discards the engine has a row of the target only once
  the first action is made, and a row of anybody else only once it is tried (`AskOf`), so no
  answer comes before it; who may
  discard is alone to act (`TableOf`), so reaching the decision on a draw silences nobody. A win
  cannot end a round before the first action (`EndOf`): without a prefix only the target is
  ever offered something before it, and it is not polled over, since `Heard` says of every
  player of an open game that he is to be scanned, has a row, or has been answered for. The discard
  that goes with a pon is owed only while the pon is the target's last action (`FollowOf`).
  `Moved` is what a scan or an answer of one player leaves of a game, so that the facts of the
  others are kept by one lemma (`OthersStay`).

`MortalBatchProofs` proves for any number of games and cycles, any scenes, every order of the
encodings and every answer of the network, from `MortalInv`:

* `GamesAreCounted`: `BatchSpec => []EveryGameCounted`, from `LoopInv`: the vector has no game twice,
  the positions to remove are those of the games that ended in this cycle, in rising order
  (`RemovalOK`). `swap_remove` from the last to the first takes out just these
  (`RemovedOK`, by induction over the positions): a swap brings to the front only games that
  stay.
* `AnswersAreOwn`: `BatchSpec => []OwnAnswers`, from `CycleInv` (who has a scene, a quick answer, a
  reaction in this cycle) and `BatchInv` (the rows of a game that waits stand where its
  indices say, before and after the network answered, and the indices are cleared with the
  answer). It includes that the checks in `get_reaction` never fail, since the decoded
  answer of a masked row is legal in its scene (`DecodeLegal`).

`BatchAssumption` is an assumption of the module: games are numbered from 1, and in a scene nobody
can call a discard and declare a kan of his own at once (`SceneOK`; the rest of it keeps tiles and
the names of actions apart).

*Induction.* The theorems of the library on induction take an operator as
a parameter, which the installed provers cannot instantiate. `SetInduction` states induction for
sets instead (`NatSetInduction`: a set of numbers that has 0, and n + 1 with every n, is `Nat`) and
derives it from the well-foundedness of `<`. So recursive functions, like `Without` and
`Removed`, are proved about for sequences of every length; recursive operators are not.

Assumed are only the named assumptions on the constants of the modules and, in `HistoryExact`, the
start method and `Outlive`.

Model-checked only: liveness (out of the prover's reach, as is `ENABLED`), `ExtensionIsAtomic` of
the job manager, which a run refutes, and all of the modules of 2.5, 2.7, 2.8 and 2.10. `Agari`
declares a recursive operator, so nothing that reaches it can be proved about; the others are kept free of recursive operators. The theorems `TypeCorrect` are
proved for every constant; the type invariants are steps of the other proofs, and runs spend
their time on what they support.

## 5. Plan

Done: the job manager, with all its safety properties proved; seeds and bot; the board and the
game, with the proofs above; the simulation of decision points (`Prefix`, `Runner`); player state, scores, agents, statistics,
records and layouts; proofs about all of the board's invariants, the seeds, the bot and the batch.
Left, in this order:

1. Proofs: `FuritenIsExact` and `StateIsCurrent` of `PlayerState`.
2. `Runner` on top of `Board` in place of its summary of a board.
3. `Daemon` (heartbeat, kill, respawn) and `GpuLease` (lock file, time-outs).
4. `EventStream`, readers of the job log, against "every event once, in order".

## 6. Not modelled

Neural and LightGBM inference, moments and confidence intervals, energies and
temperatures of the samplers (`mcmc.rs`, `weighted.rs`, `shanten_priors.rs`), expected values
of a hand (`algo/sp`), the bytes of the shanten and agari tables, text parsing, rendering, exports, the web UI, packaging: numeric or
formatting code without states to explore. See `components` in `PROJECT.json`.
