------------------------------ MODULE BotQueue ------------------------------
(***************************************************************************)
(* The simulation queue of the QQ bot: bot/src/bot.py, with the quota of   *)
(* quota.py, the client of mortal_client.py and, as its environment, the   *)
(* simulation server of apps/api (one run at a time).                      *)
(*                                                                         *)
(* The bot is one asyncio thread: a step ends at an await.  The worker     *)
(* coroutine executes one task at a time; each message of a user is a      *)
(* coroutine of its own; queue.json and the spool of unsent results        *)
(* survive a restart of the bot, nothing else does.                        *)
(***************************************************************************)
EXTENDS Naturals, Sequences, FiniteSets, SequencesExt

CONSTANTS Tasks, Users, Owner,   \* tasks users may ask for
          NoTask, NoUser,
          MaxQueue,              \* max_queued_tasks
          Limit,                 \* max_requests_per_user_per_day, not less than
                                 \* the number of tasks if quota_enabled is off
          MaxTries,              \* deliveries of a result before it is spooled
          MaxCancels, MaxFaults, \* bounds on messages and failing calls,
          MaxBotRestarts, MaxServerRestarts, MaxDays

ASSUME TaskAssumption == /\ Owner \in [Tasks -> Users] /\ IsFiniteSet(Tasks)
                         /\ NoTask \notin Tasks /\ NoUser \notin Users
ASSUME BoundAssumption ==
  /\ {MaxQueue, Limit, MaxTries} \subseteq Nat \ {0}
  /\ {MaxCancels, MaxFaults, MaxBotRestarts, MaxServerRestarts, MaxDays} \subseteq Nat

VARIABLES queue,      \* tasks: the asyncio queue
          pending,    \* its mirror in memory
          file,       \* and on disk, queue.json
          worker,     \* the coroutine that executes a task
          marked,     \* cancelled_user
          call,       \* of each user: the cancel request under way
          charge,     \* of each user: requests in the quota row of today
          spool,      \* results that could not be sent
          run,        \* of each task: its run on the server
          busy,       \* the server runs something of somebody else
          day,        \* midnights passed
          used,       \* uses of the bounds
          ticket,     \* history: number of the task in order of acceptance
          outcome,    \* history: what became of the task
          refunded    \* history: tasks whose reservation was released

server == <<run, busy>>
history == <<ticket, outcome, refunded>>
vars == <<queue, pending, file, worker, marked, call, charge, spool, run, busy,
          day, used, ticket, outcome, refunded>>

Bounds == [cancels |-> MaxCancels, faults |-> MaxFaults, bots |-> MaxBotRestarts,
           servers |-> MaxServerRestarts]
Use(what) == used[what] < Bounds[what] /\ used' = [used EXCEPT ![what] = @ + 1]

Idle == [at |-> "idle", item |-> NoTask, tries |-> 0, run |-> NoTask]
NoCall == [at |-> "none", run |-> NoTask]
Owned(u) == {t \in Tasks : Owner[t] = u}
Accepted == {t \in Tasks : ticket[t] # 0}
Occupied == busy \/ \E t \in Tasks : run[t] = "running"

WithoutNothing(s, T) == s                  \* mutant: nothing is dropped
Without(s, T) ==                           \* what is not in T, in its order
  LET kept[n \in 0 .. Len(s)] ==
        IF n = 0 THEN <<>>
        ELSE IF s[n] \in T THEN kept[n - 1] ELSE Append(kept[n - 1], s[n])
  IN kept[Len(s)]
ReleaseOne(u, ts) == IF charge[u] = 0 THEN 0 ELSE charge[u] - 1   \* mutant
Release(u, ts) ==                          \* QuotaStore.release, once per task
  IF Cardinality(ts) > charge[u] THEN 0 ELSE charge[u] - Cardinality(ts)

-----------------------------------------------------------------------------
Init ==
  /\ queue = <<>> /\ pending = <<>> /\ file = <<>> /\ spool = {}
  /\ worker = Idle /\ marked = NoUser
  /\ call = [u \in Users |-> NoCall]
  /\ charge = [u \in Users |-> 0]
  /\ run = [t \in Tasks |-> "none"] /\ busy = FALSE
  /\ day = 0 /\ used = [what \in DOMAIN Bounds |-> 0]
  /\ ticket = [t \in Tasks |-> 0] /\ outcome = [t \in Tasks |-> "open"]
  /\ refunded = {}

(* A user asks for a simulation: limits, reservation, both queues, file. *)
Full == Len(queue) >= MaxQueue
Submit(t) ==
  /\ t \notin Accepted
  /\ ~Full
  /\ charge[Owner[t]] < Limit
  /\ charge' = [charge EXCEPT ![Owner[t]] = @ + 1]
  /\ pending' = Append(pending, t) /\ file' = pending'
  /\ queue' = Append(queue, t)
  /\ ticket' = [ticket EXCEPT ![t] = Cardinality(Accepted) + 1]
  /\ UNCHANGED <<worker, marked, call, spool, server, day, used, outcome, refunded>>

(* A user cancels: the waiting tasks leave the queue at once, a task that  *)
(* runs is cancelled on the server.                                        *)
Waiting(u) == {t \in ToSet(queue) : Owner[t] = u}
Retained(u) == Without(queue, Waiting(u))
LeftPending(u) == pending                  \* mutant: the mirror is forgotten
StillPending(u) == Without(pending, Owned(u))
Cancel(u) ==
  /\ call[u] = NoCall
  /\ Use("cancels")
  /\ queue' = Retained(u)
  /\ charge' = [charge EXCEPT ![u] = Release(u, Waiting(u))]
  /\ IF Waiting(u) = {} THEN UNCHANGED <<pending, file>>
     ELSE pending' = StillPending(u) /\ file' = pending'
  /\ outcome' = [t \in Tasks |-> IF t \in Waiting(u) THEN "withdrawn" ELSE outcome[t]]
  /\ refunded' = refunded \cup Waiting(u)
  /\ call' = [call EXCEPT ![u] =
       IF worker.run \in Owned(u) THEN [at |-> "sent", run |-> worker.run] ELSE NoCall]
  /\ UNCHANGED <<worker, marked, spool, server, day, ticket>>

CancelArrives(u) ==
  /\ call[u].at = "sent"
  /\ call' = [call EXCEPT ![u].at = "answered"]
  /\ run' = [run EXCEPT ![call[u].run] = IF @ = "running" THEN "cancelled" ELSE @]
  /\ UNCHANGED <<queue, pending, file, worker, marked, charge, spool, busy, day, used, history>>
CancelAnswered(u) ==
  /\ call[u].at = "answered"
  /\ marked' = u /\ call' = [call EXCEPT ![u] = NoCall]
  /\ UNCHANGED <<queue, pending, file, worker, charge, spool, server, day, used, history>>
CancelFails(u) ==
  /\ call[u] # NoCall
  /\ Use("faults")
  /\ call' = [call EXCEPT ![u] = NoCall]
  /\ UNCHANGED <<queue, pending, file, worker, marked, charge, spool, server, day, history>>

-----------------------------------------------------------------------------
(* The worker.  worker.run is current_run_id, unknown until the server has *)
(* answered, worker.item is active_item.                                   *)
Take ==
  /\ worker = Idle /\ queue # <<>>
  /\ queue' = Tail(queue)
  /\ pending' = Without(pending, {Head(queue)}) /\ file' = pending'
  /\ worker' = [Idle EXCEPT !.at = "post", !.item = Head(queue)]
  /\ UNCHANGED <<marked, call, charge, spool, server, day, used, history>>

Quiet == UNCHANGED <<queue, pending, file, call, spool, day, ticket>>
Step(to) == /\ worker' = to
            /\ Quiet /\ UNCHANGED <<marked, charge, outcome, refunded>>

(* create_run: the server takes the run or refuses it while it has another; *)
(* after refusals the worker tries again, or gives up at the deadline.      *)
Post ==
  /\ worker.at \in {"post", "refused"} /\ ~Occupied
  /\ run' = [run EXCEPT ![worker.item] = "running"]
  /\ Step([worker EXCEPT !.at = "posted"]) /\ UNCHANGED <<busy, used>>
Refused ==
  /\ worker.at = "post" /\ Occupied
  /\ Step([worker EXCEPT !.at = "refused"]) /\ UNCHANGED <<server, used>>
Answer ==
  /\ worker.at = "posted"
  /\ Step([worker EXCEPT !.at = "wait", !.run = worker.item]) /\ UNCHANGED <<server, used>>

(* An exception in execute: without a mark of the user the reservation is  *)
(* released.  Then the user is told.                                       *)
Fail ==
  LET t == worker.item
      told == marked = Owner[t]
  IN /\ worker' = [worker EXCEPT !.at = "report"]
     /\ outcome' = [outcome EXCEPT ![t] = IF told THEN "cancelled" ELSE "failed"]
     /\ IF told THEN UNCHANGED <<charge, refunded>>
        ELSE /\ charge' = [charge EXCEPT ![Owner[t]] = Release(Owner[t], {t})]
             /\ refunded' = refunded \cup {t}
     /\ Quiet /\ UNCHANGED marked
(* The finally clause. *)
Finally == worker' = Idle /\ marked' = NoUser
GiveUp == worker.at = "refused" /\ Fail /\ UNCHANGED <<server, used>>
Breaks ==                                  \* a call or the rendering raises
  /\ worker.at \in {"post", "refused", "posted", "wait"}
  /\ Use("faults") /\ Fail /\ UNCHANGED server
Report ==
  /\ worker.at = "report"
  /\ Finally
  /\ Quiet /\ UNCHANGED <<charge, outcome, refunded, server, used>>

FailedOnly == {"failed"}                   \* mutant: a cancelled run is awaited
Failures == {"failed", "cancelled"}        \* of MortalClient.wait_completed
Completed ==
  /\ worker.at = "wait" /\ run[worker.item] = "completed"
  /\ Step([worker EXCEPT !.at = "deliver"]) /\ UNCHANGED <<server, used>>
RunFailed ==
  /\ worker.at = "wait" /\ run[worker.item] \in Failures
  /\ Fail /\ UNCHANGED <<server, used>>

(* send_group_result tries again, then spools; it never raises. *)
Deliver ==
  /\ worker.at = "deliver"
  /\ outcome' = [outcome EXCEPT ![worker.item] = "shown"]
  /\ Finally /\ Quiet /\ UNCHANGED <<charge, refunded, server, used>>
Undelivered ==
  /\ worker.at = "deliver"
  /\ IF worker.tries + 1 < MaxTries
     THEN /\ worker' = [worker EXCEPT !.tries = @ + 1]
          /\ UNCHANGED <<marked, spool>>
     ELSE Finally /\ spool' = spool \cup {worker.item}
  /\ UNCHANGED <<queue, pending, file, call, charge, day, used, server, history>>
Flush(t) ==
  /\ t \in spool
  /\ spool' = spool \ {t}
  /\ outcome' = [outcome EXCEPT ![t] = "shown"]
  /\ UNCHANGED <<queue, pending, file, worker, marked, call, charge, server, day, used,
                 ticket, refunded>>

-----------------------------------------------------------------------------
(* The server, other clients and restarts. *)
RunEnds(t) ==
  /\ run[t] = "running"
  /\ \E end \in {"completed", "failed"} : run' = [run EXCEPT ![t] = end]
  /\ UNCHANGED <<queue, pending, file, worker, marked, call, charge, spool, busy, day, used, history>>
Others ==
  /\ busy \/ ~Occupied
  /\ busy' = ~busy
  /\ UNCHANGED <<queue, pending, file, worker, marked, call, charge, spool, run, day, used, history>>
ServerRestart ==
  /\ Use("servers")
  /\ run' = [t \in Tasks |-> IF run[t] = "running" THEN "interrupted" ELSE run[t]]
  /\ busy' = FALSE
  /\ UNCHANGED <<queue, pending, file, worker, marked, call, charge, spool, day, history>>

(* The bot dies at an await and starts again: restore_pending. *)
Unanswered == {t \in {worker.item} \ {NoTask} : outcome[t] = "open"}
BotRestart ==
  /\ Use("bots")
  /\ queue' = file /\ pending' = file
  /\ worker' = Idle /\ marked' = NoUser
  /\ call' = [u \in Users |-> NoCall]
  /\ outcome' = [t \in Tasks |-> IF t \in Unanswered THEN "lost" ELSE outcome[t]]
  /\ UNCHANGED <<file, charge, spool, server, day, ticket, refunded>>
Midnight ==
  /\ day < MaxDays /\ day' = day + 1
  /\ charge' = [u \in Users |-> 0]
  /\ UNCHANGED <<queue, pending, file, worker, marked, call, spool, server, used, history>>

Create == Post \/ Refused \/ Answer \/ GiveUp
Await == Completed \/ RunFailed
Send == Deliver \/ Undelivered
Work == Take \/ Create \/ Await \/ Send \/ Report
Message(u) == Cancel(u) \/ CancelArrives(u) \/ CancelAnswered(u) \/ CancelFails(u)
Next ==
  \/ \E t \in Tasks : Submit(t) \/ Flush(t) \/ RunEnds(t)
  \/ \E u \in Users : Message(u)
  \/ Work \/ Breaks
  \/ Others \/ ServerRestart \/ BotRestart \/ Midnight

Spec == Init /\ [][Next]_vars
Fairness == WF_vars(Work) /\ \A t \in Tasks : WF_vars(RunEnds(t))
FairSpec == Spec /\ Fairness

-----------------------------------------------------------------------------
(* Types.  The queue never grows over the limit, restarts included. *)
TypeOK ==
  /\ queue \in Seq(Tasks) /\ Len(queue) <= MaxQueue
  /\ worker.at \in {"idle", "post", "refused", "posted", "wait", "deliver", "report"}
  /\ worker.item \in Tasks \cup {NoTask} /\ worker.run \in {worker.item, NoTask}
  /\ worker.tries \in 0 .. MaxTries - 1
  /\ marked \in Users \cup {NoUser}
  /\ call \in [Users -> [at : {"none", "sent", "answered"}, run : Tasks \cup {NoTask}]]
  /\ charge \in [Users -> 0 .. Limit] /\ spool \subseteq Tasks /\ day \in 0 .. MaxDays
  /\ run \in [Tasks -> {"none", "running", "interrupted", "completed"} \cup Failures]
  /\ busy \in BOOLEAN /\ refunded \subseteq Tasks
  /\ outcome \in [Tasks -> {"open", "shown", "failed", "cancelled", "withdrawn", "lost"}]

(* The queue, its mirror and the file agree at every await: a restart at   *)
(* any moment finds exactly the waiting tasks (_enqueue_item, _drop_pending, *)
(* _cancel_user).                                                          *)
QueueMirrored == queue = pending /\ file = pending

(* First come, first served, through cancels of others and restarts: the   *)
(* position a user is told never grows (_cancel_user, restore_pending).    *)
InOrder ==
  /\ \A i, j \in DOMAIN queue : i < j => ticket[queue[i]] < ticket[queue[j]]
  /\ worker.item # NoTask => \A t \in ToSet(queue) : ticket[worker.item] < ticket[t]

(* No task is simulated a second time, and one that was withdrawn or has   *)
(* been lost is never simulated at all after that: worker, restore_pending. *)
ServedAtMostOnce ==
  [][\A t \in Tasks : /\ run'[t] = "running" => run[t] \in {"none", "running"}
                      /\ outcome'[t] = "withdrawn" => run'[t] = "none"]_vars

(* The two queues and the file agree and keep their order (_cancel_user,   *)
(* which takes tasks out of all three, restore_pending).                   *)
QueueKept == QueueMirrored /\ InOrder

(* Until midnight a user is charged for exactly the tasks that were        *)
(* accepted and not released, whatever is cancelled, fails or restarts.    *)
ChargesMatch ==
  day = 0 => \A u \in Users : charge[u] = Cardinality((Owned(u) \cap Accepted) \ refunded)

(* A task that failed, was cancelled or withdrawn costs nothing.           *)
(* docs/QQ_BOT_DEVELOPMENT_PLAN.md:161.                                    *)
FailureIsFree ==
  \A t \in Tasks : outcome[t] \in {"failed", "cancelled", "withdrawn"} => t \in refunded

(* Every accepted task is shown or spooled, reported to have failed or     *)
(* been cancelled, withdrawn, or was the one a restart of the bot lost.    *)
EveryTaskSettled ==
  \A t \in Tasks : t \in Accepted ~> (t \in spool \/ outcome[t] # "open")
=============================================================================
