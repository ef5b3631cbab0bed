------------------------------ MODULE JobDelivery ------------------------------
(***************************************************************************)
(* Background jobs and the delivery of their results                       *)
(* (async/job-manager.ts) together with the parties that use it: the       *)
(* session that owns the jobs (its delivery sink and the queue of          *)
(* follow-ups it injects), a `hub` wait that watches jobs, a bash call     *)
(* that waits for its own job in the foreground before it lets it go to    *)
(* the background, and the waits for the owner's jobs to settle.           *)
(*                                                                         *)
(* A result is to reach the transcript once: inline, in the report of a    *)
(* hub call, or injected as a follow-up.  Which of them it is depends on   *)
(* marks kept per job id (suppressed, watched), while ids are reused once  *)
(* a row is evicted; "run" below is one registration, "id" its name in     *)
(* the table.                                                              *)
(*                                                                         *)
(* One session owns all jobs, and the manager.  Completed and failed jobs  *)
(* are both "finished": they are delivered alike.  The only sink of the    *)
(* program cannot throw, so a delivery is not retried and the queue is     *)
(* taken in order.                                                         *)
(***************************************************************************)
EXTENDS Naturals, Sequences, FiniteSets, SequencesExt

CONSTANTS
  Ids,           \* names a job may get
  NoRun,         \* no row, no job
  MaxRuns,       \* bound: registrations
  MaxEpoch,      \* bound: transcripts after the first
  MaxWaits,      \* bound: hub waits and waits for the owner's jobs
  Limit,         \* #maxRunningJobs
  SlowExit,      \* a cancelled process may outlive the retention of its row
  SlowStep       \* a follow-up may wait for a step boundary that long

ASSUME JobAssumption ==
  /\ MaxRuns \in Nat /\ MaxEpoch \in Nat /\ MaxWaits \in Nat /\ Limit \in Nat \ {0}
  /\ NoRun \notin Nat
  /\ SlowExit \in BOOLEAN /\ SlowStep \in BOOLEAN

Runs == 1..MaxRuns
Epochs == 0..MaxEpoch

VARIABLES
  row,         \* #jobs: the run an id stands for
  status,      \* of each run; "free" before it is registered
  alive,       \* runs whose promise has not settled
  name,        \* the id of each run
  born,        \* the transcript each run was registered under (history)
  timers,      \* #evictionTimers
  suppressed,  \* #suppressedDeliveries
  watched,     \* #watchedJobs
  queue,       \* #deliveries
  flight,      \* #inFlightDeliveries, with the generation the sink noted
  manager,     \* "up", "closing" while it is disposed, "closed"
  session,     \* "live", "disposing" from beginDispose, "closed"
  epoch,       \* #asyncDeliveryEpoch
  inbox,       \* the follow-ups on the yield queue
  hub,         \* a `hub` wait
  shell,       \* a bash call waiting in the foreground
  waiter,      \* a wait for the jobs of the owner
  waits,       \* how many waits were begun
  told,        \* how often each result reached the transcript (history)
  dropped,     \* results lost by WaitUnwatch or Backgrounded: neither in a delivery nor
               \* in a report (history)
  restored     \* results put back though a hub call had reported them (history)

table == <<row, status, alive, name, born, timers>>
marks == <<suppressed, watched>>
deliveries == <<queue, flight>>
transcript == <<session, epoch, inbox>>
history == <<told, dropped, restored>>
vars == <<row, status, alive, name, born, timers, suppressed, watched, queue, flight, manager,
          session, epoch, inbox, hub, shell, waiter, waits, told, dropped,
          restored>>

--------------------------------------------------------------------------------
Active == {"queued", "running"}        \* status === "running"; queued is a flag of it
Tracked == {i \in Ids : row[i] # NoRun}
ActiveIds == {i \in Tracked : status[row[i]] \in Active}
FinishedIds == {i \in Tracked : status[row[i]] = "finished"}

(* The set of a delivery's marks in the states before and after a step.    *)
isDeliverySuppressed(i) == i \in suppressed \cup watched

Delivery == [run : Runs, id : Ids, owned : BOOLEAN]
Held == [run : Runs, id : Ids, via : {"loop", "drain"}, epoch : Epochs]
Entry == [run : Runs, id : Ids, epoch : Epochs]

HubIdle == [pc |-> "idle", runs |-> {}, mail |-> FALSE]
ShellIdle == [pc |-> "idle", run |-> NoRun]
WaiterIdle == [pc |-> "idle", awaited |-> {}, pending |-> {}, reap |-> FALSE]

Init ==
  /\ row = [i \in Ids |-> NoRun]
  /\ status = [r \in Runs |-> "free"]
  /\ alive = {} /\ timers = {} /\ suppressed = {} /\ watched = {}
  /\ name = [r \in Runs |-> NoRun]
  /\ born = [r \in Runs |-> 0]
  /\ queue = <<>> /\ flight = {} /\ inbox = {}
  /\ manager = "up" /\ session = "live" /\ epoch = 0 /\ waits = 0
  /\ hub = HubIdle /\ shell = ShellIdle /\ waiter = WaiterIdle
  /\ told = [r \in Runs |-> 0] /\ dropped = {} /\ restored = {}

--------------------------------------------------------------------------------
(* Helpers of the manager.                                                 *)

(* Mutant: the entry is deleted, the id with it.                           *)
EvictedKey(S) == [i \in Ids \ S |-> row[i]]

(* #evictJob for a set of ids: the row goes and takes its marks along.     *)
Evicted(S) == [i \in Ids |-> IF i \in S THEN NoRun ELSE row[i]]

(* #scheduleEviction: nothing once the manager is being disposed.          *)
scheduleEviction(S) == timers' = IF manager = "up" THEN timers \cup S ELSE timers

(* What is left of a queue without the deliveries of the ids S, in order   *)
(* (its filter: a function, so that proofs can reason about it).           *)
Without(q, S) ==
  LET kept[n \in 0..Len(q)] ==
        IF n = 0 THEN <<>>
        ELSE IF q[n].id \in S THEN kept[n - 1] ELSE Append(kept[n - 1], q[n])
  IN  kept[Len(q)]

(* acknowledgeDeliveries: mark the ids, and drop what is queued for any    *)
(* marked or watched id.                                                   *)
Acknowledge(S) ==
  /\ suppressed' = suppressed \cup S
  /\ queue' = Without(queue, suppressed \cup S \cup watched)

(* #enqueueDelivery: skipped for a marked id; the owner is that of the row *)
(* the id has now.                                                         *)
Enqueue(r, held) ==
  queue' = IF name[r] \in held THEN queue
           ELSE Append(queue, [run |-> r, id |-> name[r], owned |-> row[name[r]] # NoRun])

(* The result of each run of R is part of what a tool call returns.        *)
Tell(R) == told' = [r \in Runs |-> IF r \in R /\ told[r] = 0 THEN 1 ELSE told[r]]

--------------------------------------------------------------------------------
(* Jobs.                                                                   *)

(* The common part of a registration under the free id i: the next run in  *)
(* order gets the id, and a mark left on the id is lifted.                 *)
Register(r, i, as) ==
  /\ manager = "up" /\ session = "live"
  /\ Cardinality({k \in Tracked : status[row[k]] = "running"}) < Limit
  /\ status[r] = "free" /\ \A s \in Runs : s < r => status[s] # "free"
  /\ row[i] = NoRun
  /\ row' = [row EXCEPT ![i] = r]
  /\ status' = [status EXCEPT ![r] = as]
  /\ alive' = alive \cup {r}
  /\ name' = [name EXCEPT ![r] = i]
  /\ born' = [born EXCEPT ![r] = epoch]
  /\ UNCHANGED <<timers, watched, flight, manager, transcript, hub, waiter, waits, history>>

(* A job begun in the background, perhaps parked behind its batch's gate.  *)
register(r, i) ==
  /\ \E as \in Active : Register(r, i, as)
  /\ suppressed' = suppressed \ {i}
  /\ UNCHANGED <<queue, shell>>

markRunning(r) ==
  /\ status[r] = "queued"
  /\ status' = [status EXCEPT ![r] = "running"]
  /\ UNCHANGED <<row, alive, name, born, timers, marks, deliveries, manager, transcript, hub,
                 shell, waiter, waits, history>>

(* The run's promise settles.  A cancelled one only has its eviction set   *)
(* again - by id, whatever run has that id now.                            *)
Settle(r) ==
  /\ r \in alive
  /\ alive' = alive \ {r}
  /\ IF status[r] = "cancelled"
       THEN UNCHANGED <<status, queue>>
       ELSE /\ status' = [status EXCEPT ![r] = "finished"]
            /\ Enqueue(r, suppressed \cup watched)
  /\ scheduleEviction({name[r]})
  /\ UNCHANGED <<row, name, born, marks, flight, manager, transcript, hub, shell, waiter,
                 waits, history>>

Cancelled(S) == [r \in Runs |-> IF \E i \in S : row[i] = r THEN "cancelled" ELSE status[r]]

(* The retention of a row ends.  It lasts five minutes: a result that is   *)
(* queued or in a sink is delivered long before, a call that waits for a   *)
(* settled job has gone on, a cancelled process is gone unless SlowExit, a *)
(* follow-up is injected unless SlowStep.                                  *)
InCall(i) == \/ hub.pc \in {"raced", "reporting"}
             \/ i \in watched
             \/ shell.pc # "idle" /\ name[shell.run] = i
             \/ waiter.pc = "waiting" /\ waiter.pending \cap alive = {}
EvictTimer(i) ==
  /\ i \in timers
  /\ row[i] \in alive \/ ~InCall(i)
  /\ \A k \in DOMAIN queue : queue[k].id # i
  /\ \A f \in flight : f.id # i
  /\ row[i] \in alive /\ status[row[i]] = "cancelled" => SlowExit
  /\ SlowStep \/ \A e \in inbox : e.id # i
  /\ timers' = timers \ {i}
  /\ suppressed' = suppressed \ {i}
  /\ watched' = watched \ {i}
  /\ row' = Evicted({i})
  /\ UNCHANGED <<status, alive, name, born, deliveries, manager, transcript, hub, shell,
                 waiter, waits, history>>

--------------------------------------------------------------------------------
(* Deliveries.                                                             *)

(* #deliverDelivery: without a sink of its owner a delivery is dropped;    *)
(* the session's sink notes the generation before it formats the text.     *)
Deliver(d, via) ==
  flight' = IF d.owned /\ session = "live"
              THEN flight \cup {[run |-> d.run, id |-> d.id, via |-> via, epoch |-> epoch]}
              ELSE flight

(* #runDeliveryLoop: one delivery at a time, marked ones are dropped.      *)
RunDeliveryLoop ==
  /\ queue # <<>> /\ \A f \in flight : f.via # "loop"
  /\ queue' = Tail(queue)
  /\ IF isDeliverySuppressed(Head(queue).id) THEN UNCHANGED flight ELSE Deliver(Head(queue), "loop")
  /\ UNCHANGED <<table, marks, manager, transcript, hub, shell, waiter, waits, history>>

(* #deliverNextFiltered, beside the loop: the first delivery of the owner  *)
(* that is not marked.                                                     *)
DeliverNextFiltered ==
  /\ \A f \in flight : f.via # "drain"
  /\ \E k \in DOMAIN queue :
       /\ queue[k].owned /\ ~isDeliverySuppressed(queue[k].id)
       /\ \A j \in 1..k-1 : ~queue[j].owned \/ isDeliverySuppressed(queue[j].id)
       /\ queue' = RemoveAt(queue, k)
       /\ Deliver(queue[k], "drain")
  /\ UNCHANGED <<table, marks, manager, transcript, hub, shell, waiter, waits, history>>

(* Mutant: the generation is read after the await.                         *)
SinkDoneLateEpoch(f) ==
  /\ f \in flight
  /\ flight' = flight \ {f}
  /\ inbox' = IF session = "live" /\ ~isDeliverySuppressed(f.id)
                THEN inbox \cup {[run |-> f.run, id |-> f.id, epoch |-> epoch]}
                ELSE inbox
  /\ UNCHANGED <<table, marks, queue, manager, session, epoch, hub, shell, waiter, waits, history>>

(* #deliverAsyncJobResult after its await: the session, its generation and *)
(* the marks of the id are looked at again.                                *)
SinkDone(f) ==
  /\ f \in flight
  /\ flight' = flight \ {f}
  /\ inbox' = IF session = "live" /\ f.epoch = epoch /\ ~isDeliverySuppressed(f.id)
                THEN inbox \cup {[run |-> f.run, id |-> f.id, epoch |-> f.epoch]}
                ELSE inbox
  /\ UNCHANGED <<table, marks, queue, manager, session, epoch, hub, shell, waiter, waits, history>>

(* Mutant: a follow-up is only compared with the generation.               *)
FreshGeneration(e) == e.epoch = epoch

(* The yield queue is emptied into the transcript, when the session is     *)
(* idle or at a step boundary; stale follow-ups are left out.              *)
Fresh(e) == e.epoch = epoch /\ ~isDeliverySuppressed(e.id)
Inject ==
  /\ inbox # {} /\ hub.pc = "idle" /\ shell.pc = "idle"
  /\ inbox' = {}
  /\ told' = [r \in Runs |-> told[r] + Cardinality({e \in inbox : e.run = r /\ Fresh(e)})]
  /\ UNCHANGED <<table, marks, deliveries, manager, session, epoch, hub, shell, waiter, waits,
                 dropped, restored>>

--------------------------------------------------------------------------------
(* The hub tool: snapshot, cancel, wait.                                   *)

(* snapshotJobs reads the row an id has now, else the job it was given.    *)
Latest(r) == IF row[name[r]] = NoRun THEN r ELSE row[name[r]]

(* buildJobResult: report the settled ones and acknowledge their ids.      *)
Report(R) ==
  LET settled == {r \in R : status[r] \notin Active}
  IN /\ Acknowledge({name[r] : r \in settled})
     /\ Tell({r \in settled : status[r] = "finished"})

executeJobsSnapshot(S) ==
  /\ session = "live" /\ S # {} /\ S \subseteq Tracked
  /\ Report({row[i] : i \in S})
  /\ UNCHANGED <<table, watched, flight, manager, transcript, hub, shell, waiter, waits, dropped, restored>>

(* executeCancel of one id: cancel, then the same report.                  *)
executeCancel(i) ==
  /\ session = "live" /\ i \in ActiveIds
  /\ status' = Cancelled({i})
  /\ scheduleEviction({i})
  /\ Acknowledge({i})
  /\ UNCHANGED <<row, alive, name, born, watched, flight, manager, transcript, hub, shell,
                 waiter, waits, history>>

(* #executeWait up to its race: the jobs asked for are kept as they are,   *)
(* the running ones are watched.                                           *)
WaitForJobs(S) ==
  /\ session = "live" /\ hub.pc = "idle" /\ waits < MaxWaits
  /\ S \subseteq Tracked /\ S \cap ActiveIds # {}
  /\ hub' = [pc |-> "waiting", runs |-> {row[i] : i \in S}, mail |-> FALSE]
  /\ watched' = watched \cup (S \cap ActiveIds)
  /\ waits' = waits + 1
  /\ UNCHANGED <<table, suppressed, deliveries, manager, transcript, shell, waiter, history>>

(* The race is decided: a promise settled, the window ended or the call    *)
(* was aborted.  The call goes on in a later turn of the event loop.       *)
WaitRaced ==
  /\ hub.pc = "waiting"
  /\ hub' = [hub EXCEPT !.pc = "raced"]
  /\ UNCHANGED <<table, marks, deliveries, manager, transcript, shell, waiter, waits, history>>

(* A message for the caller; its bus waiter stays parked until the call    *)
(* goes on, also when something else decided the race.                     *)
WaitMessage ==
  /\ hub.pc \in {"waiting", "raced"} /\ ~hub.mail
  /\ hub' = [hub EXCEPT !.pc = "raced", !.mail = TRUE]
  /\ UNCHANGED <<table, marks, deliveries, manager, transcript, shell, waiter, waits, history>>

(* Mutant: the ids stay watched.                                           *)
WaitUnwatchNot ==
  /\ hub.pc = "raced"
  /\ hub' = [hub EXCEPT !.pc = IF hub.mail THEN "idle" ELSE "reporting"]
  /\ UNCHANGED <<table, marks, deliveries, manager, transcript, shell, waiter, waits, history>>

(* The finally block: unwatch.  A message then is all that is returned;    *)
(* a result that found its id watched has no delivery and no report.       *)
Outstanding(r) ==
  \/ \E k \in DOMAIN queue : queue[k].run = r
  \/ \E f \in flight : f.run = r
  \/ \E e \in inbox : e.run = r
WaitUnwatch ==
  /\ hub.pc = "raced"
  /\ watched' = watched \ {name[r] : r \in hub.runs}
  /\ IF hub.mail
       THEN /\ hub' = HubIdle
            /\ dropped' = dropped \cup {r \in hub.runs : /\ status[r] = "finished" /\ told[r] = 0
                                                         /\ ~Outstanding(r)
                                                         /\ name[r] \notin suppressed}
       ELSE hub' = [hub EXCEPT !.pc = "reporting"] /\ UNCHANGED dropped
  /\ UNCHANGED <<table, suppressed, deliveries, manager, transcript, shell, waiter, waits, told,
                 restored>>

(* After the bus waiter is gone: the report.                               *)
WaitReport ==
  /\ hub.pc = "reporting"
  /\ hub' = HubIdle
  /\ Report({Latest(r) : r \in hub.runs})
  /\ UNCHANGED <<table, watched, flight, manager, transcript, shell, waiter, waits, dropped, restored>>

--------------------------------------------------------------------------------
(* The bash tool: run as a job, wait for it, let it go to the background.  *)

(* The delivery is suppressed in the same step as the registration.        *)
StartForeground(r, i) ==
  /\ shell.pc = "idle"
  /\ Register(r, i, "running")
  /\ suppressed' = suppressed \cup {i}
  /\ queue' = Without(queue, {i} \cup suppressed \cup watched)
  /\ shell' = [pc |-> "waiting", run |-> r]

(* raceJobSettlement: the completion, the threshold (or a steering         *)
(* message), or an abort; the call goes on later.                          *)
ForegroundRaced(outcome) ==
  /\ shell.pc = "waiting"
  /\ outcome = "completed" => shell.run \notin alive
  /\ shell' = [shell EXCEPT !.pc = outcome]
  /\ UNCHANGED <<table, marks, deliveries, manager, transcript, hub, waiter, waits, history>>

ForegroundCompleted ==
  /\ shell.pc = "completed"
  /\ shell' = ShellIdle
  /\ Tell({shell.run} \cap {r \in Runs : status[r] = "finished"})
  /\ UNCHANGED <<table, marks, deliveries, manager, transcript, hub, waiter, waits, dropped, restored>>

(* The error thrown carries the text the command had by then.              *)
ForegroundAborted ==
  /\ shell.pc = "aborted"
  /\ shell' = ShellIdle
  /\ Tell({shell.run} \cap {r \in Runs : status[r] = "finished"})
  /\ LET mine == {name[shell.run]} \cap ActiveIds
     IN status' = Cancelled(mine) /\ scheduleEviction(mine)
  /\ UNCHANGED <<row, alive, name, born, marks, deliveries, manager, transcript, hub, waiter,
                 waits, dropped, restored>>

(* Mutant: the suppression is lifted, a result that came meanwhile is not  *)
(* looked for.                                                             *)
BackgroundedOnly ==
  /\ shell.pc = "running"
  /\ shell' = ShellIdle
  /\ suppressed' = suppressed \ {name[shell.run]}
  /\ UNCHANGED <<table, watched, deliveries, manager, transcript, hub, waiter, waits, history>>

(* Mutant: a delivery of whatever id is taken for the call's own.          *)
BackgroundedUnlessBusy ==
  /\ shell.pc = "running"
  /\ shell' = ShellIdle
  /\ LET i == name[shell.run]
         again == i \in suppressed /\ i \in FinishedIds /\ queue = <<>> /\ flight = {}
     IN /\ suppressed' = suppressed \ {i}
        /\ IF again THEN Enqueue(row[i], watched) ELSE UNCHANGED queue
        /\ dropped' = dropped \cup {r \in {row[i]} \ {NoRun} :
                                      ~again /\ status[r] = "finished" /\ told[r] = 0 /\ ~Outstanding(r)}
        /\ restored' = IF again /\ told[row[i]] > 0 THEN restored \cup {row[i]} ELSE restored
  /\ UNCHANGED <<table, watched, flight, manager, transcript, hub, waiter, waits, told>>

(* resumeDeliveries: lift the suppression, and deliver a result that came  *)
(* while it stood - unless a delivery of the same id is pending, be it of  *)
(* an earlier job of that id.                                              *)
Backgrounded ==
  /\ shell.pc = "running"
  /\ shell' = ShellIdle
  /\ LET i == name[shell.run]
         again == /\ i \in suppressed /\ i \in FinishedIds
                  /\ \A k \in DOMAIN queue : queue[k].id # i
                  /\ \A f \in flight : f.id # i
     IN /\ suppressed' = suppressed \ {i}
        /\ IF again THEN Enqueue(row[i], watched) ELSE UNCHANGED queue
        /\ dropped' = dropped \cup {r \in {row[i]} \ {NoRun} :
                                      ~again /\ status[r] = "finished" /\ told[r] = 0 /\ ~Outstanding(r)}
        /\ restored' = IF again /\ told[row[i]] > 0 THEN restored \cup {row[i]} ELSE restored
  /\ UNCHANGED <<table, watched, flight, manager, transcript, hub, waiter, waits, told>>

--------------------------------------------------------------------------------
(* waitForOwnerJobs, for the owner's settle barrier (which leaves out the  *)
(* jobs that are marked) and for a reap (which cancels first).             *)
Unawaited(seen, reap) == {i \in Tracked : i \notin seen /\ (reap \/ ~isDeliverySuppressed(i))}

WaitOwner(reap) ==
  /\ waiter.pc # "waiting" /\ waits < MaxWaits /\ manager = "up"
  /\ waits' = waits + 1
  /\ LET ids == Unawaited({}, reap)
     IN waiter' = [pc |-> IF ids = {} THEN "settled" ELSE "waiting", awaited |-> ids,
                   pending |-> {row[i] : i \in ids}, reap |-> reap]
  /\ IF reap THEN status' = Cancelled(ActiveIds) /\ scheduleEviction(ActiveIds)
             ELSE UNCHANGED <<status, timers>>
  /\ UNCHANGED <<row, alive, name, born, marks, deliveries, manager, transcript, hub, shell, history>>

(* Every promise of the round settled: look for rows not awaited yet.      *)
WaitOwnerRound ==
  /\ waiter.pc = "waiting" /\ waiter.pending \cap alive = {}
  /\ LET ids == Unawaited(waiter.awaited, waiter.reap)
     IN waiter' = [waiter EXCEPT !.pc = IF ids = {} THEN "settled" ELSE "waiting",
                                 !.awaited = @ \cup ids, !.pending = {row[i] : i \in ids}]
  /\ UNCHANGED <<table, marks, deliveries, manager, transcript, hub, shell, waits, history>>

--------------------------------------------------------------------------------
(* The session and the end of the manager.                                 *)

(* #cancelOwnAsyncJobs: cancel what is active, acknowledge and evict what  *)
(* is finished, turn the generation, forget the follow-ups.                *)
CancelOwnAsyncJobs ==
  /\ status' = Cancelled(ActiveIds)
  /\ row' = Evicted(FinishedIds)
  /\ suppressed' = suppressed \ FinishedIds
  /\ watched' = watched \ FinishedIds
  /\ queue' = IF FinishedIds = {} THEN queue
              ELSE Without(queue, FinishedIds \cup suppressed \cup watched)
  /\ inbox' = {}

(* Mutant: an evicted row leaves its timer behind.                         *)
newSessionTimersKept ==
  /\ session = "live" /\ hub.pc = "idle" /\ shell.pc = "idle" /\ epoch < MaxEpoch
  /\ CancelOwnAsyncJobs
  /\ epoch' = epoch + 1
  /\ timers' = timers \cup ActiveIds
  /\ UNCHANGED <<alive, name, born, flight, manager, session, hub, shell, waiter, waits, history>>

(* newSession and its like: the tools were aborted and have returned.      *)
newSession ==
  /\ session = "live" /\ hub.pc = "idle" /\ shell.pc = "idle" /\ epoch < MaxEpoch
  /\ CancelOwnAsyncJobs
  /\ epoch' = epoch + 1
  /\ timers' = (timers \cup ActiveIds) \ FinishedIds
  /\ UNCHANGED <<alive, name, born, flight, manager, session, hub, shell, waiter, waits, history>>

beginDispose ==
  /\ session = "live"
  /\ session' = "disposing"
  /\ inbox' = {}
  /\ UNCHANGED <<table, marks, deliveries, manager, epoch, hub, shell, waiter, waits, history>>

(* #disposeOwnedAsyncJobs up to the first wait of manager.dispose: the     *)
(* generation turns as well, which nothing can tell from the disposal.     *)
disposeOwnedAsyncJobs ==
  /\ session = "disposing"
  /\ session' = "closed" /\ manager' = "closing"
  /\ CancelOwnAsyncJobs
  /\ timers' = {}
  /\ UNCHANGED <<alive, name, born, flight, epoch, hub, shell, waiter, waits, history>>

(* The rest of dispose: whether or not jobs and deliveries were done by    *)
(* the deadline, everything is cleared.                                    *)
disposed ==
  /\ manager = "closing"
  /\ manager' = "closed"
  /\ row' = [i \in Ids |-> NoRun]
  /\ timers' = {} /\ suppressed' = {} /\ watched' = {} /\ queue' = <<>> /\ flight' = {}
  /\ UNCHANGED <<status, alive, name, born, transcript, hub, shell, waiter, waits, history>>

--------------------------------------------------------------------------------
Next ==
  \/ \E r \in Runs, i \in Ids : register(r, i) \/ StartForeground(r, i)
  \/ \E r \in Runs : markRunning(r) \/ Settle(r)
  \/ \E i \in Ids : EvictTimer(i) \/ executeCancel(i)
  \/ RunDeliveryLoop \/ DeliverNextFiltered \/ (\E f \in flight : SinkDone(f)) \/ Inject
  \/ \E S \in SUBSET Ids : executeJobsSnapshot(S) \/ WaitForJobs(S)
  \/ WaitRaced \/ WaitMessage \/ WaitUnwatch \/ WaitReport
  \/ \E outcome \in {"completed", "running", "aborted"} : ForegroundRaced(outcome)
  \/ ForegroundCompleted \/ ForegroundAborted \/ Backgrounded
  \/ \E reap \in BOOLEAN : WaitOwner(reap)
  \/ WaitOwnerRound
  \/ newSession \/ beginDispose \/ disposeOwnedAsyncJobs \/ disposed

Spec == Init /\ [][Next]_vars

(* The loop, a sink and the waits go on by themselves, a hub wait and a    *)
(* foreground wait by their windows at the latest; the follow-ups are      *)
(* taken at every step boundary and by the idle flush.  A job may run for  *)
(* ever.                                                                   *)
Fairness ==
  /\ WF_vars(RunDeliveryLoop) /\ WF_vars(\E f \in flight : SinkDone(f))
  /\ SF_vars(Inject)
  /\ WF_vars(WaitRaced) /\ WF_vars(WaitUnwatch) /\ WF_vars(WaitReport)
  /\ WF_vars(\E o \in {"completed", "running", "aborted"} : ForegroundRaced(o))
  /\ WF_vars(ForegroundCompleted) /\ WF_vars(ForegroundAborted) /\ WF_vars(Backgrounded)
  /\ WF_vars(WaitOwnerRound) /\ WF_vars(disposeOwnedAsyncJobs) /\ WF_vars(disposed)
FairSpec == Spec /\ Fairness

--------------------------------------------------------------------------------
TypeOK ==
  /\ row \in [Ids -> Runs \cup {NoRun}]
  /\ status \in [Runs -> Active \cup {"free", "finished", "cancelled"}]
  /\ alive \subseteq Runs
  /\ name \in [Runs -> Ids \cup {NoRun}]
  /\ born \in [Runs -> Epochs]
  /\ timers \subseteq Ids /\ suppressed \subseteq Ids /\ watched \subseteq Ids
  /\ queue \in Seq(Delivery) /\ flight \subseteq Held /\ inbox \subseteq Entry
  /\ manager \in {"up", "closing", "closed"}
  /\ session \in {"live", "disposing", "closed"}
  /\ epoch \in Epochs
  /\ hub \in [pc : {"idle", "waiting", "raced", "reporting"}, runs : SUBSET Runs, mail : BOOLEAN]
  /\ shell \in [pc : {"idle", "waiting", "completed", "running", "aborted"},
                run : Runs \cup {NoRun}]
  /\ waiter \in [pc : {"idle", "waiting", "settled"}, awaited : SUBSET Ids,
                 pending : SUBSET Runs, reap : BOOLEAN]
  /\ waits \in 0..MaxWaits
  /\ told \in [Runs -> Nat] /\ dropped \subseteq Runs /\ restored \subseteq Runs

(* #hasPendingAsyncWake: an active job whose delivery is not marked, a     *)
(* delivery queued or in a sink, or a follow-up not yet injected.          *)
PendingWake ==
  \/ \E i \in ActiveIds : ~isDeliverySuppressed(i)
  \/ \E k \in DOMAIN queue : queue[k].owned /\ ~isDeliverySuppressed(queue[k].id)
  \/ \E f \in flight : ~isDeliverySuppressed(f.id)
  \/ inbox # {}

(* When a session with no tool call in progress has no pending wake - the  *)
(* executor then ends the run and takes its worktree away - no job of the  *)
(* transcript is active and every result is in the transcript, but for     *)
(* those the code loses (`dropped`): one that a message won over in a hub  *)
(* wait, and one whose call went to the background while a delivery of an  *)
(* earlier job of its id was queued or in a sink                           *)
(* (agent-session.ts:1908, task/executor.ts:2018).                         *)
QuiescenceIsFinal ==
  session = "live" /\ hub.pc = "idle" /\ shell.pc = "idle" /\ ~PendingWake =>
    \A r \in Runs : born[r] = epoch =>
      /\ status[r] \notin Active
      /\ status[r] = "finished" => told[r] > 0 \/ r \in dropped

(* The result of a job reaches the transcript at most once on its own:     *)
(* what a tool call returned is not injected again (job-manager.ts:401),   *)
(* except when a hub call reported it in the moment in which its           *)
(* foreground call was letting it go to the background.                    *)
ReportedOnce == \A r \in Runs : told[r] <= (IF r \in restored THEN 2 ELSE 1)

(* A job that runs and was not cancelled has its row: the row is where its *)
(* owner, its cancellation and every wait find it (job-manager.ts:245).    *)
ActiveIsTracked ==
  manager # "closed" => \A r \in Runs : status[r] \in Active => row[name[r]] = r

(* A result is injected into the transcript its job was started from,      *)
(* never into the one that replaced it, and not while the session is       *)
(* disposed (agent-session.ts:1895, 1968).                                 *)
OwnTranscript ==
  [][inbox' # inbox => \A r \in Runs : told'[r] # told[r] => born[r] = epoch /\ session = "live"]_vars

(* The code loses a result of the transcript in two places, and only so.   *)
(* A message wins a hub wait, and a result that came while its id was      *)
(* watched is returned by nobody (hub/index.ts:490, where the comment says *)
(* "job results re-deliver themselves").  A call goes to the background    *)
(* with its result ready while a delivery of an earlier job of its id is   *)
(* queued or in a sink, which resumeDeliveries takes for its own           *)
(* (job-manager.ts:415, where the comment says "still delivered exactly    *)
(* once").                                                                 *)
MessageWon(r) == hub.pc = "raced" /\ hub.mail /\ r \in hub.runs /\ name[r] \in watched
EarlierPending(r) ==
  /\ shell.pc = "running" /\ shell.run = r /\ name[r] \in suppressed
  /\ \/ \E k \in DOMAIN queue : queue[k].id = name[r] /\ queue[k].run # r
     \/ \E f \in flight : f.id = name[r] /\ f.run # r
LossIsKnown ==
  [][\A r \in dropped' \ dropped :
       born[r] = epoch /\ session = "live" => MessageWon(r) \/ EarlierPending(r)]_vars

(* A result reaches the transcript in the end, unless the transcript is    *)
(* replaced or disposed, or the result is lost in one of the two places of *)
(* LossIsKnown (`dropped`).  That the code owes more is what the comments  *)
(* at hub/index.ts:487-489 and job-manager.ts:401-404 say.                 *)
EventuallyReported ==
  \A r \in Runs : (status[r] = "finished" /\ born[r] = epoch) ~>
                    (told[r] > 0 \/ r \in dropped \/ born[r] # epoch \/ session # "live")
================================================================================
