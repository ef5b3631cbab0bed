---------------------------- MODULE ControlledStop ----------------------------
(***************************************************************************)
(* The controlled stop of a running local-owned engine                     *)
(* (lifecycle/lifecycle-supervisor.ts, #controlledStop and its helpers):   *)
(* begin a drain, ask for a graceful exit, and when the engine does not    *)
(* exit in time obtain a permit and kill it.  Several controllers may run  *)
(* it, one after the other or at once, each crashing or being aborted      *)
(* between any two of its steps.                                           *)
(*                                                                         *)
(* Every decision is first made durable in the control attempt, a file     *)
(* changed only under the store's lock (module AuthorityStore has its file *)
(* operations; here each is one step).  The other party is the engine, an  *)
(* HTTP service this repository does not contain: its replies are modelled *)
(* from how the supervisor uses them and from the test against the real    *)
(* engine.  A request whose reply is lost may still be carried out later.  *)
(* Meanwhile the supervisor's own lease timer may drop the context that    *)
(* the stop is working with.                                               *)
(*                                                                         *)
(* One engine and one authority record: the record is its owner generation *)
(* (0 when it is retired).  A controller that is done never comes back;    *)
(* the next one is another element of Controllers.                         *)
(***************************************************************************)
EXTENDS Naturals, FiniteSets

CONSTANTS
  Controllers,     \* supervisor processes
  None,            \* no control attempt, nobody
  Tries,           \* how often an ambiguous request is sent (3 in the code)
  MaxRequest,      \* bound: a fresh stop is begun while fewer request ids are drawn
  MaxGeneration,   \* bound: owner generations
  MaxLosses,       \* bound: requests whose reply is lost
  Concurrent,      \* whether two controllers may be attached at the same time
  LeasesMayLapse   \* whether a living controller may miss its renewals

Operation == {"stop", "restart"}
AttemptPhase == {"begin-pending", "draining", "graceful-accepted",
                 "hard-signal-pending", "hard-signal-commit-pending"}
HardPhase == {"hard-signal-pending", "hard-signal-commit-pending"}

ControlAttempt == [request : Nat, requester : Controllers, epoch : Nat, generation : Nat,
                   operation : Operation, phase : AttemptPhase, drain : Nat]

(* Where a controller is.  Between "load" and "retire" it is inside        *)
(* #controlledStop.                                                        *)
Requesting == {"begin", "accepted", "timeout", "authorize", "commit", "rollback"}
Label == Requesting \cup
         {"new", "ready", "prepare", "load", "replace", "denied", "mark", "drained",
          "advance-accepted", "wait", "advance-hard", "advance-commit",
          "signal", "outcome", "exit", "retire", "clear", "stopped", "gone"}

(* The engine's side of a drain.                                           *)
DrainPhase == {"draining", "accepted", "decision", "prepared", "committed", "rolled-back"}
Drain == [number : Nat, request : Nat, requester : Controllers \cup {None},
          phase : DrainPhase, expired : BOOLEAN]
Engine == [alive : BOOLEAN, owner : Nat, leased : BOOLEAN, epoch : Nat, drain : Drain]

(* currentState, as far as a stop reaches it: "lost" is the failure state  *)
(* in which a failed renewal leaves a supervisor without its context.      *)
LifecycleState == {"ready", "draining", "stopping", "lost"}

Controller == [pc : Label, state : LifecycleState, generation : Nat, operation : Operation,
               epoch : Nat, attempt : ControlAttempt \cup {None}, drain : Nat,
               hard : BOOLEAN,       \* hardDecisionRecorded
               again : BOOLEAN,      \* second requester attempt of the begin loop
               tries : Nat,
               why : {"permitted", "error", "expired"}]  \* reason of a rollback

Request == [kind : Requesting \cup {"outcome"}, owner : Nat, drain : Nat, request : Nat,
            requester : Controllers \cup {None}, epoch : Nat]

ASSUME StopAssumption ==
  /\ None \notin Controllers /\ None \notin ControlAttempt
  /\ Tries \in Nat \ {0}
  /\ MaxRequest \in Nat /\ MaxGeneration \in Nat /\ MaxLosses \in Nat
  /\ Concurrent \in BOOLEAN /\ LeasesMayLapse \in BOOLEAN

VARIABLES
  record,      \* owner generation of the authority record, 0 when there is none
  attempt,     \* the durable control attempt
  lock,        \* holder of the store lock across several steps
  engine,      \* the engine process and its drain
  registered,  \* controllers whose client registration the engine holds
  ctl,         \* each controller's progress and local variables
  aborted,     \* controllers whose abort signal was raised
  late,        \* requests the engine may still carry out
  killed,      \* whether the hard signal was sent
  decider,     \* history: owner generation that recorded the hard decision
  requests, losses  \* ids drawn, replies lost

vars == <<record, attempt, lock, engine, registered, ctl, aborted, late, killed,
          decider, requests, losses>>

NoDrain == [number |-> 0, request |-> 0, requester |-> None, phase |-> "rolled-back",
            expired |-> FALSE]
NoContext == [pc |-> "new", state |-> "ready", generation |-> 0, operation |-> "stop", epoch |-> 0,
              attempt |-> None, drain |-> 0, hard |-> FALSE, again |-> FALSE,
              tries |-> 0, why |-> "permitted"]

Init ==
  /\ record = 1 /\ attempt = None /\ lock = None
  /\ engine = [alive |-> TRUE, owner |-> 1, leased |-> TRUE, epoch |-> 0, drain |-> NoDrain]
  /\ registered = {} /\ ctl = [p \in Controllers |-> NoContext]
  /\ aborted = {} /\ late = {} /\ killed = FALSE /\ decider = 0
  /\ requests = 0 /\ losses = 0

TypeOK ==
  /\ record \in Nat /\ attempt \in ControlAttempt \cup {None}
  /\ lock \in Controllers \cup {None}
  /\ engine \in Engine
  /\ registered \subseteq Controllers
  /\ ctl \in [Controllers -> Controller]
  /\ aborted \subseteq Controllers
  /\ late \subseteq Request
  /\ killed \in BOOLEAN /\ decider \in Nat
  /\ requests \in Nat /\ losses \in Nat

-----------------------------------------------------------------------------
(* The engine's replies.                                                   *)

Draining == engine.drain.phase # "rolled-back"

With(d) == [engine EXCEPT !.drain = d]
Moved(ph) == With([engine.drain EXCEPT !.phase = ph])
RolledBack == [engine EXCEPT !.drain.phase = "rolled-back", !.epoch = @ + 1]

Reply(a, e) == [answer |-> a, engine |-> e]

(* A drain is begun once per request id, by a registered requester that    *)
(* saw the current admission epoch.  Whether the id of a drain that was    *)
(* rolled back is replayed or refused is left open.                        *)
BeginReplies(m) ==
  IF engine.drain.request = m.request
  THEN {Reply("draining", engine)} \cup
       (IF Draining THEN {} ELSE {Reply("drain-conflict", engine)})
  ELSE IF m.requester \notin registered THEN {Reply("registration-expired", engine)}
  ELSE IF Draining \/ engine.epoch # m.epoch THEN {Reply("drain-conflict", engine)}
  ELSE {Reply("draining",
              With([number |-> engine.drain.number + 1, request |-> m.request,
                    requester |-> m.requester, phase |-> "draining", expired |-> FALSE]))}

GracefulReplies(m) ==
  LET next == IF m.kind = "accepted" THEN "accepted" ELSE "decision"
      from == IF m.kind = "accepted" THEN {"draining"} ELSE {"draining", "accepted"}
  IN  IF engine.drain.phase = "rolled-back" THEN {Reply("rolled-back", engine)}
      ELSE IF engine.drain.phase \in from
      THEN {Reply("recorded", Moved(next)), Reply("rollback-permitted", engine)}
      ELSE {Reply("recorded", engine)}

AuthorizeReplies ==
  CASE engine.drain.phase = "decision" -> {Reply("prepared", Moved("prepared"))}
    [] engine.drain.phase \in {"prepared", "committed"} ->
         {Reply(IF engine.drain.expired THEN "authorization-expired" ELSE "prepared", engine)}
    [] OTHER -> {Reply("refused", engine)}

CommitReplies ==
  CASE engine.drain.phase = "prepared" ->
         {IF engine.drain.expired THEN Reply("authorization-expired", engine)
                                  ELSE Reply("permitted", Moved("committed"))}
    [] engine.drain.phase = "committed" ->
         {Reply("permitted", engine)} \cup
         (IF engine.drain.expired THEN {Reply("authorization-expired", engine)} ELSE {})
    [] OTHER -> {Reply("refused", engine)}

RollbackReplies ==
  {CASE engine.drain.phase = "rolled-back" -> Reply("rolled-back", engine)
     [] engine.drain.phase = "committed"   -> Reply("refused", engine)
     [] OTHER                              -> Reply("rolled-back", RolledBack)}

Replies(m) ==
  IF ~engine.leased \/ engine.owner # m.owner THEN {Reply("owner-refused", engine)}
  ELSE IF m.kind = "begin" THEN BeginReplies(m)
  ELSE IF m.drain # engine.drain.number THEN {Reply("refused", engine)}
  ELSE CASE m.kind \in {"accepted", "timeout"} -> GracefulReplies(m)
         [] m.kind = "authorize" -> AuthorizeReplies
         [] m.kind = "commit"    -> CommitReplies
         [] m.kind = "rollback"  -> RollbackReplies
         [] m.kind = "outcome"   -> {Reply("recorded", engine)}

-----------------------------------------------------------------------------
(* A controller's moves.                                                   *)

Become(p, c) == ctl' = [ctl EXCEPT ![p] = c]
At(c, l)     == [c EXCEPT !.pc = l, !.tries = 0]

(* The legal transitions between the states a stop goes through.           *)
Legal == {<<"ready", "draining">>, <<"draining", "draining">>, <<"draining", "stopping">>,
          <<"stopping", "ready">>}

(* #controlledStop has returned or thrown; the context stays attached,     *)
(* unless the lease timer has dropped it.                                  *)
Returned(c) ==
  IF c.state = "lost" THEN [NoContext EXCEPT !.pc = "gone"]
  ELSE [NoContext EXCEPT !.pc = "ready", !.state = c.state, !.generation = c.generation]

(* readyResult, after a rollback: the context is put back, which only a    *)
(* supervisor in state "stopping" may do.                                  *)
ReadyAgain(c) ==
  IF <<c.state, "ready">> \in Legal THEN Returned([c EXCEPT !.state = "ready"]) ELSE Returned(c)

(* The catch block of #controlledStop: roll the drain back, unless the     *)
(* hard decision may already stand.                                        *)
Caught(c, expired) ==
  IF /\ c.drain # 0 /\ ~c.hard
     /\ c.attempt.phase = "hard-signal-commit-pending" => expired
  THEN [At(c, "rollback") EXCEPT !.why = IF expired THEN "expired" ELSE "error"]
  ELSE Returned(c)

(* #rollbackDrain before the hard commit, inside the try block.            *)
GiveUp(c) == [At(c, "rollback") EXCEPT !.why = "permitted"]

RequestOf(c) ==
  [kind |-> c.pc, owner |-> c.generation, drain |-> c.drain, request |-> c.attempt.request,
   requester |-> c.attempt.requester, epoch |-> c.attempt.epoch]

(* A new owner, or a retired record, means another identity.               *)
Valid(p) == record = ctl[p].generation /\ engine.alive

(* p runs a section of the lock on its own.                                *)
Section(p, l) == ctl[p].pc = l /\ lock = None

(* Mutant: an abort is honoured after the hard commit, too.                *)
AbortingAnyPhase(p, c) == p \in aborted

(* abortBeforeHardCommit, checked as a reply or a durable change returns.  *)
Aborting(p, c) == p \in aborted /\ c.attempt.phase # "hard-signal-commit-pending"
Checked(p, c, l) == IF Aborting(p, c) THEN GiveUp(c) ELSE At(c, l)

(* The first step of a locked request is a handshake, which an abort makes *)
(* fail; only a rollback ignores it.                                       *)
HandshakeAborted(p) == p \in aborted /\ lock # p /\ ctl[p].pc # "rollback"

(* A locked request starts with the renewal of the owner, which a wiped    *)
(* credential cannot do.                                                   *)
Wiped(p) == ctl[p].state = "lost" /\ lock # p

Reaches(p, l) ==
  /\ ctl[p].pc = l /\ lock \in {None, p}
  /\ Valid(p) /\ ~HandshakeAborted(p) /\ ~Wiped(p)

(* Requests retried inside the lock section, not around it.                *)
Held == {"authorize", "commit", "outcome"}

outside == <<record, attempt, registered, aborted, late, killed, decider, requests, losses>>

-----------------------------------------------------------------------------
(* Attaching, and the steps up to the durable request.                     *)

Attached(p) == ctl[p].pc \notin {"new", "stopped", "gone"}

(* Of the controllers that follow each other, which comes next is only a   *)
(* matter of names.                                                        *)
Fresh == CHOOSE q \in Controllers : ctl[q].pc = "new"

(* adoptOrRecover, as one step: renew the owner lease, or acquire the next *)
(* generation when it has lapsed and commit it to the record; register.    *)
Adopt(p) ==
  /\ Section(p, "new") /\ p \notin aborted
  /\ record # 0 /\ engine.alive /\ record = engine.owner
  /\ Concurrent \/ (p = Fresh /\ \A q \in Controllers : ~Attached(q))
  /\ LET g == IF engine.leased THEN record ELSE record + 1 IN
       /\ g <= MaxGeneration
       /\ record' = g
       /\ engine' = [engine EXCEPT !.owner = g, !.leased = TRUE]
       /\ Become(p, Returned([ctl[p] EXCEPT !.generation = g]))
  /\ registered' = registered \cup {p}
  /\ UNCHANGED <<attempt, lock, aborted, late, killed, decider, requests, losses>>

(* renewClient, which refreshes the admission epoch.                       *)
BeginStop(p) ==
  /\ ctl[p].pc = "ready" /\ p \notin aborted
  /\ <<ctl[p].state, "draining">> \in Legal
  /\ engine.alive /\ p \in registered
  /\ requests < MaxRequest \/ attempt # None
  /\ \E op \in Operation :
       Become(p, [ctl[p] EXCEPT !.pc = "prepare", !.state = "draining", !.operation = op,
                                !.epoch = engine.epoch])
  /\ UNCHANGED <<outside, lock, engine>>

(* Mutant: the attempt is written before the requester is known.           *)
NewAttemptAnonymous(p) ==
  [request |-> requests + 1, requester |-> None, epoch |-> ctl[p].epoch,
   generation |-> record, operation |-> ctl[p].operation, phase |-> "begin-pending",
   drain |-> 0]

NewAttempt(p) ==
  [request |-> requests + 1, requester |-> p, epoch |-> ctl[p].epoch,
   generation |-> record, operation |-> ctl[p].operation, phase |-> "begin-pending",
   drain |-> 0]

(* readControlAttempt refuses a pending begin of another owner generation. *)
Unreadable == attempt # None /\ attempt.phase = "begin-pending" /\ attempt.generation # record

Refused(p) ==
  \/ record # ctl[p].generation
  \/ Unreadable
  \/ attempt # None /\ attempt.operation # ctl[p].operation

(* Take the attempt on: a pending begin is sent, a later phase resumed.    *)
Resume(c, a) ==
  [c EXCEPT !.pc = IF a.phase = "begin-pending" THEN "load" ELSE "drained",
            !.attempt = a, !.drain = a.drain, !.tries = 0]

PrepareControlAttempt(p) ==
  /\ Section(p, "prepare")
  /\ \/ /\ Refused(p)
        /\ Become(p, Returned(ctl[p]))
        /\ UNCHANGED <<attempt, requests>>
     \/ /\ ~Refused(p) /\ attempt # None
        /\ Become(p, Resume(ctl[p], attempt))
        /\ UNCHANGED <<attempt, requests>>
     \/ /\ ~Refused(p) /\ attempt = None /\ requests < MaxRequest
        /\ attempt' = NewAttempt(p)
        /\ requests' = requests + 1
        /\ Become(p, Resume(ctl[p], attempt'))
  /\ UNCHANGED <<record, lock, engine, registered, aborted, late, killed, decider, losses>>

(* readControlAttemptSecret, outside the lock: the secret goes with its    *)
(* attempt.                                                                *)
LoadSecret(p) ==
  /\ ctl[p].pc = "load"
  /\ IF attempt # None /\ attempt.request = ctl[p].attempt.request
     THEN Become(p, At(ctl[p], "begin"))
     ELSE Become(p, Caught(ctl[p], FALSE))
  /\ UNCHANGED <<outside, lock, engine>>

BeginControlDrain(p) ==
  /\ Reaches(p, "begin")
  /\ \E r \in Replies(RequestOf(ctl[p])) :
       /\ engine' = r.engine
       /\ Become(p,
            CASE r.answer = "draining" -> [At(ctl[p], "mark") EXCEPT !.drain = r.engine.drain.number]
              [] r.answer = "registration-expired" /\ ~ctl[p].again -> At(ctl[p], "replace")
              [] r.answer = "drain-conflict" -> At(ctl[p], "denied")
              [] OTHER -> Caught(ctl[p], FALSE))
  /\ UNCHANGED <<outside, lock>>

(* Mutant: every expired begin is replaced and tried again.                *)
ReplaceExpiredBeginForever(p) ==
  /\ Section(p, "replace")
  /\ attempt' = [ctl[p].attempt EXCEPT !.requester = p, !.epoch = ctl[p].epoch]
  /\ Become(p, Resume(ctl[p], attempt'))
  /\ UNCHANGED <<record, lock, engine, registered, aborted, late, killed, decider, requests, losses>>

(* The attempt whose requester expired is replaced by one of p's own, or   *)
(* by what another controller has put in its place.                        *)
ReplaceExpiredBegin(p) ==
  /\ Section(p, "replace")
  /\ \/ /\ \/ record # ctl[p].generation
           \/ attempt # None /\ attempt # ctl[p].attempt /\ Refused(p)
        /\ Become(p, Caught(ctl[p], FALSE))
        /\ UNCHANGED <<attempt, requests>>
     \/ /\ record = ctl[p].generation /\ attempt \in {None, ctl[p].attempt}
        /\ attempt' = NewAttempt(p)
        /\ requests' = requests + 1
        /\ Become(p, [Resume(ctl[p], attempt') EXCEPT !.again = TRUE])
     \/ /\ attempt \notin {None, ctl[p].attempt} /\ ~Refused(p)
        /\ Become(p, [Resume(ctl[p], attempt) EXCEPT !.again = TRUE])
        /\ UNCHANGED <<attempt, requests>>
  /\ UNCHANGED <<record, lock, engine, registered, aborted, late, killed, decider, losses>>

(* drain_denied: clear the attempt and detach, or throw when it changed.   *)
Denied(p) ==
  /\ Section(p, "denied")
  /\ IF attempt = ctl[p].attempt
     THEN /\ attempt' = None
          /\ registered' = registered \ {p}
          /\ Become(p, [NoContext EXCEPT !.pc = "gone"])
     ELSE /\ Become(p, Caught(ctl[p], FALSE))
          /\ UNCHANGED <<attempt, registered>>
  /\ UNCHANGED <<record, lock, engine, aborted, late, killed, decider, requests, losses>>

-----------------------------------------------------------------------------
(* Durable phase changes.                                                  *)

(* Mutant: whatever attempt is on disk moves to the next phase.            *)
AdvanceAnyAttempt(p, from, phase, to) ==
  /\ Section(p, from)
  /\ attempt # None
  /\ attempt' = [attempt EXCEPT !.phase = phase, !.drain = ctl[p].drain]
  /\ Become(p, Checked(p, [ctl[p] EXCEPT !.attempt = attempt',
                             !.hard = (phase = "hard-signal-commit-pending")], to))
  /\ decider' = IF phase = "hard-signal-pending" THEN ctl[p].generation ELSE decider
  /\ UNCHANGED <<record, lock, engine, registered, aborted, late, killed, requests, losses>>

(* markControlAttemptDraining and advanceControlAttempt change the attempt *)
(* p knows, and throw when it is no longer that one.                       *)
Advance(p, from, phase, to) ==
  /\ Section(p, from)
  /\ IF attempt = ctl[p].attempt
     THEN /\ attempt' = [attempt EXCEPT !.phase = phase, !.drain = ctl[p].drain]
          /\ Become(p, Checked(p, [ctl[p] EXCEPT !.attempt = attempt',
                                     !.hard = (phase = "hard-signal-commit-pending")], to))
          /\ decider' = IF phase = "hard-signal-pending" THEN ctl[p].generation ELSE decider
     ELSE /\ Become(p, Caught(ctl[p], FALSE))
          /\ UNCHANGED <<attempt, decider>>
  /\ UNCHANGED <<record, lock, engine, registered, aborted, late, killed, requests, losses>>

MarkDraining(p)    == Advance(p, "mark", "draining", "drained")
AdvanceAccepted(p) == Advance(p, "advance-accepted", "graceful-accepted", "wait")
AdvanceHard(p)     == Advance(p, "advance-hard", "hard-signal-pending", "authorize")

(* Mutant: a hard phase of an earlier owner is resumed like one's own.     *)
DrainedOfAnyOwner(p) ==
  /\ ctl[p].pc = "drained"
  /\ Become(p, Checked(p, [ctl[p] EXCEPT !.state = "stopping"],
               CASE ctl[p].attempt.phase = "draining" -> "accepted"
                 [] ctl[p].attempt.phase = "graceful-accepted" -> "wait"
                 [] OTHER -> "authorize"))
  /\ UNCHANGED <<outside, lock, engine>>

(* The transition to "stopping", the abort check, and the attempt of an    *)
(* earlier owner: its hard decision is rolled back, its hard commit left   *)
(* alone.                                                                  *)
Drained(p) ==
  LET c == [ctl[p] EXCEPT !.state = "stopping"]
      lawful == <<ctl[p].state, "stopping">> \in Legal
      foreign == c.attempt.generation # c.generation
      ph == c.attempt.phase
  IN /\ c.pc = "drained"
     /\ Become(p,
          CASE ~lawful -> Caught(ctl[p], FALSE)
            [] lawful /\ Aborting(p, c) -> GiveUp(c)
            [] lawful /\ ~Aborting(p, c) /\ foreign /\ ph = "hard-signal-pending" -> GiveUp(c)
            [] lawful /\ ~Aborting(p, c) /\ foreign /\ ph = "hard-signal-commit-pending" ->
                 Returned(c)
            [] OTHER -> At(c, CASE ph = "draining" -> "accepted"
                                [] ph = "graceful-accepted" -> "wait"
                                [] OTHER -> "authorize"))
     /\ UNCHANGED <<outside, lock, engine>>

-----------------------------------------------------------------------------
(* The graceful exit.                                                      *)

RecordAccepted(p) ==
  /\ Reaches(p, "accepted")
  /\ \E r \in Replies(RequestOf(ctl[p])) :
       /\ engine' = r.engine
       /\ Become(p, CASE r.answer = "rollback-permitted" -> GiveUp(ctl[p])
                      [] r.answer \in {"recorded", "rolled-back"} -> At(ctl[p], "advance-accepted")
                      [] OTHER -> Caught(ctl[p], FALSE))
  /\ UNCHANGED <<outside, lock>>

(* waitForExactExit: the engine is seen dead, or the wait times out.       *)
WaitForExit(p) ==
  /\ ctl[p].pc = "wait"
  /\ Become(p, IF engine.alive THEN Checked(p, ctl[p], "timeout") ELSE At(ctl[p], "retire"))
  /\ UNCHANGED <<outside, lock, engine>>

RecordTimeout(p) ==
  /\ Reaches(p, "timeout")
  /\ \E r \in Replies(RequestOf(ctl[p])) :
       /\ engine' = r.engine
       /\ Become(p, CASE r.answer = "rollback-permitted" -> GiveUp(ctl[p])
                      [] r.answer = "recorded" -> At(ctl[p], "advance-hard")
                      [] OTHER -> Caught(ctl[p], FALSE))
  /\ UNCHANGED <<outside, lock>>

-----------------------------------------------------------------------------
(* The hard signal.                                                        *)

(* Mutant: the commit is requested before it is made durable.              *)
PrepareHardSignalCommitFirst(p) ==
  /\ Reaches(p, "authorize")
  /\ \E r \in Replies(RequestOf(ctl[p])) :
       /\ engine' = r.engine
       /\ Become(p, IF r.answer = "prepared"
                    THEN [At(ctl[p], "commit") EXCEPT !.hard = TRUE]
                    ELSE Caught(ctl[p], r.answer = "authorization-expired"))
  /\ lock' = None
  /\ UNCHANGED outside

PrepareHardSignal(p) ==
  /\ Reaches(p, "authorize")
  /\ \E r \in Replies(RequestOf(ctl[p])) :
       /\ engine' = r.engine
       /\ Become(p,
            CASE r.answer = "prepared" /\ ctl[p].attempt.phase = "hard-signal-pending" ->
                   Checked(p, ctl[p], "advance-commit")
              [] r.answer = "prepared" /\ ctl[p].attempt.phase # "hard-signal-pending" ->
                   [At(ctl[p], "commit") EXCEPT !.hard = TRUE]
              [] OTHER -> Caught(ctl[p], r.answer = "authorization-expired"))
  /\ lock' = None
  /\ UNCHANGED outside

AdvanceCommit(p) == Advance(p, "advance-commit", "hard-signal-commit-pending", "commit")

(* From a permit to its recorded outcome p keeps the lock.                 *)
CommitHardSignal(p) ==
  /\ Reaches(p, "commit")
  /\ \E r \in Replies(RequestOf(ctl[p])) :
       /\ engine' = r.engine
       /\ lock' = IF r.answer = "permitted" THEN p ELSE None
       /\ Become(p, CASE r.answer = "permitted" -> At(ctl[p], "signal")
                      [] r.answer = "authorization-expired" ->
                           Caught([ctl[p] EXCEPT !.hard = FALSE], TRUE)
                      [] OTHER -> Caught(ctl[p], FALSE))
  /\ UNCHANGED outside

(* Mutant: the permit's expiry is not looked at.                           *)
SendHardSignalUnchecked(p) ==
  /\ ctl[p].pc = "signal"
  /\ killed' = (killed \/ engine.alive)
  /\ Become(p, At(ctl[p], "outcome"))
  /\ UNCHANGED <<record, attempt, lock, engine, registered, aborted, late, decider, requests, losses>>

SendHardSignal(p) ==
  /\ ctl[p].pc = "signal"
  /\ \/ /\ engine.alive /\ ~engine.drain.expired
        /\ killed' = TRUE
        /\ Become(p, At(ctl[p], "outcome"))
        /\ UNCHANGED lock
     \/ /\ engine.alive /\ engine.drain.expired
        /\ Become(p, Caught(ctl[p], FALSE))
        /\ lock' = None
        /\ UNCHANGED killed
     \/ /\ ~engine.alive
        /\ Become(p, At(ctl[p], "outcome"))
        /\ UNCHANGED <<lock, killed>>
  /\ UNCHANGED <<record, attempt, engine, registered, aborted, late, decider, requests, losses>>

RecordOutcome(p) ==
  /\ Reaches(p, "outcome")
  /\ \E r \in Replies(RequestOf(ctl[p])) :
       /\ engine' = r.engine
       /\ Become(p, IF r.answer = "recorded" THEN At(ctl[p], "exit") ELSE Caught(ctl[p], FALSE))
  /\ lock' = None
  /\ UNCHANGED outside

WaitAfterSignal(p) ==
  /\ ctl[p].pc = "exit"
  /\ Become(p, IF engine.alive THEN Returned(ctl[p]) ELSE At(ctl[p], "retire"))
  /\ UNCHANGED <<outside, lock, engine>>

RetireObservedExit(p) ==
  /\ Section(p, "retire")
  /\ IF record = ctl[p].generation /\ ~engine.alive
     THEN /\ record' = 0 /\ attempt' = None
          /\ Become(p, IF ctl[p].state = "lost" /\ ctl[p].operation = "stop"
                       THEN Caught(ctl[p], FALSE)
                       ELSE [NoContext EXCEPT !.pc = "stopped"])
     ELSE /\ Become(p, Returned(ctl[p]))
          /\ UNCHANGED <<record, attempt>>
  /\ UNCHANGED <<lock, engine, registered, aborted, late, killed, decider, requests, losses>>

-----------------------------------------------------------------------------
(* Giving up.                                                              *)

(* Mutant: the result of the rollback is not looked at.                    *)
RollbackDrainUnchecked(p) ==
  /\ Reaches(p, "rollback")
  /\ \E r \in Replies(RequestOf(ctl[p])) : engine' = r.engine
  /\ Become(p, At(ctl[p], "clear"))
  /\ UNCHANGED <<outside, lock>>

RollbackDrain(p) ==
  /\ Reaches(p, "rollback")
  /\ \E r \in Replies(RequestOf(ctl[p])) :
       /\ engine' = r.engine
       /\ Become(p, IF r.answer = "rolled-back" THEN At(ctl[p], "clear") ELSE Returned(ctl[p]))
  /\ UNCHANGED <<outside, lock>>

(* Mutant: the attempt is cleared without comparing it.                    *)
ClearControlAttemptAny(p) ==
  /\ Section(p, "clear")
  /\ attempt' = None
  /\ Become(p, Returned(ctl[p]))
  /\ UNCHANGED <<record, lock, engine, registered, aborted, late, killed, decider, requests, losses>>

ClearControlAttempt(p) ==
  /\ Section(p, "clear")
  /\ IF attempt = ctl[p].attempt
     THEN /\ attempt' = None
          /\ Become(p, IF ctl[p].why = "error" THEN Returned(ctl[p]) ELSE ReadyAgain(ctl[p]))
     ELSE /\ Become(p, IF ctl[p].why = "permitted" THEN Caught(ctl[p], FALSE) ELSE Returned(ctl[p]))
          /\ UNCHANGED attempt
  /\ UNCHANGED <<record, lock, engine, registered, aborted, late, killed, decider, requests, losses>>

-----------------------------------------------------------------------------
(* Requests that do not come back.                                         *)

(* A request whose reply is lost is sent again, up to Tries times.         *)
LoseReply(p) ==
  /\ \E l \in Requesting \cup {"outcome"} : Reaches(p, l)
  /\ losses < MaxLosses
  /\ losses' = losses + 1
  /\ late' = late \cup {RequestOf(ctl[p])}
  /\ IF ctl[p].tries + 1 < Tries
     THEN /\ Become(p, [ctl[p] EXCEPT !.tries = @ + 1])
          /\ lock' = IF ctl[p].pc \in Held THEN p ELSE None
     ELSE /\ Become(p, IF ctl[p].pc = "rollback" THEN Returned(ctl[p]) ELSE Caught(ctl[p], FALSE))
          /\ lock' = None
  /\ UNCHANGED <<record, attempt, engine, registered, aborted, killed, decider, requests>>

(* withRevalidatedAuthority finds another record, or the process dead.     *)
Invalid(p) ==
  /\ ctl[p].pc \in Requesting /\ lock = None /\ ~Valid(p)
  /\ Become(p, Returned(ctl[p]))
  /\ UNCHANGED <<outside, lock, engine>>

AbortedHandshake(p) ==
  /\ ctl[p].pc \in Requesting /\ lock = None /\ Valid(p) /\ HandshakeAborted(p)
  /\ Become(p, Caught(ctl[p], FALSE))
  /\ UNCHANGED <<outside, lock, engine>>

(* The engine refuses the wiped credential.                                *)
RefusedRenewal(p) ==
  /\ ctl[p].pc \in Requesting /\ lock = None /\ Valid(p) /\ ~HandshakeAborted(p) /\ Wiped(p)
  /\ Become(p, IF ctl[p].pc = "rollback" THEN Returned(ctl[p]) ELSE Caught(ctl[p], FALSE))
  /\ UNCHANGED <<outside, lock, engine>>

(* The engine died while p held the lock: no try is answered.              *)
Unreachable(p) ==
  /\ ctl[p].pc \in Held /\ lock = p /\ ~engine.alive
  /\ Become(p, Caught(ctl[p], FALSE))
  /\ lock' = None
  /\ UNCHANGED <<outside, engine>>

-----------------------------------------------------------------------------
(* Controllers that are aborted, die, or find the engine dead.             *)

Abort(p) ==
  /\ Attached(p) /\ p \notin aborted
  /\ aborted' = aborted \cup {p}
  /\ UNCHANGED <<record, attempt, lock, engine, registered, ctl, late, killed, decider,
                 requests, losses>>

Crash(p) ==
  /\ Attached(p)
  /\ Become(p, [NoContext EXCEPT !.pc = "gone"])
  /\ lock' = IF lock = p THEN None ELSE lock
  /\ aborted' = aborted \ {p}
  /\ UNCHANGED <<record, attempt, engine, registered, late, killed, decider, requests, losses>>

(* The lease timer, at any point of a stop: a renewal that is refused or   *)
(* not answered drops the context and wipes its credential.  It ends with  *)
(* the abort.                                                              *)
RenewalFails(p) ==
  /\ Attached(p) /\ p \notin aborted /\ ctl[p].state # "lost"
  /\ LET lost == [ctl[p] EXCEPT !.state = "lost"] IN
       Become(p, IF ctl[p].pc = "ready" THEN Returned(lost) ELSE lost)
  /\ \/ /\ \/ ~engine.alive \/ ~engine.leased
           \/ engine.owner # ctl[p].generation \/ p \notin registered
        /\ UNCHANGED losses
     \/ losses < MaxLosses /\ losses' = losses + 1
  /\ UNCHANGED <<record, attempt, lock, engine, registered, aborted, late, killed, decider,
                 requests>>

RetireDeadAuthority(p) ==
  /\ Section(p, "new") /\ record # 0 /\ ~engine.alive
  /\ record' = 0 /\ attempt' = None
  /\ UNCHANGED <<lock, engine, registered, ctl, aborted, late, killed, decider, requests, losses>>

-----------------------------------------------------------------------------
(* The engine and time.                                                    *)

Renewing(p) == Attached(p) /\ p \notin aborted

RegistrationExpires(p) ==
  /\ p \in registered /\ (Renewing(p) => LeasesMayLapse)
  /\ registered' = registered \ {p}
  /\ UNCHANGED <<record, attempt, lock, engine, ctl, aborted, late, killed, decider, requests, losses>>

OwnerLeaseExpires ==
  /\ engine.alive /\ engine.leased
  /\ (\E p \in Controllers : Renewing(p)) => LeasesMayLapse
  /\ engine' = [engine EXCEPT !.leased = FALSE]
  /\ UNCHANGED <<outside, lock, ctl>>

(* The real engine rolls an undecided drain back when its requester's      *)
(* registration expires.                                                   *)
RequesterExpires ==
  /\ engine.alive /\ engine.drain.phase = "draining"
  /\ engine.drain.requester \notin registered
  /\ engine' = RolledBack
  /\ UNCHANGED <<outside, lock, ctl>>

AuthorizationExpires ==
  /\ engine.alive /\ engine.drain.phase \in {"prepared", "committed"} /\ ~engine.drain.expired
  /\ engine' = [engine EXCEPT !.drain.expired = TRUE]
  /\ UNCHANGED <<outside, lock, ctl>>

LateRequest ==
  /\ engine.alive
  /\ \E m \in late : \E r \in Replies(m) :
       /\ engine' = r.engine
       /\ late' = late \ {m}
  /\ UNCHANGED <<record, attempt, lock, registered, ctl, aborted, killed, decider, requests, losses>>

EngineExits ==
  /\ engine.alive
  /\ engine' = [engine EXCEPT !.alive = FALSE, !.leased = FALSE, !.drain = NoDrain]
  /\ registered' = {} /\ late' = {}
  /\ UNCHANGED <<record, attempt, lock, ctl, aborted, killed, decider, requests, losses>>

-----------------------------------------------------------------------------
(* A step of #controlledStop, once it has been called.                     *)
Step(p) ==
  \/ PrepareControlAttempt(p) \/ LoadSecret(p) \/ BeginControlDrain(p)
  \/ ReplaceExpiredBegin(p) \/ Denied(p) \/ MarkDraining(p) \/ Drained(p)
  \/ RecordAccepted(p) \/ AdvanceAccepted(p) \/ WaitForExit(p) \/ RecordTimeout(p)
  \/ AdvanceHard(p) \/ PrepareHardSignal(p) \/ AdvanceCommit(p) \/ CommitHardSignal(p)
  \/ SendHardSignal(p) \/ RecordOutcome(p) \/ WaitAfterSignal(p) \/ RetireObservedExit(p)
  \/ RollbackDrain(p) \/ ClearControlAttempt(p)
  \/ LoseReply(p) \/ Invalid(p) \/ AbortedHandshake(p) \/ RefusedRenewal(p)
  \/ Unreachable(p)

Next ==
  \/ \E p \in Controllers :
       Adopt(p) \/ BeginStop(p) \/ Step(p) \/ Abort(p) \/ Crash(p)
       \/ RenewalFails(p) \/ RetireDeadAuthority(p) \/ RegistrationExpires(p)
  \/ OwnerLeaseExpires \/ RequesterExpires \/ AuthorizationExpires
  \/ LateRequest \/ EngineExits

Spec == Init /\ [][Next]_vars

(* A controller that is not dead goes on with its stop: every wait of      *)
(* #controlledStop is bounded by a timeout.                                *)
FairSpec == Spec /\ \A p \in Controllers : WF_vars(Step(p))

-----------------------------------------------------------------------------
(* Properties.                                                             *)

(* The engine never drains without a durable control attempt of that       *)
(* request for the next controller to find (clearControlAttempt follows a  *)
(* rollback, #controlledStop's catch).                                     *)
DrainIsCovered ==
  engine.alive /\ Draining => attempt # None /\ attempt.request = engine.drain.request

(* A committed permit stays with the attempt that asked for it until the   *)
(* engine is dead: nobody clears or replaces a hard-signal-commit-pending  *)
(* attempt on the way.                                                     *)
PermitKeepsAttempt ==
  engine.alive /\ engine.drain.phase = "committed" =>
    /\ attempt # None /\ attempt.phase = "hard-signal-commit-pending"
    /\ attempt.drain = engine.drain.number

(* The engine is killed only on an unexpired permit it committed, with the *)
(* commit durable, by a controller of the owner generation that decided it.*)
SignalOnlyOnPermit ==
  [][~killed /\ killed' =>
       /\ engine.drain.phase = "committed" /\ ~engine.drain.expired
       /\ attempt # None /\ attempt.phase = "hard-signal-commit-pending"
       /\ attempt.drain = engine.drain.number
       /\ decider = engine.owner]_vars

(* A durable hard commit is undone only when its authorization expired, as *)
(* long as no reply was lost: no abort, crash, restart or rotated owner    *)
(* rolls its drain back (the phase test of #controlledStop's catch and of  *)
(* abortBeforeHardCommit).                                                 *)
CommitUndoneOnlyExpired ==
  [][losses = 0
     /\ engine.alive /\ engine'.alive /\ Draining /\ engine'.drain.phase = "rolled-back"
     /\ attempt # None /\ attempt.phase = "hard-signal-commit-pending"
     => engine.drain.expired]_vars

Stopping(p) == Attached(p) /\ ctl[p].pc # "ready"

(* Every controlled stop comes to an end: no requester is replaced and no  *)
(* request repeated for ever.                                              *)
StopEnds == \A p \in Controllers : Stopping(p) ~> ~Stopping(p)

(* A stop that retires the engine it stopped reports it stopped.           *)
RetiredIsStopped ==
  [][\A p \in Controllers :
       ctl[p].pc = "retire" /\ ctl'[p].pc # "retire" /\ record # 0 /\ record' = 0
         => ctl'[p].pc = "stopped"]_vars

=============================================================================
