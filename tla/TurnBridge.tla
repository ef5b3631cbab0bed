------------------------------ MODULE TurnBridge ------------------------------
(***************************************************************************)
(* The bridge between an engine session and the native transcript          *)
(* (e4-agent-stream.ts), with the part of the runtime that keeps its       *)
(* binding (runtime.ts, session-binding.ts).                               *)
(*                                                                         *)
(* The agent asks for a turn by a stream call; the bridge submits it,      *)
(* records durably that the turn is its own, and projects the events of    *)
(* its turns from the engine's log into the transcript.  How far it got is *)
(* a durable cursor.  The last message of a turn that was asked for here   *)
(* goes through the stream of the call, so the cursor that covers it is    *)
(* held back until the next call shows that it was stored.  After a        *)
(* restart the log is read again from the cursor, and the receipts in the  *)
(* transcript keep a message from being projected again.                   *)
(*                                                                         *)
(* A turn is named by the attempt it was submitted as (the engine admits a *)
(* clientMessageId once), an event by its position in the log.  A text     *)
(* event is a message's deltas together with their completion.  The        *)
(* transcript and the binding are entries of one file, in the order they   *)
(* are appended.  The agent has one stream call at a time.  A turn may     *)
(* have several open tool calls, told apart by their call IDs.  Reasoning, *)
(* streamed tool arguments, permission requests and the choice of a model  *)
(* are left out, and so are failures of the session file and of            *)
(* cancellations, and the runtime error of a session.                      *)
(***************************************************************************)
EXTENDS Naturals, Sequences, FiniteSets, SequencesExt

CONSTANTS
  MaxPrompts,    \* bound: inputs, told apart by their canonical digest
  MaxTurns,      \* bound: attempts the bridge makes up
  Script,        \* bound: what each turn emits before its terminal event
  MaxLag,        \* bound: events an observer that is up has not applied
  MaxTroubles    \* bound: aborts, failed submissions, foreign events, and ends of the
                 \* runtime or the process, together

ASSUME BridgeAssumption ==
  /\ MaxTurns \in Nat /\ MaxLag \in Nat /\ MaxTroubles \in Nat /\ MaxPrompts \in Nat
  /\ Script \in [1..MaxTurns -> Seq([kind : {"start", "text", "call", "result"}, callId : Nat])]

Turns == 1..MaxTurns
Prompts == 1..MaxPrompts \* in the order they are first submitted
NoPrompt == 0
Foreign == 0             \* no turn of this bridge; no attempt

VARIABLES
  \* the engine
  log,                     \* the session's events
  admitted,                \* attempts in the order the engine admitted them
  cancelled,               \* turns that are not over and were asked to be cancelled
  \* durable, in the session file
  transcript,              \* events with a message in it
  binding,                 \* the cursor and the turns it calls its own
  \* the stream call and its submission
  request,                 \* the call: where #startTurn is, "streaming" and "ended" after it
  made,                    \* how many attempts there were
  sent,                    \* attempts that may yet be admitted
  call,                    \* session.submit: the attempt whose answer is out
  late,                    \* the recovery of an interrupted submission
  pendingSubmit,
  recoveringAfterAbort,    \* attempts with this field set
  correlated,              \* attempts with a turnId
  observedSubmitAttempts,
  \* the projection
  ownedSubmissions,
  sinks,
  undurableSinks,          \* turns with something shown that no cursor may pass
  adoptedTerminalTurnIds,
  terminalCursor,          \* held back
  receipts,                \* events with a message in it at activation
  obs,                     \* #observe
  writes,                  \* bindingWritePromise: persists in order
  \* the runtime
  life,                    \* "up", "closing", "down"
  failed,                  \* #observeFailure
  troubles,
  \* history
  twice,                   \* events stored a second time
  skipped,                 \* passed by the recovery from a snapshot
  discarded,               \* ends pushed to a stream the agent had left
  dropped                  \* in a stream, behind the cursor, when the process died

engine == <<log, admitted>>
wire == <<sent, call>>
submission == <<pendingSubmit, recoveringAfterAbort, correlated, observedSubmitAttempts>>
projection == <<sinks, undurableSinks, adoptedTerminalTurnIds, terminalCursor>>
runtime == <<receipts, life, failed, troubles>>
history == <<twice, skipped, discarded, dropped>>
vars == <<log, admitted, cancelled, transcript, binding, request, made, sent, call, late,
          pendingSubmit, recoveringAfterAbort, correlated,
          observedSubmitAttempts, ownedSubmissions, sinks, undurableSinks,
          adoptedTerminalTurnIds, terminalCursor, receipts, obs, writes, life, failed, troubles,
          twice, skipped, discarded, dropped>>

--------------------------------------------------------------------------------
Terminal == {"end", "fail"}
Projecting == {"text", "call", "result", "end", "fail"}
Kinds == Projecting \cup {"start", "foreign", "session"}
Events == 1..Len(log)

(* How much of its script a turn has emitted, and whether it is over.      *)
Emitted(t) == Cardinality({i \in Events : log[i].turn = t})
Over(t) == \E i \in Events : log[i].turn = t /\ log[i].kind \in Terminal

(* A sink has the call IDs of the calls and of the results it projected    *)
(* (projectedToolCallIds, projectedToolResultIds): those that were called  *)
(* and not answered are its toolCallsByCallId.                             *)
NoSink == [adopted |-> FALSE, left |-> FALSE, text |-> 0, called |-> {}, answered |-> {},
           live |-> FALSE]
NewSink(adopted) == [NoSink EXCEPT !.adopted = adopted, !.live = TRUE]

(* The stream call: the input it asks for, the attempt it submits, its     *)
(* signal, and the event of the message its stream ended with.             *)
NoAttempt == [id |-> 0, digest |-> NoPrompt]
Idle == [pc |-> "idle", digest |-> NoPrompt, id |-> 0, aborted |-> FALSE, message |-> 0]
Ended(e) == [Idle EXCEPT !.pc = "ended", !.message = e]
pc == request.pc
message == request.message

inFlight == pc \in {"commit", "ready", "submit", "own"}      \* #submissionsInFlight
Working == obs.pc \in {"apply", "write"}                     \* #eventApplicationsInFlight

Observer(p, at) == [pc |-> p, at |-> at, woken |-> FALSE, todo |-> <<>>]
Stopped == Observer("stopped", 0)

Init ==
  /\ log = <<>> /\ admitted = <<>> /\ cancelled = {} /\ transcript = {}
  /\ binding = [cursor |-> 0, owned |-> {}]
  /\ request = Idle /\ made = 0
  /\ sent = {} /\ call = NoAttempt /\ late = "none"
  /\ pendingSubmit = NoAttempt /\ recoveringAfterAbort = {}
  /\ correlated = {} /\ observedSubmitAttempts = {}
  /\ ownedSubmissions = {} /\ undurableSinks = {} /\ adoptedTerminalTurnIds = {}
  /\ sinks = [t \in Turns |-> NoSink]
  /\ terminalCursor = 0 /\ receipts = {} /\ writes = <<>>
  /\ obs = Observer("read", 1)
  /\ life = "up" /\ failed = FALSE /\ troubles = 0
  /\ twice = {} /\ skipped = {} /\ discarded = {} /\ dropped = {}

--------------------------------------------------------------------------------
(* The engine: it runs the turns in the order it admitted them.            *)

Admit ==
  /\ \E a \in sent \ Range(admitted) : admitted' = Append(admitted, a)
  /\ UNCHANGED <<log, cancelled, transcript, binding, request, made, wire, late, submission,
                 ownedSubmissions, projection, obs, writes, runtime, history>>

Unhurried == life # "up" \/ failed \/ Len(log) < obs.at - 1 + MaxLag

Trouble == troubles < MaxTroubles /\ troubles' = troubles + 1

(* The call ID of a tool call or its result; 0 of other events.            *)
CallId(t, k) == IF k \in Terminal THEN 0 ELSE Script[t][Emitted(t) + 1].callId

Emit(t, k) ==
  /\ k \in Terminal \/ Unhurried
  /\ t \in Range(admitted) /\ ~Over(t)
  /\ \A i, j \in DOMAIN admitted : i < j /\ admitted[j] = t => Over(admitted[i])
  /\ CASE k = "end"  -> Emitted(t) = Len(Script[t])
       [] k = "fail" -> TRUE
       [] OTHER      -> Emitted(t) < Len(Script[t]) /\ k = Script[t][Emitted(t) + 1].kind
  /\ log' = Append(log, [turn |-> t, kind |-> k, callId |-> CallId(t, k)])
  /\ cancelled' = IF k \in Terminal THEN cancelled \ {t} ELSE cancelled
  /\ UNCHANGED <<admitted, transcript, binding, request, made, wire, late,
                 submission, ownedSubmissions, projection, obs, writes, runtime, history>>

(* An event of the session, or of a turn some other client submitted.      *)
EmitForeign ==
  /\ Unhurried /\ Trouble
  /\ \E k \in {"foreign", "session"} :
       log' = Append(log, [turn |-> Foreign, kind |-> k, callId |-> 0])
  /\ UNCHANGED <<admitted, cancelled, transcript, binding, request, made, wire, late,
                 submission, ownedSubmissions, projection, obs, writes, receipts, life, failed,
                 history>>

--------------------------------------------------------------------------------
(* Helpers of the bridge.                                                  *)

(* Storing a message of event e: appendMessage of the session.             *)
Store(e) ==
  /\ transcript' = transcript \cup {e}
  /\ twice' = IF e \in transcript THEN twice \cup {e} ELSE twice

(* Mutant: nobody is notified.                                             *)
NotNotified(o) == o

(* What the observer becomes when ownership waiters are notified, and when *)
(* a submission it waits for has ended.                                    *)
Notified(o) == [o EXCEPT !.woken = @ \/ o.pc \in {"wait", "waitOwner"}]
SubmissionEnded(o) == [o EXCEPT !.woken = @ \/ o.pc = "wait"]

(* An attempt in doubt becomes the pending submission; it is settled; and  *)
(* #rememberObservedSubmit.                                                *)
Pending(a) == pendingSubmit' = IF pendingSubmit = NoAttempt THEN a ELSE pendingSubmit
Cleared(a) == pendingSubmit' = IF pendingSubmit.id = a.id THEN NoAttempt ELSE pendingSubmit
Settled(a) == Cleared(a) /\ observedSubmitAttempts' = observedSubmitAttempts \cup {a}

Persist(w) == writes' = Append(writes, w)
OwnWrite(by, t) == [by |-> by, cursor |-> 0, owned |-> {t}]
CursorWrite(by, c, owned) == [by |-> by, cursor |-> c, owned |-> owned]

(* The observation is aborted, and its waits return.                       *)
Halted == IF Working THEN obs ELSE Stopped

Natives == {t \in Turns : sinks[t].live /\ ~sinks[t].adopted}

(* The end of #startTurn for a call that is not to be streamed: its stream *)
(* has an error, of no event.                                              *)
Refused == request' = IF request.aborted THEN Idle ELSE Ended(0)

(* session.cancel, which a turn that is over ignores.                      *)
Cancel(S) == cancelled' = cancelled \cup {t \in S : ~Over(t)}

(* #invalidateBridge and the sinks it fails: native turns are cancelled.   *)
Invalidated ==
  /\ failed' = TRUE
  /\ sinks' = [t \in Turns |-> NoSink]
  /\ Cancel(Natives)

--------------------------------------------------------------------------------
(* The stream call.                                                        *)

(* #startTurn up to the commit of a held cursor.  (While a sink is         *)
(* undurable the commit throws, which invalidates the bridge.)             *)
Stream(p) ==
  /\ pc = "idle" /\ life = "up" /\ ~failed
  /\ LET known == {a.digest : a \in {pendingSubmit} \cup observedSubmitAttempts}
     IN  p \in known \/ 1..(p - 1) \subseteq known
  /\ IF terminalCursor = 0
       THEN /\ request' = [Idle EXCEPT !.pc = "ready", !.digest = p]
            /\ UNCHANGED <<writes, failed, sinks, cancelled, obs>>
       ELSE IF undurableSinks # {}
              THEN /\ request' = Ended(0) /\ Invalidated
                   /\ obs' = Halted
                   /\ UNCHANGED writes
              ELSE /\ request' = [Idle EXCEPT !.pc = "commit", !.digest = p]
                   /\ Persist(CursorWrite("held", terminalCursor, ownedSubmissions))
                   /\ UNCHANGED <<failed, sinks, cancelled, obs>>
  /\ UNCHANGED <<engine, transcript, binding, made, wire, late, submission,
                 ownedSubmissions, undurableSinks, adoptedTerminalTurnIds, terminalCursor,
                 receipts, life, troubles, history>>

(* The attempt a call submits: the unresolved one, one of the same input   *)
(* whose turn was observed meanwhile, or a new one.                        *)
Attempt ==
  IF pendingSubmit # NoAttempt THEN pendingSubmit
  ELSE LET same == {a \in observedSubmitAttempts : a.digest = request.digest}
       IN  IF same # {} THEN CHOOSE a \in same : TRUE
           ELSE [id |-> made + 1, digest |-> request.digest]

(* Another prompt while one is unresolved, and any while its cancellation  *)
(* is, is refused.                                                         *)
Unresolved ==
  /\ pendingSubmit # NoAttempt
  /\ pendingSubmit.digest # request.digest \/ pendingSubmit.id \in recoveringAfterAbort

(* The rest of #startTurn up to session.submit.  (A call that would take   *)
(* one more attempt than the bound ends as if it were aborted in time.)    *)
Submit ==
  /\ pc = "ready"
  /\ IF Unresolved \/ request.aborted \/ Attempt.id \notin Turns
       THEN Refused /\ obs' = SubmissionEnded(obs) /\ UNCHANGED <<made, wire>>
       ELSE /\ request' = [request EXCEPT !.pc = "submit", !.id = Attempt.id]
            /\ call' = Attempt /\ sent' = sent \cup {Attempt.id}
            /\ made' = IF Attempt.id > made THEN Attempt.id ELSE made
            /\ UNCHANGED obs
  /\ UNCHANGED <<engine, cancelled, transcript, binding, late, submission, ownedSubmissions,
                 projection, writes, runtime, history>>

(* Mutant: the signal is not looked at again.                              *)
UnwantedUnlessAborted == failed \/ life # "up"

(* The turn is admitted, and nobody is going to take what it answers.      *)
Unwanted == failed \/ life # "up" \/ request.aborted

(* #startTurn after #recordOwnedSubmission.                                *)
Installed(a) ==
  /\ ownedSubmissions' = ownedSubmissions \cup {a}
  /\ Cleared([id |-> a])
  /\ IF Unwanted THEN Cancel({a}) ELSE UNCHANGED cancelled
  /\ IF failed \/ life # "up"
       THEN Refused /\ UNCHANGED sinks
       ELSE /\ sinks' = [sinks EXCEPT ![a] = [NewSink(FALSE) EXCEPT !.left = request.aborted]]
            /\ request' = IF request.aborted THEN Idle
                          ELSE [Idle EXCEPT !.pc = "streaming", !.id = a]
  /\ obs' = Notified(obs)

(* The receipt of the submission.  A turn that was adopted before it came  *)
(* is not asked for again.  (No other call streams it, so the collision    *)
(* of lines 660-663 cannot happen.)                                        *)
Receipt ==
  /\ pc = "submit" /\ call.id \in Range(admitted)
  /\ call' = NoAttempt /\ correlated' = correlated \cup {call.id}
  /\ IF call.id \in adoptedTerminalTurnIds \/ sinks[call.id].adopted
       THEN /\ Settled(call) /\ Refused
            /\ obs' = SubmissionEnded(obs)
            /\ UNCHANGED <<cancelled, writes, ownedSubmissions, sinks>>
       ELSE IF call.id \in ownedSubmissions
              THEN Installed(call.id) /\ UNCHANGED <<observedSubmitAttempts, writes>>
              ELSE /\ Persist(OwnWrite("own", call.id))
                   /\ request' = [request EXCEPT !.pc = "own"]
                   /\ UNCHANGED <<cancelled, pendingSubmit, observedSubmitAttempts,
                                  ownedSubmissions, sinks, obs>>
  /\ UNCHANGED <<engine, transcript, binding, made, sent, late, recoveringAfterAbort,
                 undurableSinks, adoptedTerminalTurnIds, terminalCursor, runtime, history>>

(* The submission is rejected, or fails so that nobody knows whether it    *)
(* was admitted or may yet be.                                             *)
Rejected(ambiguous) ==
  /\ pc = "submit" /\ Refused /\ Trouble
  /\ call' = NoAttempt
  /\ \/ ambiguous /\ Pending(call) /\ UNCHANGED sent
     \/ ~ambiguous /\ call.id \notin Range(admitted) /\ sent' = sent \ {call.id}
        /\ UNCHANGED pendingSubmit
  /\ obs' = SubmissionEnded(obs)
  /\ UNCHANGED <<engine, cancelled, transcript, binding, made, late, recoveringAfterAbort,
                 correlated, observedSubmitAttempts, ownedSubmissions, projection, writes,
                 receipts, life, failed, history>>

(* The answer is no longer waited for in #startTurn but recovered later.   *)
Interrupted ==
  /\ recoveringAfterAbort' = recoveringAfterAbort \cup {call.id}
  /\ Pending(call)
  /\ late' = "wait"
  /\ obs' = SubmissionEnded(obs)

(* The signal of the call: the agent leaves the stream at once.            *)
Abort ==
  /\ ~request.aborted /\ Trouble
  /\ \/ /\ pc \in {"commit", "ready", "own"}
        /\ request' = [request EXCEPT !.aborted = TRUE]
        /\ UNCHANGED <<cancelled, late, submission, sinks, obs>>
     \/ /\ pc = "submit" /\ Interrupted
        /\ request' = Idle
        /\ UNCHANGED <<cancelled, correlated, observedSubmitAttempts, sinks>>
     \/ /\ pc = "streaming" /\ request' = Idle
        /\ Cancel({request.id})
        /\ sinks' = [sinks EXCEPT ![request.id].left = TRUE]
        /\ UNCHANGED <<late, submission, obs>>
  /\ UNCHANGED <<engine, transcript, binding, made, wire,
                 ownedSubmissions, undurableSinks, adoptedTerminalTurnIds, terminalCursor,
                 writes, receipts, life, failed, history>>

(* The agent takes the last message from the stream; one of an event is    *)
(* stored with its receipt.                                                *)
Consume ==
  /\ pc = "ended" /\ request' = Idle
  /\ IF message # 0 THEN Store(message) ELSE UNCHANGED <<transcript, twice>>
  /\ UNCHANGED <<engine, cancelled, binding, made, wire, late, submission, ownedSubmissions,
                 projection, obs, writes, runtime, skipped, discarded, dropped>>

--------------------------------------------------------------------------------
(* The recovery of an interrupted submission.                              *)

(* #finishInterruptedSubmission up to the persist of the ownership.        *)
LateReceipt ==
  /\ late = "wait" /\ call.id \in Range(admitted)
  /\ call' = NoAttempt
  /\ IF life # "up" \/ failed
       THEN /\ Cancel({call.id})
            /\ Cleared(call)
            /\ correlated' = correlated \cup {call.id} /\ late' = "none"
            /\ UNCHANGED <<observedSubmitAttempts, writes>>
       ELSE IF call.id \in adoptedTerminalTurnIds
         THEN /\ Settled(call)
              /\ correlated' = correlated \cup {call.id} /\ late' = "none"
              /\ UNCHANGED <<cancelled, writes>>
         ELSE IF call.id \in ownedSubmissions
           THEN /\ Cancel({call.id})
                /\ correlated' = correlated \cup {call.id} /\ late' = "none"
                /\ UNCHANGED <<pendingSubmit, observedSubmitAttempts, writes>>
           ELSE /\ Persist(OwnWrite("late", call.id)) /\ late' = "own"
                /\ UNCHANGED <<cancelled, pendingSubmit, correlated, observedSubmitAttempts>>
  /\ UNCHANGED <<engine, transcript, binding, request, made, sent, recoveringAfterAbort,
                 ownedSubmissions, projection, obs, runtime, history>>

(* #handleInterruptedSubmissionRejection.                                  *)
LateRejected(ambiguous) ==
  /\ late = "wait" /\ late' = "none" /\ Trouble
  /\ call' = NoAttempt /\ recoveringAfterAbort' = recoveringAfterAbort \ {call.id}
  /\ IF ambiguous
       THEN UNCHANGED <<sent, pendingSubmit, obs>>
       ELSE /\ call.id \notin Range(admitted) /\ sent' = sent \ {call.id}
            /\ Cleared(call)
            /\ obs' = IF pendingSubmit.id = call.id THEN Notified(obs) ELSE obs
  /\ UNCHANGED <<engine, cancelled, transcript, binding, request, made, correlated,
                 observedSubmitAttempts, ownedSubmissions, projection, writes, receipts, life,
                 failed, history>>

--------------------------------------------------------------------------------
(* The observer: one event after the other.                                *)

SinkOf(t) == IF t = Foreign THEN NoSink ELSE sinks[t]

(* What the application of an event has left to do: "store" a message of   *)
(* e, "call" (a tool call's), "commit" e, or "close" the sink of t.        *)
Op(op, e) == [op |-> op, e |-> e, t |-> log[e].turn]

(* Mutant: the receipts are not asked.                                     *)
StoreAgain(e) == <<Op("store", e)>>

(* What is replayed is projected only if the transcript has no receipt.    *)
StoreUnlessReceipt(e) == IF e \in receipts THEN <<>> ELSE <<Op("store", e)>>

(* #flushAssistantText                                                     *)
Flush(s) ==
  IF s.text = 0 THEN <<>> ELSE StoreUnlessReceipt(s.text) \o <<Op("commit", s.text)>>

Applying(e, ops) ==
  obs' = IF ops = <<>> THEN Observer("read", e + 1)
         ELSE [pc |-> "apply", at |-> e, woken |-> FALSE, todo |-> ops]

(* One op is done; an aborted observation ends with the event.             *)
Advanced(up) ==
  IF Len(obs.todo) > 1 THEN [obs EXCEPT !.pc = "apply", !.todo = Tail(@)]
  ELSE IF up THEN Observer("read", obs.at + 1) ELSE Stopped

(* Mutant: the pending submission stays.                                   *)
SettleNothing(t) == UNCHANGED <<pendingSubmit, observedSubmitAttempts>>

(* #settlePendingSubmit                                                    *)
SettleSink(t) ==
  IF pendingSubmit.id = t /\ t \in correlated THEN Settled(pendingSubmit)
  ELSE UNCHANGED <<pendingSubmit, observedSubmitAttempts>>

(* #completeSink and #terminalFailure of a turn that has a stream: its     *)
(* last message goes there and the cursor is held.                         *)
NativeTerminal(e, t) ==
  /\ undurableSinks' = undurableSinks \ {t}
  /\ terminalCursor' = e
  /\ sinks' = [sinks EXCEPT ![t] = NoSink]
  /\ SettleSink(t)
  /\ IF sinks[t].left
       THEN discarded' = discarded \cup {e} /\ UNCHANGED request
       ELSE request' = Ended(e) /\ UNCHANGED discarded
  /\ Applying(e, <<>>)

(* A tool call or a result whose call ID the sink has seen before does     *)
(* nothing.                                                                *)
Ignored(e, s) ==
  \/ log[e].kind = "call" /\ log[e].callId \in s.called
  \/ log[e].kind = "result" /\ log[e].callId \in s.answered

(* #applyEvent on the sink s of the turn.                                  *)
Project(e, t, s) ==
  LET k == log[e].kind
      id == log[e].callId
      Keep(x) == sinks' = [sinks EXCEPT ![t] = x]
  IN
  /\ ownedSubmissions' = IF k = "fail" THEN ownedSubmissions \ {t} ELSE ownedSubmissions
  /\ IF k \in Terminal /\ ~s.adopted
       THEN NativeTerminal(e, t)
       ELSE /\ IF Ignored(e, s) THEN Keep(s) /\ Applying(e, <<>>)
               ELSE CASE k = "start"  -> Keep([s EXCEPT !.text = 0])
                                         /\ Applying(e, Flush(s) \o <<Op("commit", e)>>)
                      [] k = "text"   -> Keep([s EXCEPT !.text = e]) /\ Applying(e, <<>>)
                      [] k = "call"   -> Keep([s EXCEPT !.text = 0, !.called = @ \cup {id}])
                                         /\ Applying(e, Flush(s) \o <<Op("call", e)>>)
                      [] k = "result" -> Keep([s EXCEPT !.answered = @ \cup {id}])
                                         /\ Applying(e, StoreUnlessReceipt(e) \o <<Op("commit", e)>>)
                      [] OTHER        -> Keep(s)
                                         /\ Applying(e, StoreUnlessReceipt(e)
                                                        \o <<Op("commit", e), Op("close", e)>>)
            /\ undurableSinks' = IF k = "text" THEN undurableSinks \cup {t} ELSE undurableSinks
            /\ UNCHANGED <<terminalCursor, request, discarded, pendingSubmit,
                           observedSubmitAttempts>>

(* The end of #applyTurnEvent: an event of a turn that is nobody's here    *)
(* only moves the cursor; a turn of our own without a sink is adopted.     *)
Apply(e, t) ==
  IF ~SinkOf(t).live /\ t \notin ownedSubmissions
    THEN /\ Applying(e, <<Op("commit", e)>>)
         /\ UNCHANGED <<ownedSubmissions, sinks, undurableSinks, terminalCursor, request,
                        discarded, pendingSubmit, observedSubmitAttempts>>
    ELSE Project(e, t, IF SinkOf(t).live THEN sinks[t] ELSE NewSink(TRUE))

Waiting(p) ==
  /\ obs' = [obs EXCEPT !.pc = p, !.woken = FALSE]
  /\ UNCHANGED <<ownedSubmissions, sinks, undurableSinks, terminalCursor, request,
                 discarded, pendingSubmit, observedSubmitAttempts>>

(* It may be a turn whose submission is in doubt: wait for its owner.      *)
InDoubt(t) ==
  /\ ~SinkOf(t).live /\ t \notin ownedSubmissions
  /\ pendingSubmit # NoAttempt /\ pendingSubmit.id \notin correlated

Correlate(e, t) == IF InDoubt(t) THEN Waiting("waitOwner") ELSE Apply(e, t)

ObserveUnchanged ==
  UNCHANGED <<engine, cancelled, transcript, binding, made, wire, late, recoveringAfterAbort,
              correlated, adoptedTerminalTurnIds, writes, runtime, twice, skipped, dropped>>

(* An event of a turn without a sink waits for the submissions that are    *)
(* under way.                                                              *)
AwaitsSubmission(t) ==
  ~SinkOf(t).live /\ inFlight /\ pendingSubmit.id \notin recoveringAfterAbort

(* The observer has come to the result of a call that the sink of its turn *)
(* does not have: #projectToolResult throws.                               *)
MidTool ==
  /\ obs.pc = "read" \/ obs.woken
  /\ obs.at \in Events /\ log[obs.at].kind = "result"
  /\ LET t == log[obs.at].turn
     IN  /\ SinkOf(t).live \/ t \in ownedSubmissions
         /\ obs.pc = "read" => ~AwaitsSubmission(t)
         /\ log[obs.at].callId \notin SinkOf(t).called \cup SinkOf(t).answered

(* The next event.                                                         *)
Observe ==
  /\ obs.pc = "read" /\ obs.at \in Events /\ life = "up" /\ ~failed /\ ~MidTool
  /\ LET t == log[obs.at].turn
     IN  IF log[obs.at].kind = "session"
           THEN /\ Applying(obs.at, <<Op("commit", obs.at)>>)
                /\ UNCHANGED <<ownedSubmissions, sinks, undurableSinks, terminalCursor,
                               request, discarded, pendingSubmit, observedSubmitAttempts>>
           ELSE IF AwaitsSubmission(t) THEN Waiting("wait") ELSE Correlate(obs.at, t)
  /\ ObserveUnchanged

(* The observer goes on after either wait.                                 *)
Woken ==
  /\ obs.woken /\ ~MidTool
  /\ LET t == log[obs.at].turn
     IN  IF obs.pc = "wait" THEN Correlate(obs.at, t) ELSE Apply(obs.at, t)
  /\ ObserveUnchanged

ApplyUnchanged ==
  UNCHANGED <<engine, cancelled, binding, request, made, wire, late, recoveringAfterAbort,
              correlated, ownedSubmissions, runtime, skipped, discarded, dropped>>

(* Mutant: an open tool call does not keep the cursor back.                *)
KeptBackNot(op) == undurableSinks

(* A tool call keeps the cursor back until its result.                     *)
KeptBack(op) == IF op.op = "call" THEN undurableSinks \cup {op.t} ELSE undurableSinks

(* emitAgentEvent: the message is stored.                                  *)
StoreMessage ==
  /\ obs.pc = "apply"
  /\ LET op == Head(obs.todo)
     IN  /\ op.op \in {"store", "call"}
         /\ undurableSinks' = KeptBack(op)
         /\ IF op.op = "call" /\ op.e \in receipts THEN UNCHANGED <<transcript, twice>>
            ELSE Store(op.e)
  /\ obs' = Advanced(life = "up" /\ ~failed)
  /\ ApplyUnchanged
  /\ UNCHANGED <<pendingSubmit, observedSubmitAttempts, sinks, adoptedTerminalTurnIds,
                 terminalCursor, writes>>

(* Mutant: every commit goes through.                                      *)
NothingUndurable(op) == {}

(* The sinks that still have something undurable once op is done.          *)
Undurable(op) == IF log[op.e].kind = "start" THEN undurableSinks ELSE undurableSinks \ {op.t}

(* Mutant: a held cursor does not keep later ones back.                    *)
HeldNot == FALSE

(* A cursor is held: later ones join it.                                   *)
Held == terminalCursor # 0

(* #commit, with what is shown of the turn now complete.                   *)
Commit ==
  /\ obs.pc = "apply"
  /\ LET op == Head(obs.todo)
     IN  /\ op.op = "commit"
         /\ undurableSinks' = Undurable(op)
         /\ IF Undurable(op) # {}
              THEN obs' = Advanced(life = "up" /\ ~failed) /\ UNCHANGED <<terminalCursor, writes>>
              ELSE IF Held
                THEN /\ terminalCursor' = op.e
                     /\ obs' = Advanced(life = "up" /\ ~failed)
                     /\ UNCHANGED writes
                ELSE /\ Persist(CursorWrite("obs", op.e, ownedSubmissions))
                     /\ obs' = [obs EXCEPT !.pc = "write"]
                     /\ UNCHANGED terminalCursor
  /\ ApplyUnchanged
  /\ UNCHANGED <<transcript, twice, pendingSubmit, observedSubmitAttempts, sinks,
                 adoptedTerminalTurnIds>>

(* The rest of #completeSink and #terminalFailure of an adopted turn.      *)
CloseSink ==
  /\ obs.pc = "apply"
  /\ LET op == Head(obs.todo)
     IN  /\ op.op = "close"
         /\ SettleSink(op.t)
         /\ adoptedTerminalTurnIds' = adoptedTerminalTurnIds \cup {op.t}
         /\ sinks' = [sinks EXCEPT ![op.t] = NoSink]
  /\ obs' = Advanced(life = "up" /\ ~failed)
  /\ ApplyUnchanged
  /\ UNCHANGED <<transcript, twice, undurableSinks, terminalCursor, writes>>

--------------------------------------------------------------------------------
(* persistBinding: the writes are done in order, and whoever asked for one *)
(* goes on.                                                                *)

(* addOwnedSubmission and advanceProjectionBinding, appended and flushed.  *)
(* (A write that rolled the cursor back would be refused: CommitsInOrder.) *)
Written(by) ==
  /\ writes # <<>> /\ Head(writes).by = by
  /\ writes' = Tail(writes)
  /\ LET w == Head(writes)
     IN  binding' = IF by \in {"own", "late"} THEN [binding EXCEPT !.owned = @ \cup w.owned]
                    ELSE [cursor |-> w.cursor, owned |-> w.owned]

WrittenObserved ==
  /\ Written("obs")
  /\ obs' = Advanced(life = "up" /\ ~failed)
  /\ UNCHANGED <<engine, cancelled, transcript, request, made, wire, late, submission,
                 ownedSubmissions, projection, runtime, history>>

(* The held cursor is durable: #startTurn goes on.                         *)
WrittenHeld ==
  /\ Written("held")
  /\ terminalCursor' = 0 /\ request' = [request EXCEPT !.pc = "ready"]
  /\ UNCHANGED <<engine, cancelled, transcript, made, wire, late, submission,
                 ownedSubmissions, sinks, undurableSinks, adoptedTerminalTurnIds, obs, runtime,
                 history>>

WrittenOwn ==
  /\ Written("own")
  /\ Installed(request.id)
  /\ UNCHANGED <<engine, transcript, made, wire, late, recoveringAfterAbort, correlated,
                 observedSubmitAttempts, undurableSinks, adoptedTerminalTurnIds, terminalCursor,
                 runtime, history>>

(* The rest of #finishInterruptedSubmission: the turn is ours, and to end. *)
WrittenLate ==
  /\ Written("late")
  /\ \E a \in Head(writes).owned :
       /\ ownedSubmissions' = ownedSubmissions \cup {a}
       /\ correlated' = correlated \cup {a}
       /\ Cancel({a})
  /\ late' = "none"
  /\ obs' = Notified(obs)
  /\ UNCHANGED <<engine, transcript, request, made, wire, pendingSubmit,
                 recoveringAfterAbort, observedSubmitAttempts, projection, runtime, history>>

--------------------------------------------------------------------------------
(* The end of the bridge.                                                  *)

FailedSinks ==
  /\ sinks' = [t \in Turns |-> NoSink]
  /\ Cancel(Natives)
  /\ request' = IF pc = "streaming" THEN Ended(0) ELSE request

(* The event stream ends or breaks, or the projection throws:              *)
(* #invalidateBridge.                                                      *)
ObserverLost ==
  /\ life = "up" /\ ~failed
  /\ \/ obs.pc = "read" /\ Trouble
     \/ MidTool /\ UNCHANGED troubles
  /\ failed' = TRUE
  /\ FailedSinks
  /\ obs' = Halted
  /\ UNCHANGED <<engine, transcript, binding, made, wire, late, submission, ownedSubmissions,
                 undurableSinks, adoptedTerminalTurnIds, terminalCursor, receipts, writes, life,
                 history>>

(* #performClose up to its first wait.                                     *)
BeginClose ==
  /\ life = "up" /\ life' = "closing"
  /\ IF failed THEN UNCHANGED troubles ELSE Trouble
  /\ FailedSinks
  /\ obs' = Halted
  /\ UNCHANGED <<engine, transcript, binding, made, wire, late, submission, ownedSubmissions,
                 undurableSinks, adoptedTerminalTurnIds, terminalCursor, receipts, failed,
                 writes, history>>

(* Mutant: the close waits for the answer, however long.                   *)
CloseInterruptNot == FALSE /\ UNCHANGED vars

(* CLOSE_SUBMISSION_GRACE_MS is over: #closeAdmissionAbort.                *)
CloseInterrupt ==
  /\ life = "closing" /\ pc = "submit"
  /\ Interrupted /\ Refused
  /\ UNCHANGED <<engine, cancelled, transcript, binding, made, wire, correlated,
                 observedSubmitAttempts, ownedSubmissions, projection, writes, runtime, history>>

(* The rest of #performClose, up to the commit of a held cursor.           *)
CloseCommit ==
  /\ life = "closing" /\ ~inFlight /\ late # "own" /\ ~Working
  /\ IF terminalCursor # 0 /\ undurableSinks = {}
       THEN /\ life' = "committing"
            /\ Persist(CursorWrite("close", terminalCursor, ownedSubmissions))
       ELSE life' = "down" /\ UNCHANGED writes
  /\ adoptedTerminalTurnIds' = {} /\ observedSubmitAttempts' = {}
  /\ UNCHANGED <<engine, cancelled, transcript, binding, request, made, wire, late, pendingSubmit,
                 recoveringAfterAbort, correlated, ownedSubmissions, sinks, undurableSinks,
                 terminalCursor, obs, receipts, failed, troubles, history>>

WrittenClose ==
  /\ Written("close")
  /\ life' = "down" /\ terminalCursor' = 0
  /\ UNCHANGED <<engine, cancelled, transcript, request, made, wire, late, submission,
                 ownedSubmissions, sinks, undurableSinks, adoptedTerminalTurnIds, obs, receipts,
                 failed, troubles, history>>

(* Everything that is not durable.                                         *)
Forgotten ==
  /\ request' = Idle
  /\ call' = NoAttempt /\ late' = "none" /\ pendingSubmit' = NoAttempt
  /\ recoveringAfterAbort' = {}
  /\ correlated' = {} /\ observedSubmitAttempts' = {}
  /\ sinks' = [t \in Turns |-> NoSink]
  /\ undurableSinks' = {} /\ adoptedTerminalTurnIds' = {} /\ terminalCursor' = 0
  /\ writes' = <<>> /\ failed' = FALSE

(* The process dies.                                                       *)
Crash ==
  /\ life # "down" \/ pc = "ended"
  /\ Trouble
  /\ life' = "down"
  /\ Forgotten
  /\ ownedSubmissions' = {} /\ receipts' = {} /\ obs' = Stopped
  /\ dropped' = IF message # 0 /\ message <= binding.cursor THEN dropped \cup {message}
                ELSE dropped
  /\ UNCHANGED <<engine, cancelled, transcript, binding, made, sent, twice, skipped,
                 discarded>>

(* Mutant: one past the head.                                              *)
RecoveredPastHead(over) == IF over THEN Len(log) + 1 ELSE binding.cursor

(* The cursor a runtime starts from: the head if every turn is over.       *)
RecoveredCursor(over) == IF over THEN Len(log) ELSE binding.cursor

(* A runtime is prepared from the binding, activated and started.  If the  *)
(* snapshot says that every turn of ours is over, the cursor goes to the   *)
(* head.                                                                   *)
Restart ==
  /\ life = "down" /\ life' = "up"
  /\ pc # "ended"
  /\ Forgotten
  /\ LET head == RecoveredCursor(binding.owned # {} /\ \A t \in binding.owned : Over(t))
     IN  /\ binding' = [binding EXCEPT !.cursor = head]
         /\ skipped' = skipped \cup (binding.cursor + 1)..head
         /\ obs' = Observer("read", head + 1)
  /\ ownedSubmissions' = binding.owned /\ receipts' = transcript
  /\ UNCHANGED <<engine, cancelled, transcript, made, sent, troubles, twice, discarded, dropped>>

--------------------------------------------------------------------------------
StreamStep == Submit \/ Receipt \/ \E b \in BOOLEAN : Rejected(b)
LateStep == LateReceipt \/ \E b \in BOOLEAN : LateRejected(b)
ObserveStep == Observe \/ StoreMessage \/ Commit \/ CloseSink
WriteStep == WrittenObserved \/ WrittenHeld \/ WrittenOwn \/ WrittenLate
EmitTerminal == \E t \in Turns, k \in Terminal : Emit(t, k)

(* A woken observer goes on before the event loop takes anything else.     *)
Next ==
  \/ Admit \/ EmitForeign \/ \E t \in Turns, k \in Kinds : Emit(t, k)
  \/ Woken \/ ObserverLost \/ Crash
  \/ /\ ~obs.woken
     /\ \/ \E p \in Prompts : Stream(p)
        \/ StreamStep \/ Abort \/ Consume \/ LateStep
        \/ ObserveStep \/ WriteStep
        \/ BeginClose \/ CloseInterrupt \/ CloseCommit \/ WrittenClose
        \/ Restart

Spec == Init /\ [][Next]_vars

(* The event loop goes on by itself, the session file is written, the      *)
(* engine ends its turns, and it answers a submission or the request fails *)
(* while the bridge is up; a close ends the wait for the answer itself.    *)
Fairness ==
  /\ WF_vars(Submit) /\ WF_vars(ObserveStep) /\ WF_vars(Woken) /\ WF_vars(WriteStep)
  /\ WF_vars(MidTool /\ ObserverLost)
  /\ WF_vars(life = "up" /\ (Receipt \/ LateReceipt))
  /\ WF_vars(Admit) /\ WF_vars(Consume)
  /\ WF_vars(EmitTerminal)
  /\ WF_vars(CloseInterrupt \/ CloseCommit \/ WrittenClose)

FairSpec == Spec /\ Fairness

--------------------------------------------------------------------------------
(* Properties.                                                             *)

(* Every variable has its type.                                            *)
EventType == [turn : Turns \cup {Foreign}, kind : Kinds, callId : Nat]
BindingType == [cursor : 0..Len(log), owned : SUBSET Turns]
RequestType == [pc : {"idle", "commit", "ready", "submit", "own", "streaming", "ended"},
                digest : Prompts \cup {NoPrompt}, id : Turns \cup {0},
                aborted : BOOLEAN, message : 0..Len(log)]
AttemptType == [id : Turns, digest : Prompts]
SinkType == [adopted : BOOLEAN, left : BOOLEAN, text : 0..Len(log), called : SUBSET Nat,
             answered : SUBSET Nat, live : BOOLEAN]
OpType == [op : {"store", "call", "commit", "close"}, e : Events, t : Turns \cup {Foreign}]
WriteType == [by : {"own", "late", "held", "obs", "close"}, cursor : 0..Len(log),
              owned : SUBSET Turns]
ObsType == [pc : {"read", "wait", "waitOwner", "apply", "write", "stopped"}, at : Nat,
            woken : BOOLEAN, todo : Seq(OpType)]
TypeOK ==
  /\ log \in Seq(EventType)
  /\ admitted \in Seq(Turns) /\ cancelled \subseteq Turns
  /\ transcript \subseteq Events
  /\ binding \in BindingType /\ request \in RequestType
  /\ made \in 0..MaxTurns
  /\ sent \subseteq Turns /\ call \in AttemptType \cup {NoAttempt} /\ late \in {"none", "wait", "own"}
  /\ pendingSubmit \in AttemptType \cup {NoAttempt} /\ recoveringAfterAbort \subseteq Turns
  /\ correlated \subseteq Turns /\ observedSubmitAttempts \subseteq AttemptType
  /\ ownedSubmissions \subseteq Turns /\ sinks \in [Turns -> SinkType]
  /\ undurableSinks \subseteq Turns /\ adoptedTerminalTurnIds \subseteq Turns
  /\ terminalCursor \in 0..Len(log) /\ receipts \subseteq Events
  /\ obs \in ObsType /\ writes \in Seq(WriteType)
  /\ life \in {"up", "closing", "committing", "down"} /\ failed \in BOOLEAN /\ troubles \in Nat
  /\ twice \subseteq Events /\ skipped \subseteq Nat
  /\ discarded \subseteq Events /\ dropped \subseteq Events

(* An event that repeats the call, or the result, of a call ID.            *)
Repeated(e) == log[e].kind \in {"call", "result"} /\ \E d \in 1..(e - 1) : log[d] = log[e]

(* The text e is part of the message of f: the later text or the end of    *)
(* its turn that it was still open at.                                     *)
PartOf(e, f) ==
  /\ log[e].kind = "text" /\ log[f].kind \in Terminal \cup {"text"}
  /\ log[f].turn = log[e].turn /\ e <= f
  /\ \A g \in e..(f - 1) : log[g].turn = log[e].turn => log[g].kind = "text" \/ Repeated(g)

(* The durable cursor never passes a message of a turn of ours that is not *)
(* in the transcript, on its own or as part of a later one, except in the  *)
(* ways named by the history variables: a restart begins after the cursor, *)
(* so what it passes is never shown.                                       *)
Accounted == transcript \cup skipped \cup discarded \cup dropped \cup {message}
Shown(e) == e \in Accounted \/ \E f \in Accounted \cap Events : PartOf(e, f)
CursorCovered ==
  \A e \in 1..binding.cursor :
    /\ log[e].turn \in binding.owned \cup ownedSubmissions
    /\ log[e].kind \in Projecting /\ ~Repeated(e)
    => Shown(e)

(* The cursor that covers the last message of a native turn is not durable *)
(* before the agent has stored the message, unless the runtime is closing. *)
HeldUntilStored ==
  life = "up" /\ message # 0 => binding.cursor < message

(* No message is stored twice, whatever is replayed after a restart and    *)
(* whichever of the stream and the observer stored it first.               *)
ProjectedOnce == twice = {}

(* Whoever asks for a cursor to be written, the observer, the next call or *)
(* the close: in the order of the queue no cursor is behind an earlier one *)
(* or the binding, so that no write is refused as a rollback.              *)
MovesCursor(i) == writes[i].cursor # 0
CommitsInOrder ==
  \A i \in DOMAIN writes : MovesCursor(i) =>
    /\ binding.cursor <= writes[i].cursor
    /\ \A j \in DOMAIN writes : i < j /\ MovesCursor(j) => writes[i].cursor <= writes[j].cursor


(* A result does so at least while nothing of its turn was committed since *)
(* its call: no text and no result came between.                           *)
OnlyCallRetained ==
  MidTool =>
    \A c \in 1..(obs.at - 1) :
      /\ log[c].turn = log[obs.at].turn /\ log[c].kind = "call" /\ ~Repeated(c)
      /\ log[c].callId = log[obs.at].callId
      => \E f \in c..(obs.at - 1) : log[f].turn = log[c].turn /\ log[f].kind \in {"text", "result"}

(* A turn this process knows it submitted is streamed, or over, or the     *)
(* engine was asked to cancel it: whenever its receipt came, none is left  *)
(* running that nobody follows.                                            *)
NoneRunsUnseen ==
  \A t \in correlated :
    \/ Over(t) \/ t \in cancelled
    \/ sinks[t].live /\ ~sinks[t].left
    \/ pc = "own" /\ request.id = t

(* A stream call comes to an end.                                          *)
StreamAnswered == pc # "idle" ~> pc = "idle"

(* A close comes to an end, also while a submission is never answered.     *)
CloseEnds == life = "closing" ~> life = "down"

(* A submission that was interrupted does not keep the next ones from      *)
(* being made: its turn is found, cancelled and seen to end.               *)
InterruptionResolved ==
  late # "none" ~> (pendingSubmit.id \notin recoveringAfterAbort \/ life # "up" \/ failed)
================================================================================
