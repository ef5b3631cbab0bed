------------------------- MODULE TurnBridgeOrderProofs -------------------------
(***************************************************************************)
(* Proofs about TurnBridge: that a tool's result finds its call in the     *)
(* sink, whatever was read again, unless something of its turn was         *)
(* committed in between; and, while the engine lets no result come between *)
(* the texts of a message, that the cursors are written in order and none  *)
(* passes a message of ours.                                               *)
(***************************************************************************)
EXTENDS TurnBridgeProofs

USE DEF Turns, Prompts, NoPrompt, Foreign
USE Bounds

--------------------------------------------------------------------------------
(* The log of the engine.                                                  *)

\* The text at c is shut at f, however much of the log is read again before e: by
\* the start of a message, by a call that is the first of its call ID, or by one
\* of the result's own call ID, which was not answered when c was read.
Shuts(f, c, e) ==
  \/ log[f].kind = "start"
  \/ log[f].kind = "call" /\ ~Repeated(f)
  \/ /\ log[f].kind = "call" /\ log[f].callId = log[e].callId
     /\ \A g \in 1..c : log[g] = log[f] => \E r \in g..c : log[r] = log[e]

\* The logs that two of the theorems are about, a condition on the events the engine
\* sent and not on the script: between a text and a later result of its turn the
\* text was shut.  Calls may be open together, answered in any order and repeated;
\* what is left out is a text that comes while a tool is at work.  Every log in
\* e4-agent-stream.test.ts is of this kind, the one at line 1927 included.
TextsFlushed ==
  \A c, e \in Events :
    c < e /\ log[c].turn = log[e].turn /\ log[c].kind = "text" /\ log[e].kind = "result" =>
      \E f \in c..e : log[f].turn = log[e].turn /\ Shuts(f, c, e)

\* A turn begins when those before it are over: between the events of two turns
\* the first of them ended.
Queued ==
  \A i, j \in DOMAIN admitted :
    i < j /\ (\E e \in Events : log[e].turn = admitted[j]) => Over(admitted[i])
Separate ==
  \A e, f \in Events :
    e < f /\ log[e].turn \in Turns /\ log[f].turn \in Turns /\ log[e].turn # log[f].turn =>
      \E g \in Events : e <= g /\ g < f /\ log[g].turn = log[e].turn /\ log[g].kind \in Terminal
InTurn == Queued /\ Separate

LEMMA RepeatedKept ==
  ASSUME TypeOK, [Next]_vars, NEW e \in Events
  PROVE  Repeated(e)' <=> Repeated(e)
<1>1. /\ \A i \in Events : log'[i] = log[i] /\ i \in Nat
      /\ Len(log) \in Nat
  BY LogKeeps
<1>2. \A d \in 1..(e - 1) : d \in Events
  BY <1>1 DEF Events
<1> QED
  BY <1>1, <1>2 DEF Repeated

(* What is said of the log was so before.                                  *)
LEMMA FlushedBefore ==
  ASSUME TypeOK, [Next]_vars, TextsFlushed'
  PROVE  TextsFlushed
<1>1. /\ \A i \in Events : i \in Events' /\ log'[i] = log[i] /\ i \in Nat
      /\ Len(log) \in Nat
  BY LogKeeps
<1>2. SUFFICES ASSUME NEW c \in Events, NEW e \in Events,
                      c < e, log[c].turn = log[e].turn, log[c].kind = "text", log[e].kind = "result"
               PROVE  \E f \in c..e : log[f].turn = log[e].turn /\ Shuts(f, c, e)
  BY DEF TextsFlushed
<1>3. PICK f \in c..e : log'[f].turn = log'[e].turn /\ Shuts(f, c, e)'
  BY <1>1, <1>2 DEF TextsFlushed
<1>4. f \in Events /\ \A g \in 1..c : g \in Events /\ \A r \in g..c : r \in Events
  BY <1>1 DEF Events
<1>5. log'[f] = log[f] /\ log'[e] = log[e] /\ (Repeated(f)' <=> Repeated(f))
  BY <1>1, <1>4, RepeatedKept
<1>6. \A g \in 1..c : log'[g] = log[g] /\ \A r \in g..c : log'[r] = log[r]
  BY <1>1, <1>4
<1>7. Shuts(f, c, e)
  BY <1>3, <1>5, <1>6 DEF Shuts
<1> QED
  BY <1>3, <1>5, <1>7

\* The log grows by an event of a turn that is next, or by one of nobody here.
Emitting(t, k) ==
  /\ t \in Turns /\ t \in Range(admitted) /\ ~Over(t)
  /\ \A i, j \in DOMAIN admitted : i < j /\ admitted[j] = t => Over(admitted[i])
Grows(t, k) ==
  /\ \E c \in Nat : log' = Append(log, [turn |-> t, kind |-> k, callId |-> c])
  /\ UNCHANGED admitted
  /\ \/ t = Foreign /\ k \in {"foreign", "session"}
     \/ Emitting(t, k)

LEMMA EmitGrows ==
  ASSUME TypeOK, NEW t \in Turns, NEW k \in Kinds, Emit(t, k)
  PROVE  Grows(t, k)
<1>1. /\ t \in Range(admitted) /\ ~Over(t)
      /\ \A i, j \in DOMAIN admitted : i < j /\ admitted[j] = t => Over(admitted[i])
      /\ log' = Append(log, [turn |-> t, kind |-> k, callId |-> CallId(t, k)]) /\ UNCHANGED admitted
  BY DEF Emit
<1>2. CallId(t, k) \in Nat
  <2>1. CASE k \in Terminal
    BY <2>1 DEF CallId
  <2>2. CASE k \notin Terminal
    <3>1. k # "end" /\ k # "fail"
      BY <2>2 DEF Terminal
    <3>2. Emitted(t) < Len(Script[t])
      BY <3>1 DEF Emit
    <3>3. Script[t][Emitted(t) + 1] \in [kind : {"start", "text", "call", "result"}, callId : Nat]
      BY <3>2, NextScripted
    <3> QED
      BY <2>2, <3>3 DEF CallId
  <2> QED
    BY <2>1, <2>2
<1> QED
  BY <1>1, <1>2 DEF Grows, Emitting

LEMMA LogGrows ==
  ASSUME TypeOK, [Next]_vars
  PROVE  log' = log \/ \E t \in Turns \cup {Foreign}, k \in Kinds : Grows(t, k)
<1>1. CASE EmitForeign
  <2>1. PICK k \in {"foreign", "session"} : log' = Append(log, [turn |-> Foreign, kind |-> k, callId |-> 0])
    BY <1>1 DEF EmitForeign
  <2>2. UNCHANGED admitted
    BY <1>1 DEF EmitForeign
  <2>3. Grows(Foreign, k) /\ k \in Kinds
    BY <2>1, <2>2 DEF Grows, Kinds
  <2> QED
    BY <2>3
<1>2. CASE \E t \in Turns, k \in Kinds : Emit(t, k)
  BY <1>2, EmitGrows
<1>3. CASE \/ (\E p \in Prompts : Stream(p)) \/ StreamStep \/ Abort \/ Consume
  BY <1>3 DEF Stream, StreamStep, Submit, Receipt, Rejected, Abort, Consume, engine
<1>4. CASE ObserveStep \/ Woken
  BY <1>4 DEF ObserveStep, Observe, StoreMessage, Commit, CloseSink, Woken, ObserveUnchanged,
              ApplyUnchanged, engine
<1>5. CASE WriteStep \/ WrittenClose
  BY <1>5 DEF WriteStep, WrittenObserved, WrittenHeld, WrittenOwn, WrittenLate, WrittenClose, engine
<1>6. CASE LateStep \/ CloseInterrupt
  BY <1>6 DEF LateStep, LateReceipt, LateRejected, CloseInterrupt, engine
<1>7. CASE ObserverLost \/ BeginClose \/ CloseCommit \/ Crash \/ Restart \/ Admit \/ UNCHANGED vars
  BY <1>7 DEF ObserverLost, BeginClose, CloseCommit, Crash, Restart, Admit, vars, engine
<1> QED
  BY <1>1, <1>2, <1>3, <1>4, <1>5, <1>6, <1>7 DEF Next

(* The event the log grows by is its last.                                 *)
LEMMA GrownBy ==
  ASSUME TypeOK, NEW t \in Turns \cup {Foreign}, NEW k \in Kinds, Grows(t, k)
  PROVE  /\ Events' = Events \cup {Len(log) + 1} /\ Len(log) + 1 \notin Events
         /\ \A i \in Events : log'[i] = log[i] /\ i <= Len(log) /\ i < Len(log) + 1 /\ i \in Nat
         /\ log'[Len(log) + 1].turn = t /\ log'[Len(log) + 1].kind = k /\ Len(log) + 1 \in Nat
<1>0. PICK c \in Nat : log' = Append(log, [turn |-> t, kind |-> k, callId |-> c])
  BY DEF Grows
<1>1. PICK n, x : n = Len(log) + 1 /\ x = [turn |-> t, kind |-> k, callId |-> c]
  OBVIOUS
<1>2. x \in EventType /\ x.turn = t /\ x.kind = k
  BY <1>1 DEF EventType
<1>3. /\ Events' = Events \cup {n} /\ n \notin Events /\ Len(log) \in Nat
      /\ \A i \in Events : log'[i] = log[i] /\ i <= Len(log)
      /\ log'[n] = x
  BY <1>0, <1>1, <1>2, Grown
<1>4. \A i \in Events : i < n /\ i \in Nat
  BY <1>1, <1>3 DEF Events
<1>5. n \in Nat
  BY <1>1, <1>3
<1> QED
  BY <1>1, <1>2, <1>3, <1>4, <1>5

(* The turns are run one after the other.                                  *)
LEMMA QueuedKept ==
  ASSUME Inv, Queued, [Next]_vars
  PROVE  Queued'
<1>0. TypeOK /\ (\A u : Over(u) => Over(u)') /\ admitted \in Seq(Turns) /\ DOMAIN admitted = 1..Len(admitted)
  BY OverGrows DEF Inv, TypeOK
<1>1. CASE UNCHANGED admitted
  <2>1. SUFFICES ASSUME NEW i \in DOMAIN admitted, NEW j \in DOMAIN admitted, i < j,
                        NEW e \in Events', log'[e].turn = admitted[j],
                        NEW a, a = admitted[i]
                 PROVE  Over(a)'
    BY <1>1 DEF Queued
  <2>2. CASE e \in Events
    <3>1. log'[e] = log[e]
      BY <1>0, <2>2, LogKeeps
    <3> QED
      BY <1>0, <2>1, <2>2, <3>1 DEF Queued
  <2>3. CASE e \notin Events
    <3>1. PICK t \in Turns \cup {Foreign}, k \in Kinds : Grows(t, k)
      BY <1>0, <2>1, <2>3, LogGrows DEF Events
    <3>2. log'[e].turn = t
      BY <1>0, <2>1, <2>3, <3>1, GrownBy
    <3>3. admitted[j] \in Turns /\ admitted[j] # Foreign
      <4>1. admitted[j] \in Turns
        BY <1>0, ElementOfSeq
      <4> QED
        BY <4>1
    <3>4. Emitting(t, k)
      BY <2>1, <3>1, <3>2, <3>3 DEF Grows
    <3>5. Over(a)
      BY <2>1, <3>2, <3>4 DEF Emitting
    <3> QED
      BY <1>0, <3>5
  <2> QED
    BY <2>2, <2>3
<1>2. CASE ~UNCHANGED admitted
  <2>1. PICK a \in sent : a \in Turns /\ a \notin Range(admitted) /\ admitted' = Append(admitted, a)
    BY <1>0, <1>2, AdmittedMoves
  <2>2. log' = log
    BY <1>0, <1>2, LogGrows DEF Grows
  <2>3. /\ DOMAIN admitted' = DOMAIN admitted \cup {Len(admitted) + 1} /\ Len(admitted) \in Nat
        /\ \A i \in DOMAIN admitted : admitted'[i] = admitted[i] /\ i # Len(admitted) + 1
        /\ admitted'[Len(admitted) + 1] = a
    BY <1>0, <2>1, AppendFacts
  <2>4. \A e \in Events : log[e].turn # a
    BY <2>1 DEF Inv, Made
  <2>5. SUFFICES ASSUME NEW i \in DOMAIN admitted', NEW j \in DOMAIN admitted', i < j,
                        NEW e \in Events, log[e].turn = admitted'[j]
                 PROVE  Over(admitted'[i])
    BY <2>2 DEF Queued, Over, Events
  <2>6. j # Len(admitted) + 1
    BY <2>3, <2>4, <2>5
  <2>7. j \in DOMAIN admitted /\ i \in DOMAIN admitted
    BY <1>0, <2>3, <2>5, <2>6
  <2> QED
    BY <2>3, <2>5, <2>7 DEF Queued
<1> QED
  BY <1>1, <1>2

LEMMA SeparateKept ==
  ASSUME Inv, Queued, Separate, [Next]_vars
  PROVE  Separate'
<1>0. TypeOK
  BY DEF Inv
<1>1. CASE log' = log
  BY <1>1 DEF Separate, Events
<1>2. ASSUME NEW t \in Turns \cup {Foreign}, NEW k \in Kinds, Grows(t, k) PROVE Separate'
  <2>0. PICK n : n = Len(log) + 1
    OBVIOUS
  <2>1. /\ Events' = Events \cup {n} /\ n \notin Events
        /\ \A i \in Events : log'[i] = log[i] /\ i < n /\ i \in Nat
        /\ log'[n].turn = t /\ log'[n].kind = k /\ n \in Nat
    BY <1>0, <1>2, <2>0, GrownBy
  <2>2. SUFFICES ASSUME NEW e \in Events', NEW f \in Events', e < f, NEW u, u = log'[e].turn,
                        u \in Turns, log'[f].turn \in Turns, u # log'[f].turn
                 PROVE  \E g \in Events' : e <= g /\ g < f /\ log'[g].turn = u /\ log'[g].kind \in Terminal
    BY DEF Separate
  <2>3. CASE f \in Events
    <3>1. e \in Events
      BY <2>1, <2>2, <2>3
    <3>2. \E g \in Events : e <= g /\ g < f /\ log[g].turn = u /\ log[g].kind \in Terminal
      BY <2>1, <2>2, <2>3, <3>1 DEF Separate
    <3> QED
      BY <2>1, <3>2
  <2>4. CASE f \notin Events
    <3>1. f = n /\ e \in Events /\ t \in Turns /\ t # u
      BY <2>1, <2>2, <2>4
    <3>2. Emitting(t, k)
      BY <1>2, <3>1 DEF Grows
    <3>3. log[e].turn = u /\ u \in Range(admitted)
      BY <2>1, <2>2, <3>1 DEF Inv, Made
    <3>4. PICK i \in DOMAIN admitted : admitted[i] = u
      BY <3>3 DEF Range
    <3>5. PICK j \in DOMAIN admitted : admitted[j] = t
      BY <3>2 DEF Emitting, Range
    <3>6. i # j /\ i \in Nat /\ j \in Nat
      BY <1>0, <3>1, <3>4, <3>5 DEF TypeOK
    <3>7. Over(u)
      <4>1. CASE i < j
        BY <3>2, <3>4, <3>5, <4>1 DEF Emitting
      <4>2. CASE j < i
        <5>1. Over(t)
          BY <3>1, <3>3, <3>4, <3>5, <4>2 DEF Queued
        <5> QED
          BY <3>2, <5>1 DEF Emitting
      <4> QED
        BY <3>6, <4>1, <4>2
    <3>8. PICK g \in Events : log[g].turn = u /\ log[g].kind \in Terminal
      BY <3>7 DEF Over
    <3>9. e <= g
      BY <2>2, <3>1, <3>3, <3>8 DEF Inv, Reach
    <3>10. g \in Events' /\ log'[g] = log[g] /\ g < f
      BY <2>1, <3>1, <3>8
    <3> QED
      BY <3>8, <3>9, <3>10
  <2> QED
    BY <2>3, <2>4
<1> QED
  BY <1>0, <1>1, <1>2, LogGrows

--------------------------------------------------------------------------------
(* What the projection of an event plans, op by op.                        *)

\* The event e of the turn t, whose sink s becomes y, leaves the ops q to do.
Form(e, s, y, q) ==
  \/ /\ log[e].kind = "start" /\ y = [s EXCEPT !.text = 0]
     /\ q = Flush(s) \o <<Op("commit", e)>>
  \/ /\ log[e].kind = "call" /\ y = [s EXCEPT !.text = 0, !.called = @ \cup {log[e].callId}]
     /\ q = Flush(s) \o <<Op("call", e)>>
  \/ /\ log[e].kind = "result" /\ y = [s EXCEPT !.answered = @ \cup {log[e].callId}]
     /\ q = StoreUnlessReceipt(e) \o <<Op("commit", e)>>
  \/ /\ log[e].kind \in Terminal /\ s.adopted /\ y = s
     /\ q = StoreUnlessReceipt(e) \o <<Op("commit", e), Op("close", e)>>
Owns(e, t) == ownedSubmissions' = IF log[e].kind = "fail" THEN ownedSubmissions \ {t} ELSE ownedSubmissions
ShowsText(e, t) ==
  /\ log[e].kind = "text" /\ obs' = Observer("read", e + 1)
  /\ sinks' = [sinks EXCEPT ![t] = [SinkFor(t) EXCEPT !.text = e]]
  /\ undurableSinks' = undurableSinks \cup {t}
Plans(e, t) ==
  /\ log[e].kind # "text" /\ ~Ignored(e, SinkFor(t))
  /\ \E y, q : /\ Form(e, SinkFor(t), y, q) /\ sinks' = [sinks EXCEPT ![t] = y]
               /\ obs' = Apply1(e, q) /\ q # <<>>
  /\ undurableSinks' = undurableSinks

LEMMA ProjectForms ==
  ASSUME TypeOK, ObsShape, Made, CallShape, NEW e \in Events, obs.pc \in Reading, e = obs.at,
         NEW t \in Turns, t = log[e].turn, Projects(e, t)
  PROVE  /\ Owns(e, t)
         /\ \/ Completes(e, t) /\ terminalCursor' = e /\ undurableSinks' = undurableSinks \ {t}
                               /\ sinks' = [sinks EXCEPT ![t] = NoSink]
            \/ /\ ShowsText(e, t) \/ Plans(e, t) \/ (Ignores(e, t) /\ UNCHANGED undurableSinks)
               /\ UNCHANGED <<terminalCursor, request, discarded, pendingSubmit, observedSubmitAttempts>>
<1> DEFINE s == SinkFor(t)  k == log[e].kind  id == log[e].callId
           Keep(x) == sinks' = [sinks EXCEPT ![t] = x]
<1>0. Owns(e, t)
  BY DEF Projects, Project, Owns
<1>1. s \in SinkType /\ s.text # e /\ s.text \in 0..Len(log) /\ e \in Nat /\ s.text <= e
  <2>1. sinks[t] \in SinkType /\ sinks[t].text < e /\ e \in Nat /\ e >= 1
    BY DEF TypeOK, ObsShape, Events
  <2>2. NewSink(TRUE) \in SinkType /\ NewSink(TRUE).text = 0
    BY TypedValues, SinkValues
  <2>3. s \in {sinks[t], NewSink(TRUE)}
    BY DEF SinkFor
  <2>4. 0 < e
    BY <2>1
  <2> HIDE DEF s
  <2>5. s \in SinkType /\ s.text < e
    BY <2>1, <2>2, <2>3, <2>4
  <2>6. s.text \in 0..Len(log) /\ s.text \in Nat
    BY <2>5, TypedValues DEF SinkType
  <2>7. s.text # e /\ s.text <= e
    BY <2>1, <2>5, <2>6
  <2> QED
    BY <2>1, <2>5, <2>6, <2>7
<1>2. CASE k \in Terminal /\ ~s.adopted
  <2>1. NativeTerminal(e, t) /\ ownedSubmissions' \subseteq ownedSubmissions
    BY <1>2 DEF Projects, Project
  <2>2. sinks[t].live /\ ~sinks[t].adopted
    BY <1>2 DEF SinkFor, NewSink, NoSink
  <2>3. obs' = Observer("read", e + 1)
    BY <2>1, AppliedNext DEF NativeTerminal
  <2>4. terminalCursor' = e /\ undurableSinks' = undurableSinks \ {t} /\ sinks' = [sinks EXCEPT ![t] = NoSink]
    BY <2>1 DEF NativeTerminal
  <2> QED
    BY <1>0, <1>2, <2>1, <2>2, <2>3, <2>4 DEF Completes
<1>3. CASE ~(k \in Terminal /\ ~s.adopted)
  <2>1. IF Ignored(e, s) THEN Keep(s) /\ Applying(e, <<>>)
        ELSE CASE k = "start"  -> Keep([s EXCEPT !.text = 0])
                                  /\ Applying(e, Flush(s) \o <<Op("commit", e)>>)
               [] k = "text"   -> Keep([s EXCEPT !.text = e]) /\ Applying(e, <<>>)
               [] k = "call"   -> Keep([s EXCEPT !.text = 0, !.called = @ \cup {id}])
                                  /\ Applying(e, Flush(s) \o <<Op("call", e)>>)
               [] k = "result" -> Keep([s EXCEPT !.answered = @ \cup {id}])
                                  /\ Applying(e, StoreUnlessReceipt(e) \o <<Op("commit", e)>>)
               [] OTHER        -> Keep(s)
                                  /\ Applying(e, StoreUnlessReceipt(e)
                                                 \o <<Op("commit", e), Op("close", e)>>)
    BY <1>3 DEF Projects, Project
  <2>2. k \in {"start", "text", "call", "result"} \cup Terminal
    <3>1. k \in Kinds
      BY EventTyped
    <3>2. k \notin {"session", "foreign"}
      <4>1. log[e].kind \in {"session", "foreign"} => log[e].turn = 0
        BY OwnKinds
      <4>2. log[e].turn # 0
        BY DEF Turns
      <4> QED
        BY <4>1, <4>2
    <3> QED
      BY <3>1, <3>2 DEF Kinds, Projecting, Terminal
  <2>3. undurableSinks' = IF k = "text" THEN undurableSinks \cup {t} ELSE undurableSinks
    BY <1>3 DEF Projects, Project
  <2>c. UNCHANGED <<terminalCursor, request, discarded, pendingSubmit, observedSubmitAttempts>>
    BY <1>3 DEF Projects, Project
  <2>i. CASE Ignored(e, s)
    <3>1. sinks[t].live /\ s = sinks[t] /\ k # "text"
      BY <2>i DEF Ignored, SinkFor, NewSink, NoSink
    <3>2. Keep(s) /\ Applying(e, <<>>)
      <4> HIDE DEF s, Keep, k, id
      <4> QED
        BY <2>1, <2>i
    <3>3. sinks' = sinks
      BY <3>1, <3>2 DEF TypeOK
    <3>4. obs' = Observer("read", e + 1)
      BY <3>2, AppliedNext
    <3>5. Ignores(e, t) /\ UNCHANGED undurableSinks
      BY <2>3, <2>i, <3>1, <3>3, <3>4 DEF Ignores
    <3> QED
      BY <1>0, <2>c, <3>5
  <2> SUFFICES ASSUME ~Ignored(e, s)
               PROVE  \/ ShowsText(e, t)
                      \/ Plans(e, t)
    <3> HIDE DEF s
    <3> QED
      BY <1>0, <2>c, <2>i
  <2>4. \A y, q : Keep(y) /\ Applying(e, q) /\ q # <<>> /\ k # "text" /\ Form(e, s, y, q) => Plans(e, t)
    <3> HIDE DEF s
    <3>1. TAKE y, q
    <3>2. HAVE Keep(y) /\ Applying(e, q) /\ q # <<>> /\ k # "text" /\ Form(e, s, y, q)
    <3>3. obs' = Apply1(e, q)
      BY <3>2, AppliedNext
    <3> QED
      BY <2>3, <3>2, <3>3 DEF Plans, s
  <2>5. CASE k = "text"
    <3>1. Keep([s EXCEPT !.text = e]) /\ Applying(e, <<>>)
      <4> HIDE DEF s, Keep, k
      <4> QED
        BY <2>1, <2>5
    <3>2. obs' = Observer("read", e + 1)
      BY <3>1, AppliedNext
    <3>3. ShowsText(e, t)
      BY <2>3, <2>5, <3>1, <3>2 DEF ShowsText
    <3> QED
      BY <1>0, <2>c, <3>3
  <2>6. CASE k # "text"
    <3>1. PICK y, q : Keep(y) /\ Applying(e, q) /\ Form(e, s, y, q)
      <4> HIDE DEF s, Keep
      <4>1. CASE k = "start"
        <5>1. Keep([s EXCEPT !.text = 0]) /\ Applying(e, Flush(s) \o <<Op("commit", e)>>)
          <6> HIDE DEF k
          <6> QED
            BY <2>1, <4>1
        <5>2. Form(e, s, [s EXCEPT !.text = 0], Flush(s) \o <<Op("commit", e)>>)
          BY <4>1 DEF Form
        <5> QED
          BY <5>1, <5>2
      <4>2. CASE k = "call"
        <5>1. Keep([s EXCEPT !.text = 0, !.called = @ \cup {id}]) /\ Applying(e, Flush(s) \o <<Op("call", e)>>)
          <6> HIDE DEF k, id
          <6> QED
            BY <2>1, <4>2
        <5>2. Form(e, s, [s EXCEPT !.text = 0, !.called = @ \cup {id}], Flush(s) \o <<Op("call", e)>>)
          BY <4>2 DEF Form
        <5> QED
          BY <5>1, <5>2
      <4>3. CASE k = "result"
        <5>1. Keep([s EXCEPT !.answered = @ \cup {id}]) /\ Applying(e, StoreUnlessReceipt(e) \o <<Op("commit", e)>>)
          <6> HIDE DEF k
          <6> QED
            BY <2>1, <4>3
        <5>2. Form(e, s, [s EXCEPT !.answered = @ \cup {id}], StoreUnlessReceipt(e) \o <<Op("commit", e)>>)
          BY <4>3 DEF Form
        <5> QED
          BY <5>1, <5>2
      <4>4. CASE k \in Terminal
        <5>0. k \notin {"start", "text", "call", "result"}
          BY <4>4 DEF Terminal
        <5>1. Keep(s) /\ Applying(e, StoreUnlessReceipt(e) \o <<Op("commit", e), Op("close", e)>>)
          <6> HIDE DEF k
          <6> QED
            BY <2>1, <5>0
        <5>2. s.adopted
          BY <1>3, <4>4
        <5>3. Form(e, s, s, StoreUnlessReceipt(e) \o <<Op("commit", e), Op("close", e)>>)
          BY <4>4, <5>2 DEF Form
        <5> QED
          BY <5>1, <5>3
      <4> QED
        BY <2>2, <2>6, <4>1, <4>2, <4>3, <4>4
    <3>2. q # <<>>
      <4> HIDE DEF s
      <4>1. /\ Flush(s) \o <<Op("commit", e)>> # <<>>
            /\ StoreUnlessReceipt(e) \o <<Op("commit", e)>> # <<>>
        <5>1. s.text \in 0..Len(log) /\ s.text <= e /\ "commit" \in {"commit", "call"}
          BY <1>1
        <5> QED
          BY <5>1, AppliedOK
      <4>2. log[e].kind = "call" => Flush(s) \o <<Op("call", e)>> # <<>>
        <5>1. s.text \in 0..Len(log) /\ s.text <= e /\ "call" \in {"commit", "call"} /\ log[e].turn \in Turns
          BY <1>1
        <5> QED
          BY <5>1, AppliedOK
      <4>3. log[e].kind \in Terminal => StoreUnlessReceipt(e) \o <<Op("commit", e), Op("close", e)>> # <<>>
        <5>1. s.text \in 0..Len(log) /\ s.text <= e /\ "commit" \in {"commit", "call"} /\ log[e].turn \in Turns
          BY <1>1
        <5> QED
          BY <5>1, AppliedOK
      <4> QED
        BY <3>1, <4>1, <4>2, <4>3 DEF Form
    <3>3. Plans(e, t)
      <4> HIDE DEF s, Keep
      <4> QED
        BY <2>4, <2>6, <3>1, <3>2
    <3> QED
      BY <1>0, <2>c, <3>3
  <2> QED
    BY <2>5, <2>6
<1> QED
  BY <1>2, <1>3

(* The ops of a projection in full.                                        *)
LEMMA FlushForms ==
  ASSUME NEW s, NEW c, NEW q, q = Flush(s) \o <<c>>
  PROVE  \/ s.text = 0 /\ q = <<c>>
         \/ s.text # 0 /\ s.text \in receipts /\ q = <<Op("commit", s.text), c>>
         \/ s.text # 0 /\ s.text \notin receipts /\ q = <<Op("store", s.text), Op("commit", s.text), c>>
<1>1. PICK a, b : a = Op("store", s.text) /\ b = Op("commit", s.text)
  OBVIOUS
<1>2. /\ <<>> \o <<c>> = <<c>>
      /\ <<>> \o <<b>> = <<b>>
      /\ <<b>> \o <<c>> = <<b, c>>
      /\ <<a>> \o <<b>> = <<a, b>>
      /\ <<a, b>> \o <<c>> = <<a, b, c>>
  BY Joined, JoinedTwo
<1>3. CASE s.text = 0
  BY <1>2, <1>3 DEF Flush
<1>4. CASE s.text # 0 /\ s.text \in receipts
  BY <1>1, <1>2, <1>4 DEF Flush, StoreUnlessReceipt
<1>5. CASE s.text # 0 /\ s.text \notin receipts
  BY <1>1, <1>2, <1>5 DEF Flush, StoreUnlessReceipt
<1> QED
  BY <1>3, <1>4, <1>5

LEMMA StoreForms ==
  ASSUME NEW e, NEW c, NEW d
  PROVE  /\ \/ e \in receipts /\ StoreUnlessReceipt(e) \o <<c>> = <<c>>
            \/ e \notin receipts /\ StoreUnlessReceipt(e) \o <<c>> = <<Op("store", e), c>>
         /\ \/ e \in receipts /\ StoreUnlessReceipt(e) \o <<c, d>> = <<c, d>>
            \/ e \notin receipts /\ StoreUnlessReceipt(e) \o <<c, d>> = <<Op("store", e), c, d>>
<1>1. PICK a : a = Op("store", e)
  OBVIOUS
<1>2. /\ <<>> \o <<c>> = <<c>>
      /\ <<>> \o <<c, d>> = <<c, d>>
      /\ <<a>> \o <<c>> = <<a, c>>
      /\ <<a>> \o <<c, d>> = <<a, c, d>>
  BY Joined, JoinedThree
<1> QED
  BY <1>1, <1>2 DEF StoreUnlessReceipt

\* An op of the turn t for the event e, or for the text that was open at x; and
\* ops q of which only the first commit is for the text.
OpFor(op, e, x, t) ==
  /\ op.t = t
  /\ op.op = "call" => log[e].kind = "call"
  /\ op.op = "commit" => op.e = e \/ (op.e = x /\ x # 0 /\ log[e].kind \in {"start", "call"})
OpsFor(q, e, x, t) ==
  /\ \A i \in DOMAIN q : OpFor(q[i], e, x, t)
  /\ \A i, j \in DOMAIN q : j < i /\ q[j].op = "commit" /\ q[i].op = "commit" => q[i].e = e

LEMMA FewFor ==
  ASSUME NEW e, NEW x, NEW t, NEW a, NEW b, NEW c,
         OpFor(a, e, x, t), OpFor(b, e, x, t), OpFor(c, e, x, t),
         a.op # "commit", c.op = "commit" => c.e = e
  PROVE  OpsFor(<<c>>, e, x, t) /\ OpsFor(<<b, c>>, e, x, t) /\ OpsFor(<<a, b, c>>, e, x, t)
<1>1. /\ DOMAIN <<c>> = {1} /\ <<c>>[1] = c
      /\ DOMAIN <<b, c>> = {1, 2} /\ <<b, c>>[1] = b /\ <<b, c>>[2] = c
      /\ DOMAIN <<a, b, c>> = {1, 2, 3}
      /\ <<a, b, c>>[1] = a /\ <<a, b, c>>[2] = b /\ <<a, b, c>>[3] = c
  OBVIOUS
<1>2. ~(1 < 1) /\ ~(2 < 2) /\ ~(3 < 3) /\ ~(2 < 1) /\ ~(3 < 1) /\ ~(3 < 2)
  OBVIOUS
<1> HIDE DEF OpFor
<1>3. OpsFor(<<c>>, e, x, t)
  BY <1>1, <1>2 DEF OpsFor
<1>4. OpsFor(<<b, c>>, e, x, t)
  BY <1>1, <1>2 DEF OpsFor
<1>5. OpsFor(<<a, b, c>>, e, x, t)
  BY <1>1, <1>2 DEF OpsFor
<1> QED
  BY <1>3, <1>4, <1>5

LEMMA FormOps ==
  ASSUME NEW e, NEW s, NEW y, NEW q, Form(e, s, y, q), NEW x, x = s.text, NEW t, t = log[e].turn,
         x # 0 => log[x].turn = t
  PROVE  /\ OpsFor(q, e, x, t)
         /\ log[e].kind \in Terminal => \E i \in DOMAIN q : q[i].op = "close" /\ q[i].t = t
<1>1. PICK st, cm : st = Op("store", x) /\ cm = Op("commit", x)
  OBVIOUS
<1>2. PICK se, ce, le, de : se = Op("store", e) /\ ce = Op("commit", e) /\ le = Op("call", e) /\ de = Op("close", e)
  OBVIOUS
<1>3. /\ st.op = "store" /\ cm.op = "commit" /\ cm.e = x /\ st.t = log[x].turn /\ cm.t = log[x].turn
      /\ se.op = "store" /\ ce.op = "commit" /\ le.op = "call" /\ de.op = "close"
      /\ se.t = t /\ ce.t = t /\ le.t = t /\ de.t = t /\ ce.e = e
  BY <1>1, <1>2 DEF Op
<1>4. /\ OpFor(se, e, x, t) /\ OpFor(ce, e, x, t) /\ OpFor(de, e, x, t)
      /\ log[e].kind = "call" => OpFor(le, e, x, t)
  BY <1>3 DEF OpFor
<1>5. x # 0 /\ log[e].kind \in {"start", "call"} => OpFor(st, e, x, t) /\ OpFor(cm, e, x, t)
  BY <1>3 DEF OpFor
<1>6. ASSUME NEW c \in {ce, le}, q = Flush(s) \o <<c>>, log[e].kind \in {"start", "call"},
             c = le => log[e].kind = "call"
      PROVE  OpsFor(q, e, x, t)
  <2>1. OpFor(c, e, x, t) /\ (c.op = "commit" => c.e = e)
    BY <1>3, <1>4, <1>6
  <2>2. \/ q = <<c>>
        \/ x # 0 /\ q = <<cm, c>>
        \/ x # 0 /\ q = <<st, cm, c>>
    BY <1>1, <1>6, FlushForms
  <2>3. CASE q = <<c>>
    <3>1. se.op # "commit" /\ OpFor(se, e, x, t)
      BY <1>3, <1>4
    <3> QED
      BY <2>1, <2>3, <3>1, FewFor
  <2>4. CASE x # 0 /\ q = <<cm, c>>
    <3>1. OpFor(cm, e, x, t) /\ OpFor(se, e, x, t) /\ se.op # "commit"
      BY <1>3, <1>4, <1>5, <1>6, <2>4
    <3> QED
      BY <2>1, <2>4, <3>1, FewFor
  <2>5. CASE x # 0 /\ q = <<st, cm, c>>
    <3>1. OpFor(cm, e, x, t) /\ OpFor(st, e, x, t) /\ st.op # "commit"
      BY <1>3, <1>5, <1>6, <2>5
    <3> QED
      BY <2>1, <2>5, <3>1, FewFor
  <2> QED
    BY <2>2, <2>3, <2>4, <2>5
<1>7. CASE log[e].kind \in {"start", "call"}
  <2>1. \E c \in {ce, le} : q = Flush(s) \o <<c>> /\ (c = le => log[e].kind = "call")
    <3>1. ce # le
      BY <1>3
    <3> QED
      BY <1>2, <1>7, <3>1 DEF Form, Terminal
  <2>2. log[e].kind \notin Terminal
    BY <1>7 DEF Terminal
  <2> QED
    BY <1>6, <1>7, <2>1, <2>2
<1>8. CASE log[e].kind \notin {"start", "call"}
  <2>1. \/ log[e].kind = "result" /\ q = StoreUnlessReceipt(e) \o <<ce>>
        \/ log[e].kind \in Terminal /\ q = StoreUnlessReceipt(e) \o <<ce, de>>
    BY <1>2, <1>8 DEF Form
  <2>2. se.op # "commit" /\ ce.e = e /\ (de.op = "commit" => de.e = e)
    BY <1>3
  <2>3. OpsFor(<<ce>>, e, x, t) /\ OpsFor(<<se, ce>>, e, x, t)
    BY <1>4, <2>2, FewFor
  <2>4. OpsFor(<<ce, de>>, e, x, t) /\ OpsFor(<<se, ce, de>>, e, x, t)
    BY <1>4, <2>2, FewFor
  <2>5. CASE log[e].kind = "result" /\ q = StoreUnlessReceipt(e) \o <<ce>>
    <3>1. q \in {<<ce>>, <<se, ce>>}
      BY <1>2, <2>5, StoreForms
    <3>2. log[e].kind \notin Terminal
      BY <2>5 DEF Terminal
    <3> QED
      BY <2>3, <3>1, <3>2
  <2>6. CASE q = StoreUnlessReceipt(e) \o <<ce, de>>
    <3>1. q \in {<<ce, de>>, <<se, ce, de>>}
      BY <1>2, <2>6, StoreForms
    <3>2. /\ 2 \in DOMAIN <<ce, de>> /\ <<ce, de>>[2] = de
          /\ 3 \in DOMAIN <<se, ce, de>> /\ <<se, ce, de>>[3] = de
      OBVIOUS
    <3>3. \E i \in DOMAIN q : q[i] = de
      BY <3>1, <3>2
    <3> QED
      BY <1>3, <2>4, <3>1, <3>3
  <2> QED
    BY <2>1, <2>5, <2>6
<1> QED
  BY <1>7, <1>8

(* The sinks that have something undurable change with the observer.       *)
LEMMA UndurableMove ==
  ASSUME [Next]_vars
  PROVE  \/ UNCHANGED undurableSinks
         \/ Commit /\ obs.pc = "apply" /\ undurableSinks' = Undurable(Head(obs.todo))
         \/ StoreMessage /\ obs.pc = "apply" /\ undurableSinks' = KeptBack(Head(obs.todo))
         \/ Observe \/ Woken
         \/ (Crash \/ Restart) /\ undurableSinks' = {}
<1>1. CASE \/ (\E p \in Prompts : Stream(p)) \/ StreamStep \/ Abort \/ Consume
  BY <1>1 DEF Stream, StreamStep, Submit, Receipt, Rejected, Abort, Consume, projection
<1>2. CASE ObserveStep \/ Woken
  BY <1>2 DEF ObserveStep, StoreMessage, Commit, CloseSink
<1>3. CASE WriteStep \/ WrittenClose
  BY <1>3 DEF WriteStep, WrittenObserved, WrittenHeld, WrittenOwn, WrittenLate, WrittenClose, projection
<1>4. CASE LateStep \/ CloseInterrupt
  BY <1>4 DEF LateStep, LateReceipt, LateRejected, CloseInterrupt, projection
<1>5. CASE \/ ObserverLost \/ BeginClose \/ CloseCommit \/ Crash \/ Restart \/ Admit \/ UNCHANGED vars
           \/ EmitForeign \/ (\E t \in Turns, k \in Kinds : Emit(t, k))
  BY <1>5 DEF ObserverLost, BeginClose, CloseCommit, Crash, Restart, Admit, vars, projection, Forgotten,
              EmitForeign, Emit
<1> QED
  BY <1>1, <1>2, <1>3, <1>4, <1>5 DEF Next

(* The ops that are left, when the observer neither takes an event nor     *)
(* commits.                                                                *)
LEMMA TodoMoves ==
  ASSUME Inv, [Next]_vars, ~Crash, ~Restart, ~Observe, ~Woken
  PROVE  \/ obs'.todo = <<>> /\ obs'.pc # "write"
         \/ obs'.at = obs.at /\ obs'.todo = obs.todo /\ obs'.pc = obs.pc
         \/ obs'.at = obs.at /\ obs'.todo = obs.todo /\ Flushes
         \/ /\ obs'.at = obs.at /\ obs'.pc = "apply" /\ Advances /\ Len(obs.todo) > 1
            /\ \A i \in DOMAIN obs'.todo : /\ i \in Nat /\ i >= 1 /\ i + 1 \in DOMAIN obs.todo
                                           /\ obs'.todo[i] = obs.todo[i + 1]
            /\ \A i \in DOMAIN obs.todo : i # 1 => i - 1 \in DOMAIN obs'.todo /\ obs'.todo[i - 1] = obs.todo[i]
<1>0. ObsMoves /\ ObsOK(obs) /\ obs \in ObsType
  BY ObsMove DEF Inv, ObsShape, ObsOK
<1>1. CASE Quiet
  BY <1>0, <1>1, NotifiedOK DEF Quiet
<1>2. CASE Halts
  BY <1>2 DEF Halts, Halted, Stopped, Observer
<1>3. CASE Advances
  <2>1. obs.todo # <<>> /\ (life = "up" /\ ~failed) \in BOOLEAN /\ obs' = Advanced(life = "up" /\ ~failed)
    BY <1>0, <1>3 DEF ObsOK, Working, Advances
  <2>2. \/ obs'.at = obs.at /\ obs'.todo = Tail(obs.todo) /\ obs'.pc = "apply" /\ Len(obs.todo) > 1
        \/ obs' = Observer("read", obs.at + 1)
        \/ obs' = Stopped
    BY <1>0, <2>1, AdvancedOK
  <2>3. CASE obs'.at = obs.at /\ obs'.todo = Tail(obs.todo) /\ obs'.pc = "apply" /\ Len(obs.todo) > 1
    <3>0. PICK p, q : p = obs.todo /\ q = Tail(obs.todo)
      OBVIOUS
    <3>1. p \in Seq(OpType) /\ p # <<>> /\ q = Tail(p)
      BY <1>0, <2>1, <3>0 DEF ObsType
    <3>2. /\ q \in Seq(OpType) /\ DOMAIN q = 1..Len(q) /\ Len(q) = Len(p) - 1 /\ DOMAIN p = 1..Len(p)
          /\ Len(p) \in Nat /\ \A i \in DOMAIN q : i + 1 \in DOMAIN p /\ q[i] = p[i + 1]
      <4>1. q \in Seq(OpType) /\ Len(q) = Len(p) - 1 /\ Len(p) \in Nat /\ DOMAIN p = 1..Len(p)
            /\ \A i \in DOMAIN q : i + 1 \in DOMAIN p /\ q[i] = p[i + 1]
        BY <3>1, SeqFacts
      <4>2. DOMAIN q = 1..Len(q)
        BY <4>1
      <4> QED
        BY <4>1, <4>2
    <3>3. \A i \in DOMAIN q : i \in Nat /\ i >= 1
      BY <3>2
    <3>4. \A i \in DOMAIN p : i # 1 => i - 1 \in DOMAIN q /\ (i - 1) + 1 = i
      BY <3>2
    <3>5. \A i \in DOMAIN p : i # 1 => i - 1 \in DOMAIN q /\ q[i - 1] = p[i]
      BY <3>2, <3>4
    <3> QED
      BY <1>3, <2>3, <3>0, <3>2, <3>3, <3>5
  <2>4. CASE obs' = Observer("read", obs.at + 1) \/ obs' = Stopped
    BY <2>4 DEF Observer, Stopped
  <2> QED
    BY <2>2, <2>3, <2>4
<1>4. CASE Flushes
  BY <1>0, <1>4 DEF Flushes, ObsType
<1>5. CASE obs' = obs
  BY <1>5
<1> QED
  BY <1>0, <1>1, <1>2, <1>3, <1>4, <1>5 DEF ObsMoves

(* The same, of the steps of the observer.                                 *)
LEMMA ObserverForms ==
  ASSUME Inv, Observe \/ Woken, NEW e, e = obs.at, NEW t, t = log[e].turn
  PROVE  \/ Waits
         \/ Passes(e) /\ (t \in Turns => ~sinks[t].live)
         \/ /\ t \in Turns /\ Owns(e, t) /\ (sinks[t].live \/ t \in ownedSubmissions)
            /\ \/ Completes(e, t) /\ terminalCursor' = e /\ undurableSinks' = undurableSinks \ {t}
                                  /\ sinks' = [sinks EXCEPT ![t] = NoSink]
               \/ /\ ShowsText(e, t) \/ Plans(e, t) \/ (Ignores(e, t) /\ UNCHANGED undurableSinks)
                  /\ UNCHANGED <<terminalCursor, request, discarded, pendingSubmit, observedSubmitAttempts>>
<1>1. /\ TypeOK /\ ObsShape /\ Made /\ CallShape /\ obs.pc \in Reading /\ e \in Events
  BY ObserverMoves DEF Inv
<1>2. \/ Waits
      \/ Passes(e) /\ (t \in Turns => ~sinks[t].live)
      \/ Projects(e, t)
  BY ObserverDoes
<1>3. CASE Projects(e, t)
  <2>1. t \in Turns /\ (sinks[t].live \/ t \in ownedSubmissions)
    BY <1>3 DEF Projects
  <2> QED
    BY <1>1, <1>3, <2>1, ProjectForms
<1> QED
  BY <1>2, <1>3

--------------------------------------------------------------------------------
(* The call IDs a sink has.                                                *)

CallBy(g, t, id) == g \in Events /\ log[g].turn = t /\ log[g].kind = "call" /\ log[g].callId = id
AnswerTo(r, t, id) == r \in Events /\ log[r].turn = t /\ log[r].kind = "result" /\ log[r].callId = id

\* The sink of t has the answer of every result for id that was taken after g.
Answers(g, t, id) == \A r \in Events : AnswerTo(r, t, id) /\ g < r /\ Taken(r) => id \in sinks[t].answered

\* What a sink was called was taken, and so were its answers: none is left out
\* since the call, which came before the text that is open.
CalledFrom(t, id) ==
  \E g \in Events : /\ CallBy(g, t, id) /\ Taken(g) /\ Answers(g, t, id)
                    /\ sinks[t].text # 0 => g < sinks[t].text
AnsweredFrom(t, id) == \E r \in Events : AnswerTo(r, t, id) /\ Taken(r)
Ids ==
  \A t \in Turns :
    /\ ~sinks[t].live => sinks[t].called = {} /\ sinks[t].answered = {}
    /\ obs.pc # "stopped" => /\ \A id \in sinks[t].called : CalledFrom(t, id)
                             /\ \A id \in sinks[t].answered : AnsweredFrom(t, id)

LEMMA SinkIds ==
  /\ NoSink.called = {} /\ NoSink.answered = {} /\ NewSink(TRUE).called = {} /\ NewSink(TRUE).answered = {}
  /\ \A b : LET s == [NewSink(FALSE) EXCEPT !.left = b] IN s.called = {} /\ s.answered = {}
BY DEF NoSink, NewSink

\* The sink of t keeps its call IDs, or has none.
IdsStay(t) ==
  /\ sinks'[t].called = sinks[t].called /\ sinks'[t].answered = sinks[t].answered
  /\ sinks'[t].live = sinks[t].live /\ sinks'[t].text = sinks[t].text
IdsNone(t) == sinks'[t].called = {} /\ sinks'[t].answered = {}

LEMMA IdsMove ==
  ASSUME Inv, [Next]_vars, ~Observe, ~Woken, NEW t \in Turns
  PROVE  IdsStay(t) \/ IdsNone(t)
<1>0. SinkMoves /\ sinks \in [Turns -> SinkType]
  BY SinksMove DEF Inv, TypeOK
<1>1. CASE UNCHANGED sinks
  BY <1>1 DEF IdsStay
<1>2. CASE Opens
  <2>1. PICK s : s = [NewSink(FALSE) EXCEPT !.left = request.aborted]
    OBVIOUS
  <2>2. s.called = {} /\ s.answered = {}
    BY <2>1, SinkIds
  <2>3. sinks' = [sinks EXCEPT ![request.id] = s]
    BY <1>2, <2>1 DEF Opens
  <2> QED
    BY <1>0, <2>2, <2>3 DEF IdsStay, IdsNone
<1>3. CASE Abandons
  BY <1>0, <1>3 DEF Abandons, SinkType, IdsStay
<1>4. CASE Resets
  BY <1>4, SinkIds DEF Resets, IdsNone
<1>5. CASE CloseSink
  <2>1. sinks' = [sinks EXCEPT ![Head(obs.todo).t] = NoSink]
    BY <1>5 DEF CloseSink
  <2> QED
    BY <1>0, <2>1, SinkIds DEF IdsStay, IdsNone
<1> QED
  BY <1>0, <1>1, <1>2, <1>3, <1>4, <1>5 DEF SinkMoves

\* What the sink of t becomes when the observer takes its event e.
TakesIds(e, t) ==
  LET s == SinkFor(t)
      id == log[e].callId
  IN
  \/ ~sinks[t].live /\ sinks'[t] = sinks[t]
  \/ sinks'[t] = NoSink
  \/ /\ sinks'[t].live
     /\ sinks'[t].called = s.called \cup (IF log[e].kind = "call" THEN {id} ELSE {})
     /\ sinks'[t].answered = s.answered \cup (IF log[e].kind = "result" THEN {id} ELSE {})
     /\ sinks'[t].text \in {0, s.text, e}
     /\ sinks'[t].text = e => log[e].kind = "text"
     /\ log[e].kind = "call" /\ id \notin s.called => sinks'[t].text = 0

LEMMA FormIds ==
  ASSUME NEW s \in SinkType, NEW e \in Events, NEW y, NEW q, Form(e, s, y, q), s.live, s.text # e
  PROVE  /\ y.live
         /\ y.called = s.called \cup (IF log[e].kind = "call" THEN {log[e].callId} ELSE {})
         /\ y.answered = s.answered \cup (IF log[e].kind = "result" THEN {log[e].callId} ELSE {})
         /\ y.text \in {0, s.text} /\ y.text # e
         /\ log[e].kind = "call" => y.text = 0
<1>0. 0 # e
  BY DEF Events
<1>1. CASE log[e].kind = "start"
  BY <1>0, <1>1 DEF Form, SinkType, Terminal
<1>2. CASE log[e].kind = "call"
  BY <1>0, <1>2 DEF Form, SinkType, Terminal
<1>3. CASE log[e].kind = "result"
  BY <1>0, <1>3 DEF Form, SinkType, Terminal
<1>4. CASE log[e].kind \in Terminal
  BY <1>0, <1>4 DEF Form, SinkType, Terminal
<1> QED
  BY <1>1, <1>2, <1>3, <1>4 DEF Form

LEMMA ObserverIds ==
  ASSUME Inv, Observe \/ Woken, NEW e, e = obs.at, NEW t, t = log[e].turn
  PROVE  \/ Waits
         \/ /\ \A u \in Turns : u # t => sinks'[u] = sinks[u]
            /\ t \in Turns => TakesIds(e, t)
            /\ Taken(e)'
<1>a. TypeOK /\ e \in Events /\ obs.pc \in Reading /\ ObsShape
  BY ObserverMoves DEF Inv
<1>b. e \in Nat /\ e # 0
  BY <1>a DEF Events
<1>c. sinks \in [Turns -> SinkType]
  BY <1>a DEF TypeOK
<1>0. /\ TypeOK /\ e \in Events /\ e \in Nat /\ obs.pc \in Reading /\ sinks \in [Turns -> SinkType]
      /\ ObsShape /\ e # 0
  BY <1>a, <1>b, <1>c
<1>7. obs' = Observer("read", e + 1) \/ (\E q : obs' = Apply1(e, q)) => Taken(e)'
  BY <1>0 DEF Observer, Apply1, Taken, Working
<1>8. Passes(e) \/ Completes(e, t) \/ ShowsText(e, t) \/ Plans(e, t) \/ Ignores(e, t) => Taken(e)'
  BY <1>7 DEF Passes, Completes, ShowsText, Plans, Ignores
<1>1. Passes(e) /\ (t \in Turns => ~sinks[t].live) =>
        (\A u \in Turns : u # t => sinks'[u] = sinks[u]) /\ (t \in Turns => TakesIds(e, t))
  BY DEF Passes, Still, TakesIds
<1>2. CASE t \in Turns /\ sinks' = [sinks EXCEPT ![t] = NoSink] /\ Taken(e)'
  BY <1>0, <1>2 DEF TakesIds
<1>s. ASSUME t \in Turns
      PROVE  /\ SinkFor(t) \in SinkType /\ SinkFor(t).live /\ SinkFor(t).text # e
  <2>1. sinks[t].text < e
    BY <1>0, <1>s DEF ObsShape
  <2>2. sinks[t].text # e
    <3>1. sinks[t].text \in 0..Len(log) /\ Len(log) \in Nat
      BY <1>0, <1>s, TypedValues DEF SinkType
    <3> QED
      BY <1>0, <2>1, <3>1
  <2>3. CASE sinks[t].live
    BY <1>0, <1>s, <2>2, <2>3 DEF SinkFor
  <2>4. CASE ~sinks[t].live
    <3>1. SinkFor(t) = NewSink(TRUE)
      BY <2>4 DEF SinkFor
    <3>2. NewSink(TRUE) \in SinkType
      BY <1>0, TypedValues
    <3> QED
      BY <1>0, <3>1, <3>2, SinkValues
  <2> QED
    BY <2>3, <2>4
<1>3. CASE t \in Turns /\ ShowsText(e, t)
  <2>1. log[e].kind = "text" /\ sinks' = [sinks EXCEPT ![t] = [SinkFor(t) EXCEPT !.text = e]]
    BY <1>3 DEF ShowsText
  <2>2. PICK s, y : s = SinkFor(t) /\ y = [s EXCEPT !.text = e]
    OBVIOUS
  <2>3. y.live /\ y.called = s.called /\ y.answered = s.answered /\ y.text = e
    BY <1>3, <1>s, <2>2 DEF SinkType
  <2>4. sinks'[t] = y /\ \A u \in Turns : u # t => sinks'[u] = sinks[u]
    BY <1>0, <1>3, <2>1, <2>2
  <2>6. log[e].kind # "call" /\ log[e].kind # "result"
    BY <2>1
  <2>7. /\ y.called = s.called \cup (IF log[e].kind = "call" THEN {log[e].callId} ELSE {})
        /\ y.answered = s.answered \cup (IF log[e].kind = "result" THEN {log[e].callId} ELSE {})
    BY <2>3, <2>6
  <2>5. TakesIds(e, t)
    BY <2>1, <2>2, <2>3, <2>4, <2>6, <2>7 DEF TakesIds
  <2> QED
    BY <1>3, <1>8, <2>4, <2>5
<1>4. CASE t \in Turns /\ Plans(e, t)
  <2>1. PICK s : s = SinkFor(t)
    OBVIOUS
  <2>2. PICK y, q : Form(e, s, y, q) /\ sinks' = [sinks EXCEPT ![t] = y]
    BY <1>4, <2>1 DEF Plans
  <2>3. /\ y.live
        /\ y.called = s.called \cup (IF log[e].kind = "call" THEN {log[e].callId} ELSE {})
        /\ y.answered = s.answered \cup (IF log[e].kind = "result" THEN {log[e].callId} ELSE {})
        /\ y.text \in {0, s.text} /\ y.text # e
        /\ log[e].kind = "call" => y.text = 0
    BY <1>0, <1>4, <1>s, <2>1, <2>2, FormIds
  <2>4. sinks'[t] = y /\ \A u \in Turns : u # t => sinks'[u] = sinks[u]
    BY <1>0, <1>4, <2>2
  <2>5. TakesIds(e, t)
    BY <2>1, <2>3, <2>4 DEF TakesIds
  <2> QED
    BY <1>4, <1>8, <2>4, <2>5
<1>5. CASE t \in Turns /\ Ignores(e, t)
  <2>1. PICK s : s = sinks[t]
    OBVIOUS
  <2>2. s.live /\ Ignored(e, s) /\ sinks' = sinks /\ s = SinkFor(t) /\ s.text # e
    BY <1>5, <1>s, <2>1 DEF Ignores, SinkFor
  <2>3. /\ s.called = s.called \cup (IF log[e].kind = "call" THEN {log[e].callId} ELSE {})
        /\ s.answered = s.answered \cup (IF log[e].kind = "result" THEN {log[e].callId} ELSE {})
        /\ log[e].kind = "call" => log[e].callId \in s.called
    BY <2>2 DEF Ignored
  <2>4. TakesIds(e, t)
    BY <2>1, <2>2, <2>3 DEF TakesIds
  <2> QED
    BY <1>5, <1>8, <2>2, <2>4
<1>6. Completes(e, t) => t \in Turns
  BY DEF Completes
<1> QED
  BY <1>1, <1>2, <1>3, <1>4, <1>5, <1>6, <1>8, ObserverForms

(* A turn's event is the same as another of its kind and call ID.          *)
LEMMA SameEvent ==
  ASSUME TypeOK, NEW f \in Events, NEW g \in Events, log[f].turn = log[g].turn, log[f].kind = log[g].kind,
         log[f].callId = log[g].callId
  PROVE  log[f] = log[g]
<1>1. log[f] \in EventType /\ log[g] \in EventType
  BY EventTyped
<1> QED
  BY <1>1 DEF EventType

(* What was taken, and by whom, a step keeps; it takes at most one event.  *)
LEMMA TakenMoves ==
  ASSUME Inv, [Next]_vars, ~Restart, obs'.pc # "stopped"
  PROVE  /\ obs.pc # "stopped"
         /\ \A i \in Events : Taken(i) => Taken(i)'
         /\ \A i \in Events' : Taken(i)' =>
              i \in Events /\ (Taken(i) \/ (i = obs.at /\ (Observe \/ Woken) /\ Takes(i, log[i].turn)))
<1>0. TypeOK /\ ~Crash
  BY DEF Inv, Crash, Stopped, Observer
<1>1. Onward
  BY OnwardMove
<1>2. obs.pc # "stopped" /\ \A i \in Events : Taken(i)' => Taken(i) \/ (i = obs.at /\ (Observe \/ Woken) /\ Takes(i, log[i].turn))
  BY <1>1 DEF Onward
<1>3. \A i \in Events : Taken(i) => Taken(i)'
  <2>1. \A i \in Events : i \in Nat
    BY DEF Events
  <2> QED
    BY <1>0, <2>1, TakenKept
<1>4. ASSUME NEW i \in Events', Taken(i)' PROVE i \in Events
  <2>1. SUFFICES ASSUME i \notin Events PROVE FALSE
    OBVIOUS
  <2>2. i = Len(log) + 1 /\ UNCHANGED obs
    BY <1>0, <1>4, <2>1, LogKeeps DEF Emits
  <2>3. Taken(i)
    BY <1>4, <2>2 DEF Taken, Working
  <2>4. obs.at <= Len(log) + 1 /\ obs.at \in Nat /\ Len(log) \in Nat /\ (Working => obs.at \in Events)
    BY <1>0, <2>2, LogKeeps DEF Inv, Reach, ObsShape, ObsOK, ObsType, Working
  <2>5. Working => obs.at <= Len(log)
    BY <2>4 DEF Events
  <2> QED
    BY <2>2, <2>3, <2>4, <2>5 DEF Taken
<1> QED
  BY <1>2, <1>3, <1>4

(* The observer takes no event: a sink that keeps its call IDs can still   *)
(* account for them.                                                       *)
LEMMA IdsStill ==
  ASSUME Inv, Ids, [Next]_vars, ~Restart, ~Observe, ~Woken, obs'.pc # "stopped", NEW t \in Turns, IdsStay(t)
  PROVE  /\ ~sinks'[t].live => IdsNone(t)
         /\ \A id \in sinks'[t].called : CalledFrom(t, id)'
         /\ \A id \in sinks'[t].answered : AnsweredFrom(t, id)'
<1>0. /\ obs.pc # "stopped" /\ \A i \in Events : Taken(i) => Taken(i)'
      /\ \A i \in Events' : Taken(i)' => i \in Events /\ Taken(i)
  BY TakenMoves
<1>1. \A i \in Events : i \in Events' /\ log'[i] = log[i]
  BY LogKeeps DEF Inv
<1>2. \A g, id : CallBy(g, t, id) => CallBy(g, t, id)'
  BY <1>1 DEF CallBy
<1>3. \A r, id : /\ AnswerTo(r, t, id) => AnswerTo(r, t, id)'
                 /\ r \in Events /\ AnswerTo(r, t, id)' => AnswerTo(r, t, id)
  BY <1>1 DEF AnswerTo
<1>4. ASSUME NEW id, NEW g, Answers(g, t, id) PROVE Answers(g, t, id)'
  BY <1>0, <1>3, <1>4 DEF Answers, IdsStay
<1>5. ASSUME NEW id \in sinks'[t].called PROVE CalledFrom(t, id)'
  <2>1. CalledFrom(t, id)
    BY <1>0, <1>5 DEF Ids, IdsStay
  <2>2. PICK g \in Events : /\ CallBy(g, t, id) /\ Taken(g) /\ Answers(g, t, id)
                            /\ sinks[t].text # 0 => g < sinks[t].text
    BY <2>1 DEF CalledFrom
  <2>3. g \in Events' /\ CallBy(g, t, id)' /\ Taken(g)' /\ Answers(g, t, id)'
    BY <1>0, <1>1, <1>2, <1>4, <2>2
  <2> QED
    BY <2>2, <2>3 DEF CalledFrom, IdsStay
<1>6. ASSUME NEW id \in sinks'[t].answered PROVE AnsweredFrom(t, id)'
  <2>1. PICK r \in Events : AnswerTo(r, t, id) /\ Taken(r)
    BY <1>0, <1>6 DEF Ids, IdsStay, AnsweredFrom
  <2> QED
    BY <1>0, <1>1, <1>3, <2>1 DEF AnsweredFrom
<1>7. ~sinks'[t].live => IdsNone(t)
  BY DEF Ids, IdsStay, IdsNone
<1> QED
  BY <1>5, <1>6, <1>7

(* The observer takes an event of another turn, or of one it does not      *)
(* project.                                                                *)
LEMMA IdsOther ==
  ASSUME Inv, Ids, [Next]_vars, Observe \/ Woken, obs'.pc # "stopped", NEW t \in Turns, NEW e, e = obs.at,
         sinks'[t] = sinks[t], log[e].turn = t => Waits \/ ~sinks[t].live
  PROVE  /\ \A id \in sinks'[t].called : CalledFrom(t, id)'
         /\ \A id \in sinks'[t].answered : AnsweredFrom(t, id)'
<1>0. /\ TypeOK /\ e \in Events /\ obs.pc # "stopped" /\ log' = log /\ Events' = Events /\ ~Restart
      /\ obs \in ObsType
  BY ObserverMoves DEF Inv, TypeOK, Events, Reading, ObserveUnchanged, engine, Restart
<1>1. /\ \A i \in Events : Taken(i) => Taken(i)'
      /\ \A i \in Events' : Taken(i)' => i \in Events /\ (Taken(i) \/ i = e)
  BY <1>0, TakenMoves
<1>w. Waits => \A i \in Events : Taken(i)' => Taken(i)
  BY <1>0 DEF Waits, Waiting, ObsType, Taken, Working
<1>2. \A g, id : (CallBy(g, t, id)' <=> CallBy(g, t, id)) /\ (AnswerTo(g, t, id)' <=> AnswerTo(g, t, id))
  BY <1>0 DEF CallBy, AnswerTo
<1>3. ASSUME NEW id \in sinks'[t].called PROVE CalledFrom(t, id)'
  <2>1. sinks[t].live /\ CalledFrom(t, id)
    BY <1>0, <1>3 DEF Ids
  <2>2. PICK g \in Events : /\ CallBy(g, t, id) /\ Taken(g) /\ Answers(g, t, id)
                            /\ sinks[t].text # 0 => g < sinks[t].text
    BY <2>1 DEF CalledFrom
  <2>3. ASSUME NEW r \in Events, AnswerTo(r, t, id), g < r, Taken(r)' PROVE id \in sinks'[t].answered
    <3>1. Taken(r)
      BY <1>0, <1>1, <1>w, <2>1, <2>3 DEF AnswerTo
    <3> QED
      BY <2>2, <2>3, <3>1 DEF Answers
  <2>4. Answers(g, t, id)'
    BY <1>0, <1>2, <2>3 DEF Answers
  <2>5. CallBy(g, t, id)' /\ Taken(g)' /\ (sinks'[t].text # 0 => g < sinks'[t].text)
    BY <1>1, <1>2, <2>2
  <2> QED
    BY <1>0, <2>4, <2>5 DEF CalledFrom
<1>4. ASSUME NEW id \in sinks'[t].answered PROVE AnsweredFrom(t, id)'
  <2>1. PICK r \in Events : AnswerTo(r, t, id) /\ Taken(r)
    BY <1>0, <1>4 DEF Ids, AnsweredFrom
  <2> QED
    BY <1>0, <1>1, <1>2, <2>1 DEF AnsweredFrom
<1> QED
  BY <1>3, <1>4

(* The observer projects an event of the turn.                             *)
LEMMA IdsTaken ==
  ASSUME Inv, Ids, [Next]_vars, Observe \/ Woken, obs'.pc # "stopped", NEW t \in Turns, NEW e, e = obs.at,
         log[e].turn = t, TakesIds(e, t), sinks'[t].live, sinks[t].live \/ sinks'[t] # sinks[t], Taken(e)'
  PROVE  /\ \A id \in sinks'[t].called : CalledFrom(t, id)'
         /\ \A id \in sinks'[t].answered : AnsweredFrom(t, id)'
<1>0. /\ TypeOK /\ e \in Events /\ e \in Nat /\ obs.pc \in Reading /\ obs.pc # "stopped" /\ log' = log
      /\ Events' = Events /\ ~Restart
  BY ObserverMoves DEF Inv, Events, Reading, ObserveUnchanged, engine, Restart
<1>1. /\ \A i \in Events : Taken(i) => Taken(i)'
      /\ \A i \in Events' : Taken(i)' => i \in Events /\ (Taken(i) \/ i = e)
  BY <1>0, TakenMoves
<1>t. \A i \in Events : Taken(i) => i < e
  BY <1>0 DEF Taken, Working, Reading
<1>2. \A g, id : (CallBy(g, t, id)' <=> CallBy(g, t, id)) /\ (AnswerTo(g, t, id)' <=> AnswerTo(g, t, id))
  BY <1>0 DEF CallBy, AnswerTo
<1>s. PICK s, k : s = SinkFor(t) /\ k = log[e].callId
  OBVIOUS
<1>3. /\ sinks'[t].called = s.called \cup (IF log[e].kind = "call" THEN {k} ELSE {})
      /\ sinks'[t].answered = s.answered \cup (IF log[e].kind = "result" THEN {k} ELSE {})
      /\ sinks'[t].text \in {0, s.text, e}
      /\ sinks'[t].text = e => log[e].kind = "text"
      /\ log[e].kind = "call" /\ k \notin s.called => sinks'[t].text = 0
  BY <1>s, SinkValues DEF TakesIds
<1>4. /\ s.called = sinks[t].called /\ s.answered = sinks[t].answered
      /\ sinks[t].live => s.text = sinks[t].text
  BY <1>s, SinkIds DEF SinkFor, Ids
<1>5. ASSUME NEW id \in sinks'[t].called PROVE CalledFrom(t, id)'
  <2>1. CASE id \in sinks[t].called
    <3>1. sinks[t].live /\ CalledFrom(t, id)
      BY <1>0, <2>1 DEF Ids
    <3>2. PICK g \in Events : /\ CallBy(g, t, id) /\ Taken(g) /\ Answers(g, t, id)
                              /\ sinks[t].text # 0 => g < sinks[t].text
      BY <3>1 DEF CalledFrom
    <3>3. ASSUME NEW r \in Events, AnswerTo(r, t, id), g < r, Taken(r)' PROVE id \in sinks'[t].answered
      <4>1. CASE r = e
        <5>1. log[e].kind = "result" /\ id = k
          BY <1>s, <3>3, <4>1 DEF AnswerTo
        <5> QED
          BY <1>3, <5>1
      <4>2. CASE r # e
        <5>1. id \in sinks[t].answered
          BY <1>0, <1>1, <3>2, <3>3, <4>2 DEF Answers
        <5> QED
          BY <1>3, <1>4, <5>1
      <4> QED
        BY <4>1, <4>2
    <3>4. Answers(g, t, id)'
      BY <1>0, <1>2, <3>3 DEF Answers
    <3>5. sinks'[t].text # 0 => g < sinks'[t].text
      BY <1>3, <1>4, <1>t, <3>1, <3>2
    <3> QED
      BY <1>0, <1>1, <1>2, <3>2, <3>4, <3>5 DEF CalledFrom
  <2>2. CASE id \notin sinks[t].called
    <3>1. log[e].kind = "call" /\ id = k /\ sinks'[t].text = 0
      BY <1>3, <1>4, <1>5, <2>2
    <3>2. CallBy(e, t, id)
      BY <1>0, <1>s, <3>1 DEF CallBy
    <3>3. Answers(e, t, id)'
      <4>1. ASSUME NEW r \in Events, e < r, Taken(r)' PROVE FALSE
        <5>1. r < e \/ r = e
          BY <1>0, <1>1, <1>t, <4>1
        <5> QED
          BY <1>0, <4>1, <5>1 DEF Events
      <4> QED
        BY <1>0, <4>1 DEF Answers
    <3> QED
      BY <1>0, <1>2, <3>1, <3>2, <3>3 DEF CalledFrom
  <2> QED
    BY <2>1, <2>2
<1>6. ASSUME NEW id \in sinks'[t].answered PROVE AnsweredFrom(t, id)'
  <2>1. CASE id \in sinks[t].answered
    <3>1. PICK r \in Events : AnswerTo(r, t, id) /\ Taken(r)
      BY <1>0, <2>1 DEF Ids, AnsweredFrom
    <3> QED
      BY <1>0, <1>1, <1>2, <3>1 DEF AnsweredFrom
  <2>2. CASE id \notin sinks[t].answered
    <3>1. AnswerTo(e, t, id)
      BY <1>0, <1>s, <1>3, <1>4, <1>6, <2>2 DEF AnswerTo
    <3> QED
      BY <1>0, <1>2, <3>1 DEF AnsweredFrom
  <2> QED
    BY <2>1, <2>2
<1> QED
  BY <1>5, <1>6

LEMMA IdsKept ==
  ASSUME Inv, Ids, [Next]_vars
  PROVE  Ids'
<1> DEFINE From(t) == /\ \A id \in sinks'[t].called : CalledFrom(t, id)'
                      /\ \A id \in sinks'[t].answered : AnsweredFrom(t, id)'
<1>1. ASSUME NEW t \in Turns
      PROVE  /\ ~sinks'[t].live => sinks'[t].called = {} /\ sinks'[t].answered = {}
             /\ obs'.pc # "stopped" => From(t)
  <2>1. CASE IdsNone(t)
    BY <2>1 DEF IdsNone
  <2>2. CASE ~Observe /\ ~Woken /\ IdsStay(t)
    <3>1. ~sinks'[t].live => sinks'[t].called = {} /\ sinks'[t].answered = {}
      BY <2>2 DEF Ids, IdsStay
    <3>2. CASE Restart
      <4>1. IdsNone(t)
        BY <3>2, SinkIds DEF Restart, Forgotten, IdsNone
      <4> QED
        BY <2>1, <4>1
    <3>3. CASE ~Restart
      BY <2>2, <3>1, <3>3, IdsStill
    <3> QED
      BY <3>2, <3>3
  <2>3. CASE Observe \/ Woken
    <3>1. PICK e : e = obs.at
      OBVIOUS
    <3>2. \/ Waits /\ sinks' = sinks
          \/ /\ \A u \in Turns : u # log[e].turn => sinks'[u] = sinks[u]
             /\ log[e].turn \in Turns => TakesIds(e, log[e].turn)
             /\ Taken(e)'
      BY <2>3, <3>1, ObserverIds DEF Waits, Waiting
    <3>3. CASE sinks'[t] = sinks[t] /\ (log[e].turn = t => Waits \/ ~sinks[t].live)
      <4>1. ~sinks'[t].live => sinks'[t].called = {} /\ sinks'[t].answered = {}
        BY <3>3 DEF Ids
      <4>2. obs'.pc # "stopped" => From(t)
        BY <2>3, <3>1, <3>3, IdsOther
      <4> QED
        BY <4>1, <4>2
    <3>4. CASE /\ log[e].turn = t /\ TakesIds(e, t) /\ Taken(e)'
               /\ sinks[t].live \/ sinks'[t] # sinks[t]
      <4>1. CASE sinks'[t].live
        BY <2>3, <3>1, <3>4, <4>1, IdsTaken
      <4>2. CASE ~sinks'[t].live
        <5>1. sinks'[t] = NoSink
          BY <3>4, <4>2 DEF TakesIds
        <5> QED
          BY <2>1, <5>1, SinkIds DEF IdsNone
      <4> QED
        BY <4>1, <4>2
    <3> QED
      BY <3>2, <3>3, <3>4
  <2> QED
    BY <2>1, <2>2, <2>3, IdsMove
<1> QED
  BY <1>1 DEF Ids

(* What the sink ignores was in the log before.                            *)
LEMMA IgnoredRepeats ==
  ASSUME Inv, Ids, obs.pc \in Reading, NEW e \in Events, e = obs.at, NEW t \in Turns, t = log[e].turn,
         Ignored(e, sinks[t])
  PROVE  Repeated(e)
<1>1. PICK d \in Events : Taken(d) /\ log[d].turn = t /\ log[d].kind = log[e].kind /\ log[d].callId = log[e].callId
  BY DEF Ignored, Ids, CalledFrom, AnsweredFrom, CallBy, AnswerTo, Reading
<1>2. d < e /\ log[d] = log[e]
  BY <1>1, SameEvent DEF Inv, Taken, Working, Reading
<1>3. d \in 1..(e - 1)
  BY <1>2 DEF Events
<1> QED
  BY <1>2, <1>3 DEF Repeated, Ignored

--------------------------------------------------------------------------------
(* The cursors are written in order.                                       *)

\* At most one of the observer, the next call and the close writes a cursor: the
\* observer while none is held, the others one that is held.
Sound(w) ==
  /\ w.by \in {"own", "late"} => w.cursor = 0
  /\ w.by = "obs" => terminalCursor = 0
  /\ w.by \in {"held", "close"} => terminalCursor # 0
Writers ==
  /\ \A i \in DOMAIN writes : Sound(writes[i]) /\ (writes[i].cursor # 0 => binding.cursor <= writes[i].cursor)
  /\ terminalCursor # 0 => Reached(terminalCursor)

\* The ops that are left are about the turn of the event.  No cursor is beyond
\* what they commit: the event itself or, before it, a text that is not durable.
Todo(o) ==
  /\ o.pc = "write" => o.todo[1].op = "commit"
  /\ \A i \in DOMAIN o.todo :
       /\ o.todo[i].t = log[o.at].turn
       /\ o.todo[i].op = "commit" =>
            /\ Reached(o.todo[i].e)
            /\ o.todo[i].e # o.at => /\ log[o.todo[i].e].kind = "text"
                                     /\ o.todo[i].t \in undurableSinks \/ (i = 1 /\ o.pc = "write")
            /\ \A j \in DOMAIN o.todo : j < i /\ o.todo[j].op = "commit" => o.todo[i].e = o.at

\* The sink of t has seen the call ID of f before.
Again(f, t) == Repeated(f) /\ Ignored(f, sinks[t])

\* The text a sink holds is the last its turn showed, apart from what it ignored,
\* and until it is stored it is ahead of every cursor and keeps its turn undurable.
OpenAt(t, x) ==
  /\ sinks[t].live
  /\ \A f \in Events : log[f].turn = t /\ x < f => obs.pc = "stopped" \/ obs.at <= f \/ Again(f, t)
  /\ \/ Closing(t)
     \/ /\ t \in undurableSinks /\ Reached(x - 1)
        /\ Working => log[obs.at].turn # t
OpenText == \A t \in Turns : sinks[t].text # 0 => OpenAt(t, sinks[t].text)

LEMMA WritersApart ==
  ASSUME Inv, NEW i \in DOMAIN writes, NEW j \in DOMAIN writes
  PROVE  /\ writes[i].by = writes[j].by => i = j
         /\ ~(writes[i].by = "held" /\ writes[j].by = "close")
<1>1. writes[i].by = writes[j].by => i = j
  BY DEF Inv, Queue
<1>2. writes[i].by = "held" => pc = "commit"
  BY DEF Inv, Queue
<1>3. writes[j].by = "close" => life = "committing"
  BY DEF Inv, Queue
<1>4. life = "committing" => pc # "commit"
  BY DEF Inv, CallShape, inFlight
<1> QED
  BY <1>1, <1>2, <1>3, <1>4

LEMMA OneMoves ==
  ASSUME Inv, Writers, NEW i \in DOMAIN writes, NEW j \in DOMAIN writes,
         writes[i].cursor # 0, writes[j].cursor # 0
  PROVE  i = j
<1>1. writes[i].by \in {"own", "late", "held", "obs", "close"} /\ writes[j].by \in {"own", "late", "held", "obs", "close"}
  <2>1. writes \in Seq(WriteType)
    BY DEF Inv, TypeOK
  <2>2. writes[i] \in WriteType /\ writes[j] \in WriteType
    BY <2>1
  <2> QED
    BY <2>2 DEF WriteType
<1>2. Sound(writes[i]) /\ Sound(writes[j])
  BY DEF Writers
<1> QED
  BY <1>1, <1>2, WritersApart DEF Sound

LEMMA WritesDiffer ==
  ASSUME TypeOK, NEW by, Written(by)
  PROVE  writes' # writes /\ \A w : ~Persist(w)
<1>1. writes \in Seq(WriteType) /\ writes # <<>> /\ writes' = Tail(writes)
  BY DEF TypeOK, Written
<1>2. Len(writes) \in Nat /\ Len(Tail(writes)) = Len(writes) - 1
  BY <1>1, SeqFacts
<1>3. Tail(writes) # writes
  BY <1>2
<1>4. ASSUME NEW w, Persist(w) PROVE FALSE
  <2>1. Len(writes') = Len(writes) + 1
    BY <1>1, <1>4 DEF Persist
  <2> QED
    BY <1>1, <1>2, <2>1
<1> QED
  BY <1>1, <1>3, <1>4

(* A write that is under way stays sound.                                  *)
LEMMA SoundKept ==
  ASSUME Inv, [Next]_vars, ~Crash, ~Restart, NEW i \in DOMAIN writes, Sound(writes[i]), ~Written(writes[i].by),
         NEW w, w = writes[i]
  PROVE  Sound(w)'
<1>0. Sound(w)' <=> /\ w.by \in {"own", "late"} => w.cursor = 0
                    /\ w.by = "obs" => terminalCursor' = 0
                    /\ w.by \in {"held", "close"} => terminalCursor' # 0
  BY DEF Sound
<1>1. w.by \in {"own", "late"} => w.cursor = 0
  BY DEF Sound
<1>2. w.by = "obs" => terminalCursor = 0 /\ obs.pc = "write"
  BY DEF Sound, Inv, Queue
<1>3. w.by \in {"held", "close"} => terminalCursor # 0
  BY DEF Sound
<1>4. CASE UNCHANGED terminalCursor
  BY <1>0, <1>1, <1>2, <1>3, <1>4
<1>5. CASE Commit /\ terminalCursor' = Head(obs.todo).e /\ obs.pc = "apply"
  <2>1. Head(obs.todo).e # 0
    BY <1>5, OpNow DEF Events
  <2> QED
    BY <1>0, <1>1, <1>2, <1>5, <2>1
<1>6. CASE obs.at \in Events /\ obs.pc \in Reading /\ terminalCursor' = obs.at
  <2>1. obs.at # 0 /\ obs.pc # "write"
    BY <1>6 DEF Events, Reading
  <2> QED
    BY <1>0, <1>1, <1>2, <1>6, <2>1
<1>7. CASE WrittenHeld
  <2>1. Written("held") /\ terminalCursor' = 0
    BY <1>7 DEF WrittenHeld
  <2>2. 1 \in DOMAIN writes /\ writes[1].by = "held"
    BY <2>1, QueueTail DEF Inv
  <2>3. w.by \notin {"held", "close"}
    BY <2>1, <2>2, WritersApart
  <2> QED
    BY <1>0, <1>1, <2>1, <2>3
<1>8. CASE WrittenClose
  <2>1. Written("close") /\ terminalCursor' = 0
    BY <1>8 DEF WrittenClose
  <2>2. 1 \in DOMAIN writes /\ writes[1].by = "close"
    BY <2>1, QueueTail DEF Inv
  <2>3. w.by \notin {"held", "close"}
    BY <2>1, <2>2, WritersApart
  <2> QED
    BY <1>0, <1>1, <2>1, <2>3
<1> QED
  BY <1>4, <1>5, <1>6, <1>7, <1>8, TerminalMove DEF TerminalMoves

(* A write that is added is sound, and not behind the binding.             *)
LEMMA SoundNew ==
  ASSUME Inv, Todo(obs), Writers, Persists, UNCHANGED binding
  PROVE  \/ writes' = writes
         \/ \E w \in WriteType : /\ Persist(w) /\ Sound(w)'
                                 /\ w.cursor # 0 => binding'.cursor <= w.cursor
<1>0. TypeOK /\ ownedSubmissions \in SUBSET Turns /\ terminalCursor \in 0..Len(log)
  BY DEF Inv, TypeOK
<1>s. \A w : Sound(w)' <=> /\ w.by \in {"own", "late"} => w.cursor = 0
                           /\ w.by = "obs" => terminalCursor' = 0
                           /\ w.by \in {"held", "close"} => terminalCursor' # 0
  BY DEF Sound
<1>1. ASSUME NEW p \in Prompts, Stream(p), Persist(CursorWrite("held", terminalCursor, ownedSubmissions)), terminalCursor # 0
      PROVE  \E w \in WriteType : /\ Persist(w) /\ Sound(w)' /\ (w.cursor # 0 => binding'.cursor <= w.cursor)
  <2>1. UNCHANGED terminalCursor
    BY <1>1 DEF Stream
  <2>2. PICK w : w = CursorWrite("held", terminalCursor, ownedSubmissions)
    OBVIOUS
  <2>3. w \in WriteType /\ w.by = "held" /\ w.cursor = terminalCursor
    BY <1>0, <2>2, WritesTyped
  <2>4. binding.cursor <= terminalCursor
    BY <1>1 DEF Writers, Reached
  <2> QED
    BY <1>1, <1>s, <2>1, <2>2, <2>3, <2>4
<1>2. ASSUME NEW by \in {"own", "late"}, NEW t \in Turns, Persist(OwnWrite(by, t))
      PROVE  \E w \in WriteType : /\ Persist(w) /\ Sound(w)' /\ (w.cursor # 0 => binding'.cursor <= w.cursor)
  <2>1. PICK w : w = OwnWrite(by, t)
    OBVIOUS
  <2>2. w \in WriteType /\ w.by \in {"own", "late"} /\ w.cursor = 0
    BY <1>0, <2>1, WritesTyped
  <2> QED
    BY <1>2, <1>s, <2>1, <2>2
<1>3. ASSUME Commit, Persist(CursorWrite("obs", Head(obs.todo).e, ownedSubmissions)), obs.pc = "apply",
             terminalCursor = 0, writes' # writes
      PROVE  \E w \in WriteType : /\ Persist(w) /\ Sound(w)' /\ (w.cursor # 0 => binding'.cursor <= w.cursor)
  <2>1. UNCHANGED terminalCursor
    BY <1>3 DEF Commit, Held
  <2>2. PICK op : op = Head(obs.todo)
    OBVIOUS
  <2>3. op.e \in Events /\ op.op = "commit"
    BY <1>3, <2>2, OpNow DEF Commit
  <2>4. op.e \in 0..Len(log)
    BY <2>3, <1>0 DEF Events, TypeOK
  <2>5. PICK w : w = CursorWrite("obs", op.e, ownedSubmissions)
    OBVIOUS
  <2>6. w \in WriteType /\ w.by = "obs" /\ w.cursor = op.e
    BY <1>0, <2>4, <2>5, WritesTyped
  <2>7. op = obs.todo[1] /\ 1 \in DOMAIN obs.todo
    <3>1. obs.todo \in Seq(OpType) /\ obs.todo # <<>>
      BY <1>3 DEF Inv, ObsShape, ObsOK, ObsType
    <3> QED
      BY <2>2, <3>1, SeqFacts
  <2>8. Reached(op.e)
    BY <2>3, <2>7 DEF Todo
  <2>9. binding.cursor <= op.e
    BY <2>8 DEF Reached
  <2> QED
    BY <1>3, <1>s, <2>1, <2>2, <2>5, <2>6, <2>9
<1>4. ASSUME CloseCommit, Persist(CursorWrite("close", terminalCursor, ownedSubmissions)), writes' # writes
      PROVE  \E w \in WriteType : /\ Persist(w) /\ Sound(w)' /\ (w.cursor # 0 => binding'.cursor <= w.cursor)
  <2>1. UNCHANGED terminalCursor /\ terminalCursor # 0
    BY <1>4 DEF CloseCommit
  <2>2. PICK w : w = CursorWrite("close", terminalCursor, ownedSubmissions)
    OBVIOUS
  <2>3. w \in WriteType /\ w.by = "close" /\ w.cursor = terminalCursor
    BY <1>0, <2>2, WritesTyped
  <2>4. binding.cursor <= terminalCursor
    BY <2>1 DEF Writers, Reached
  <2> QED
    BY <1>4, <1>s, <2>1, <2>2, <2>3, <2>4
<1> QED
  BY <1>1, <1>2, <1>3, <1>4 DEF Persists

LEMMA WritesSound ==
  ASSUME Inv, Todo(obs), Writers, [Next]_vars
  PROVE  \A i \in DOMAIN writes' :
           Sound(writes[i])' /\ (writes'[i].cursor # 0 => binding'.cursor <= writes'[i].cursor)
<1>0. TypeOK
  BY DEF Inv
<1>s. \A i \in DOMAIN writes' : \A w : w = writes'[i] => (Sound(writes[i])' <=> Sound(w)')
  BY DEF Sound
<1>t. ASSUME NEW i \in DOMAIN writes PROVE Sound(writes[i]) /\ (writes[i].cursor # 0 => binding.cursor <= writes[i].cursor)
  BY DEF Writers
<1>1. CASE Crash \/ Restart
  <2>1. writes' = <<>>
    BY <1>1 DEF Crash, Restart, Forgotten
  <2>2. DOMAIN writes' = {}
    BY <2>1
  <2> QED
    BY <2>2
<1>2. ASSUME ~Crash, ~Restart, UNCHANGED <<writes, binding>>, NEW i \in DOMAIN writes'
      PROVE  Sound(writes[i])' /\ (writes'[i].cursor # 0 => binding'.cursor <= writes'[i].cursor)
  <2>1. i \in DOMAIN writes /\ writes'[i] = writes[i] /\ \A by : ~Written(by)
    BY <1>0, <1>2, WritesDiffer
  <2>2. PICK w : w = writes[i]
    OBVIOUS
  <2>3. Sound(w)'
    BY <1>2, <1>t, <2>1, <2>2, SoundKept
  <2> QED
    BY <1>2, <1>s, <1>t, <2>1, <2>2, <2>3
<1>3. ASSUME ~Crash, ~Restart, WriteDone, NEW i \in DOMAIN writes'
      PROVE  Sound(writes[i])' /\ (writes'[i].cursor # 0 => binding'.cursor <= writes'[i].cursor)
  <2>1. PICK by \in {"obs", "held", "own", "late", "close"} : Written(by)
    BY <1>3 DEF WriteDone
  <2>2. /\ i + 1 \in DOMAIN writes /\ writes'[i] = writes[i + 1] /\ i \in Nat /\ i >= 1
        /\ 1 \in DOMAIN writes /\ writes[1].by = by
    BY <1>0, <1>3, <2>1, QueueTail
  <2>3. PICK j : j = i + 1
    OBVIOUS
  <2>4. j \in DOMAIN writes /\ writes'[i] = writes[j] /\ j # 1
    BY <2>2, <2>3
  <2>5. writes[j].by # by
    BY <2>2, <2>4, WritersApart
  <2>6. ~Written(writes[j].by)
    <3>1. ASSUME Written(writes[j].by) PROVE FALSE
      <4>1. writes[1].by = writes[j].by
        BY <1>0, <3>1, QueueTail
      <4> QED
        BY <2>2, <2>5, <4>1
    <3> QED
      BY <3>1
  <2>7. PICK w : w = writes[j]
    OBVIOUS
  <2>8. Sound(w)'
    BY <1>3, <1>t, <2>4, <2>6, <2>7, SoundKept
  <2>9. binding'.cursor \in {binding.cursor, writes[1].cursor}
    <3>1. binding' = [binding EXCEPT !.owned = @ \cup Head(writes).owned]
            \/ binding' = [cursor |-> Head(writes).cursor, owned |-> Head(writes).owned]
      BY <2>1 DEF Written
    <3>2. binding \in BindingType /\ Head(writes) = writes[1]
      BY <1>0, <2>1, QueueTail DEF TypeOK
    <3> QED
      BY <3>1, <3>2 DEF BindingType
  <2>10. ASSUME writes[j].cursor # 0 PROVE binding'.cursor <= writes[j].cursor
    <3>1. writes[1].cursor = 0
      BY <2>2, <2>4, <2>10, OneMoves
    <3>2. binding.cursor <= writes[j].cursor
      BY <1>t, <2>4, <2>10
    <3>3. writes[j].cursor \in Nat /\ 0 <= writes[j].cursor
      <4>1. writes[j].cursor \in Nat
        BY <1>0, <2>4, CursorsTyped
      <4> QED
        BY <4>1
    <3> QED
      BY <2>9, <3>1, <3>2, <3>3
  <2> QED
    BY <1>s, <2>4, <2>7, <2>8, <2>10
<1>4. ASSUME ~Crash, ~Restart, Persists, UNCHANGED binding, writes' # writes, NEW i \in DOMAIN writes'
      PROVE  Sound(writes[i])' /\ (writes'[i].cursor # 0 => binding'.cursor <= writes'[i].cursor)
  <2>1. PICK w \in WriteType : Persist(w) /\ Sound(w)' /\ (w.cursor # 0 => binding'.cursor <= w.cursor)
    BY <1>4, SoundNew
  <2>2. /\ DOMAIN writes' = DOMAIN writes \cup {Len(writes) + 1}
        /\ \A j \in DOMAIN writes : writes'[j] = writes[j]
        /\ writes'[Len(writes) + 1] = w
    BY <1>0, <2>1, QueueGrown
  <2>3. CASE i \in DOMAIN writes
    <3>1. writes'[i] = writes[i] /\ \A by : ~Written(by)
      BY <1>0, <2>1, <2>2, <2>3, WritesDiffer
    <3>2. PICK v : v = writes[i]
      OBVIOUS
    <3>3. Sound(v)'
      BY <1>4, <1>t, <2>3, <3>1, <3>2, SoundKept
    <3> QED
      BY <1>4, <1>s, <1>t, <2>3, <3>1, <3>2, <3>3
  <2>4. CASE i \notin DOMAIN writes
    <3>1. writes'[i] = w
      BY <1>4, <2>2, <2>4
    <3> QED
      BY <1>4, <1>s, <2>1, <3>1
  <2> QED
    BY <2>3, <2>4
<1> QED
  BY <1>1, <1>2, <1>3, <1>4, QueueMove DEF QueueMoves

LEMMA HeadOp ==
  ASSUME Inv, obs.pc = "apply", NEW op, op = Head(obs.todo)
  PROVE  /\ op = obs.todo[1] /\ 1 \in DOMAIN obs.todo
         /\ op.e \in Events /\ op.e \in Nat /\ op.e # 0 /\ op.e <= obs.at /\ op.t = log[op.e].turn
<1>1. obs.todo \in Seq(OpType) /\ obs.todo # <<>>
  BY DEF Inv, ObsShape, ObsOK, ObsType
<1>2. op = obs.todo[1] /\ 1 \in DOMAIN obs.todo
  BY <1>1, SeqFacts
<1>3. op.e \in Events /\ op.e <= obs.at /\ op.t = log[op.e].turn
  BY OpNow
<1> QED
  BY <1>2, <1>3 DEF Events

(* The cursor that is held is ahead of every other.                        *)
LEMMA HeldAhead ==
  ASSUME Inv, Bound, Todo(obs), Writers, [Next]_vars, terminalCursor' # 0
  PROVE  Reached(terminalCursor)'
<1>0. TypeOK
  BY DEF Inv
<1>1. ASSUME NEW x, x = terminalCursor', Reached(x)' PROVE Reached(terminalCursor)'
  BY <1>1 DEF Reached
<1>2. ASSUME NEW x, x = terminalCursor', x <= x, binding.cursor <= x, \A i \in DOMAIN writes : writes[i].cursor <= x,
             UNCHANGED <<writes, binding>>
      PROVE  Reached(terminalCursor)'
  BY <1>2 DEF Reached
<1>3. ~Restart /\ ~Crash /\ ~WrittenHeld /\ ~WrittenClose
  BY DEF Restart, Crash, Forgotten, WrittenHeld, WrittenClose
<1>4. CASE UNCHANGED terminalCursor
  <2>0. PICK x : x = terminalCursor
    OBVIOUS
  <2>1. Reached(x) /\ x # 0 /\ x \in Nat
    BY <1>0, <1>4, <2>0, CursorsTyped DEF Writers
  <2>2. /\ binding.cursor <= x /\ terminalCursor <= x /\ \A i \in DOMAIN writes : writes[i].cursor <= x
        /\ x <= x
    BY <2>1 DEF Reached
  <2>3. CASE UNCHANGED <<writes, binding>>
    BY <1>2, <1>4, <2>0, <2>2, <2>3
  <2>4. CASE ~UNCHANGED <<writes, binding>>
    <3>1. ~Commit
      BY <2>0, <2>1, <2>4 DEF Commit, Held, ApplyUnchanged
    <3>2. ~(Observe \/ Woken)
      BY <2>4, ObserverMoves DEF ObserveUnchanged
    <3>3. Reached(x)'
      BY <1>3, <2>1, <3>1, <3>2, ReachedKept
    <3> QED
      BY <1>1, <1>4, <2>0, <3>3
  <2> QED
    BY <2>3, <2>4
<1>5. CASE Commit /\ terminalCursor' = Head(obs.todo).e /\ obs.pc = "apply" /\ UNCHANGED <<writes, binding>>
  <2>1. PICK op : op = Head(obs.todo)
    OBVIOUS
  <2>2. op = obs.todo[1] /\ 1 \in DOMAIN obs.todo /\ op.e \in Nat /\ op.op = "commit"
    BY <1>5, <2>1, HeadOp DEF Commit
  <2>3. PICK x : x = op.e
    OBVIOUS
  <2>4. Reached(x) /\ x \in Nat
    BY <2>2, <2>3 DEF Todo
  <2>5. binding.cursor <= x /\ x <= x /\ \A i \in DOMAIN writes : writes[i].cursor <= x
    BY <2>4 DEF Reached
  <2> QED
    BY <1>2, <1>5, <2>1, <2>3, <2>5
<1>6. CASE (Observe \/ Woken) /\ obs.at \in Events /\ obs.pc \in Reading /\ terminalCursor' = obs.at
  <2>1. PICK x : x = obs.at
    OBVIOUS
  <2>2. x \in Nat /\ UNCHANGED <<writes, binding>>
    BY <1>6, <2>1, ObserverMoves DEF Events, ObserveUnchanged
  <2>3. Reached(x - 1)
    BY <1>6, <2>1 DEF Bound
  <2>4. binding.cursor <= x - 1 /\ \A i \in DOMAIN writes : writes[i].cursor <= x - 1
    BY <2>3 DEF Reached
  <2>5. binding.cursor \in Nat /\ \A i \in DOMAIN writes : writes[i].cursor \in Nat
    BY <1>0, CursorsTyped
  <2>6. binding.cursor <= x /\ x <= x /\ \A i \in DOMAIN writes : writes[i].cursor <= x
    BY <2>2, <2>4, <2>5
  <2> QED
    BY <1>2, <1>6, <2>1, <2>2, <2>6
<1> QED
  BY <1>3, <1>4, <1>5, <1>6, TerminalMove DEF TerminalMoves

LEMMA WritersKept ==
  ASSUME Inv, Bound, Todo(obs), Writers, [Next]_vars
  PROVE  Writers'
<1>1. \A i \in DOMAIN writes' :
        Sound(writes[i])' /\ (writes'[i].cursor # 0 => binding'.cursor <= writes'[i].cursor)
  BY WritesSound
<1>2. terminalCursor' # 0 => Reached(terminalCursor)'
  BY HeldAhead
<1> QED
  BY <1>1, <1>2 DEF Writers

(* What is left to do of an event.                                         *)
LEMMA NothingLeft ==
  ASSUME obs'.todo = <<>>, obs'.pc # "write"
  PROVE  Todo(obs)'
<1>1. DOMAIN obs'.todo = {}
  OBVIOUS
<1> QED
  BY <1>1 DEF Todo

\* What may be left to do, op by op.
Left(o, i) ==
  /\ o.todo[i].t = log[o.at].turn
  /\ o.todo[i].op = "commit" =>
       /\ Reached(o.todo[i].e)
       /\ o.todo[i].e # o.at => /\ log[o.todo[i].e].kind = "text"
                                /\ o.todo[i].t \in undurableSinks \/ (i = 1 /\ o.pc = "write")
       /\ \A j \in DOMAIN o.todo : j < i /\ o.todo[j].op = "commit" => o.todo[i].e = o.at

LEMMA LeftReached ==
  ASSUME NEW i, NEW op, NEW op1, op1 = obs'.todo[i], NEW t, t = op1.t, NEW e, e = op1.e,
         NEW a, a = obs'.at, op1.t = log'[a].turn,
         op1.op = "commit" =>
           /\ Reached(e)'
           /\ e # a => log'[e].kind = "text" /\ (t \in undurableSinks' \/ (i = 1 /\ obs'.pc = "write"))
           /\ \A j \in DOMAIN obs'.todo : j < i /\ obs'.todo[j].op = "commit" => e = a
  PROVE  Left(obs, i)'
BY DEF Left, Reached

LEMMA TextIs ==
  ASSUME Inv, Once, NEW t \in Turns, NEW x, x = sinks[t].text, x # 0
  PROVE  x \in Events /\ x \in Nat /\ x - 1 \in Nat /\ log[x].kind = "text" /\ log[x].turn = t
<1>1. log[x].kind = "text" /\ log[x].turn = t
  BY DEF Once, TextsOnce
<1>2. x \in 0..Len(log) /\ Len(log) \in Nat
  BY TypedValues DEF Inv, TypeOK, SinkType
<1>3. x \in Nat /\ x >= 1 /\ x \in Events /\ x - 1 \in Nat
  BY <1>2 DEF Events
<1> QED
  BY <1>1, <1>3

LEMMA ReachedMore ==
  ASSUME TypeOK, NEW x \in Nat, NEW y \in Nat, x <= y, Reached(x)
  PROVE  Reached(y)
<1>1. binding.cursor <= x /\ terminalCursor <= x /\ \A i \in DOMAIN writes : writes[i].cursor <= x
  BY DEF Reached
<1>2. binding.cursor \in Nat /\ terminalCursor \in Nat /\ \A i \in DOMAIN writes : writes[i].cursor \in Nat
  BY CursorsTyped
<1>3. binding.cursor <= y /\ terminalCursor <= y /\ \A i \in DOMAIN writes : writes[i].cursor <= y
  BY <1>1, <1>2
<1> QED
  BY <1>3 DEF Reached

(* Unless an event is completed or committed, or a write is done, the      *)
(* cursors stay as they are.                                               *)
LEMMA ReachedSame ==
  ASSUME NEW x, Reached(x), UNCHANGED <<binding, terminalCursor, writes>>
  PROVE  Reached(x)'
BY DEF Reached

LEMMA ReadingNothing ==
  ASSUME Inv, obs.pc \in Reading
  PROVE  obs.todo = <<>> /\ ~Working /\ \A t : ~Closing(t)
<1>1. obs.todo = <<>> /\ ~Working
  BY DEF Inv, ObsShape, ObsOK, Reading, Working
<1>2. DOMAIN obs.todo = {}
  BY <1>1
<1> QED
  BY <1>1, <1>2 DEF Closing

LEMMA TodoTakes ==
  ASSUME Inv, [Next]_vars, Bound, Once, Todo(obs), OpenText, Observe \/ Woken
  PROVE  Todo(obs)'
<1>0. /\ TypeOK /\ obs.at \in Events /\ obs.pc \in Reading /\ ObserveUnchanged /\ obs \in ObsType
      /\ obs.todo = <<>> /\ \A t : ~Closing(t)
  BY ObserverMoves, ReadingNothing DEF Inv, TypeOK
<1>1. PICK e, t : e = obs.at /\ t = log[e].turn
  OBVIOUS
<1>b. Bound' /\ log' = log /\ UNCHANGED <<binding, writes>>
  BY <1>0, BoundKept DEF ObserveUnchanged, engine
<1>e. obs'.pc = "apply" /\ obs'.at = e => Reached(e)'
  <2>1. obs'.pc = "apply" => Reached(obs.at)'
    BY <1>b DEF Bound, Working
  <2> QED
    BY <2>1, ReachedAt
<1>2. CASE Waits
  <2>1. obs'.todo = obs.todo /\ obs'.pc # "write"
    BY <1>0, <1>2 DEF Waits, Waiting, ObsType
  <2> QED
    BY <1>0, <2>1, NothingLeft
<1>3. CASE Passes(e)
  <2>1. obs' = Apply1(e, <<Op("commit", e)>>)
    BY <1>3 DEF Passes
  <2>2. obs'.pc = "apply" /\ obs'.at = e /\ obs'.todo = <<Op("commit", e)>>
    BY <2>1 DEF Apply1
  <2>3. DOMAIN obs'.todo = {1} /\ obs'.todo[1] = Op("commit", e)
    BY <2>2
  <2>4. Op("commit", e).e = e /\ Op("commit", e).t = t
    BY <1>1 DEF Op
  <2>5. ~(1 < 1)
    OBVIOUS
  <2>6. Left(obs, 1)'
    <3>1. PICK op1 : op1 = Op("commit", e)
      OBVIOUS
    <3>2. op1 = obs'.todo[1] /\ op1.e = e /\ op1.t = t /\ log'[e].turn = t /\ Reached(e)'
      BY <1>1, <1>b, <1>e, <2>2, <2>3, <2>4, <3>1
    <3>3. \A j \in DOMAIN obs'.todo : ~(j < 1)
      BY <2>3, <2>5
    <3> QED
      BY <2>2, <3>2, <3>3, LeftReached
  <2> QED
    BY <2>2, <2>3, <2>6 DEF Todo, Left
<1>4. CASE Completes(e, t) \/ ShowsText(e, t) \/ Ignores(e, t)
  <2>1. obs'.todo = <<>> /\ obs'.pc # "write"
    BY <1>4 DEF Completes, ShowsText, Ignores, Observer
  <2> QED
    BY <2>1, NothingLeft
<1>5. CASE t \in Turns /\ Plans(e, t) /\ UNCHANGED terminalCursor
  <2>1. PICK y, q : Form(e, SinkFor(t), y, q) /\ obs' = Apply1(e, q)
    BY <1>5 DEF Plans
  <2>2. obs'.pc = "apply" /\ obs'.at = e /\ obs'.todo = q /\ undurableSinks' = undurableSinks
    BY <1>5, <2>1 DEF Apply1, Plans
  <2>3. PICK s, x : s = SinkFor(t) /\ x = s.text
    OBVIOUS
  <2>4. x # 0 => x = sinks[t].text
    BY <2>3, SinkValues DEF SinkFor
  <2>5. x # 0 => /\ log[x].turn = t /\ log[x].kind = "text" /\ x \in Nat /\ x - 1 \in Nat
                 /\ t \in undurableSinks /\ Reached(x)'
    <3>1. ASSUME x # 0
          PROVE  /\ log[x].turn = t /\ log[x].kind = "text" /\ x \in Nat /\ x - 1 \in Nat
                 /\ t \in undurableSinks /\ Reached(x)'
      <4>1. log[x].turn = t /\ log[x].kind = "text" /\ x \in Nat /\ x - 1 \in Nat
        BY <1>5, <2>4, <3>1, TextIs
      <4>2. t \in undurableSinks /\ Reached(sinks[t].text - 1)
        BY <1>0, <1>5, <2>4, <3>1 DEF OpenText, OpenAt
      <4>3. Reached(x - 1) /\ x - 1 <= x
        BY <2>4, <3>1, <4>1, <4>2
      <4>4. Reached(x)
        BY <1>0, <4>1, <4>3, ReachedMore
      <4> QED
        BY <1>5, <1>b, <4>1, <4>2, <4>4, ReachedSame
    <3> QED
      BY <3>1
  <2>6. OpsFor(q, e, x, t)
    BY <1>1, <2>1, <2>3, <2>5, FormOps
  <2>7. ASSUME NEW i \in DOMAIN q PROVE Left(obs, i)'
    <3>1. PICK op1 : op1 = q[i]
      OBVIOUS
    <3>2. PICK f : f = op1.e
      OBVIOUS
    <3>3. OpFor(op1, e, x, t)
      BY <2>6, <2>7, <3>1 DEF OpsFor
    <3>4. op1.t = t /\ (op1.op = "commit" => f = e \/ (f = x /\ x # 0))
      BY <3>2, <3>3 DEF OpFor
    <3>5. op1.op = "commit" => \A j \in DOMAIN q : j < i /\ q[j].op = "commit" => f = e
      BY <2>6, <2>7, <3>1, <3>2 DEF OpsFor
    <3>6. op1.op = "commit" => Reached(f)' /\ (f # e => log'[f].kind = "text" /\ t \in undurableSinks')
      BY <1>b, <1>e, <2>2, <2>5, <3>4
    <3>7. log'[e].turn = t
      BY <1>1, <1>b
    <3> QED
      BY <2>2, <3>1, <3>2, <3>4, <3>5, <3>6, <3>7, LeftReached
  <2> QED
    BY <2>2, <2>7 DEF Todo, Left
<1> QED
  BY <1>1, <1>2, <1>3, <1>4, <1>5, ObserverForms

LEMMA CommitMoves ==
  ASSUME Inv, Commit, NEW op, op = Head(obs.todo)
  PROVE  /\ op.op = "commit" /\ obs.pc = "apply" /\ undurableSinks' = Undurable(op)
         /\ log' = log /\ UNCHANGED <<binding, sinks, ownedSubmissions>>
         /\ \/ /\ Undurable(op) # {} /\ obs' = Advanced(life = "up" /\ ~failed)
               /\ UNCHANGED <<terminalCursor, writes>>
            \/ /\ Undurable(op) = {} /\ terminalCursor # 0 /\ terminalCursor' = op.e
               /\ obs' = Advanced(life = "up" /\ ~failed) /\ UNCHANGED writes
            \/ /\ Undurable(op) = {} /\ terminalCursor = 0 /\ UNCHANGED terminalCursor
               /\ Persist(CursorWrite("obs", op.e, ownedSubmissions))
               /\ obs' = [obs EXCEPT !.pc = "write"]
BY DEF Commit, Held, ApplyUnchanged, engine

LEMMA TodoAdvanced ==
  ASSUME Inv, obs.pc \in {"apply", "write"}, obs' = Advanced(life = "up" /\ ~failed)
  PROVE  \/ obs'.todo = <<>> /\ obs'.pc # "write"
         \/ /\ obs'.at = obs.at /\ obs'.pc = "apply" /\ Len(obs.todo) > 1
            /\ \A i \in DOMAIN obs'.todo : /\ i \in Nat /\ i >= 1 /\ i + 1 \in DOMAIN obs.todo
                                           /\ obs'.todo[i] = obs.todo[i + 1]
<1>0. ObsOK(obs) /\ obs \in ObsType
  BY DEF Inv, ObsShape, ObsOK
<1>1. obs.todo # <<>> /\ (life = "up" /\ ~failed) \in BOOLEAN
  BY <1>0 DEF ObsOK
<1>2. \/ obs'.at = obs.at /\ obs'.todo = Tail(obs.todo) /\ obs'.pc = "apply" /\ Len(obs.todo) > 1
      \/ obs' = Observer("read", obs.at + 1)
      \/ obs' = Stopped
  BY <1>0, <1>1, AdvancedOK
<1>3. CASE obs'.at = obs.at /\ obs'.todo = Tail(obs.todo) /\ obs'.pc = "apply" /\ Len(obs.todo) > 1
  <2>0. PICK p, q : p = obs.todo /\ q = Tail(obs.todo)
    OBVIOUS
  <2>1. p \in Seq(OpType) /\ p # <<>> /\ q = Tail(p)
    BY <1>0, <1>1, <2>0 DEF ObsType
  <2>2. /\ q \in Seq(OpType)
        /\ \A i \in DOMAIN q : i + 1 \in DOMAIN p /\ q[i] = p[i + 1]
    BY <2>1, SeqFacts
  <2>3. \A i \in DOMAIN q : i \in Nat /\ i >= 1
    BY <2>2
  <2> QED
    BY <1>3, <2>0, <2>2, <2>3
<1>4. CASE obs' = Observer("read", obs.at + 1) \/ obs' = Stopped
  BY <1>4 DEF Observer, Stopped
<1> QED
  BY <1>2, <1>3, <1>4

LEMMA TodoCommit ==
  ASSUME Inv, Bound, Once, Todo(obs), [Next]_vars, Commit
  PROVE  Todo(obs)'
<1>0. PICK c : c = Head(obs.todo)
  OBVIOUS
<1>1. /\ c = obs.todo[1] /\ 1 \in DOMAIN obs.todo /\ c.e \in Nat /\ c.e <= obs.at
      /\ c.op = "commit" /\ obs.pc = "apply" /\ log' = log /\ obs \in ObsType /\ Bound' /\ obs.at \in Nat
  BY <1>0, CommitMoves, HeadOp, BoundKept DEF Inv, ObsShape, ObsOK, ObsType
<1>2. ASSUME NEW i \in DOMAIN obs.todo, i # 1, i \in Nat, i >= 1
      PROVE  obs.todo[i].t = log[obs.at].turn /\ (obs.todo[i].op = "commit" => obs.todo[i].e = obs.at)
  <2>1. 1 < i
    BY <1>2
  <2> QED
    BY <1>1, <1>2, <2>1 DEF Todo
<1>3. CASE obs' = Advanced(life = "up" /\ ~failed)
  <2>1. CASE obs'.todo = <<>> /\ obs'.pc # "write"
    BY <2>1, NothingLeft
  <2>2. CASE /\ obs'.at = obs.at /\ obs'.pc = "apply"
             /\ \A i \in DOMAIN obs'.todo : /\ i \in Nat /\ i >= 1 /\ i + 1 \in DOMAIN obs.todo
                                            /\ obs'.todo[i] = obs.todo[i + 1]
    <3>1. PICK a : a = obs.at
      OBVIOUS
    <3>2. Reached(a)'
      <4>1. Reached(obs.at)'
        BY <1>1, <2>2 DEF Bound, Working
      <4> QED
        BY <2>2, <3>1, <4>1, ReachedAt
    <3>3. ASSUME NEW i \in DOMAIN obs'.todo PROVE Left(obs, i)'
      <4>1. PICK j : j = i + 1
        OBVIOUS
      <4>2. j \in DOMAIN obs.todo /\ j # 1 /\ j \in Nat /\ j >= 1 /\ obs'.todo[i] = obs.todo[j]
        BY <2>2, <3>3, <4>1
      <4>3. PICK op1 : op1 = obs.todo[j]
        OBVIOUS
      <4>4. op1 = obs'.todo[i] /\ op1.t = log'[a].turn /\ (op1.op = "commit" => op1.e = a) /\ a = obs'.at
        BY <1>1, <1>2, <2>2, <3>1, <4>2, <4>3
      <4> QED
        BY <3>2, <4>4, LeftReached
    <3> QED
      BY <2>2, <3>3 DEF Todo, Left
  <2> QED
    BY <1>1, <1>3, <2>1, <2>2, TodoAdvanced
<1>4. CASE obs' = [obs EXCEPT !.pc = "write"] /\ Persist(CursorWrite("obs", c.e, ownedSubmissions))
  <2>1. obs'.at = obs.at /\ obs'.todo = obs.todo /\ obs'.pc = "write"
    BY <1>1, <1>4 DEF ObsType
  <2>2. PICK a : a = obs.at
    OBVIOUS
  <2>3. Reached(a)'
    <3>1. Reached(obs.at)'
      BY <1>1, <2>1 DEF Bound, Working
    <3> QED
      BY <2>1, <2>2, <3>1, ReachedAt
  <2>4. PICK x : x = c.e
    OBVIOUS
  <2>5. Reached(x)'
    <3>1. Reached(x) /\ x \in Nat /\ x <= x
      BY <1>1, <2>4 DEF Todo
    <3>2. ~Restart /\ ~(Observe \/ Woken)
      <4>1. obs.pc \notin Reading /\ obs.pc # "stopped"
        BY <1>1 DEF Reading
      <4>2. life # "down"
        BY <4>1 DEF Inv, ObsShape
      <4> QED
        BY <4>1, <4>2, ObserverMoves DEF Restart
    <3> QED
      BY <1>0, <2>4, <3>1, <3>2, ReachedKept
  <2>6. ASSUME NEW i \in DOMAIN obs'.todo PROVE Left(obs, i)'
    <3>1. PICK op1 : op1 = obs.todo[i]
      OBVIOUS
    <3>2. i \in Nat /\ i >= 1 /\ i \in DOMAIN obs.todo
      <4>1. obs.todo \in Seq(OpType)
        BY <1>1 DEF ObsType
      <4>2. PICK q : q = obs.todo
        OBVIOUS
      <4>3. DOMAIN q = 1..Len(q)
        BY <4>1, <4>2
      <4> QED
        BY <2>1, <2>6, <4>2, <4>3
    <3>3. op1.t = log'[a].turn
      BY <1>1, <2>2, <3>1, <3>2 DEF Todo
    <3>4. CASE i = 1
      <4>1. op1 = c /\ op1.e = x
        BY <1>1, <2>4, <3>1, <3>4
      <4>2. x # a => log'[x].kind = "text"
        BY <1>1, <2>2, <2>4 DEF Todo
      <4>3. \A j \in DOMAIN obs'.todo : ~(j < 1)
        <5>1. obs.todo \in Seq(OpType)
          BY <1>1 DEF ObsType
        <5>2. PICK q : q = obs.todo
          OBVIOUS
        <5>3. DOMAIN q = 1..Len(q)
          BY <5>1, <5>2
        <5> QED
          BY <2>1, <5>2, <5>3
      <4> QED
        BY <2>1, <2>2, <2>5, <3>1, <3>3, <3>4, <4>1, <4>2, <4>3, LeftReached
    <3>5. CASE i # 1
      <4>1. op1.op = "commit" => op1.e = a
        BY <1>2, <2>2, <3>1, <3>2, <3>5
      <4> QED
        BY <2>1, <2>2, <2>3, <3>1, <3>3, <4>1, LeftReached
    <3> QED
      BY <3>4, <3>5
  <2>7. obs'.todo[1].op = "commit"
    BY <1>1, <2>1
  <2> QED
    BY <2>6, <2>7 DEF Todo, Left
<1> QED
  BY <1>0, <1>3, <1>4, CommitMoves

LEMMA TodoStays ==
  ASSUME Inv, Once, Todo(obs), [Next]_vars, ~Crash, ~Restart, ~Observe, ~Woken, ~Commit
  PROVE  Todo(obs)'
<1>0. TypeOK /\ ObsOK(obs) /\ obs \in ObsType
  BY DEF Inv, ObsShape, ObsOK
<1>1. undurableSinks \subseteq undurableSinks'
  BY UndurableMove DEF KeptBack
<1>2. ASSUME NEW i \in DOMAIN obs'.todo, NEW j \in DOMAIN obs.todo, obs'.todo[i] = obs.todo[j], obs'.at = obs.at,
             (j = i /\ obs'.pc = obs.pc) \/ j # 1,
             \A k \in DOMAIN obs'.todo : k < i => \E l \in DOMAIN obs.todo : l < j /\ obs'.todo[k] = obs.todo[l]
      PROVE  Left(obs, i)'
  <2>1. PICK a, op1 : a = obs.at /\ op1 = obs.todo[j]
    OBVIOUS
  <2>2. PICK f, t : f = op1.e /\ t = op1.t
    OBVIOUS
  <2>3. /\ t = log[a].turn
        /\ op1.op = "commit" =>
             /\ Reached(f)
             /\ f # a => log[f].kind = "text" /\ (t \in undurableSinks \/ (j = 1 /\ obs.pc = "write"))
             /\ \A l \in DOMAIN obs.todo : l < j /\ obs.todo[l].op = "commit" => f = a
    BY <1>2, <2>1, <2>2 DEF Todo
  <2>4. a \in Events /\ f \in Events /\ f \in Nat
    <3>1. obs.todo # <<>> /\ op1 \in OpType
      <4>1. PICK q : q = obs.todo
        OBVIOUS
      <4>2. q \in Seq(OpType) /\ j \in DOMAIN q
        BY <1>0, <1>2, <4>1 DEF ObsType
      <4>3. q[j] \in OpType /\ q # <<>>
        BY <4>2
      <4> QED
        BY <2>1, <4>1, <4>3
    <3>2. obs.pc \in {"apply", "write"}
      BY <1>0, <3>1 DEF ObsOK
    <3>3. a \in Events
      BY <1>0, <2>1, <3>2 DEF ObsOK
    <3> QED
      BY <2>2, <3>1, <3>3 DEF OpType, Events
  <2>5. log'[a] = log[a] /\ log'[f] = log[f]
    BY <1>0, <2>4, LogKeeps
  <2>6. op1.op = "commit" => Reached(f)'
    BY <2>3, <2>4, ReachedKept
  <2>7. op1.op = "commit" /\ f # a => (t \in undurableSinks' \/ (i = 1 /\ obs'.pc = "write"))
    BY <1>1, <1>2, <2>3
  <2>8. op1.op = "commit" => \A k \in DOMAIN obs'.todo : k < i /\ obs'.todo[k].op = "commit" => f = a
    BY <1>2, <2>3
  <2>9. op1 = obs'.todo[i] /\ a = obs'.at /\ op1.t = log'[a].turn
    BY <1>2, <2>1, <2>2, <2>3, <2>5
  <2>10. op1.op = "commit" =>
           /\ Reached(f)'
           /\ f # a => log'[f].kind = "text" /\ (t \in undurableSinks' \/ (i = 1 /\ obs'.pc = "write"))
           /\ \A k \in DOMAIN obs'.todo : k < i /\ obs'.todo[k].op = "commit" => f = a
    BY <2>3, <2>5, <2>6, <2>7, <2>8
  <2> QED
    BY <2>2, <2>9, <2>10, LeftReached
<1>3. CASE obs'.todo = <<>> /\ obs'.pc # "write"
  BY <1>3, NothingLeft
<1>4. CASE obs'.at = obs.at /\ obs'.todo = obs.todo /\ obs'.pc = obs.pc
  <2>1. \A i \in DOMAIN obs'.todo : Left(obs, i)'
    BY <1>2, <1>4
  <2>2. obs'.pc = "write" => obs'.todo[1].op = "commit"
    BY <1>4 DEF Todo
  <2> QED
    BY <2>1, <2>2 DEF Todo, Left
<1>5. CASE /\ obs'.at = obs.at /\ obs'.pc = "apply"
           /\ \A i \in DOMAIN obs'.todo : /\ i \in Nat /\ i >= 1 /\ i + 1 \in DOMAIN obs.todo
                                          /\ obs'.todo[i] = obs.todo[i + 1]
  <2>1. ASSUME NEW i \in DOMAIN obs'.todo PROVE Left(obs, i)'
    <3>1. PICK j : j = i + 1
      OBVIOUS
    <3>2. j \in DOMAIN obs.todo /\ obs'.todo[i] = obs.todo[j] /\ j # 1 /\ i \in Nat
      BY <1>5, <2>1, <3>1
    <3>3. ASSUME NEW k \in DOMAIN obs'.todo, k < i
          PROVE  \E l \in DOMAIN obs.todo : l < j /\ obs'.todo[k] = obs.todo[l]
      <4>1. PICK l : l = k + 1
        OBVIOUS
      <4>2. l \in DOMAIN obs.todo /\ obs'.todo[k] = obs.todo[l] /\ k \in Nat
        BY <1>5, <3>3, <4>1
      <4>3. l < j
        BY <3>1, <3>2, <3>3, <4>1, <4>2
      <4> QED
        BY <4>2, <4>3
    <3> QED
      BY <1>2, <1>5, <2>1, <3>2, <3>3
  <2> QED
    BY <1>5, <2>1 DEF Todo, Left
<1>6. ~Flushes
  BY DEF Flushes
<1> QED
  BY <1>3, <1>4, <1>5, <1>6, TodoMoves

LEMMA TodoKept ==
  ASSUME Inv, Bound, Once, Todo(obs), OpenText, [Next]_vars
  PROVE  Todo(obs)'
<1>1. CASE Crash \/ Restart
  <2>1. obs'.todo = <<>> /\ obs'.pc # "write"
    BY <1>1 DEF Crash, Restart, Stopped, Observer
  <2> QED
    BY <2>1, NothingLeft
<1> QED
  BY <1>1, TodoTakes, TodoCommit, TodoStays

(* A text that was open before a step is open after it.                    *)
LEMMA OpenSame ==
  ASSUME NEW t, NEW x, x = sinks'[t].text, OpenAt(t, x)'
  PROVE  OpenAt(t, sinks[t].text)'
BY DEF OpenAt, Reached

LEMMA TextStays ==
  ASSUME Inv, [Next]_vars, ~Observe, ~Woken, NEW t \in Turns, sinks'[t].text # 0
  PROVE  /\ sinks'[t].text = sinks[t].text /\ sinks'[t].live = sinks[t].live
         /\ \A f : log'[f] = log[f] => (Ignored(f, sinks[t])' <=> Ignored(f, sinks[t]))
         /\ ~Resets /\ ~Crash /\ ~Restart /\ ~(CloseSink /\ Head(obs.todo).t = t)
<1>0. SinkMoves /\ sinks \in [Turns -> SinkType]
  BY SinksMove DEF Inv, TypeOK
<1>1. ~Resets
  BY SinkValues DEF Resets
<1>2. ~Crash /\ ~Restart
  <2>1. Crash \/ Restart => sinks' = [u \in Turns |-> NoSink]
    BY DEF Crash, Restart, Forgotten
  <2> QED
    BY <2>1, SinkValues
<1>3. ~(CloseSink /\ Head(obs.todo).t = t)
  <2>1. CloseSink => sinks' = [sinks EXCEPT ![Head(obs.todo).t] = NoSink]
    BY DEF CloseSink
  <2> QED
    BY <1>0, <2>1, SinkValues
<1>4. IdsStay(t)
  <2>1. CASE UNCHANGED sinks
    BY <2>1 DEF IdsStay
  <2>2. CASE Opens
    <3>1. request.id # t
      BY <1>0, <2>2, SinkValues DEF Opens
    <3> QED
      BY <1>0, <2>2, <3>1 DEF Opens, IdsStay
  <2>3. CASE Abandons
    BY <1>0, <2>3 DEF Abandons, SinkType, IdsStay
  <2>4. CASE CloseSink
    <3>1. sinks' = [sinks EXCEPT ![Head(obs.todo).t] = NoSink]
      BY <2>4 DEF CloseSink
    <3> QED
      BY <1>0, <1>3, <2>4, <3>1 DEF IdsStay
  <2> QED
    BY <1>0, <1>1, <2>1, <2>2, <2>3, <2>4 DEF SinkMoves
<1>5. \A f : log'[f] = log[f] => (Ignored(f, sinks[t])' <=> Ignored(f, sinks[t]))
  BY <1>4 DEF IdsStay, Ignored
<1> QED
  BY <1>1, <1>2, <1>3, <1>4, <1>5 DEF IdsStay

(* Where the observer is, when it takes no event.                          *)
LEMMA AtMoves ==
  ASSUME Inv, [Next]_vars, ~Crash, ~Restart, ~Observe, ~Woken
  PROVE  /\ \/ obs'.pc = "stopped"
            \/ obs.pc # "stopped" /\ obs'.at = obs.at
            \/ Working /\ obs'.at = obs.at + 1
         /\ Working' => Working /\ obs'.at = obs.at
<1>0. ObsMoves /\ ObsOK(obs) /\ obs \in ObsType
  BY ObsMove DEF Inv, ObsShape, ObsOK
<1>1. CASE Quiet
  <2>1. obs'.pc = obs.pc /\ obs'.at = obs.at
    BY <1>0, <1>1, NotifiedOK DEF Quiet
  <2> QED
    BY <2>1 DEF Working
<1>2. CASE obs' = obs
  BY <1>2 DEF Working
<1>3. CASE obs' = Stopped
  BY <1>3 DEF Stopped, Observer, Working
<1>4. CASE Halts
  BY <1>2, <1>3, <1>4 DEF Halts, Halted
<1>5. CASE Advances
  <2>1. Working /\ obs.todo # <<>> /\ (life = "up" /\ ~failed) \in BOOLEAN /\ obs' = Advanced(life = "up" /\ ~failed)
    BY <1>0, <1>5 DEF ObsOK, Working, Advances
  <2>2. \/ obs'.at = obs.at /\ obs'.pc = "apply"
        \/ obs' = Observer("read", obs.at + 1)
        \/ obs' = Stopped
    BY <1>0, <2>1, AdvancedOK
  <2>3. CASE obs'.at = obs.at /\ obs'.pc = "apply"
    BY <2>1, <2>3 DEF Working
  <2>4. CASE obs' = Observer("read", obs.at + 1)
    BY <2>1, <2>4 DEF Observer, Working
  <2> QED
    BY <1>3, <2>2, <2>3, <2>4
<1>6. CASE Flushes
  <2>1. obs'.at = obs.at /\ obs.pc = "apply"
    BY <1>0, <1>6 DEF Flushes, ObsType
  <2> QED
    BY <2>1 DEF Working
<1> QED
  BY <1>0, <1>1, <1>2, <1>4, <1>5, <1>6 DEF ObsMoves

(* A sink that is to be closed is closed last.                             *)
LEMMA ClosingStays ==
  ASSUME Inv, obs.pc = "write" => obs.todo[1].op = "commit", [Next]_vars, ~Crash, ~Restart, ~Observe, ~Woken, NEW t \in Turns, Closing(t),
         ~(CloseSink /\ Head(obs.todo).t = t)
  PROVE  Closing(t)' /\ obs'.at = obs.at
<1>0. ObsMoves /\ ObsOK(obs) /\ obs \in ObsType /\ obs.todo \in Seq(OpType)
  BY ObsMove DEF Inv, ObsShape, ObsOK, ObsType
<1>1. PICK i \in DOMAIN obs.todo : obs.todo[i].op = "close" /\ obs.todo[i].t = t
  BY DEF Closing
<1>2. i = Len(obs.todo) /\ Working /\ obs.todo # <<>> /\ i \in Nat
  <2>1. i = Len(obs.todo)
    BY <1>0, <1>1 DEF ObsOK, Planned
  <2>2. obs.todo # <<>> /\ Len(obs.todo) \in Nat
    BY <1>0, <1>1
  <2>3. Working
    BY <1>0, <2>2 DEF ObsOK, Working
  <2> QED
    BY <2>1, <2>2, <2>3
<1>3. CASE obs'.at = obs.at /\ obs'.todo = obs.todo
  BY <1>1, <1>3 DEF Closing
<1>4. CASE Advances
  <2>1. (life = "up" /\ ~failed) \in BOOLEAN /\ obs' = Advanced(life = "up" /\ ~failed)
    BY <1>4 DEF Advances
  <2>2. \/ obs'.at = obs.at /\ obs'.todo = Tail(obs.todo) /\ Len(obs.todo) > 1
        \/ Len(obs.todo) = 1
    BY <1>0, <1>2, <2>1, AdvancedOK
  <2>3. CASE Len(obs.todo) = 1
    <3>1. Head(obs.todo).op = "close" /\ Head(obs.todo).t = t /\ obs.todo[1].op = "close"
      BY <1>0, <1>1, <1>2, <2>3, SeqFacts
    <3>2. ~StoreMessage /\ ~Commit
      BY <3>1 DEF StoreMessage, Commit
    <3>3. ~WrittenObserved
      <4>1. WrittenObserved => obs.pc = "write"
        BY QueueHead DEF WrittenObserved, Inv
      <4> QED
        BY <3>1, <4>1
    <3> QED
      BY <1>4, <3>1, <3>2, <3>3 DEF Advances
  <2>4. CASE obs'.at = obs.at /\ obs'.todo = Tail(obs.todo) /\ Len(obs.todo) > 1
    <3>1. PICK p, q : p = obs.todo /\ q = Tail(obs.todo)
      OBVIOUS
    <3>2. p \in Seq(OpType) /\ p # <<>> /\ q = Tail(p) /\ Len(p) \in Nat /\ Len(p) > 1
      BY <1>0, <1>2, <2>4, <3>1
    <3>3. q \in Seq(OpType) /\ Len(q) = Len(p) - 1 /\ \A k \in DOMAIN q : q[k] = p[k + 1]
      BY <3>2, SeqFacts
    <3>4. DOMAIN q = 1..Len(q) /\ Len(p) - 1 >= 1
      BY <3>2, <3>3
    <3>5. Len(p) - 1 \in DOMAIN q /\ (Len(p) - 1) + 1 = Len(p)
      BY <3>2, <3>3, <3>4
    <3>6. q[Len(p) - 1] = p[Len(p)]
      BY <3>3, <3>5
    <3>7. \E k \in DOMAIN obs'.todo : obs'.todo[k].op = "close" /\ obs'.todo[k].t = t
      BY <1>1, <1>2, <2>4, <3>1, <3>5, <3>6
    <3> QED
      BY <2>4, <3>7 DEF Closing
  <2> QED
    BY <2>2, <2>3, <2>4
<1>5. CASE Quiet
  BY <1>0, <1>3, <1>5, NotifiedOK DEF Quiet
<1>6. CASE Halts
  BY <1>2, <1>3, <1>6 DEF Halts, Halted
<1>7. CASE Flushes
  BY <1>0, <1>3, <1>7 DEF Flushes, ObsType
<1>8. CASE obs' = obs
  BY <1>3, <1>8
<1> QED
  BY <1>0, <1>4, <1>5, <1>6, <1>7, <1>8 DEF ObsMoves

(* The text is still ahead of the cursors when the observer takes no       *)
(* event: a commit that passes the observer's turn leaves the others       *)
(* undurable.                                                              *)
LEMMA OpenAhead ==
  ASSUME Inv, Todo(obs), [Next]_vars, ~Crash, ~Restart, ~Observe, ~Woken, NEW t \in Turns, NEW y \in Nat,
         t \in undurableSinks, Reached(y), Working => log[obs.at].turn # t
  PROVE  t \in undurableSinks' /\ Reached(y)'
<1>1. CASE Commit
  <2>1. PICK op : op = Head(obs.todo)
    OBVIOUS
  <2>2. obs.pc = "apply" /\ undurableSinks' = Undurable(op)
    BY <1>1, <2>1, CommitMoves
  <2>3. op = obs.todo[1] /\ 1 \in DOMAIN obs.todo
    BY <2>1, <2>2, HeadOp
  <2>4. op.t # t
    BY <2>2, <2>3 DEF Todo, Working
  <2>5. t \in Undurable(op)
    BY <2>4 DEF Undurable
  <2>6. UNCHANGED <<binding, terminalCursor, writes>>
    BY <1>1, <2>1, <2>5, CommitMoves
  <2> QED
    BY <2>2, <2>5, <2>6, ReachedSame
<1>2. CASE ~Commit
  <2>1. t \in undurableSinks'
    BY <1>2, UndurableMove DEF KeptBack
  <2>2. Reached(y)'
    BY <1>2, ReachedKept
  <2> QED
    BY <2>1, <2>2
<1> QED
  BY <1>1, <1>2

LEMMA OpenStays ==
  ASSUME Inv, Once, Todo(obs), OpenText, [Next]_vars, ~Observe, ~Woken, NEW t \in Turns, NEW x, x = sinks'[t].text,
         x # 0
  PROVE  OpenAt(t, x)'
<1>1. /\ x = sinks[t].text /\ sinks'[t].live = sinks[t].live /\ ~Crash /\ ~Restart
      /\ ~(CloseSink /\ Head(obs.todo).t = t)
  BY TextStays
<1>2. x \in Events /\ x \in Nat /\ x - 1 \in Nat /\ TypeOK /\ Reach /\ obs.at \in Nat
  BY <1>1, TextIs, CursorsTyped DEF Inv
<1>3. OpenAt(t, x)
  BY <1>1 DEF OpenText
<1>4. /\ \/ obs'.pc = "stopped"
         \/ obs.pc # "stopped" /\ obs'.at = obs.at
         \/ Working /\ obs'.at = obs.at + 1
      /\ Working' => Working /\ obs'.at = obs.at
  BY <1>1, AtMoves
<1>5. Closing(t) => Closing(t)' /\ obs'.at = obs.at
  BY <1>1, ClosingStays DEF Todo
<1>6. Working => obs.at \in Events /\ log'[obs.at] = log[obs.at]
  <2>1. Working => obs.at \in Events
    BY DEF Inv, ObsShape, ObsOK, Working
  <2> QED
    BY <1>2, <2>1, LogKeeps
<1>7. ASSUME NEW f \in Events', log'[f].turn = t, x < f
      PROVE  obs'.pc = "stopped" \/ obs'.at <= f \/ Again(f, t)'
  <2>1. CASE f \in Events
    <3>1. log[f].turn = t /\ f \in Nat
      BY <1>2, <1>7, <2>1, LogKeeps
    <3>2. obs.pc = "stopped" \/ obs.at <= f \/ Again(f, t)
      BY <1>3, <1>7, <2>1, <3>1 DEF OpenAt
    <3>a. Again(f, t) => Again(f, t)'
      <4>1. log'[f] = log[f] /\ (Repeated(f)' <=> Repeated(f))
        BY <1>2, <2>1, LogKeeps, RepeatedKept
      <4>2. Ignored(f, sinks[t])' <=> Ignored(f, sinks[t])
        BY <4>1, TextStays
      <4> QED
        BY <4>1, <4>2 DEF Again
    <3>3. CASE Working /\ obs'.at = obs.at + 1
      <4>1. ~Closing(t)
        BY <1>2, <1>5, <3>3
      <4>2. log[obs.at].turn # t
        BY <1>3, <3>3, <4>1 DEF OpenAt
      <4>3. f # obs.at /\ obs.pc # "stopped"
        BY <3>1, <3>3, <4>2 DEF Working
      <4> QED
        BY <1>2, <3>1, <3>2, <3>3, <3>a, <4>3
    <3> QED
      BY <1>4, <3>2, <3>3, <3>a
  <2>2. CASE f \notin Events
    <3>1. f = Len(log) + 1 /\ UNCHANGED obs
      BY <1>2, <2>2, LogKeeps DEF Emits
    <3> QED
      BY <1>2, <3>1 DEF Reach
  <2> QED
    BY <2>1, <2>2
<1>8. \/ Closing(t)'
      \/ t \in undurableSinks' /\ Reached(x - 1)' /\ (Working' => log'[obs'.at].turn # t)
  <2>1. CASE Closing(t)
    BY <1>5, <2>1
  <2>2. CASE ~Closing(t)
    <3>1. t \in undurableSinks /\ Reached(x - 1) /\ (Working => log[obs.at].turn # t)
      BY <1>3, <2>2 DEF OpenAt
    <3>2. PICK y : y = x - 1
      OBVIOUS
    <3>3. t \in undurableSinks' /\ Reached(y)'
      BY <1>1, <1>2, <3>1, <3>2, OpenAhead
    <3>4. Working' => log'[obs'.at].turn # t
      BY <1>4, <1>6, <3>1
    <3> QED
      BY <3>2, <3>3, <3>4
  <2> QED
    BY <2>1, <2>2
<1>9. sinks'[t].live
  BY <1>1, <1>3 DEF OpenAt
<1> QED
  BY <1>7, <1>8, <1>9 DEF OpenAt

(* While a turn has a text open, the events of the others are not taken:   *)
(* they come after its end.                                                *)
LEMMA OpenAlone ==
  ASSUME Inv, Once, OpenText, InTurn, NEW t \in Turns, sinks[t].text # 0, obs.pc \in Reading, obs.at \in Events,
         log[obs.at].turn \in Turns
  PROVE  log[obs.at].turn = t
<1>1. PICK x, e : x = sinks[t].text /\ e = obs.at
  OBVIOUS
<1>2. x \in Events /\ x \in Nat /\ log[x].kind = "text" /\ log[x].turn = t /\ e \in Nat
  BY <1>1, TextIs DEF Events
<1>3. x < e
  BY <1>1 DEF Inv, ObsShape
<1>4. ASSUME log[e].turn # t PROVE FALSE
  <2>1. PICK g \in Events : x <= g /\ g < e /\ log[g].turn = t /\ log[g].kind \in Terminal
    BY <1>1, <1>2, <1>3, <1>4 DEF InTurn, Separate
  <2>2. x # g /\ g \in Nat
    BY <1>2, <2>1 DEF Terminal, Events
  <2>3. x < g
    BY <1>2, <2>1, <2>2
  <2>4. e <= g
    BY <1>1, <2>1, <2>3 DEF OpenText, OpenAt, Reading, Again, Repeated, Terminal
  <2> QED
    BY <1>2, <2>1, <2>2, <2>4
<1> QED
  BY <1>1, <1>4

(* The result of a tool that the sink does not ignore finds no text open:  *)
(* what shut the text in the log did so here.                              *)
LEMMA ResultClear ==
  ASSUME TextsFlushed, Inv, Once, OpenText, Ids, NEW t \in Turns, obs.pc \in Reading, obs.at \in Events,
         log[obs.at].turn = t, log[obs.at].kind = "result", ~Ignored(obs.at, sinks[t])
  PROVE  sinks[t].text = 0
<1>1. PICK x, e : x = sinks[t].text /\ e = obs.at
  OBVIOUS
<1>2. SUFFICES ASSUME x # 0 PROVE FALSE
  BY <1>1
<1>3. x \in Events /\ x \in Nat /\ log[x].kind = "text" /\ log[x].turn = t /\ e \in Nat /\ e \in Events
  BY <1>1, <1>2, TextIs DEF Events
<1>4. x < e
  BY <1>1 DEF Inv, ObsShape
<1>5. PICK f \in x..e : log[f].turn = t /\ Shuts(f, x, e)
  BY <1>1, <1>3, <1>4 DEF TextsFlushed
<1>6. f \in Events /\ f \in Nat /\ log[f].kind \in {"start", "call"}
  BY <1>3, <1>5 DEF Shuts, Events
<1>7. x < f /\ f < e
  <2>1. f # x /\ f # e
    BY <1>1, <1>3, <1>6
  <2> QED
    BY <1>3, <1>5, <2>1
<1>8. Again(f, t)
  <2>1. obs.pc = "stopped" \/ obs.at <= f \/ Again(f, t)
    BY <1>1, <1>2, <1>5, <1>6, <1>7 DEF OpenText, OpenAt
  <2> QED
    BY <1>1, <1>3, <1>6, <1>7, <2>1 DEF Reading
<1>9. PICK id : id = log[f].callId
  OBVIOUS
<1>10. /\ log[f].kind = "call" /\ id = log[e].callId /\ id \in sinks[t].called
       /\ \A g \in 1..x : log[g] = log[f] => \E r \in g..x : log[r] = log[e]
  BY <1>5, <1>6, <1>8, <1>9 DEF Shuts, Again, Ignored
<1>11. PICK g \in Events : CallBy(g, t, id) /\ Answers(g, t, id) /\ g < x
  BY <1>1, <1>2, <1>10 DEF Ids, CalledFrom, Reading
<1>12. log[g] = log[f] /\ g \in 1..x
  <2>1. log[g] = log[f]
    BY <1>5, <1>6, <1>9, <1>10, <1>11, SameEvent DEF Inv, CallBy
  <2> QED
    BY <1>3, <1>11, <2>1 DEF Events
<1>13. PICK r \in g..x : log[r] = log[e]
  BY <1>10, <1>12
<1>14. r \in Events /\ AnswerTo(r, t, id) /\ g < r /\ Taken(r)
  <2>1. r \in Events /\ r \in Nat /\ g \in Nat /\ g <= r /\ r <= x
    BY <1>3, <1>11, <1>13 DEF Events
  <2>2. r # g
    BY <1>1, <1>10, <1>12, <1>13
  <2>3. AnswerTo(r, t, id)
    BY <1>1, <1>10, <1>13, <2>1 DEF AnswerTo
  <2>4. Taken(r)
    BY <1>1, <1>3, <1>4, <2>1 DEF Taken, Reading
  <2> QED
    BY <2>1, <2>2, <2>3, <2>4
<1>15. id \in sinks[t].answered
  BY <1>11, <1>14 DEF Answers
<1> QED
  BY <1>1, <1>10, <1>15 DEF Ignored

LEMMA OpenTaken ==
  ASSUME TextsFlushed, Inv, Bound, Once, OpenText, Ids, InTurn, Observe \/ Woken, NEW u \in Turns, NEW x, x = sinks'[u].text,
         x # 0
  PROVE  OpenAt(u, x)'
<1>0. /\ TypeOK /\ ObserveUnchanged /\ obs.pc \in Reading /\ obs.at \in Events /\ obs \in ObsType
      /\ sinks \in [Turns -> SinkType]
  BY ObserverMoves DEF Inv, TypeOK
<1>1. PICK e, t : e = obs.at /\ t = log[e].turn
  OBVIOUS
<1>2. /\ log' = log /\ UNCHANGED <<binding, writes>> /\ Events' = Events /\ e \in Events /\ e \in Nat
      /\ obs.pc # "stopped" /\ \A v : ~Closing(v)
  BY <1>0, <1>1, ReadingNothing DEF ObserveUnchanged, engine, Events, Reading
<1>3. ASSUME x = sinks[u].text
      PROVE  /\ sinks[u].live /\ u \in undurableSinks /\ x - 1 \in Nat /\ Reached(x - 1) /\ x < e
             /\ \A f \in Events : log[f].turn = u /\ x < f => e <= f \/ Again(f, u)
             /\ (t \in Turns => t = u)
  <2>1. OpenAt(u, x)
    BY <1>3 DEF OpenText
  <2>2. sinks[u].live /\ u \in undurableSinks /\ Reached(x - 1)
    BY <1>2, <2>1 DEF OpenAt
  <2>3. \A f \in Events : log[f].turn = u /\ x < f => e <= f \/ Again(f, u)
    BY <1>1, <1>2, <2>1 DEF OpenAt
  <2>4. x < e
    BY <1>0, <1>1, <1>3 DEF Inv, ObsShape
  <2>5. t \in Turns => t = u
    BY <1>0, <1>1, <1>3, OpenAlone
  <2>6. x - 1 \in Nat
    BY <1>3, TextIs
  <2> QED
    BY <2>2, <2>3, <2>4, <2>5, <2>6
<1>g. \A f : sinks'[u] = sinks[u] => (Again(f, u)' <=> Again(f, u))
  BY <1>2 DEF Again, Repeated, Ignored
<1>4. ASSUME x = sinks[u].text, UNCHANGED <<sinks, undurableSinks, terminalCursor>>,
             \/ obs'.at = e /\ (Working' => t # u)
             \/ obs'.at = e + 1 /\ ~Working' /\ Again(e, u)
      PROVE  OpenAt(u, x)'
  <2>1. /\ sinks[u].live /\ u \in undurableSinks /\ Reached(x - 1)
        /\ \A f \in Events : log[f].turn = u /\ x < f => e <= f \/ Again(f, u)
    BY <1>3, <1>4
  <2>2. PICK y : y = x - 1
    OBVIOUS
  <2>3. Reached(y)'
    BY <1>2, <1>4, <2>1, <2>2, ReachedSame
  <2>4. sinks'[u].live /\ u \in undurableSinks' /\ Reached(x - 1)'
    BY <1>4, <2>1, <2>2, <2>3
  <2>5. \A f \in Events' : log'[f].turn = u /\ x < f => obs'.at <= f \/ Again(f, u)'
    <3>1. \A f \in Events : e <= f /\ f # e => e + 1 <= f
      BY <1>2 DEF Events
    <3> QED
      BY <1>2, <1>4, <1>g, <2>1, <3>1
  <2>6. Working' => log'[obs'.at].turn # u
    BY <1>1, <1>2, <1>4
  <2> QED
    BY <2>4, <2>5, <2>6 DEF OpenAt
<1>5. CASE Waits
  <2>1. UNCHANGED <<sinks, undurableSinks, terminalCursor>> /\ obs'.at = e /\ obs'.pc \in {"wait", "waitOwner"}
    BY <1>0, <1>1, <1>5 DEF Waits, Waiting, ObsType
  <2>2. ~Working'
    BY <2>1 DEF Working
  <2> QED
    BY <1>4, <2>1, <2>2
<1>6. CASE Passes(e) /\ (t \in Turns => ~sinks[t].live)
  <2>1. UNCHANGED <<sinks, undurableSinks, terminalCursor>> /\ obs'.at = e
    BY <1>6 DEF Passes, Still, Apply1
  <2>2. x = sinks[u].text
    BY <2>1
  <2>3. sinks[u].live
    BY <1>3, <2>2
  <2>4. t # u
    BY <1>6, <2>3
  <2> QED
    BY <1>4, <2>1, <2>2, <2>4
<1>7. CASE t \in Turns /\ u # t /\ \E y : sinks' = [sinks EXCEPT ![t] = y]
  <2>1. x = sinks[u].text
    BY <1>0, <1>7
  <2> QED
    BY <1>3, <1>7, <2>1
<1>8. CASE u = t /\ Completes(e, t)
  <2>1. sinks' = [sinks EXCEPT ![t] = NoSink]
    BY <1>8 DEF Completes, NativeTerminal
  <2> QED
    BY <1>0, <1>8, <2>1, SinkValues
<1>9. CASE u = t /\ ShowsText(e, t) /\ UNCHANGED terminalCursor
  <2>0. SinkFor(t) \in SinkType /\ SinkFor(t).live
    BY <1>0, <1>9, TypedValues, SinkValues DEF SinkFor
  <2>1. sinks' = [sinks EXCEPT ![t] = [SinkFor(t) EXCEPT !.text = e]] /\ t \in undurableSinks'
        /\ obs' = Observer("read", e + 1)
    BY <1>9 DEF ShowsText
  <2>2. x = e /\ sinks'[u].live
    BY <1>0, <1>9, <2>0, <2>1 DEF SinkType
  <2>3. PICK y : y = e - 1
    OBVIOUS
  <2>4. Reached(y)'
    <3>1. Reached(y)
      BY <1>0, <1>1, <2>3, ReachedAt DEF Bound
    <3> QED
      BY <1>2, <1>9, <3>1, ReachedSame
  <2>5. Reached(x - 1)'
    BY <2>2, <2>3, <2>4
  <2>6. obs'.at = e + 1 /\ ~Working'
    BY <2>1 DEF Observer, Working
  <2>7. \A f \in Events' : x < f => obs'.at <= f
    BY <1>2, <2>2, <2>6 DEF Events
  <2> QED
    BY <1>9, <2>1, <2>2, <2>5, <2>6, <2>7 DEF OpenAt
<1>10. CASE u = t /\ Plans(e, t)
  <2>1. PICK y, q : Form(e, SinkFor(t), y, q) /\ sinks' = [sinks EXCEPT ![t] = y] /\ obs' = Apply1(e, q)
    BY <1>10 DEF Plans
  <2>2. PICK s, z : s = SinkFor(t) /\ z = s.text
    OBVIOUS
  <2>3. s \in SinkType /\ s.live /\ (z # 0 => z = sinks[t].text)
    BY <1>0, <1>10, <2>2, TypedValues, SinkValues DEF SinkFor
  <2>4. y.text = x /\ sinks'[u] = y
    BY <1>0, <1>10, <2>1
  <2>5. log[e].kind \notin {"start", "call"}
    BY <2>1, <2>2, <2>3, <2>4 DEF Form, SinkType, Terminal
  <2>6. y.text = s.text /\ y.live
    BY <2>1, <2>2, <2>3, <2>5 DEF Form, SinkType
  <2>7. x = z /\ x = sinks[u].text
    BY <1>10, <2>2, <2>3, <2>4, <2>6
  <2>8. log[e].kind # "result"
    BY <1>0, <1>1, <1>3, <1>10, <2>7, ResultClear DEF Plans, SinkFor
  <2>9. log[e].kind \in Terminal
    BY <2>1, <2>5, <2>8 DEF Form
  <2>10. log[x].turn = t
    BY <1>10, <2>7, TextIs
  <2>11. \E i \in DOMAIN q : q[i].op = "close" /\ q[i].t = t
    <3>1. Form(e, s, y, q) /\ z = s.text /\ (z # 0 => log[z].turn = t)
      BY <2>1, <2>2, <2>7, <2>10
    <3> QED
      BY <1>1, <2>9, <3>1, FormOps
  <2>12. obs'.at = e /\ obs'.todo = q
    BY <2>1 DEF Apply1
  <2>13. Closing(u)'
    BY <1>10, <2>11, <2>12 DEF Closing
  <2>14. \A f \in Events' : log'[f].turn = u /\ x < f => obs'.at <= f \/ Again(f, u)'
    <3>1. y = s /\ s = sinks[u]
      BY <1>3, <1>10, <2>1, <2>2, <2>5, <2>7, <2>8 DEF Form, SinkFor
    <3>2. sinks'[u] = sinks[u]
      BY <2>4, <3>1
    <3> QED
      BY <1>2, <1>3, <1>g, <2>7, <2>12, <3>2
  <2> QED
    BY <2>4, <2>6, <2>13, <2>14 DEF OpenAt
<1>11. (Completes(e, t) \/ ShowsText(e, t) \/ Plans(e, t)) => \E y : sinks' = [sinks EXCEPT ![t] = y]
  BY DEF Completes, NativeTerminal, ShowsText, Plans
<1>12. CASE t \in Turns /\ Ignores(e, t) /\ UNCHANGED <<undurableSinks, terminalCursor>>
  <2>1. sinks' = sinks /\ Ignored(e, sinks[t]) /\ obs'.at = e + 1 /\ ~Working' /\ x = sinks[u].text
    BY <1>12 DEF Ignores, Observer, Working
  <2>2. Again(e, t)
    BY <1>0, <1>1, <1>12, <2>1, IgnoredRepeats DEF Again
  <2>3. t = u
    BY <1>3, <1>12, <2>1
  <2> QED
    BY <1>4, <1>12, <2>1, <2>2, <2>3
<1> QED
  BY <1>1, <1>5, <1>6, <1>7, <1>8, <1>9, <1>10, <1>11, <1>12, ObserverForms

LEMMA OpenTextKept ==
  ASSUME TextsFlushed, Inv, Bound, Once, Todo(obs), OpenText, Ids, InTurn, [Next]_vars
  PROVE  OpenText'
<1>1. ASSUME NEW t \in Turns, sinks'[t].text # 0 PROVE OpenAt(t, sinks[t].text)'
  <2>1. PICK x : x = sinks'[t].text
    OBVIOUS
  <2>2. OpenAt(t, x)'
    BY <1>1, <2>1, OpenTaken, OpenStays
  <2> QED
    BY <2>1, <2>2, OpenSame
<1> QED
  BY <1>1 DEF OpenText

LEMMA InitOrder ==
  ASSUME Init
  PROVE  InTurn /\ Ids /\ Writers /\ Todo(obs) /\ OpenText
<1>1. /\ log = <<>> /\ admitted = <<>> /\ writes = <<>> /\ terminalCursor = 0 /\ sinks = [t \in Turns |-> NoSink]
      /\ obs.todo = <<>> /\ obs.pc = "read"
  BY DEF Init, Observer
<1>2. Events = {} /\ DOMAIN admitted = {} /\ DOMAIN writes = {} /\ DOMAIN obs.todo = {}
  BY <1>1 DEF Events
<1>3. InTurn
  BY <1>2 DEF InTurn, Queued, Separate
<1>4. Writers /\ Todo(obs)
  BY <1>1, <1>2 DEF Writers, Todo
<1>5. OpenText
  BY <1>1, SinkValues DEF OpenText
<1>6. Ids
  BY <1>1, SinkIds DEF Ids
<1> QED
  BY <1>3, <1>4, <1>5, <1>6

\* Of the writes that wait, at most one moves the cursor, and not back.
LEMMA WritersOrder ==
  ASSUME Inv, Writers
  PROVE  CommitsInOrder
<1>1. ASSUME NEW i \in DOMAIN writes, NEW j \in DOMAIN writes, MovesCursor(i), MovesCursor(j), i < j
      PROVE  writes[i].cursor <= writes[j].cursor
  <2>1. i = j
    BY <1>1, OneMoves DEF MovesCursor
  <2>2. ~(i < i)
    <3>1. i \in Nat
      BY DEF Inv, TypeOK
    <3> QED
      BY <3>1
  <2> QED
    BY <1>1, <2>1, <2>2
<1>2. \A i \in DOMAIN writes : MovesCursor(i) => binding.cursor <= writes[i].cursor
  BY DEF Writers, MovesCursor
<1> QED
  BY <1>1, <1>2 DEF CommitsInOrder

\* What holds of any log, and the invariant that orders the cursors.
Plain == Bound /\ Once /\ InTurn /\ Ids
Order == Plain /\ Writers /\ Todo(obs) /\ OpenText

LEMMA OrderAtFirst ==
  ASSUME Init
  PROVE  Order
<1>1. Bound
  BY DEF Init, Bound, Reached, Working, Reading, Observer
<1> QED
  BY <1>1, InitOnce, InitOrder DEF Order, Plain

LEMMA PlainKept ==
  ASSUME Inv, Plain, [Next]_vars
  PROVE  Plain'
<1> USE DEF Plain
<1>1. Bound'
  BY BoundKept
<1>2. Once'
  BY TwiceKept, TodoOnceKept, StoredTakenKept, TextsOnceKept, MessageOnceKept, OursKept DEF Once
<1>3. InTurn'
  BY QueuedKept, SeparateKept DEF InTurn
<1>4. Ids'
  BY IdsKept
<1> QED
  BY <1>1, <1>2, <1>3, <1>4

LEMMA OrderKept ==
  ASSUME TextsFlushed, Inv, Order, [Next]_vars
  PROVE  Order'
<1> USE DEF Order
<1>1. Plain'
  BY PlainKept
<1> USE DEF Plain
<1>2. Writers'
  BY WritersKept
<1>3. Todo(obs)'
  BY TodoKept
<1>4. OpenText'
  BY OpenTextKept
<1> QED
  BY <1>1, <1>2, <1>3, <1>4

\* Whoever asks for a cursor to be written, the observer, the next call or the
\* close (#commit and #commitHeldTerminal of e4-agent-stream.ts): none is behind
\* the binding or an earlier write, so that advanceProjectionBinding refuses none
\* as a rollback.  It is so in every state whose log has its texts flushed: with
\* a result between the texts of a message the bridge commits the result before
\* the text (#projectToolResult flushes nothing).
THEOREM CommittedInOrder == Spec => [](TextsFlushed => CommitsInOrder)
<1>1. Init => Plain /\ (TextsFlushed => Order)
  BY OrderAtFirst DEF Order
<1>2. Inv /\ Plain /\ (TextsFlushed => Order) /\ [Next]_vars => Plain' /\ (TextsFlushed => Order)'
  <2>1. SUFFICES ASSUME Inv, Plain, TextsFlushed => Order, [Next]_vars
                 PROVE  Plain' /\ (TextsFlushed => Order)'
    OBVIOUS
  <2>2. Plain'
    BY <2>1, PlainKept
  <2>3. ASSUME TextsFlushed' PROVE Order'
    <3>1. TextsFlushed
      BY <2>1, <2>3, FlushedBefore DEF Inv
    <3> QED
      BY <2>1, <3>1, OrderKept
  <2> QED
    BY <2>2, <2>3
<1>3. Inv /\ (TextsFlushed => Order) => (TextsFlushed => CommitsInOrder)
  BY WritersOrder DEF Order
<1> QED
  BY <1>1, <1>2, <1>3, InvCorrect, PTL DEF Spec

--------------------------------------------------------------------------------
(* A tool's result finds its call.                                         *)
(* The turns that may yet become ours are ahead of the cursors.            *)
\* No cursor is beyond an event of the turn t, or the turn was seen to end.
NotPassed(t) == \A e \in Events : log[e].turn = t => Reached(e - 1)
Before(t) == t \in adoptedTerminalTurnIds \/ NotPassed(t)

\* A turn that may yet become one of ours was not passed by any cursor, unless
\* it was seen to end as one of ours.
AskedBefore == Asked => Before(request.id)
LateBefore == late = "own" => pendingSubmit.id \notin adoptedTerminalTurnIds
InDoubtBefore ==
  pendingSubmit # NoAttempt /\ life \in {"up", "closing"} /\ pc # "own" =>
    Before(pendingSubmit.id) \/ (late = "none" /\ pendingSubmit.id \in recoveringAfterAbort)
Ahead == AskedBefore /\ LateBefore /\ InDoubtBefore

LEMMA NotPassedKept ==
  ASSUME Inv, [Next]_vars, ~Crash, ~Restart, NEW t \in Turns, NotPassed(t), Unseen(t), ~Touches(t)
  PROVE  NotPassed(t)'
<1>0. TypeOK
  BY DEF Inv
<1>1. ASSUME NEW e \in Events', log'[e].turn = t, NEW x, x = e - 1 PROVE Reached(x)'
  <2>1. CASE e \in Events
    <3>1. log[e].turn = t /\ e \in Nat /\ e >= 1 /\ x \in Nat
      <4>1. log'[e] = log[e] /\ e \in Nat
        BY <1>0, <2>1, LogKeeps
      <4>2. e >= 1
        BY <1>0, <2>1, CursorsTyped
      <4> QED
        BY <1>1, <4>1, <4>2
    <3>2. Reached(x)
      <4>1. Reached(e - 1)
        BY <2>1, <3>1 DEF NotPassed
      <4> QED
        BY <1>1, <4>1 DEF Reached
    <3>3. ~Taken(e)
      BY <2>1, <3>1 DEF Unseen
    <3>4. obs.at \in Nat
      BY <1>0, CursorsTyped
    <3>5. ASSUME obs.pc = "apply", Commit PROVE Head(obs.todo).e <= x
      <4>1. PICK op : op = Head(obs.todo)
        OBVIOUS
      <4>2. op.e \in Nat /\ op.e <= obs.at
        BY <3>5, <4>1, HeadOp
      <4>3. obs.at < e
        BY <3>1, <3>3, <3>4, <3>5 DEF Taken, Working
      <4> QED
        BY <1>1, <3>1, <3>4, <4>1, <4>2, <4>3
    <3>6. ASSUME Observe \/ Woken, Completes(obs.at, log[obs.at].turn) PROVE obs.at <= x
      <4>1. obs.pc \in Reading /\ obs.at \in Events /\ obs'.pc = "read" /\ obs'.at = obs.at + 1
        BY <3>6, ObserverMoves DEF Completes, Observer
      <4>2. Waits \/ Takes(obs.at, log[obs.at].turn)
        BY <3>6, ObserverMoves
      <4>3. ~Waits
        <5>1. obs \in ObsType
          BY <1>0 DEF TypeOK
        <5>2. \A p : [obs EXCEPT !.pc = p, !.woken = FALSE].pc = p
          BY <5>1 DEF ObsType
        <5> QED
          BY <4>1, <5>2 DEF Waits, Waiting
      <4>4. log[obs.at].turn # t
        BY <3>6, <4>1, <4>2, <4>3 DEF Touches
      <4>5. obs.at # e
        BY <3>1, <4>4
      <4>6. obs.at <= e
        BY <3>1, <3>3, <3>4, <4>1 DEF Taken, Reading
      <4> QED
        BY <1>1, <3>1, <3>4, <4>5, <4>6
    <3> QED
      BY <3>1, <3>2, <3>5, <3>6, ReachedKept
  <2>2. CASE e \notin Events
    <3>1. PICK y \in EventType : Emits(y) /\ e = Len(log) + 1
      BY <1>0, <1>1, <2>2, LogKeeps
    <3>2. x = Len(log) /\ Len(log) \in Nat
      BY <1>0, <1>1, <3>1, CursorsTyped
    <3>3. binding.cursor <= x /\ terminalCursor <= x /\ \A i \in DOMAIN writes : writes[i].cursor <= x
      <4>1. binding.cursor \in 0..Len(log) /\ terminalCursor \in 0..Len(log)
        BY <1>0 DEF TypeOK, BindingType
      <4>2. \A i \in DOMAIN writes : writes[i].cursor \in 0..Len(log)
        <5>1. \A i \in DOMAIN writes : writes[i] \in WriteType
          BY <1>0 DEF TypeOK
        <5> QED
          BY <5>1 DEF WriteType
      <4> QED
        BY <3>2, <4>1, <4>2
    <3>4. UNCHANGED <<binding, terminalCursor, writes>>
      BY <3>1 DEF Emits
    <3> QED
      BY <3>3, <3>4 DEF Reached
  <2> QED
    BY <2>1, <2>2
<1>2. ASSUME NEW e \in Events', log'[e].turn = t PROVE (Reached(e - 1))'
  <2>1. PICK x : x = e - 1
    OBVIOUS
  <2>2. Reached(x)'
    BY <1>1, <1>2, <2>1
  <2> QED
    BY <2>1, <2>2 DEF Reached
<1> QED
  BY <1>2 DEF NotPassed

LEMMA BeforeKept ==
  ASSUME Inv, [Next]_vars, ~Crash, ~Restart, ~CloseCommit, NEW t \in Turns, Fresh(t) \/ Unseen(t), Before(t),
         ~Touches(t)
  PROVE  Before(t)'
<1>1. CASE t \in adoptedTerminalTurnIds
  <2>1. t \in adoptedTerminalTurnIds'
    BY <1>1, AdoptedMove
  <2> QED
    BY <2>1 DEF Before
<1>2. CASE Unseen(t) /\ NotPassed(t)
  BY <1>2, NotPassedKept DEF Before
<1> QED
  BY <1>1, <1>2 DEF Before, Fresh

LEMMA PrimedBefore ==
  ASSUME NEW t
  PROVE  /\ t = request'.id => (Before(t)' <=> Before(request.id)')
         /\ t = pendingSubmit'.id => (Before(t)' <=> Before(pendingSubmit.id)')
BY DEF Before, NotPassed, Reached

LEMMA AttemptBefore ==
  ASSUME Inv, Ahead, pc = "ready", ~Unresolved, Attempt \in AttemptType
  PROVE  Before(Attempt.id)
<1>0. /\ TypeOK /\ Made /\ Attempts /\ made \in Nat
  BY DEF Inv, TypeOK
<1>1. CASE pendingSubmit # NoAttempt
  <2>1. Attempt = pendingSubmit /\ pendingSubmit.id \notin recoveringAfterAbort
    BY <1>1 DEF Attempt, Unresolved
  <2>2. life \in {"up", "closing"}
    BY <1>0 DEF Inv, CallShape, inFlight, TypeOK
  <2> QED
    BY <1>0, <1>1, <2>1, <2>2 DEF Ahead, InDoubtBefore
<1>2. CASE pendingSubmit = NoAttempt /\ {a \in observedSubmitAttempts : a.digest = request.digest} # {}
  <2>1. Attempt \in observedSubmitAttempts
    BY <1>2 DEF Attempt
  <2> QED
    BY <1>0, <2>1 DEF Attempts, Before
<1>3. CASE pendingSubmit = NoAttempt /\ {a \in observedSubmitAttempts : a.digest = request.digest} = {}
  <2>1. Attempt.id = made + 1
    BY <1>3 DEF Attempt
  <2>2. PICK t : t = made + 1
    OBVIOUS
  <2>3. t \notin 1..made /\ t # Foreign
    BY <1>0, <2>2
  <2>4. \A i \in Events : log[i].turn # t
    BY <1>0, <2>3 DEF Made
  <2> QED
    BY <2>1, <2>2, <2>4 DEF Before, NotPassed
<1> QED
  BY <1>1, <1>2, <1>3

LEMMA AskedBeforeKept ==
  ASSUME Inv, Ahead, [Next]_vars
  PROVE  AskedBefore'
<1> USE DEF pc
<1> SUFFICES ASSUME Asked' PROVE Before(request.id)'
  BY DEF AskedBefore
<1>0. /\ TypeOK /\ Attempts /\ AskedMoves
  BY AskedMove DEF Inv
<1>1. CASE /\ Submit /\ pc = "ready" /\ ~Unresolved /\ Attempt \in AttemptType /\ Attempt.id \in Turns
           /\ call' = Attempt /\ pc' = "submit" /\ request'.id = Attempt.id
  <2>1. PICK t : t = Attempt.id
    OBVIOUS
  <2>2. t \in Turns /\ Fresh(t) /\ Before(t) /\ t = request'.id
    BY <1>1, <2>1, AttemptFresh, AttemptBefore
  <2>3. ~Observe /\ ~Woken /\ ~Crash /\ ~Restart /\ ~CloseCommit
    BY <1>1, SubmitAlone
  <2>4. late = "none"
    BY <1>0, <1>1 DEF Attempts, Unresolved
  <2>5. ~Touches(t)
    BY <1>1, <2>3, <2>4 DEF Touches
  <2>6. Before(t)'
    BY <2>2, <2>3, <2>5, BeforeKept
  <2> QED
    BY <2>2, <2>6, PrimedBefore
<1>2. CASE Asked /\ request'.id = request.id
  <2>1. ~Touches(request.id) /\ ~CloseCommit /\ ~Crash /\ ~Restart
    BY <1>2, AskedUntouched
  <2>2. PICK t : t = request.id
    OBVIOUS
  <2>3. t \in Turns /\ t = request'.id
    BY <1>2, <2>2, CallTyped DEF Asked
  <2>4. Fresh(t) \/ Unseen(t)
    BY <1>0, <1>2, <2>2 DEF Attempts, Asked
  <2>5. Before(t)
    BY <1>2, <2>2 DEF Ahead, AskedBefore
  <2>6. Before(t)'
    BY <2>1, <2>2, <2>3, <2>4, <2>5, BeforeKept
  <2> QED
    BY <2>3, <2>6, PrimedBefore
<1>3. pc = "submit" => Asked
  BY DEF Asked
<1> QED
  BY <1>0, <1>1, <1>2, <1>3 DEF AskedMoves

LEMMA LateBeforeKept ==
  ASSUME Inv, Ahead, [Next]_vars
  PROVE  LateBefore'
<1> SUFFICES ASSUME late' = "own" PROVE pendingSubmit'.id \notin adoptedTerminalTurnIds'
  BY DEF LateBefore
<1>0. /\ TypeOK /\ Attempts /\ ~Crash /\ ~Restart
  BY DEF Inv, Crash, Restart, Forgotten
<1>1. CASE late = "wait" /\ LateReceipt
  <2>1. call = pendingSubmit /\ UNCHANGED <<pendingSubmit, adoptedTerminalTurnIds>>
    BY <1>0, <1>1 DEF Attempts, LateReceipt, projection
  <2>2. call.id \notin adoptedTerminalTurnIds
    BY <1>1 DEF LateReceipt
  <2> QED
    BY <2>1, <2>2
<1>2. CASE late = "own"
  <2>0. PICK t : t = pendingSubmit.id
    OBVIOUS
  <2>1. UNCHANGED pendingSubmit /\ t \notin adoptedTerminalTurnIds /\ pendingSubmit # NoAttempt /\ pc # "own"
    BY <1>0, <1>2, <2>0, LateHolds DEF Ahead, LateBefore, Attempts, Asked
  <2>2. life \in {"up", "closing"}
    BY <1>0, <1>2 DEF Inv, CallShape, TypeOK
  <2>3. ~Closing(t)
    BY <1>0, <1>2, <2>0, <2>1, <2>2 DEF Attempts, Fresh, Unseen
  <2>4. ASSUME CloseSink PROVE Head(obs.todo).t # t
    <3>1. obs.pc = "apply" /\ Head(obs.todo).op = "close"
      BY <2>4 DEF CloseSink
    <3>2. PICK op : op = Head(obs.todo)
      OBVIOUS
    <3>3. op = obs.todo[1] /\ 1 \in DOMAIN obs.todo
      BY <3>1, <3>2, HeadOp
    <3> QED
      BY <2>3, <3>1, <3>2, <3>3 DEF Closing
  <2> QED
    BY <1>0, <2>0, <2>1, <2>4, AdoptedMove
<1> QED
  BY <1>0, <1>1, <1>2, LateMoves

LEMMA InDoubtBeforeKept ==
  ASSUME Inv, Ahead, [Next]_vars
  PROVE  InDoubtBefore'
<1> USE DEF pc
<1>0. /\ TypeOK /\ Attempts /\ InDoubtFresh
  BY DEF Inv, Attempts, InDoubtFresh
<1> SUFFICES ASSUME pendingSubmit' # NoAttempt, life' \in {"up", "closing"}, pc' # "own"
             PROVE  \/ Before(pendingSubmit.id)'
                    \/ late' = "none" /\ pendingSubmit'.id \in recoveringAfterAbort'
  BY DEF InDoubtBefore
<1>1. ~Crash /\ ~Restart /\ ~CloseCommit
  <2>1. ~Crash /\ ~Restart
    BY DEF Crash, Restart, Forgotten
  <2>2. ~CloseCommit
    BY DEF CloseCommit
  <2> QED
    BY <2>1, <2>2
<1>2. life \in {"up", "closing"}
  BY <1>0, <1>1, LifeMoves
<1>3. PICK t : t = pendingSubmit'.id
  OBVIOUS
<1>4. CASE pc = "submit" /\ pendingSubmit' = call /\ (Abort \/ CloseInterrupt \/ \E b \in BOOLEAN : Rejected(b))
  <2>1. t = request.id /\ t \in Turns /\ Fresh(t) /\ Before(t)
    BY <1>0, <1>3, <1>4, CallTyped DEF Attempts, Ahead, AskedBefore, Asked
  <2>3. ~Touches(t)
    <3>1. ~Installed(request.id)
      BY <1>4, InstalledClears
    <3>2. late = "none"
      BY <1>0, <1>4 DEF Attempts, Asked, TypeOK
    <3>3. ASSUME Observe \/ Woken, obs.at \in Events, t = log[obs.at].turn, Takes(obs.at, t) PROVE FALSE
      BY <1>4, <2>1, <3>3, FreshNotTaken DEF Asked
    <3> QED
      BY <2>1, <3>1, <3>2, <3>3 DEF Touches
  <2>4. Before(t)'
    BY <1>1, <2>1, <2>3, BeforeKept
  <2> QED
    BY <1>3, <2>4, PrimedBefore
<1>5. CASE pendingSubmit' = pendingSubmit
  <2>0. t \in Turns /\ t = pendingSubmit.id /\ pendingSubmit # NoAttempt
    BY <1>3, <1>5, CallTyped
  <2>1. pc # "own"
    BY <1>1, OwnWaits
  <2>2. CASE late = "none" /\ t \in recoveringAfterAbort
    <3>1. pc # "submit"
      BY <1>0, <2>0, <2>2 DEF Attempts, Asked
    <3>2. late' = "none" /\ UNCHANGED recoveringAfterAbort
      BY <1>1, <2>2, <3>1, LateMoves, RecoveringMove DEF WrittenLate, Written
    <3> QED
      BY <1>3, <2>2, <3>2
  <2>3. CASE Fresh(t) /\ Before(t)
    <3>1. ASSUME ~Touches(t) PROVE Before(pendingSubmit.id)'
      <4>1. Before(t)'
        BY <1>1, <2>0, <2>3, <3>1, BeforeKept
      <4> QED
        BY <1>3, <4>1, PrimedBefore
    <3>3. ~(t = request.id /\ Installed(t) /\ pc \in {"submit", "own"})
      BY InstalledClears
    <3>4. ASSUME late = "own", WrittenLate
          PROVE  late' = "none" /\ pendingSubmit'.id \in recoveringAfterAbort'
      <4>1. pendingSubmit.id \in recoveringAfterAbort
        BY <1>0, <3>4 DEF Attempts
      <4>2. UNCHANGED recoveringAfterAbort /\ late' = "none"
        BY <3>4 DEF WrittenLate
      <4> QED
        BY <1>5, <4>1, <4>2
    <3>5. ~((Observe \/ Woken) /\ obs.at \in Events /\ t = log[obs.at].turn /\ Takes(obs.at, t))
      BY <2>0, <2>3, FreshNotTaken
    <3> QED
      BY <3>1, <3>3, <3>4, <3>5 DEF Touches
  <2> QED
    BY <1>0, <1>2, <2>0, <2>1, <2>2, <2>3 DEF InDoubtFresh, Ahead, InDoubtBefore
<1> QED
  BY <1>1, <1>4, <1>5, PendingTo

--------------------------------------------------------------------------------
(* The calls that are open.                                                *)
\* What completes a call or comes between it and its result.
Closers == {"text", "result"} \cup Terminal

\* c is the call of the turn t that is the first of its call ID.  It is open when
\* it was taken, and no text, result or end of the turn after it.
CallOf(c, t) == c \in Events /\ log[c].turn = t /\ log[c].kind = "call" /\ ~Repeated(c)
Open(t, c) ==
  /\ CallOf(c, t) /\ Taken(c)
  /\ \A f \in Events : log[f].turn = t /\ c < f /\ log[f].kind \in Closers => ~Taken(f)

\* A sink has the call IDs of the open calls of its turn, and the turn is
\* undurable, or about to be.
ToCall(t) == \E i \in DOMAIN obs.todo : obs.todo[i].op = "call" /\ obs.todo[i].t = t
Retains(t, c) ==
  /\ life = "up" /\ ~failed => log[c].callId \in sinks[t].called
  /\ t \in undurableSinks \/ ToCall(t)
ToolKept == \A t \in ownedSubmissions : \A c \in Events : Open(t, c) => Retains(t, c)

\* The ops that are left are of the event's turn; apart from the event itself
\* they commit a text, and with the start of a message a text after its calls.
OpLeft(o) ==
  /\ o.t = log[obs.at].turn
  /\ o.op = "call" => log[obs.at].kind = "call"
  /\ o.op = "commit" /\ o.e # obs.at =>
       /\ log[o.e].kind = "text" /\ o.t \in Turns
       /\ log[obs.at].kind = "start" => \A c : CallOf(c, o.t) /\ c <= obs.at => c < o.e
Ops ==
  /\ obs.pc = "write" => obs.todo[1].op = "commit"
  /\ \A i \in DOMAIN obs.todo : OpLeft(obs.todo[i])

\* The text a sink holds comes after the calls that were taken: each of them
\* flushed the text before it.
TextLast ==
  \A t \in Turns : sinks[t].text # 0 =>
    sinks[t].live /\ \A c : CallOf(c, t) /\ Taken(c) => c < sinks[t].text

\* A sink is of a turn of ours, unless it is about to be closed.
LiveOurs == \A t \in Turns : sinks[t].live => t \in ownedSubmissions \/ Closing(t) \/ obs.pc = "stopped"

\* What is committed at a call of ours is a text before it, and the call is
\* stored after it.
CallLast ==
  \A i \in DOMAIN obs.todo :
    obs.todo[i].op = "commit" /\ obs.todo[i].t \in ownedSubmissions /\ log[obs.at].kind = "call" =>
      /\ obs.todo[i].e # obs.at
      /\ \E j \in DOMAIN obs.todo : i < j /\ obs.todo[j].op = "call"

\* A cursor at x passes no call of the turn t without a text, a result or the
\* end of the turn after it.
Clean(x, t) ==
  \A c \in Events : CallOf(c, t) /\ c <= x =>
    \E f \in Events : log[f].turn = t /\ c < f /\ f <= x /\ log[f].kind \in Closers
CleanCursors ==
  /\ \A t \in binding.owned : Clean(binding.cursor, t)
  /\ \A i \in DOMAIN writes : \A t \in writes[i].owned : Clean(writes[i].cursor, t)
  /\ \A t \in ownedSubmissions : Clean(terminalCursor, t)

LEMMA CallIs ==
  ASSUME TypeOK, NEW t, NEW c, CallOf(c, t)
  PROVE  c \in Events /\ c \in Nat /\ c >= 1 /\ log[c].turn = t /\ log[c].kind = "call"
         /\ log[c].kind \notin Closers /\ ~Repeated(c)
BY CursorsTyped DEF CallOf, Closers, Terminal

\* A call is the same after a step.
LEMMA CallSame ==
  ASSUME TypeOK, [Next]_vars, NEW t, NEW c \in Events
  PROVE  CallOf(c, t)' <=> CallOf(c, t)
<1>1. log'[c] = log[c] /\ c \in Events'
  BY LogKeeps
<1>2. Repeated(c)' <=> Repeated(c)
  BY RepeatedKept
<1> QED
  BY <1>1, <1>2 DEF CallOf

\* A turn that is fresh has no open call.
LEMMA FreshClosed ==
  ASSUME Inv, NEW t \in Turns, Fresh(t) \/ Unseen(t), NEW c, Open(t, c)
  PROVE  FALSE
<1>0. TypeOK /\ CallOf(c, t) /\ Taken(c) /\ obs.pc # "stopped"
  BY DEF Inv, Open, Taken
<1>1. c \in Events /\ c \in Nat /\ log[c].turn = t /\ log[c].kind = "call"
  BY <1>0, CallIs
<1>2. CASE Unseen(t)
  BY <1>0, <1>1, <1>2 DEF Unseen
<1>3. CASE t \in adoptedTerminalTurnIds
  <2>1. Past(t)
    BY <1>3 DEF Inv, Attempts
  <2>2. PICK g \in Events : log[g].turn = t /\ log[g].kind \in Terminal
    BY <2>1 DEF Past, Over
  <2>3. c <= g /\ g \in Nat
    BY <1>0, <1>1, <2>2, CursorsTyped DEF Inv, Reach
  <2>4. c # g
    BY <1>1, <2>2 DEF Terminal
  <2>5. Taken(g)
    BY <1>0, <2>1, <2>2 DEF Past, Taken
  <2>6. c < g
    BY <1>1, <2>3, <2>4
  <2> QED
    BY <2>2, <2>5, <2>6 DEF Open, Closers
<1> QED
  BY <1>2, <1>3 DEF Fresh

\* A turn that becomes one of ours was not seen yet, nor passed by a cursor.
LEMMA Joins ==
  ASSUME Inv, Ahead, [Next]_vars, ~Restart, NEW t \in ownedSubmissions', t \notin ownedSubmissions
  PROVE  t \in Turns /\ Unseen(t) /\ NotPassed(t)
<1>0. TypeOK /\ Attempts /\ OwnedMoves
  BY OwnedMove DEF Inv
<1>1. ASSUME t = request.id, pc \in {"submit", "own"}, Installed(request.id), Receipt \/ WrittenOwn
      PROVE  t \in Turns /\ Unseen(t) /\ NotPassed(t)
  <2>1. t \in Turns /\ Before(t)
    BY <1>1, CallTyped DEF Asked, Ahead, AskedBefore
  <2>2. CASE pc = "own"
    <3>1. Unseen(t)
      BY <1>0, <1>1, <2>2 DEF Attempts
    <3> QED
      BY <2>1, <3>1 DEF Unseen, Before
  <2>3. CASE pc = "submit"
    <3>1. Fresh(t) /\ call.id = t
      BY <1>0, <1>1, <2>3, CallTyped DEF Attempts
    <3>2. Receipt
      BY <1>1, <2>3, QueueHead DEF WrittenOwn
    <3>3. t \notin adoptedTerminalTurnIds
      BY <3>1, <3>2 DEF Receipt
    <3> QED
      BY <2>1, <3>1, <3>3 DEF Fresh, Before
  <2> QED
    BY <1>1, <2>2, <2>3
<1>2. ASSUME WrittenLate, t = pendingSubmit.id, late = "own"
      PROVE  t \in Turns /\ Unseen(t) /\ NotPassed(t)
  <2>1. /\ pendingSubmit # NoAttempt /\ t \in Turns /\ pc # "own"
    BY <1>0, <1>2, CallTyped DEF Attempts, Asked
  <2>2. life \in {"up", "closing"}
    BY <1>0, <1>2 DEF Inv, CallShape, TypeOK
  <2>3. Fresh(t) /\ Before(t) /\ t \notin adoptedTerminalTurnIds
    BY <1>0, <1>2, <2>1, <2>2 DEF Attempts, Ahead, InDoubtBefore, LateBefore
  <2> QED
    BY <2>1, <2>3 DEF Fresh, Before
<1> QED
  BY <1>0, <1>1, <1>2 DEF OwnedMoves

\* The observer that is applying an event goes on with the op that is done.
LEMMA WorkStays ==
  ASSUME Inv, [Next]_vars, ~Crash, ~Restart, Working,
         ~StoreMessage, ~Commit, ~CloseSink, ~WrittenObserved
  PROVE  obs'.todo = obs.todo /\ obs'.at = obs.at /\ obs'.pc = obs.pc
<1>0. /\ ObsOK(obs) /\ obs \in ObsType /\ ~Observe /\ ~Woken
  BY ObserverMoves DEF Inv, ObsShape, TypeOK, Working, Reading
<1>1. \A o \in {obs, Notified(obs), SubmissionEnded(obs), Halted} :
        o.todo = obs.todo /\ o.at = obs.at /\ o.pc = obs.pc
  <2>1. Halted = obs
    BY DEF Halted
  <2> QED
    BY <1>0, <2>1, NotifiedOK
<1>2. obs' \in {obs, Notified(obs), SubmissionEnded(obs), Halted}
  <2>1. CASE UNCHANGED vars
    BY <2>1 DEF vars
  <2>2. CASE \E p \in Prompts : Stream(p)
    BY <2>2 DEF Stream
  <2>3. CASE Admit \/ EmitForeign \/ \E t \in Turns, k \in Kinds : Emit(t, k)
    BY <2>3 DEF Admit, EmitForeign, Emit
  <2>4. CASE StreamStep \/ LateStep \/ Consume \/ CloseInterrupt
    BY <2>4 DEF StreamStep, Submit, Receipt, Rejected, LateStep, LateReceipt, LateRejected, Consume,
                CloseInterrupt, Interrupted, Installed
  <2>5. CASE Abort \/ WrittenHeld \/ WrittenOwn \/ WrittenLate
    BY <2>5 DEF Abort, Interrupted, WrittenHeld, WrittenOwn, WrittenLate, Installed
  <2>6. CASE ObserverLost \/ BeginClose \/ CloseCommit \/ WrittenClose
    BY <2>6 DEF ObserverLost, BeginClose, CloseCommit, WrittenClose
  <2> QED
    BY <1>0, <2>1, <2>2, <2>3, <2>4, <2>5, <2>6 DEF Next, ObserveStep, WriteStep
<1> QED
  BY <1>1, <1>2

\* A call that is to be stored stays so until it is, and keeps its turn
\* undurable then.
LEMMA ToCallStays ==
  ASSUME Inv, Ops, [Next]_vars, ~Crash, ~Restart, NEW t, ToCall(t)
  PROVE  ToCall(t)' \/ t \in undurableSinks'
<1>0. /\ ObsOK(obs) /\ obs \in ObsType /\ obs.todo \in Seq(OpType) /\ (life = "up" /\ ~failed) \in BOOLEAN
  BY DEF Inv, ObsShape, ObsOK, ObsType
<1>1. PICK i \in DOMAIN obs.todo : obs.todo[i].op = "call" /\ obs.todo[i].t = t
  BY DEF ToCall
<1>2. obs.todo # <<>> /\ Working
  BY <1>0, <1>1 DEF ObsOK, Working
<1>3. CASE obs'.todo = obs.todo
  BY <1>1, <1>3 DEF ToCall
<1>4. CASE obs' = Advanced(life = "up" /\ ~failed) /\ i # 1
  <2>1. PICK p, q : p = obs.todo /\ q = Tail(obs.todo)
    OBVIOUS
  <2>2. p \in Seq(OpType) /\ p # <<>> /\ q = Tail(p) /\ i \in DOMAIN p /\ Len(p) \in Nat /\ DOMAIN p = 1..Len(p)
    BY <1>0, <1>1, <1>2, <2>1
  <2>3. Len(q) = Len(p) - 1 /\ DOMAIN q = 1..Len(q) /\ \A j \in DOMAIN q : q[j] = p[j + 1]
    BY <2>2, SeqFacts
  <2>4. i \in Nat /\ i > 1 /\ Len(p) # 1 /\ i - 1 \in DOMAIN q /\ (i - 1) + 1 = i
    BY <1>4, <2>2, <2>3
  <2>5. obs'.todo = q
    BY <1>0, <1>2, <1>4, <2>1, <2>4, AdvancedOK
  <2>6. q[i - 1] = p[i]
    BY <2>3, <2>4
  <2> QED
    BY <1>1, <2>1, <2>4, <2>5, <2>6 DEF ToCall
<1>5. CASE StoreMessage
  <2>1. obs' = Advanced(life = "up" /\ ~failed) /\ obs.pc = "apply" /\ undurableSinks' = KeptBack(Head(obs.todo))
    BY <1>5 DEF StoreMessage
  <2>2. PICK op : op = Head(obs.todo)
    OBVIOUS
  <2>3. op = obs.todo[1]
    BY <2>1, <2>2, HeadOp
  <2>4. i = 1 => t \in undurableSinks'
    BY <1>1, <2>1, <2>2, <2>3 DEF KeptBack
  <2> QED
    BY <1>4, <2>1, <2>4
<1>6. CASE Commit
  <2>1. obs.pc = "apply" /\ Head(obs.todo).op = "commit"
        /\ (obs' = Advanced(life = "up" /\ ~failed) \/ obs' = [obs EXCEPT !.pc = "write"])
    BY <1>6 DEF Commit
  <2>2. PICK op : op = Head(obs.todo)
    OBVIOUS
  <2>3. op = obs.todo[1]
    BY <2>1, <2>2, HeadOp
  <2>4. i # 1
    BY <1>1, <2>1, <2>2, <2>3
  <2>5. [obs EXCEPT !.pc = "write"].todo = obs.todo
    BY <1>0 DEF ObsType
  <2> QED
    BY <1>3, <1>4, <2>1, <2>4, <2>5
<1>7. CASE CloseSink
  <2>1. obs.pc = "apply" /\ Head(obs.todo).op = "close" /\ obs' = Advanced(life = "up" /\ ~failed)
    BY <1>7 DEF CloseSink
  <2>2. PICK op : op = Head(obs.todo)
    OBVIOUS
  <2>3. op = obs.todo[1]
    BY <2>1, <2>2, HeadOp
  <2>4. i # 1
    BY <1>1, <2>1, <2>2, <2>3
  <2> QED
    BY <1>4, <2>1, <2>4
<1>8. CASE WrittenObserved
  <2>1. Written("obs") /\ obs' = Advanced(life = "up" /\ ~failed)
    BY <1>8 DEF WrittenObserved
  <2>2. obs.pc = "write"
    BY <2>1, QueueHead
  <2>3. i # 1
    BY <1>1, <2>2 DEF Ops
  <2> QED
    BY <1>4, <2>1, <2>3
<1> QED
  BY <1>2, <1>3, <1>5, <1>6, <1>7, <1>8, WorkStays

--------------------------------------------------------------------------------
(* What the observer does to the calls that are open.                      *)
(* What the observer passes is not ours.                                   *)
LEMMA PassesOthers ==
  ASSUME Inv, Observe \/ Woken, NEW e, e = obs.at, NEW t, t = log[e].turn, Passes(e), t \in Turns,
         ~sinks[t].live
  PROVE  t \notin ownedSubmissions
<1>0. /\ obs \in ObsType /\ sinks \in [Turns -> SinkType]
      /\ Waits \/ Takes(e, t)
  BY ObserverMoves DEF Inv, TypeOK
<1>1. obs' = Apply1(e, <<Op("commit", e)>>) /\ UNCHANGED sinks
  BY DEF Passes, Still
<1>2. obs'.pc = "apply"
  BY <1>1 DEF Apply1
<1>3. ~Waits
  <2>1. \A p : [obs EXCEPT !.pc = p, !.woken = FALSE].pc = p
    BY <1>0 DEF ObsType
  <2> QED
    BY <1>2, <2>1 DEF Waits, Waiting
<1>4. ~Completes(e, t)
  BY <1>2 DEF Completes, Observer
<1>5. ASSUME Shows(e, t) PROVE FALSE
  <2>1. PICK x \in SinkType : sinks' = [sinks EXCEPT ![t] = x] /\ x.live
    BY <1>5 DEF Shows
  <2>2. sinks'[t] = x
    BY <1>0, <2>1
  <2> QED
    BY <1>1, <2>1, <2>2
<1> QED
  BY <1>0, <1>3, <1>4, <1>5 DEF Takes

(* What the observer does to the tool calls: it passes or waits, or it     *)
(* comes to an event of a turn with a sink.                                *)
LEMMA ObserverTools ==
  ASSUME Inv, Ids, Observe \/ Woken, NEW e, e = obs.at, NEW u, u = log[e].turn
  PROVE  \/ /\ UNCHANGED <<sinks, undurableSinks, terminalCursor, ownedSubmissions>>
            /\ \/ obs'.pc \in Reading /\ obs'.at = e /\ obs'.todo = <<>>
               \/ /\ obs'.pc = "apply" /\ obs'.at = e
                  /\ u \in Turns => u \notin ownedSubmissions
                  /\ obs'.todo = <<Op("commit", e)>>
         \/ /\ u \in Turns /\ Owns(e, u)
            /\ undurableSinks \ {u} \subseteq undurableSinks'
            /\ \A t \in Turns : t # u => sinks'[t] = sinks[t]
            /\ \/ /\ obs'.pc = "read" /\ obs'.at = e + 1 /\ obs'.todo = <<>> /\ log[e].kind \in Closers
                  /\ terminalCursor' = terminalCursor \/ (terminalCursor' = e /\ log[e].kind \in Terminal)
                  /\ log[e].kind = "fail" => ~sinks'[u].live
               \/ /\ obs'.pc = "read" /\ obs'.at = e + 1 /\ obs'.todo = <<>>
                  /\ UNCHANGED <<sinks, undurableSinks, terminalCursor>>
                  /\ Repeated(e) /\ log[e].kind \in {"call", "result"}
               \/ /\ UNCHANGED <<terminalCursor, undurableSinks>> /\ Plans(e, u)
                  /\ obs'.pc = "apply" /\ obs'.at = e
                  /\ sinks[u].called \subseteq sinks'[u].called
                  /\ log[e].kind = "call" => log[e].callId \in sinks'[u].called
<1>0. /\ obs \in ObsType /\ sinks \in [Turns -> SinkType] /\ obs.todo = <<>> /\ e \in Events /\ TypeOK
      /\ obs.pc \in Reading
  BY ObserverMoves, ReadingNothing DEF Inv, TypeOK
<1>1. CASE Waits
  <2>1. UNCHANGED <<sinks, undurableSinks, terminalCursor, ownedSubmissions>>
    BY <1>1 DEF Waits, Waiting
  <2>2. obs'.pc \in {"wait", "waitOwner"} /\ obs'.at = e /\ obs'.todo = <<>>
    BY <1>0, <1>1 DEF Waits, Waiting, ObsType
  <2> QED
    BY <2>1, <2>2 DEF Reading
<1>2. CASE Passes(e) /\ (u \in Turns => ~sinks[u].live)
  <2>1. UNCHANGED <<sinks, undurableSinks, terminalCursor, ownedSubmissions>>
    BY <1>2 DEF Passes, Still
  <2>2. obs' = Apply1(e, <<Op("commit", e)>>)
    BY <1>2 DEF Passes
  <2>3. obs'.pc = "apply" /\ obs'.at = e /\ obs'.todo = <<Op("commit", e)>>
    BY <2>2 DEF Apply1
  <2>4. u \in Turns => u \notin ownedSubmissions
    BY <1>2, PassesOthers
  <2> QED
    BY <2>1, <2>3, <2>4
<1>4. ASSUME NEW y, sinks' = [sinks EXCEPT ![u] = y] PROVE \A t \in Turns : t # u => sinks'[t] = sinks[t]
  BY <1>0, <1>4
<1>5. CASE /\ u \in Turns /\ Owns(e, u) /\ Completes(e, u) /\ terminalCursor' = e
           /\ undurableSinks' = undurableSinks \ {u} /\ sinks' = [sinks EXCEPT ![u] = NoSink]
  <2>1. obs'.pc = "read" /\ obs'.at = e + 1 /\ obs'.todo = <<>> /\ log[e].kind \in Terminal
    BY <1>5 DEF Completes, Observer
  <2>2. log[e].kind \in Closers
    BY <2>1 DEF Closers
  <2>3. ~sinks'[u].live
    BY <1>0, <1>5, SinkValues
  <2> QED
    BY <1>4, <1>5, <2>1, <2>2, <2>3
<1>6. CASE u \in Turns /\ Owns(e, u) /\ ShowsText(e, u) /\ UNCHANGED terminalCursor
  <2>1. /\ obs'.pc = "read" /\ obs'.at = e + 1 /\ obs'.todo = <<>> /\ log[e].kind = "text"
        /\ undurableSinks \ {u} \subseteq undurableSinks'
    BY <1>6 DEF ShowsText, Observer
  <2>2. \A t \in Turns : t # u => sinks'[t] = sinks[t]
    BY <1>4, <1>6 DEF ShowsText
  <2>3. log[e].kind \in Closers /\ log[e].kind # "fail"
    BY <2>1 DEF Closers
  <2> QED
    BY <1>6, <2>1, <2>2, <2>3
<1>7. CASE u \in Turns /\ Owns(e, u) /\ Plans(e, u) /\ UNCHANGED terminalCursor
  <2>1. PICK y, q : Form(e, SinkFor(u), y, q) /\ sinks' = [sinks EXCEPT ![u] = y] /\ obs' = Apply1(e, q)
    BY <1>7 DEF Plans
  <2>2. obs'.pc = "apply" /\ obs'.at = e /\ undurableSinks' = undurableSinks
    BY <1>7, <2>1 DEF Plans, Apply1
  <2>3. \A t \in Turns : t # u => sinks'[t] = sinks[t]
    BY <1>4, <2>1
  <2>4. sinks[u].called \subseteq sinks'[u].called /\ (log[e].kind = "call" => log[e].callId \in sinks'[u].called)
    <3>1. PICK s : s = SinkFor(u)
      OBVIOUS
    <3>2. s \in SinkType /\ s.live /\ sinks[u].called \subseteq s.called
      <4>1. CASE sinks[u].live
        BY <1>0, <1>7, <3>1, <4>1 DEF SinkFor
      <4>2. CASE ~sinks[u].live
        <5>1. s = NewSink(TRUE) /\ sinks[u].called = {}
          BY <1>7, <3>1, <4>2 DEF SinkFor, Ids
        <5> QED
          BY <1>0, <5>1, TypedValues, SinkValues
      <4> QED
        BY <4>1, <4>2
    <3>3. s.text # e
      <4>1. sinks[u].text < e /\ sinks[u].text \in 0..Len(log) /\ Len(log) \in Nat /\ e \in Nat /\ e # 0
        BY <1>0, <1>7, TypedValues DEF Inv, ObsShape, SinkType, Events
      <4>2. sinks[u].text # e /\ 0 # e
        BY <4>1
      <4> QED
        BY <3>1, <4>2, SinkValues DEF SinkFor
    <3>4. y.called = s.called \cup (IF log[e].kind = "call" THEN {log[e].callId} ELSE {})
      BY <1>0, <2>1, <3>1, <3>2, <3>3, FormIds
    <3>5. sinks'[u] = y
      BY <1>0, <1>7, <2>1
    <3>6. log[e].kind = "call" => log[e].callId \in y.called
      BY <3>4
    <3> QED
      BY <3>2, <3>4, <3>5, <3>6
  <2> QED
    BY <1>7, <2>2, <2>3, <2>4
<1>8. CASE u \in Turns /\ Owns(e, u) /\ Ignores(e, u) /\ UNCHANGED <<undurableSinks, terminalCursor>>
  <2>1. Ignored(e, sinks[u]) /\ sinks' = sinks /\ obs'.pc = "read" /\ obs'.at = e + 1 /\ obs'.todo = <<>>
    BY <1>8 DEF Ignores, Observer
  <2>2. Repeated(e)
    BY <1>0, <1>8, <2>1, IgnoredRepeats
  <2>3. log[e].kind \in {"call", "result"}
    BY <2>2 DEF Repeated
  <2> QED
    BY <1>8, <2>1, <2>2, <2>3
<1> QED
  BY <1>1, <1>2, <1>5, <1>6, <1>7, <1>8, ObserverForms

\* What the observer takes it takes away from no turn but that of a failure.
LEMMA OwnsLess ==
  ASSUME NEW e, NEW u, Owns(e, u)
  PROVE  /\ ownedSubmissions' \subseteq ownedSubmissions
         /\ ownedSubmissions \ {u} \subseteq ownedSubmissions'
         /\ log[e].kind # "fail" => UNCHANGED ownedSubmissions
BY DEF Owns

--------------------------------------------------------------------------------
(* What is left to do, the text of a sink, and whose the sinks are.        *)
LEMMA OpsLeft ==
  ASSUME obs'.pc = "write" => obs'.todo[1].op = "commit",
         \A i \in DOMAIN obs'.todo : \A o : o = obs'.todo[i] => OpLeft(o)'
  PROVE  Ops'
<1>1. ASSUME NEW i \in DOMAIN obs'.todo PROVE OpLeft(obs.todo[i])'
  <2>1. PICK o : o = obs'.todo[i]
    OBVIOUS
  <2>2. OpLeft(o)'
    BY <2>1
  <2> QED
    BY <2>1, <2>2 DEF OpLeft
<1> QED
  BY <1>1 DEF Ops

LEMMA OpsTakes ==
  ASSUME Inv, Ids, Once, TextLast, [Next]_vars, Observe \/ Woken
  PROVE  Ops'
<1>0. /\ TypeOK /\ obs.at \in Events /\ obs.pc \in Reading /\ log' = log /\ Events' = Events
      /\ ~Working /\ obs.pc # "stopped"
  BY ObserverMoves, ReadingNothing DEF Inv, ObserveUnchanged, engine, Events, Reading
<1>1. PICK e, t : e = obs.at /\ t = log[e].turn
  OBVIOUS
<1>2. CASE obs'.todo = <<>> /\ obs'.pc # "write"
  <2>1. DOMAIN obs'.todo = {}
    BY <1>2
  <2> QED
    BY <1>2, <2>1 DEF Ops
<1>3. CASE obs'.pc = "apply" /\ obs'.at = e /\ obs'.todo = <<Op("commit", e)>>
  <2>1. DOMAIN obs'.todo = {1} /\ obs'.todo[1] = Op("commit", e)
    BY <1>3
  <2>2. PICK o : o = Op("commit", e)
    OBVIOUS
  <2>3. o.op = "commit" /\ o.e = e /\ o.t = log'[e].turn
    BY <1>0, <2>2 DEF Op
  <2>4. OpLeft(o)'
    BY <1>3, <2>3 DEF OpLeft
  <2> QED
    BY <1>3, <2>1, <2>2, <2>4, OpsLeft
<1>4. CASE t \in Turns /\ Plans(e, t) /\ obs'.pc = "apply" /\ obs'.at = e
  <2>1. PICK y, q : Form(e, SinkFor(t), y, q) /\ obs' = Apply1(e, q)
    BY <1>4 DEF Plans
  <2>2. obs'.todo = q
    BY <2>1 DEF Apply1
  <2>3. PICK s, x : s = SinkFor(t) /\ x = s.text
    OBVIOUS
  <2>4. x # 0 => x = sinks[t].text
    BY <2>3, SinkValues DEF SinkFor
  <2>5. x # 0 => log[x].turn = t /\ log[x].kind = "text"
    BY <1>4, <2>4, TextIs
  <2>6. OpsFor(q, e, x, t)
    BY <1>1, <2>1, <2>3, <2>5, FormOps
  <2>7. ASSUME x # 0, log[e].kind = "start", NEW c, CallOf(c, t), c <= e PROVE c < x
    <3>1. c \in Events /\ c \in Nat /\ c # e /\ e \in Nat
      BY <1>0, <1>1, <2>7, CallIs DEF Events
    <3>2. Taken(c)
      BY <1>0, <1>1, <2>7, <3>1 DEF Taken
    <3> QED
      BY <1>4, <2>4, <2>7, <3>2 DEF TextLast
  <2>8. ASSUME NEW i \in DOMAIN q, NEW o, o = q[i] PROVE OpLeft(o)'
    <3>2. OpFor(o, e, x, t)
      BY <2>6, <2>8 DEF OpsFor
    <3>3. /\ o.t = t /\ (o.op = "call" => log[e].kind = "call")
          /\ o.op = "commit" /\ o.e # e => o.e = x /\ x # 0
      BY <3>2 DEF OpFor
    <3>4. \A c : CallOf(c, t)' => CallOf(c, t)
      BY <1>0 DEF CallOf, Repeated
    <3>5. o.op = "commit" /\ o.e # e => log[o.e].kind = "text"
      BY <2>5, <3>3
    <3>6. o.op = "commit" /\ o.e # e /\ log[e].kind = "start" => \A c : CallOf(c, t)' /\ c <= e => c < o.e
      BY <2>7, <3>3, <3>4
    <3> QED
      BY <1>0, <1>1, <1>4, <3>3, <3>5, <3>6 DEF OpLeft
  <2> QED
    BY <1>4, <2>2, <2>8, OpsLeft
<1>5. obs'.pc \in Reading => obs'.pc # "write"
  BY DEF Reading
<1> QED
  BY <1>1, <1>2, <1>3, <1>4, <1>5, ObserverTools

LEMMA OpsKept ==
  ASSUME Inv, Ids, Once, TextLast, Ops, [Next]_vars
  PROVE  Ops'
<1>0. TypeOK /\ ObsOK(obs)
  BY DEF Inv, ObsShape
<1>e. ASSUME obs'.todo = <<>>, obs'.pc # "write" PROVE Ops'
  <2>1. DOMAIN obs'.todo = {}
    BY <1>e
  <2> QED
    BY <1>e, <2>1 DEF Ops
<1>1. CASE Crash \/ Restart
  <2>1. obs'.todo = <<>> /\ obs'.pc # "write"
    BY <1>1 DEF Crash, Restart, Stopped, Observer
  <2> QED
    BY <1>e, <2>1
<1>2. CASE Observe \/ Woken
  BY <1>2, OpsTakes
<1>3. CASE ~Crash /\ ~Restart /\ ~Observe /\ ~Woken
  <2>1. ASSUME NEW i \in DOMAIN obs.todo, NEW o, o = obs.todo[i], obs'.at = obs.at PROVE OpLeft(o)'
    <3>2. OpLeft(o)
      BY <2>1 DEF Ops
    <3>3. obs.at \in Events /\ o.t = log[o.e].turn /\ o.e \in Events
      <4>1. obs.todo # <<>>
        BY <2>1
      <4>2. obs.at \in Events /\ o.t = log[o.e].turn /\ o.e <= obs.at
        BY <1>0, <2>1, <4>1 DEF ObsOK, Planned
      <4>3. o \in OpType
        <5>1. PICK q : q = obs.todo
          OBVIOUS
        <5>2. q \in Seq(OpType)
          BY <1>0, <5>1 DEF ObsOK, ObsType
        <5> QED
          BY <2>1, <5>1, <5>2
      <4> QED
        BY <1>0, <4>2, <4>3, CursorsTyped DEF OpType, Events
    <3>4. log'[obs.at] = log[obs.at] /\ log'[o.e] = log[o.e]
      BY <1>0, <3>3, LogKeeps
    <3>5. ASSUME NEW c, CallOf(c, o.t)', c <= obs.at PROVE CallOf(c, o.t)
      <4>1. c \in Events
        <5>1. c \in Events' /\ Len(log) \in Nat /\ obs.at \in Nat /\ obs.at <= Len(log)
          BY <1>0, <3>3, <3>5, LogKeeps DEF CallOf
        <5>2. c # Len(log) + 1
          BY <3>5, <5>1
        <5> QED
          BY <1>0, <5>1, <5>2, LogKeeps
      <4> QED
        BY <1>0, <3>5, <4>1, CallSame
    <3> QED
      BY <2>1, <3>2, <3>4, <3>5 DEF OpLeft
  <2>2. CASE obs'.at = obs.at /\ obs'.todo = obs.todo /\ obs'.pc = obs.pc
    BY <2>1, <2>2, OpsLeft DEF Ops
  <2>3. CASE obs'.at = obs.at /\ obs'.todo = obs.todo /\ Flushes
    <3>1. obs.pc = "apply" /\ Head(obs.todo).op = "commit"
      BY <2>3 DEF Flushes, Commit
    <3>2. obs.todo[1].op = "commit"
      BY <3>1, HeadOp
    <3> QED
      BY <2>1, <2>3, <3>2, OpsLeft
  <2>4. CASE /\ obs'.at = obs.at /\ obs'.pc = "apply"
             /\ \A i \in DOMAIN obs'.todo : i + 1 \in DOMAIN obs.todo /\ obs'.todo[i] = obs.todo[i + 1]
    <3>1. ASSUME NEW i \in DOMAIN obs'.todo, NEW o, o = obs'.todo[i] PROVE OpLeft(o)'
      <4>1. PICK j : j = i + 1
        OBVIOUS
      <4>2. j \in DOMAIN obs.todo /\ o = obs.todo[j]
        BY <2>4, <3>1, <4>1
      <4> QED
        BY <2>1, <2>4, <4>2
    <3> QED
      BY <2>4, <3>1, OpsLeft
  <2> QED
    BY <1>3, <1>e, <2>2, <2>3, <2>4, TodoMoves
<1> QED
  BY <1>1, <1>2, <1>3

LEMMA TextLastKept ==
  ASSUME Inv, Ids, Once, TextLast, [Next]_vars
  PROVE  TextLast'
<1>0. TypeOK /\ sinks \in [Turns -> SinkType]
  BY DEF Inv, TypeOK
<1>1. CASE Crash \/ Restart
  <2>1. sinks' = [t \in Turns |-> NoSink]
    BY <1>1 DEF Crash, Restart, Forgotten
  <2> QED
    BY <2>1, SinkValues DEF TextLast
<1>2. ASSUME ~Crash, ~Restart, NEW t \in Turns, sinks'[t].text # 0, NEW c, CallOf(c, t)', Taken(c)'
      PROVE  c < sinks'[t].text
  <2>0. obs'.pc # "stopped" /\ c \in Events'
    BY <1>2 DEF Taken, CallOf
  <2>1. c \in Events /\ (Taken(c) \/ (c = obs.at /\ (Observe \/ Woken))) /\ obs.pc # "stopped"
    <3>1. \A i \in Events' : Taken(i)' => i \in Events /\ (Taken(i) \/ (i = obs.at /\ (Observe \/ Woken)))
      BY <1>2, <2>0, TakenMoves
    <3>2. obs.pc # "stopped"
      BY <1>2, <2>0, TakenMoves
    <3> QED
      BY <1>2, <2>0, <3>1, <3>2
  <2>2. CallOf(c, t) /\ c \in Nat /\ log[c].kind = "call" /\ log[c].turn = t /\ ~Repeated(c)
    BY <1>0, <1>2, <2>1, CallSame, CallIs
  <2>3. ASSUME sinks'[t].text = sinks[t].text, Taken(c) PROVE c < sinks'[t].text
    BY <1>2, <2>2, <2>3 DEF TextLast
  <2>4. CASE ~Observe /\ ~Woken
    <3>1. sinks'[t].text = sinks[t].text
      BY <1>2, <2>4, TextStays
    <3> QED
      BY <2>1, <2>3, <2>4, <3>1
  <2>5. CASE Observe \/ Woken
    <3>1. PICK e, u : e = obs.at /\ u = log[e].turn
      OBVIOUS
    <3>2. e \in Events /\ e \in Nat /\ obs.pc \in Reading /\ (Taken(c) => c < e)
      BY <1>0, <2>5, <3>1, ObserverMoves DEF Events, Taken, Working, Reading
    <3>3. CASE Waits
      <4>1. sinks' = sinks
        BY <3>3 DEF Waits, Waiting
      <4>2. c # e
        <5>1. obs'.pc \in {"wait", "waitOwner"} /\ obs'.at = e
          BY <3>1, <3>3 DEF Waits, Waiting, Inv, TypeOK, ObsType
        <5>2. ~(e < e)
          BY <3>2
        <5> QED
          BY <1>2, <5>1, <5>2 DEF Taken, Working
      <4> QED
        BY <2>1, <2>3, <3>1, <4>1, <4>2
    <3>4. CASE t # u /\ \A v \in Turns : v # u => sinks'[v] = sinks[v]
      <4>1. c # e
        BY <2>2, <3>1, <3>4
      <4> QED
        BY <2>1, <2>3, <3>1, <3>4, <4>1
    <3>5. CASE t = u /\ TakesIds(e, t)
      <4>1. PICK s : s = SinkFor(t)
        OBVIOUS
      <4>2. /\ s.called = sinks[t].called /\ (s.text = sinks[t].text \/ s.text = 0)
            /\ NoSink.text = 0
        <5>1. CASE sinks[t].live
          BY <4>1, <5>1, SinkValues DEF SinkFor
        <5>2. CASE ~sinks[t].live
          BY <4>1, <5>2, SinkValues, SinkIds DEF SinkFor, Ids
        <5> QED
          BY <5>1, <5>2
      <4>3. c = e => (sinks'[t] = sinks[t] /\ ~sinks[t].live) \/ log[e].callId \notin s.called
        <5>1. ASSUME c = e, log[e].callId \in s.called PROVE FALSE
          <6>1. Ignored(e, sinks[t])
            BY <2>2, <4>2, <5>1 DEF Ignored
          <6> QED
            BY <2>2, <3>1, <3>2, <3>5, <5>1, <6>1, IgnoredRepeats
        <5> QED
          BY <5>1
      <4>4. ~(~sinks[t].live /\ sinks'[t] = sinks[t])
        <5>1. ~sinks[t].live => sinks[t].text = 0
          BY DEF TextLast
        <5> QED
          BY <1>2, <5>1
      <4>5. CASE sinks'[t].text \in {0, s.text, e} /\ (sinks'[t].text = e => log[e].kind = "text")
                 /\ (log[e].kind = "call" /\ log[e].callId \notin s.called => sinks'[t].text = 0)
        <5>1. c # e
          BY <1>2, <2>2, <4>3, <4>4, <4>5
        <5> QED
          BY <1>2, <2>1, <2>3, <3>1, <3>2, <4>2, <4>5, <5>1
      <4>6. CASE sinks'[t] = NoSink
        BY <1>2, <4>2, <4>6
      <4> QED
        BY <3>5, <4>1, <4>4, <4>5, <4>6 DEF TakesIds
    <3> QED
      BY <1>2, <2>5, <3>1, <3>3, <3>4, <3>5, ObserverIds
  <2> QED
    BY <2>4, <2>5
<1>3. ASSUME ~Crash, ~Restart PROVE TextLast'
  <2>1. ASSUME NEW t \in Turns, sinks'[t].text # 0, NEW c, CallOf(c, t)', Taken(c)' PROVE c < sinks'[t].text
    BY <1>2, <1>3, <2>1
  <2>2. ASSUME NEW t \in Turns, sinks'[t].text # 0 PROVE sinks'[t].live
    <3>1. CASE ~Observe /\ ~Woken
      <4>1. sinks'[t].text = sinks[t].text /\ sinks'[t].live = sinks[t].live
        BY <2>2, <3>1, TextStays
      <4> QED
        BY <2>2, <4>1 DEF TextLast
    <3>2. CASE Observe \/ Woken
      <4>1. \/ Waits \/ sinks'[t] = sinks[t] \/ TakesIds(obs.at, t)
        BY <3>2, ObserverIds
      <4>2. Waits => sinks' = sinks
        BY DEF Waits, Waiting
      <4>3. sinks'[t] = sinks[t] \/ sinks'[t] = NoSink \/ sinks'[t].live
        BY <4>1, <4>2 DEF TakesIds
      <4> QED
        BY <2>2, <4>3, SinkValues DEF TextLast
    <3> QED
      BY <3>1, <3>2
  <2> QED
    BY <2>1, <2>2 DEF TextLast
<1> QED
  BY <1>1, <1>3

\* The turn of a sink stays ours when the observer takes its event, or its sink is
\* about to be closed.
LEMMA OwnedTakes ==
  ASSUME Inv, Ids, Once, Observe \/ Woken, NEW t \in Turns, t \in ownedSubmissions, sinks'[t].live
  PROVE  t \in ownedSubmissions' \/ Closing(t)'
<1>1. PICK e, u : e = obs.at /\ u = log[e].turn
  OBVIOUS
<1>2. CASE UNCHANGED ownedSubmissions
  BY <1>2
<1>3. CASE Owns(e, u) /\ (t # u \/ log[e].kind # "fail")
  BY <1>3, OwnsLess
<1>4. CASE t = u /\ log[e].kind = "fail" /\ Plans(e, u)
  <2>1. PICK y, q : Form(e, SinkFor(u), y, q) /\ obs' = Apply1(e, q)
    BY <1>4 DEF Plans
  <2>2. PICK s, x : s = SinkFor(u) /\ x = s.text
    OBVIOUS
  <2>3. x # 0 => x = sinks[u].text
    BY <2>2, SinkValues DEF SinkFor
  <2>4. x # 0 => log[x].turn = u
    BY <1>4, <2>3, TextIs
  <2>5. \E i \in DOMAIN q : q[i].op = "close" /\ q[i].t = u
    BY <1>1, <1>4, <2>1, <2>2, <2>4, FormOps DEF Terminal
  <2>6. obs'.todo = q
    BY <2>1 DEF Apply1
  <2> QED
    BY <1>4, <2>5, <2>6 DEF Closing
<1>5. Repeated(e) => log[e].kind # "fail"
  BY DEF Repeated
<1> QED
  BY <1>1, <1>2, <1>3, <1>4, <1>5, ObserverTools

LEMMA LiveOursKept ==
  ASSUME Inv, Ids, Once, Ops, LiveOurs, [Next]_vars
  PROVE  LiveOurs'
<1>1. ASSUME NEW t \in Turns, sinks'[t].live
      PROVE  t \in ownedSubmissions' \/ Closing(t)' \/ obs'.pc = "stopped"
  <2>0. ~Crash /\ ~Restart
    <3>1. Crash \/ Restart => sinks' = [u \in Turns |-> NoSink]
      BY DEF Crash, Restart, Forgotten
    <3> QED
      BY <1>1, <3>1, SinkValues
  <2>1. CASE sinks[t].live /\ (Observe \/ Woken)
    <3>1. obs.pc \in Reading /\ obs.pc # "stopped" /\ ~Closing(t)
      BY <2>1, ObserverMoves, ReadingNothing DEF Reading
    <3> QED
      BY <1>1, <2>1, <3>1, OwnedTakes DEF LiveOurs
  <2>2. CASE sinks[t].live /\ ~Observe /\ ~Woken
    <3>1. CASE t \in ownedSubmissions
      <4>1. ownedSubmissions \subseteq ownedSubmissions'
        BY <2>0, <2>2, OwnedMove DEF OwnedMoves
      <4> QED
        BY <3>1, <4>1
    <3>2. CASE Closing(t)
      <4>1. ~(CloseSink /\ Head(obs.todo).t = t)
        <5>1. CloseSink => sinks' = [sinks EXCEPT ![Head(obs.todo).t] = NoSink]
          BY DEF CloseSink
        <5>2. sinks \in [Turns -> SinkType]
          BY DEF Inv, TypeOK
        <5> QED
          BY <1>1, <5>1, <5>2, SinkValues
      <4>2. obs.pc = "write" => obs.todo[1].op = "commit"
        BY DEF Ops
      <4> QED
        BY <2>0, <2>2, <3>2, <4>1, <4>2, ClosingStays
    <3>3. CASE obs.pc = "stopped"
      BY <2>0, <3>3, TakenMoves
    <3> QED
      BY <2>2, <3>1, <3>2, <3>3 DEF LiveOurs
  <2>3. CASE Opens /\ t = request.id
    <3>1. Installed(request.id)
      BY <2>3, OpensInstalls
    <3> QED
      BY <2>3, <3>1 DEF Installed
  <2>4. CASE (Observe \/ Woken) /\ t = log[obs.at].turn /\ ~sinks[t].live
    <3>1. t \in ownedSubmissions
      <4>1. sinks' # sinks
        BY <1>1, <2>4
      <4>2. ~Waits /\ ~Passes(obs.at)
        BY <4>1 DEF Waits, Waiting, Passes, Still
      <4> QED
        BY <2>4, <4>2, ObserverForms
    <3> QED
      BY <1>1, <2>4, <3>1, OwnedTakes
  <2> QED
    BY <1>1, <2>1, <2>2, <2>3, <2>4, LiveMoves
<1> QED
  BY <1>1 DEF LiveOurs

(* A call that is open was so before, unless the observer just took it.    *)
LEMMA OpenBack ==
  ASSUME Inv, [Next]_vars, ~Crash, ~Restart, NEW t \in Turns, NEW c, Open(t, c)'
  PROVE  /\ c \in Events /\ c \in Nat /\ CallOf(c, t) /\ obs'.pc # "stopped"
         /\ \/ Open(t, c)
            \/ (Observe \/ Woken) /\ c = obs.at
<1>0. TypeOK
  BY DEF Inv
<1>1. /\ c \in Events' /\ CallOf(c, t)' /\ Taken(c)' /\ obs'.pc # "stopped"
      /\ \A f \in Events' : log'[f].turn = t /\ c < f /\ log'[f].kind \in Closers => ~Taken(f)'
  BY DEF Open, CallOf, Taken
<1>2. /\ \A i \in Events' : Taken(i)' => i \in Events /\ (Taken(i) \/ (i = obs.at /\ (Observe \/ Woken)))
      /\ \A i \in Events : Taken(i) => Taken(i)'
  BY <1>1, TakenMoves
<1>3. c \in Events /\ (Taken(c) \/ (c = obs.at /\ (Observe \/ Woken)))
  BY <1>1, <1>2
<1>4. CallOf(c, t) /\ c \in Nat
  <2>1. CallOf(c, t)
    BY <1>0, <1>1, <1>3, CallSame
  <2> QED
    BY <1>0, <2>1, CallIs
<1>6. ASSUME Taken(c) PROVE Open(t, c)
  <2>1. ASSUME NEW f \in Events, log[f].turn = t, c < f, log[f].kind \in Closers, Taken(f) PROVE FALSE
    <3>1. f \in Events' /\ log'[f] = log[f]
      BY <1>0, <2>1, LogKeeps
    <3>2. Taken(f)'
      BY <1>2, <2>1
    <3> QED
      BY <1>1, <2>1, <3>1, <3>2
  <2> QED
    BY <1>4, <1>6, <2>1 DEF Open
<1> QED
  BY <1>1, <1>3, <1>4, <1>6

(* An open call is of a turn that was ours before.                         *)
LEMMA OpenOwned ==
  ASSUME Inv, Ids, Ahead, [Next]_vars, ~Crash, ~Restart, NEW t \in ownedSubmissions', t \in Turns,
         NEW c, Open(t, c)'
  PROVE  t \in ownedSubmissions
<1>1. ASSUME t \notin ownedSubmissions PROVE FALSE
  <2>1. Unseen(t)
    BY <1>1, Joins
  <2>2. ~Open(t, c)
    BY <2>1, FreshClosed
  <2>3. Observe \/ Woken
    BY <2>2, OpenBack
  <2>4. PICK e, u : e = obs.at /\ u = log[e].turn
    OBVIOUS
  <2>5. UNCHANGED ownedSubmissions \/ Owns(e, u)
    BY <2>3, <2>4, ObserverTools
  <2>6. ownedSubmissions' \subseteq ownedSubmissions
    BY <2>5, OwnsLess
  <2> QED
    BY <1>1, <2>6
<1> QED
  BY <1>1

(* The event the observer applies does not complete the call of its turn.  *)
LEMMA OpenWorks ==
  ASSUME Inv, Working, NEW t, NEW c, Open(t, c), log[obs.at].turn = t
  PROVE  log[obs.at].kind \notin Closers /\ c <= obs.at
<1>1. obs.at \in Events /\ CallOf(c, t) /\ Taken(c) /\ TypeOK
  BY DEF Inv, ObsShape, ObsOK, Working, Open
<1>2. Taken(obs.at) /\ c <= obs.at /\ obs.at \in Nat /\ c \in Nat /\ log[c].kind \notin Closers
  BY <1>1, CursorsTyped, CallIs DEF Taken, Working
<1>3. ASSUME log[obs.at].kind \in Closers PROVE FALSE
  <2>1. ~(c < obs.at)
    BY <1>1, <1>2, <1>3 DEF Open
  <2>2. c = obs.at
    BY <1>2, <2>1
  <2> QED
    BY <1>2, <1>3, <2>2
<1> QED
  BY <1>2, <1>3

(* The sink keeps an open call.                                            *)
LEMMA OpenSink ==
  ASSUME Inv, [Next]_vars, ~Crash, ~Restart, ~Observe, ~Woken, NEW t \in Turns, NEW c, Open(t, c),
         log[c].callId \in sinks[t].called, life' = "up", ~failed'
  PROVE  log[c].callId \in sinks'[t].called
<1>0. /\ TypeOK /\ Attempts /\ SinkMoves /\ sinks \in [Turns -> SinkType]
  BY SinksMove DEF Inv, TypeOK
<1>1. CASE UNCHANGED sinks
  BY <1>1
<1>2. CASE Opens
  <2>1. /\ pc \in {"submit", "own"} /\ request.id \in Turns
        /\ sinks' = [sinks EXCEPT ![request.id] = [NewSink(FALSE) EXCEPT !.left = request.aborted]]
    BY <1>2 DEF Opens
  <2>2. Fresh(request.id) \/ Unseen(request.id)
    BY <1>0, <2>1 DEF Attempts
  <2>3. t # request.id
    BY <2>1, <2>2, FreshClosed
  <2> QED
    BY <1>0, <2>1, <2>3
<1>3. CASE Abandons
  <2>1. PICK u : u = request.id
    OBVIOUS
  <2>2. u \in Turns /\ sinks' = [sinks EXCEPT ![u].left = TRUE] /\ sinks[t] \in SinkType
    BY <1>0, <1>3, <2>1 DEF Abandons
  <2>3. sinks'[t] \in {sinks[t], [sinks[t] EXCEPT !.left = TRUE]}
    BY <1>0, <2>2
  <2>4. [sinks[t] EXCEPT !.left = TRUE].called = sinks[t].called
    BY <2>2 DEF SinkType
  <2> QED
    BY <2>3, <2>4
<1>4. CASE Resets
  BY <1>4 DEF Resets, Invalidated, ObserverLost, BeginClose
<1>5. CASE CloseSink
  <2>1. PICK op : op = Head(obs.todo)
    OBVIOUS
  <2>2. op.t = log[obs.at].turn /\ log[obs.at].kind \in Terminal /\ obs.pc = "apply"
    BY <1>5, <2>1, Closes
  <2>3. op.t # t
    <3>1. ASSUME op.t = t PROVE FALSE
      <4>1. log[obs.at].kind \notin Closers
        BY <2>2, <3>1, OpenWorks DEF Working
      <4> QED
        BY <2>2, <4>1 DEF Closers
    <3> QED
      BY <3>1
  <2>4. sinks' = [sinks EXCEPT ![op.t] = NoSink]
    BY <1>5, <2>1 DEF CloseSink
  <2> QED
    BY <1>0, <2>3, <2>4
<1> QED
  BY <1>0, <1>1, <1>2, <1>3, <1>4, <1>5 DEF SinkMoves

(* The turn of an open call stays undurable, or is about to be.            *)
LEMMA OpenUndurable ==
  ASSUME Inv, Ops, CallLast, [Next]_vars, ~Crash, ~Restart, ~Observe, ~Woken, NEW t \in ownedSubmissions,
         t \in Turns, NEW c, Open(t, c), t \in undurableSinks \/ ToCall(t)
  PROVE  t \in undurableSinks' \/ ToCall(t)'
<1>1. CASE ToCall(t)
  BY <1>1, ToCallStays
<1>2. CASE t \in undurableSinks /\ ~Commit
  BY <1>2, UndurableMove DEF KeptBack
<1>3. CASE t \in undurableSinks /\ Commit
  <2>1. PICK op : op = Head(obs.todo)
    OBVIOUS
  <2>2. op.op = "commit" /\ obs.pc = "apply" /\ undurableSinks' = Undurable(op)
    BY <1>3, <2>1, CommitMoves
  <2>3. op = obs.todo[1] /\ 1 \in DOMAIN obs.todo /\ op.t = log[op.e].turn /\ op.e \in Events /\ op.e <= obs.at
    BY <2>1, <2>2, HeadOp
  <2>4. CASE op.t # t \/ log[op.e].kind = "start"
    BY <1>3, <2>2, <2>4 DEF Undurable
  <2>5. CASE op.t = t /\ log[op.e].kind # "start"
    <3>1. OpLeft(op)
      BY <2>3 DEF Ops
    <3>2. log[obs.at].turn = t /\ log[obs.at].kind \notin Closers /\ c <= obs.at
      BY <2>2, <2>5, <3>1, OpenWorks DEF OpLeft, Working
    <3>3. obs.at \in Events /\ TypeOK /\ Made
      BY <2>2 DEF Inv, ObsShape, ObsOK, Working
    <3>4. log[obs.at].kind \in {"call", "start"}
      <4>1. log[obs.at].kind \in Kinds
        BY <3>3, EventTyped DEF EventType
      <4>2. log[obs.at].kind \notin {"session", "foreign"}
        BY <3>2, <3>3 DEF Made
      <4> QED
        BY <3>2, <4>1, <4>2 DEF Closers, Terminal, Kinds, Projecting
    <3>5. CASE log[obs.at].kind = "call"
      <4>1. PICK j \in DOMAIN obs.todo : obs.todo[j].op = "call"
        BY <2>2, <2>3, <2>5, <3>5 DEF CallLast
      <4>2. obs.todo[j].t = t
        BY <3>2, <4>1 DEF Ops, OpLeft
      <4>3. ToCall(t)
        BY <4>1, <4>2 DEF ToCall
      <4> QED
        BY <4>3, ToCallStays
    <3>6. CASE log[obs.at].kind = "start"
      <4>1. op.e # obs.at
        BY <2>5, <3>6
      <4>2. log[op.e].kind = "text" /\ c < op.e
        BY <2>2, <2>5, <3>1, <3>2, <3>6, <4>1 DEF OpLeft, Open
      <4>3. Taken(op.e)
        <5>1. obs.at \in Nat /\ op.e \in Nat
          BY <2>3, <3>3 DEF Events
        <5>2. op.e < obs.at
          BY <2>3, <4>1, <5>1
        <5> QED
          BY <2>2, <5>2 DEF Taken
      <4> QED
        BY <2>3, <2>5, <4>2, <4>3 DEF Open, Closers
    <3> QED
      BY <3>4, <3>5, <3>6
  <2> QED
    BY <2>4, <2>5
<1> QED
  BY <1>1, <1>2, <1>3

(* The ops of a call: its text before it, and the call last.               *)
LEMMA CallForms ==
  ASSUME Inv, obs.pc \in Reading, NEW e, e = obs.at, NEW u \in Turns, u = log[e].turn, Plans(e, u),
         log[e].kind = "call"
  PROVE  \E j \in DOMAIN obs'.todo :
           /\ obs'.todo[j].op = "call" /\ obs'.todo[j].t = u
           /\ \A i \in DOMAIN obs'.todo : obs'.todo[i].op = "commit" => i < j /\ obs'.todo[i].e # e
<1>0. sinks \in [Turns -> SinkType] /\ obs.at \in Nat /\ TypeOK
  BY CursorsTyped DEF Inv, TypeOK
<1>1. PICK y, q : Form(e, SinkFor(u), y, q) /\ obs' = Apply1(e, q)
  BY DEF Plans
<1>2. PICK s, x : s = SinkFor(u) /\ x = s.text
  OBVIOUS
<1>3. x # 0 => x # e
  <2>1. ASSUME x # 0 PROVE x # e
    <3>1. x = sinks[u].text
      BY <1>2, <2>1, SinkValues DEF SinkFor
    <3>2. x < e
      BY <3>1 DEF Inv, ObsShape
    <3>3. x \in Nat
      BY <1>0, <3>1, TypedValues DEF SinkType
    <3> QED
      BY <1>0, <3>2, <3>3
  <2> QED
    BY <2>1
<1>4. obs'.todo = q
  BY <1>1 DEF Apply1
<1>5. PICK le, cm, st : le = Op("call", e) /\ cm = Op("commit", x) /\ st = Op("store", x)
  OBVIOUS
<1>6. le.op = "call" /\ le.t = u /\ cm.op = "commit" /\ cm.e = x /\ st.op = "store"
  BY <1>5 DEF Op
<1>7. q = Flush(s) \o <<le>>
  BY <1>1, <1>2, <1>5 DEF Form, Terminal
<1>8. \/ q = <<le>>
      \/ x # 0 /\ q = <<cm, le>>
      \/ x # 0 /\ q = <<st, cm, le>>
  BY <1>2, <1>5, <1>7, FlushForms
<1>9. /\ DOMAIN <<le>> = {1} /\ <<le>>[1] = le
      /\ DOMAIN <<cm, le>> = {1, 2} /\ <<cm, le>>[1] = cm /\ <<cm, le>>[2] = le
      /\ DOMAIN <<st, cm, le>> = {1, 2, 3}
      /\ <<st, cm, le>>[1] = st /\ <<st, cm, le>>[2] = cm /\ <<st, cm, le>>[3] = le
  OBVIOUS
<1>10. 1 < 2 /\ 2 < 3
  OBVIOUS
<1>11. CASE q = <<le>>
  BY <1>4, <1>6, <1>9, <1>11
<1>12. CASE x # 0 /\ q = <<cm, le>>
  BY <1>3, <1>4, <1>6, <1>9, <1>10, <1>12
<1>13. CASE x # 0 /\ q = <<st, cm, le>>
  BY <1>3, <1>4, <1>6, <1>9, <1>10, <1>13
<1> QED
  BY <1>8, <1>11, <1>12, <1>13

(* The observer opens a call, or leaves those that are open.               *)
LEMMA OpenTakes ==
  ASSUME Inv, Ids, ToolKept, [Next]_vars, Observe \/ Woken, NEW t \in ownedSubmissions, t \in Turns,
         NEW c, Open(t, c)'
  PROVE  Retains(t, c)'
<1>0. /\ TypeOK /\ obs.pc \in Reading /\ obs.at \in Events /\ ObserveUnchanged /\ obs.at \in Nat
      /\ life = "up" /\ ~failed /\ ~Crash /\ ~Restart
  <2>1. /\ TypeOK /\ obs.pc \in Reading /\ obs.at \in Events /\ ObserveUnchanged /\ life = "up" /\ ~failed
    BY ObserverMoves DEF Inv
  <2>2. ~Crash /\ ~Restart
    BY <2>1 DEF Crash, Restart, ObserveUnchanged, runtime
  <2> QED
    BY <2>1, <2>2, CursorsTyped
<1>1. PICK e, u : e = obs.at /\ u = log[e].turn
  OBVIOUS
<1>2. /\ c \in Events /\ c \in Nat /\ CallOf(c, t) /\ obs'.pc # "stopped"
      /\ Open(t, c) \/ c = e
      /\ Events' = Events /\ log' = log
  BY <1>0, <1>1, OpenBack DEF ObserveUnchanged, engine, Events
<1>3. /\ Taken(c)' /\ log[c].turn = t /\ log[c].kind = "call" /\ log[c].kind \notin Closers /\ ~Repeated(c)
      /\ \A f \in Events : log[f].turn = t /\ c < f /\ log[f].kind \in Closers => ~Taken(f)'
  BY <1>0, <1>2, CallIs DEF Open
<1>4. ASSUME t \in undurableSinks' \/ ToCall(t)', log[c].callId \in sinks'[t].called PROVE Retains(t, c)'
  BY <1>2, <1>4 DEF Retains
<1>5. Open(t, c) => t \in undurableSinks /\ log[c].callId \in sinks[t].called /\ c < e
  <2>1. ASSUME Open(t, c) PROVE t \in undurableSinks /\ log[c].callId \in sinks[t].called /\ c < e
    <3>1. Retains(t, c)
      BY <1>2, <2>1 DEF ToolKept
    <3>2. ~ToCall(t)
      BY <1>0, ReadingNothing DEF ToCall
    <3>3. c < e
      BY <1>0, <1>1, <2>1 DEF Open, Taken, Working, Reading
    <3> QED
      BY <1>0, <3>1, <3>2, <3>3 DEF Retains
  <2> QED
    BY <2>1
<1>6. CASE UNCHANGED <<sinks, undurableSinks>> /\ obs'.pc \in Reading /\ obs'.at = e
  <2>1. c # e
    BY <1>0, <1>1, <1>3, <1>6 DEF Taken, Working, Reading
  <2> QED
    BY <1>2, <1>4, <1>5, <1>6, <2>1
<1>7. CASE UNCHANGED <<sinks, undurableSinks>> /\ (u \in Turns => u \notin ownedSubmissions)
  <2>1. c # e
    BY <1>1, <1>3, <1>7
  <2> QED
    BY <1>2, <1>4, <1>5, <1>7, <2>1
<1>8. CASE t # u /\ undurableSinks \ {u} \subseteq undurableSinks' /\ \A v \in Turns : v # u => sinks'[v] = sinks[v]
  <2>1. c # e
    BY <1>1, <1>3, <1>8
  <2> QED
    BY <1>2, <1>4, <1>5, <1>8, <2>1
<1>9. CASE t = u /\ obs'.pc = "read" /\ obs'.at = e + 1 /\ log[e].kind \in Closers
  <2>1. Taken(e)' /\ e \in Events
    BY <1>0, <1>1, <1>9 DEF Taken
  <2>2. ~(c < e) /\ c # e
    BY <1>1, <1>3, <1>9, <2>1
  <2> QED
    BY <1>2, <1>5, <2>2
<1>10. CASE UNCHANGED <<sinks, undurableSinks>> /\ Repeated(e)
  <2>1. c # e
    BY <1>3, <1>10
  <2> QED
    BY <1>2, <1>4, <1>5, <1>10, <2>1
<1>11. CASE /\ t = u /\ Plans(e, u) /\ undurableSinks' = undurableSinks /\ sinks[u].called \subseteq sinks'[u].called
            /\ log[e].kind = "call" => log[e].callId \in sinks'[u].called
  <2>1. log[c].callId \in sinks'[t].called
    BY <1>2, <1>3, <1>5, <1>11
  <2>2. c = e => ToCall(t)'
    <3>1. ASSUME c = e PROVE \E j \in DOMAIN obs'.todo : obs'.todo[j].op = "call" /\ obs'.todo[j].t = t
      BY <1>0, <1>1, <1>3, <1>11, <3>1, CallForms
    <3> QED
      BY <3>1 DEF ToCall
  <2> QED
    BY <1>2, <1>4, <1>5, <1>11, <2>1, <2>2
<1> QED
  BY <1>1, <1>6, <1>7, <1>8, <1>9, <1>10, <1>11, ObserverTools

(* A cursor that passes a call passes an event of the turn after it.       *)
LEMMA CleanRestart ==
  ASSUME Inv, CleanCursors, [Next]_vars, Restart, NEW t \in binding.owned
  PROVE  /\ \A c : ~Open(t, c)'
         /\ Clean(binding.cursor, t)'
         /\ binding'.owned = binding.owned
<1>0. /\ TypeOK /\ t \in Turns /\ binding \in BindingType
  BY DEF Inv, TypeOK, BindingType
<1>1. PICK head : head = RecoveredCursor(binding.owned # {} /\ \A u \in binding.owned : Over(u))
  OBVIOUS
<1>2. /\ binding' = [binding EXCEPT !.cursor = head] /\ obs' = Observer("read", head + 1) /\ log' = log
      /\ Events' = Events
  BY <1>1 DEF Restart, engine, Events
<1>3. /\ binding'.cursor = head /\ binding'.owned = binding.owned
      /\ obs'.pc = "read" /\ obs'.at = head + 1
  BY <1>0, <1>2 DEF BindingType, Observer
<1>4. head = binding.cursor \/ (head = Len(log) /\ Over(t))
  BY <1>1 DEF RecoveredCursor
<1>5. head \in Nat
  BY <1>0, <1>4, CursorsTyped
<1>6. ASSUME NEW c, CallOf(c, t), c <= head PROVE \E f \in Events : log[f].turn = t /\ c < f /\ f <= head /\ log[f].kind \in Closers
  <2>1. CASE head = binding.cursor
    BY <1>6, <2>1 DEF CleanCursors, Clean, CallOf
  <2>2. CASE head = Len(log) /\ Over(t)
    <3>1. PICK g \in Events : log[g].turn = t /\ log[g].kind \in Terminal
      BY <2>2 DEF Over
    <3>2. c <= g /\ c # g /\ c \in Nat /\ g \in Nat /\ log[g].kind \in Closers
      BY <1>0, <1>6, <3>1, CursorsTyped DEF Inv, Reach, CallOf, Terminal, Closers
    <3>3. g <= head
      BY <1>5, <2>2 DEF Events
    <3> QED
      BY <3>1, <3>2, <3>3
  <2> QED
    BY <1>4, <2>1, <2>2
<1>7. ASSUME NEW c, Open(t, c)' PROVE FALSE
  <2>1. CallOf(c, t) /\ Taken(c)'
        /\ \A f \in Events : log[f].turn = t /\ c < f /\ log[f].kind \in Closers => ~Taken(f)'
    BY <1>2, <1>7 DEF Open, CallOf, Repeated
  <2>2. c < head + 1 /\ c \in Nat
    BY <1>0, <1>3, <2>1, CursorsTyped DEF Taken, Working, CallOf
  <2>3. c <= head
    BY <1>5, <2>2
  <2>4. PICK f \in Events : log[f].turn = t /\ c < f /\ f <= head /\ log[f].kind \in Closers
    BY <1>6, <2>1, <2>3
  <2>5. f < head + 1
    BY <1>5, <2>4 DEF Events
  <2>6. Taken(f)'
    BY <1>3, <2>5 DEF Taken
  <2> QED
    BY <2>1, <2>4, <2>6
<1>8. Clean(binding.cursor, t)'
  BY <1>2, <1>3, <1>6 DEF Clean, CallOf, Repeated
<1> QED
  BY <1>3, <1>7, <1>8

LEMMA ToolKeptKept ==
  ASSUME Inv, Ids, Ops, Ahead, ToolKept, CallLast, CleanCursors, [Next]_vars
  PROVE  ToolKept'
<1>1. ASSUME NEW t \in ownedSubmissions', NEW c \in Events', Open(t, c)' PROVE Retains(t, c)'
  <2>0. t \in Turns
    BY TypeKept DEF TypeOK
  <2>1. CASE Crash
    BY <1>1, <2>1 DEF Crash
  <2>2. CASE Restart
    <3>1. t \in binding.owned
      BY <1>1, <2>2 DEF Restart
    <3> QED
      BY <1>1, <2>2, <3>1, CleanRestart
  <2>3. CASE Observe \/ Woken
    <3>1. ~Crash /\ ~Restart
      BY <2>3, ObserverMoves DEF Crash, Restart, ObserveUnchanged, runtime
    <3>2. t \in ownedSubmissions
      BY <1>1, <2>0, <3>1, OpenOwned
    <3> QED
      BY <1>1, <2>0, <2>3, <3>2, OpenTakes
  <2>4. CASE ~Crash /\ ~Restart /\ ~Observe /\ ~Woken
    <3>1. t \in ownedSubmissions
      BY <1>1, <2>0, <2>4, OpenOwned
    <3>2. Open(t, c) /\ c \in Events
      BY <1>1, <2>0, <2>4, OpenBack
    <3>3. Retains(t, c)
      BY <3>1, <3>2 DEF ToolKept
    <3>4. t \in undurableSinks' \/ ToCall(t)'
      BY <2>0, <2>4, <3>1, <3>2, <3>3, OpenUndurable DEF Retains
    <3>5. ASSUME life' = "up", ~failed' PROVE log'[c].callId \in sinks'[t].called
      <4>1. life = "up" /\ ~failed
        <5>1. UNCHANGED <<life, failed>>
          <6>1. failed' # TRUE
            BY <3>5
          <6> QED
            BY <2>4, <3>5, <6>1, LifeMoves
        <5> QED
          BY <3>5, <5>1
      <4>2. log[c].callId \in sinks[t].called /\ log'[c] = log[c]
        <5>1. TypeOK
          BY DEF Inv
        <5> QED
          BY <3>2, <3>3, <4>1, <5>1, LogKeeps DEF Retains
      <4> QED
        BY <2>0, <2>4, <3>2, <3>5, <4>2, OpenSink
    <3> QED
      BY <3>4, <3>5 DEF Retains
  <2> QED
    BY <2>1, <2>2, <2>3, <2>4
<1> QED
  BY <1>1 DEF ToolKept

(* The call comes after its text is committed.                             *)
LEMMA CallLastKept ==
  ASSUME Inv, Ids, Ops, Ahead, CallLast, [Next]_vars
  PROVE  CallLast'
<1>0. TypeOK /\ ObsOK(obs)
  BY DEF Inv, ObsShape
<1>e. ASSUME obs'.todo = <<>> PROVE CallLast'
  <2>1. DOMAIN obs'.todo = {}
    BY <1>e
  <2> QED
    BY <2>1 DEF CallLast
<1>1. CASE Crash \/ Restart
  <2>1. obs'.todo = <<>>
    BY <1>1 DEF Crash, Restart, Stopped, Observer
  <2> QED
    BY <1>e, <2>1
<1>2. CASE Observe \/ Woken
  <2>1. PICK e, u : e = obs.at /\ u = log[e].turn
    OBVIOUS
  <2>2. log' = log /\ obs.pc \in Reading /\ e \in Events
    BY <1>2, <2>1, ObserverMoves DEF ObserveUnchanged, engine
  <2>3. CASE /\ UNCHANGED ownedSubmissions /\ obs'.at = e /\ (u \in Turns => u \notin ownedSubmissions)
             /\ obs'.todo = <<Op("commit", e)>>
    <3>1. DOMAIN obs'.todo = {1} /\ obs'.todo[1].t = u
      BY <2>1, <2>3 DEF Op
    <3>2. u \notin ownedSubmissions'
      BY <1>0, <2>3 DEF TypeOK
    <3> QED
      BY <3>1, <3>2 DEF CallLast
  <2>4. CASE u \in Turns /\ Plans(e, u) /\ obs'.at = e
    <3>1. CASE log[e].kind = "call"
      <4>1. PICK j \in DOMAIN obs'.todo :
              /\ obs'.todo[j].op = "call"
              /\ \A i \in DOMAIN obs'.todo : obs'.todo[i].op = "commit" => i < j /\ obs'.todo[i].e # e
        BY <2>1, <2>2, <2>4, <3>1, CallForms
      <4> QED
        BY <2>4, <4>1 DEF CallLast
    <3>2. CASE log[e].kind # "call"
      BY <2>2, <2>4, <3>2 DEF CallLast
    <3> QED
      BY <3>1, <3>2
  <2> QED
    BY <1>2, <1>e, <2>1, <2>3, <2>4, ObserverTools
<1>3. CASE ~Crash /\ ~Restart /\ ~Observe /\ ~Woken
  <2>1. ASSUME NEW i \in DOMAIN obs.todo, obs.todo[i].op = "commit", obs.todo[i].t \in ownedSubmissions',
               log'[obs.at].kind = "call"
        PROVE  /\ obs.todo[i].e # obs.at
               /\ \E j \in DOMAIN obs.todo : i < j /\ obs.todo[j].op = "call"
    <3>1. obs.todo # <<>> /\ Working /\ obs.at \in Events
      BY <1>0, <2>1 DEF ObsOK, Working
    <3>2. log'[obs.at] = log[obs.at]
      BY <1>0, <3>1, LogKeeps
    <3>3. PICK t : t = obs.todo[i].t
      OBVIOUS
    <3>4. log[obs.at].turn = t /\ Taken(obs.at)
      BY <3>1, <3>3 DEF Ops, OpLeft, Taken, Working
    <3>5. t \in ownedSubmissions
      <4>1. ~Unseen(t)
        BY <3>1, <3>4 DEF Unseen
      <4> QED
        BY <1>3, <2>1, <3>3, <4>1, Joins
    <3> QED
      BY <2>1, <3>2, <3>3, <3>5 DEF CallLast
  <2>2. CASE obs'.at = obs.at /\ obs'.todo = obs.todo
    BY <2>1, <2>2 DEF CallLast
  <2>3. CASE /\ obs'.at = obs.at
             /\ \A i \in DOMAIN obs'.todo : /\ i \in Nat /\ i >= 1 /\ i + 1 \in DOMAIN obs.todo
                                            /\ obs'.todo[i] = obs.todo[i + 1]
             /\ \A i \in DOMAIN obs.todo : i # 1 => i - 1 \in DOMAIN obs'.todo /\ obs'.todo[i - 1] = obs.todo[i]
    <3>1. ASSUME NEW i \in DOMAIN obs'.todo, obs'.todo[i].op = "commit", obs'.todo[i].t \in ownedSubmissions',
                 log'[obs'.at].kind = "call"
          PROVE  /\ obs'.todo[i].e # obs'.at
                 /\ \E j \in DOMAIN obs'.todo : i < j /\ obs'.todo[j].op = "call"
      <4>1. PICK k : k = i + 1
        OBVIOUS
      <4>2. k \in DOMAIN obs.todo /\ obs'.todo[i] = obs.todo[k] /\ i \in Nat /\ i >= 1
        BY <2>3, <3>1, <4>1
      <4>3. /\ obs.todo[k].e # obs.at
            /\ \E j \in DOMAIN obs.todo : k < j /\ obs.todo[j].op = "call"
        BY <2>1, <2>3, <3>1, <4>2
      <4>4. PICK j \in DOMAIN obs.todo : k < j /\ obs.todo[j].op = "call"
        BY <4>3
      <4>5. j \in Nat
        <5>1. PICK q : q = obs.todo
          OBVIOUS
        <5>2. q \in Seq(OpType)
          BY <1>0, <5>1 DEF ObsOK, ObsType
        <5>3. DOMAIN q = 1..Len(q)
          BY <5>2
        <5> QED
          BY <4>4, <5>1, <5>3
      <4>6. j # 1 /\ i < j - 1
        BY <4>1, <4>2, <4>4, <4>5
      <4> QED
        BY <2>3, <4>2, <4>3, <4>4, <4>6
    <3> QED
      BY <3>1 DEF CallLast
  <2> QED
    BY <1>3, <1>e, <2>2, <2>3, TodoMoves
<1> QED
  BY <1>1, <1>2, <1>3

--------------------------------------------------------------------------------
(* A cursor passes no open call.                                           *)
LEMMA CleanCommit ==
  ASSUME Inv, Ops, Separate, ToolKept, CallLast, Commit, NEW x, x = Head(obs.todo).e,
         Undurable(Head(obs.todo)) = {}, NEW t \in ownedSubmissions
  PROVE  Clean(x, t)
<1>0. TypeOK /\ t \in Turns /\ obs.at \in Nat /\ undurableSinks \subseteq Turns
  BY CursorsTyped DEF Inv, TypeOK
<1>1. PICK op : op = Head(obs.todo)
  OBVIOUS
<1>2. /\ op = obs.todo[1] /\ 1 \in DOMAIN obs.todo /\ op.op = "commit" /\ obs.pc = "apply"
      /\ x = op.e /\ x \in Events /\ x \in Nat /\ x <= obs.at /\ op.t = log[x].turn
  BY <1>1, CommitMoves, HeadOp
<1>3. /\ op.t = log[obs.at].turn /\ obs.at \in Events
      /\ x # obs.at => log[x].kind = "text" /\ op.t \in Turns
  BY <1>2 DEF Ops, OpLeft, Inv, ObsShape, ObsOK, Working
<1>4. SUFFICES ASSUME NEW c, CallOf(c, t), c <= x
               PROVE  \E f \in Events : log[f].turn = t /\ c < f /\ f <= x /\ log[f].kind \in Closers
  BY DEF Clean, CallOf
<1>5. c \in Events /\ c \in Nat /\ log[c].turn = t /\ log[c].kind = "call" /\ log[c].kind \notin Closers
  BY <1>0, <1>4, CallIs
<1>6. c = x \/ c < x
  BY <1>2, <1>4, <1>5
<1>a. ASSUME x = obs.at, ~Open(t, c)
      PROVE  \E f \in Events : log[f].turn = t /\ c < f /\ f <= x /\ log[f].kind \in Closers
  <2>1. Taken(c)
    BY <1>2, <1>4, <1>5, <1>a DEF Taken, Working
  <2>2. PICK f \in Events : log[f].turn = t /\ c < f /\ log[f].kind \in Closers /\ Taken(f)
    BY <1>4, <1>a, <2>1 DEF Open
  <2>3. f <= x
    BY <1>2, <1>a, <2>2 DEF Taken, Events
  <2> QED
    BY <2>2, <2>3
<1>7. CASE op.t = t
  <2>1. CASE log[x].kind \in Closers
    <3>1. c # x /\ x <= x
      BY <1>2, <1>5, <2>1
    <3> QED
      BY <1>2, <1>6, <1>7, <2>1, <3>1
  <2>2. CASE log[x].kind \notin Closers
    <3>1. x = obs.at
      BY <1>3, <2>2 DEF Closers
    <3>2. log[x].kind = "start"
      <4>1. log[x].kind \in Kinds
        BY <1>0, <1>2, EventTyped
      <4>2. log[x].kind \notin {"session", "foreign"}
        BY <1>0, <1>2, <1>7 DEF Inv, Made
      <4>3. log[x].kind # "call"
        BY <1>2, <1>7, <3>1 DEF CallLast
      <4> QED
        BY <2>2, <4>1, <4>2, <4>3 DEF Closers, Terminal, Kinds, Projecting
    <3>3. t \notin undurableSinks
      BY <1>1, <1>2, <3>2 DEF Undurable
    <3>4. ~ToCall(t)
      BY <3>1, <3>2 DEF ToCall, Ops, OpLeft
    <3>5. ~Open(t, c)
      BY <1>5, <3>3, <3>4 DEF ToolKept, Retains
    <3> QED
      BY <1>a, <3>1, <3>5
  <2> QED
    BY <2>1, <2>2
<1>8. CASE op.t # t /\ op.t \in Turns
  <2>1. c < x
    BY <1>2, <1>5, <1>6, <1>8
  <2>2. PICK g \in Events : c <= g /\ g < x /\ log[g].turn = t /\ log[g].kind \in Terminal
    BY <1>0, <1>2, <1>5, <1>8, <2>1 DEF Separate
  <2>3. g \in Nat /\ c # g /\ log[g].kind \in Closers
    BY <1>5, <2>2 DEF Events, Closers
  <2>4. c < g /\ g <= x
    BY <1>2, <1>5, <2>2, <2>3
  <2> QED
    BY <2>2, <2>3, <2>4
<1>9. CASE op.t \notin Turns
  <2>1. x = obs.at
    BY <1>0, <1>3, <1>9
  <2>2. t \notin undurableSinks
    BY <1>0, <1>1, <1>9 DEF Undurable
  <2>3. ~ToCall(t)
    BY <1>0, <1>3, <1>9 DEF ToCall, Ops, OpLeft
  <2>4. ~Open(t, c)
    BY <1>5, <2>2, <2>3 DEF ToolKept, Retains
  <2> QED
    BY <1>a, <2>1, <2>4
<1> QED
  BY <1>0, <1>7, <1>8, <1>9

(* What is behind a cursor does not change, and nothing of a turn that no  *)
(* cursor passed is behind one.                                            *)
LEMMA CleanGrows ==
  ASSUME TypeOK, [Next]_vars, NEW x \in Nat, x <= Len(log), NEW t, Clean(x, t)
  PROVE  Clean(x, t)'
<1>1. ASSUME NEW c \in Events', CallOf(c, t)', c <= x
      PROVE  \E f \in Events' : log'[f].turn = t /\ c < f /\ f <= x /\ log'[f].kind \in Closers
  <2>1. c \in Events
    <3>1. ASSUME c = Len(log) + 1 PROVE FALSE
      <4>1. Len(log) \in Nat
        BY CursorsTyped
      <4> QED
        BY <1>1, <3>1, <4>1
    <3> QED
      BY <1>1, <3>1, LogKeeps
  <2>2. CallOf(c, t)
    BY <1>1, <2>1, CallSame
  <2>3. PICK f \in Events : log[f].turn = t /\ c < f /\ f <= x /\ log[f].kind \in Closers
    BY <1>1, <2>1, <2>2 DEF Clean
  <2> QED
    BY <2>3, LogKeeps
<1> QED
  BY <1>1 DEF Clean

LEMMA CleanUnpassed ==
  ASSUME TypeOK, NEW t, NotPassed(t)
  PROVE  /\ Clean(binding.cursor, t) /\ Clean(terminalCursor, t)
         /\ \A i \in DOMAIN writes : Clean(writes[i].cursor, t)
<1>1. ASSUME NEW x \in Nat, NEW c, CallOf(c, t), c <= x, Reached(c - 1) => x <= c - 1 PROVE FALSE
  <2>1. c \in Events /\ c \in Nat
    BY <1>1, CallIs
  <2>2. Reached(c - 1)
    BY <1>1, <2>1 DEF NotPassed, CallOf
  <2> QED
    BY <1>1, <2>1, <2>2
<1>2. ASSUME NEW x \in Nat, \A y : Reached(y) => x <= y PROVE Clean(x, t)
  BY <1>1, <1>2 DEF Clean
<1>3. /\ binding.cursor \in Nat /\ terminalCursor \in Nat
      /\ \A i \in DOMAIN writes : writes[i].cursor \in Nat
  BY CursorsTyped
<1>4. \A y : Reached(y) => /\ binding.cursor <= y /\ terminalCursor <= y
                           /\ \A i \in DOMAIN writes : writes[i].cursor <= y
  BY DEF Reached
<1> QED
  BY <1>2, <1>3, <1>4

LEMMA CleanFrom ==
  ASSUME NEW x, NEW t
  PROVE  /\ x = binding'.cursor => (Clean(x, t)' <=> Clean(binding.cursor, t)')
         /\ x = terminalCursor' => (Clean(x, t)' <=> Clean(terminalCursor, t)')
         /\ \A i \in DOMAIN writes' : x = writes'[i].cursor => (Clean(x, t)' <=> Clean(writes[i].cursor, t)')
BY DEF Clean

LEMMA CleanZero ==
  ASSUME TypeOK', NEW t, NEW x, x = 0
  PROVE  Clean(x, t)'
<1>1. ASSUME NEW c \in Events', c <= x PROVE FALSE
  <2>1. c \in Nat /\ c >= 1
    <3>1. Events' = 1..Len(log') /\ Len(log') \in Nat
      BY DEF Events, TypeOK
    <3> QED
      BY <1>1, <3>1
  <2> QED
    BY <1>1, <2>1
<1> QED
  BY <1>1 DEF Clean, CallOf

LEMMA CursorTypes ==
  ASSUME TypeOK
  PROVE  /\ binding.cursor \in Nat /\ binding.cursor <= Len(log) /\ terminalCursor \in Nat /\ terminalCursor <= Len(log)
         /\ \A i \in DOMAIN writes : /\ writes[i].cursor \in Nat /\ writes[i].cursor <= Len(log)
                                     /\ writes[i].owned \subseteq Turns
<1>1. binding.cursor \in 0..Len(log) /\ terminalCursor \in 0..Len(log) /\ Len(log) \in Nat
  BY CursorsTyped DEF TypeOK, BindingType
<1>2. \A i \in DOMAIN writes : writes[i].cursor \in 0..Len(log) /\ writes[i].owned \subseteq Turns
  <2>1. \A i \in DOMAIN writes : writes[i] \in WriteType
    BY DEF TypeOK
  <2> QED
    BY <2>1 DEF WriteType
<1> QED
  BY <1>1, <1>2

(* The durable cursor stays clean for the turns of the binding.            *)
LEMMA CleanBinding ==
  ASSUME Inv, Ahead, CleanCursors, [Next]_vars, NEW t \in binding'.owned
  PROVE  Clean(binding.cursor, t)'
<1>0. TypeOK /\ Attempts /\ binding \in BindingType
  BY DEF Inv, TypeOK
<1>1. CASE Restart
  <2>1. PICK h : h = RecoveredCursor(binding.owned # {} /\ \A u \in binding.owned : Over(u))
    OBVIOUS
  <2>2. binding' = [binding EXCEPT !.cursor = h]
    BY <1>1, <2>1 DEF Restart
  <2>3. t \in binding.owned
    BY <1>0, <2>2 DEF BindingType
  <2> QED
    BY <1>1, <2>3, CleanRestart
<1>2. ASSUME UNCHANGED binding PROVE Clean(binding.cursor, t)'
  <2>1. PICK x : x = binding.cursor
    OBVIOUS
  <2>2. Clean(x, t) /\ x \in Nat /\ x <= Len(log)
    BY <1>0, <1>2, <2>1, CursorTypes DEF CleanCursors
  <2>3. Clean(x, t)'
    BY <1>0, <2>2, CleanGrows
  <2> QED
    BY <1>2, <2>1, <2>3, CleanFrom
<1>3. ASSUME NEW by \in {"obs", "held", "close"}, Written(by) PROVE Clean(binding.cursor, t)'
  <2>1. 1 \in DOMAIN writes /\ binding' = [cursor |-> writes[1].cursor, owned |-> writes[1].owned]
    BY <1>0, <1>3, QueueTail DEF Written
  <2>2. PICK x : x = writes[1].cursor
    OBVIOUS
  <2>3. binding'.cursor = x /\ t \in writes[1].owned
    BY <2>1, <2>2
  <2>4. Clean(x, t) /\ x \in Nat /\ x <= Len(log)
    BY <1>0, <2>1, <2>2, <2>3, CursorTypes DEF CleanCursors
  <2>5. Clean(x, t)'
    BY <1>0, <2>4, CleanGrows
  <2> QED
    BY <2>3, <2>5, CleanFrom
<1>4. ASSUME NEW by \in {"own", "late"}, Written(by) PROVE Clean(binding.cursor, t)'
  <2>1. binding' = [binding EXCEPT !.owned = @ \cup Head(writes).owned]
    BY <1>4 DEF Written
  <2>2. binding'.cursor = binding.cursor /\ t \in binding.owned \cup Head(writes).owned
    BY <1>0, <2>1 DEF BindingType
  <2>4. ASSUME t \in Head(writes).owned, by = "own" PROVE NotPassed(t)
    <3>1. pc = "own" /\ t = request.id
      BY <1>4, <2>4, QueueHead
    <3>2. Unseen(t) /\ Before(t)
      BY <1>0, <3>1 DEF Attempts, Asked, Ahead, AskedBefore
    <3> QED
      BY <3>2 DEF Unseen, Before
  <2>5. ASSUME t \in Head(writes).owned, by = "late" PROVE NotPassed(t)
    <3>1. late = "own" /\ t = pendingSubmit.id
      BY <1>4, <2>5, QueueHead
    <3>2. pendingSubmit # NoAttempt /\ pc # "own" /\ late # "none"
      BY <1>0, <3>1 DEF Attempts, Asked
    <3>3. life \in {"up", "closing"}
      BY <1>0, <3>1 DEF Inv, CallShape, TypeOK
    <3>4. Before(t) /\ t \notin adoptedTerminalTurnIds
      BY <3>1, <3>2, <3>3 DEF Ahead, InDoubtBefore, LateBefore
    <3> QED
      BY <3>4 DEF Before
  <2>6. Clean(binding.cursor, t)
    BY <1>0, <1>4, <2>2, <2>4, <2>5, CleanUnpassed DEF CleanCursors
  <2>7. PICK x : x = binding.cursor
    OBVIOUS
  <2>8. Clean(x, t)'
    BY <1>0, <2>6, <2>7, CursorTypes, CleanGrows
  <2> QED
    BY <2>2, <2>7, <2>8, CleanFrom
<1>5. CASE Crash
  BY <1>2, <1>5 DEF Crash
<1>6. WriteDone => \E by \in {"obs", "held", "close", "own", "late"} : Written(by)
  BY DEF WriteDone
<1> QED
  BY <1>1, <1>2, <1>3, <1>4, <1>5, <1>6, QueueMove DEF QueueMoves

(* The cursor that is asked for is clean for the turns it is written with. *)
LEMMA CleanAsked ==
  ASSUME Inv, Ops, Separate, ToolKept, CallLast, CleanCursors, [Next]_vars, Persists
  PROVE  \E w \in WriteType : Persist(w) /\ \A t \in w.owned : Clean(w.cursor, t)'
<1>0. TypeOK /\ terminalCursor \in 0..Len(log) /\ ownedSubmissions \subseteq Turns
  BY DEF Inv, TypeOK
<1>1. ASSUME NEW by \in {"held", "close"}, Persist(CursorWrite(by, terminalCursor, ownedSubmissions))
      PROVE  \E w \in WriteType : Persist(w) /\ \A t \in w.owned : Clean(w.cursor, t)'
  <2>1. PICK w : w = CursorWrite(by, terminalCursor, ownedSubmissions)
    OBVIOUS
  <2>2. PICK x : x = terminalCursor
    OBVIOUS
  <2>3. w \in WriteType /\ w.cursor = x /\ w.owned = ownedSubmissions
    BY <1>0, <2>1, <2>2, WritesTyped
  <2>4. x \in Nat /\ x <= Len(log)
    BY <1>0, <2>2, CursorTypes
  <2>5. ASSUME NEW t \in ownedSubmissions PROVE Clean(x, t)'
    BY <1>0, <2>2, <2>4, CleanGrows DEF CleanCursors
  <2>6. \A t \in w.owned : Clean(w.cursor, t)'
    BY <2>3, <2>5 DEF Clean
  <2> QED
    BY <1>1, <2>1, <2>3, <2>6
<1>2. ASSUME NEW by \in {"own", "late"}, NEW u \in Turns, Persist(OwnWrite(by, u))
      PROVE  \E w \in WriteType : Persist(w) /\ \A t \in w.owned : Clean(w.cursor, t)'
  <2>1. PICK w : w = OwnWrite(by, u)
    OBVIOUS
  <2>2. w \in WriteType /\ w.cursor = 0
    BY <1>0, <2>1, WritesTyped
  <2>3. TypeOK'
    BY TypeKept
  <2>4. \A t \in w.owned : Clean(w.cursor, t)'
    BY <2>2, <2>3, CleanZero
  <2> QED
    BY <1>2, <2>1, <2>2, <2>4
<1>3. ASSUME Commit, Persist(CursorWrite("obs", Head(obs.todo).e, ownedSubmissions))
      PROVE  \E w \in WriteType : Persist(w) /\ \A t \in w.owned : Clean(w.cursor, t)'
  <2>1. PICK op : op = Head(obs.todo)
    OBVIOUS
  <2>2. PICK x : x = op.e
    OBVIOUS
  <2>3. obs.pc = "apply" /\ (Undurable(op) = {} \/ UNCHANGED writes)
    BY <1>3, <2>1, CommitMoves
  <2>4. writes' # writes
    <3>1. \A v : Append(writes, v) # writes
      BY <1>0 DEF TypeOK
    <3> QED
      BY <1>3, <3>1 DEF Persist
  <2>5. x \in Events /\ x \in Nat /\ x <= Len(log) /\ x \in 0..Len(log)
    <3>1. x \in 1..Len(log) /\ Len(log) \in Nat
      BY <1>0, <2>1, <2>2, <2>3, OpNow, CursorsTyped DEF Events
    <3> QED
      BY <3>1 DEF Events
  <2>6. PICK w : w = CursorWrite("obs", x, ownedSubmissions)
    OBVIOUS
  <2>7. w \in WriteType /\ w.cursor = x /\ w.owned = ownedSubmissions
    BY <1>0, <2>5, <2>6, WritesTyped
  <2>8. ASSUME NEW t \in ownedSubmissions PROVE Clean(x, t)'
    <3>1. Clean(x, t)
      BY <1>3, <2>1, <2>2, <2>3, <2>4, CleanCommit
    <3> QED
      BY <1>0, <2>5, <3>1, CleanGrows
  <2>9. \A t \in w.owned : Clean(w.cursor, t)'
    BY <2>7, <2>8 DEF Clean
  <2> QED
    BY <1>3, <2>1, <2>2, <2>6, <2>7, <2>9
<1> QED
  BY <1>1, <1>2, <1>3 DEF Persists

(* The cursors that are being written stay clean.                          *)
LEMMA CleanWrites ==
  ASSUME Inv, Ops, Separate, ToolKept, CallLast, CleanCursors, [Next]_vars,
         NEW i \in DOMAIN writes', NEW t \in writes'[i].owned
  PROVE  Clean(writes[i].cursor, t)'
<1>0. TypeOK
  BY DEF Inv
<1>1. CASE writes' = <<>>
  <2>1. DOMAIN writes' = {}
    BY <1>1
  <2> QED
    BY <2>1
<1>2. ASSUME NEW j \in DOMAIN writes, writes'[i] = writes[j] PROVE Clean(writes[i].cursor, t)'
  <2>1. PICK x : x = writes[j].cursor
    OBVIOUS
  <2>2. Clean(x, t) /\ x \in Nat /\ x <= Len(log)
    BY <1>0, <1>2, <2>1, CursorTypes DEF CleanCursors
  <2>3. Clean(x, t)'
    BY <1>0, <2>2, CleanGrows
  <2> QED
    BY <1>2, <2>1, <2>3, CleanFrom
<1>3. CASE UNCHANGED writes
  BY <1>2, <1>3
<1>4. ASSUME NEW by, Written(by) PROVE Clean(writes[i].cursor, t)'
  <2>1. i + 1 \in DOMAIN writes /\ writes'[i] = writes[i + 1]
    BY <1>0, <1>4, QueueTail
  <2> QED
    BY <1>2, <2>1
<1>5. CASE Persists
  <2>1. PICK w \in WriteType : Persist(w) /\ \A u \in w.owned : Clean(w.cursor, u)'
    BY <1>5, CleanAsked
  <2>2. /\ DOMAIN writes' = DOMAIN writes \cup {Len(writes) + 1}
        /\ \A j \in DOMAIN writes : writes'[j] = writes[j]
        /\ writes'[Len(writes) + 1] = w
    BY <1>0, <2>1, QueueGrown
  <2>3. CASE i \in DOMAIN writes
    BY <1>2, <2>2, <2>3
  <2>4. CASE i \notin DOMAIN writes
    <3>1. writes'[i] = w
      BY <2>2, <2>4
    <3>2. PICK x : x = w.cursor
      OBVIOUS
    <3>3. Clean(x, t)'
      BY <2>1, <3>1, <3>2 DEF Clean
    <3> QED
      BY <3>1, <3>2, <3>3, CleanFrom
  <2> QED
    BY <2>3, <2>4
<1>6. WriteDone => \E by : Written(by)
  BY DEF WriteDone
<1> QED
  BY <1>1, <1>3, <1>4, <1>5, <1>6, QueueMove DEF QueueMoves

(* The cursor that is held stays clean.                                    *)
LEMMA CleanCompletes ==
  ASSUME Inv, Separate, NEW e \in Events, e = obs.at, Completes(e, log[e].turn), NEW t \in Turns
  PROVE  Clean(e, t)
<1>0. TypeOK /\ log[e].turn \in Turns /\ log[e].kind \in Closers
  BY DEF Inv, Completes, Closers
<1>1. ASSUME NEW c, CallOf(c, t), c <= e
      PROVE  \E f \in Events : log[f].turn = t /\ c < f /\ f <= e /\ log[f].kind \in Closers
  <2>1. c \in Events /\ c \in Nat /\ log[c].turn = t /\ log[c].kind \notin Closers
    BY <1>0, <1>1, CallIs
  <2>2. e \in Nat /\ e <= e
    BY <1>0, CursorsTyped
  <2>3. c < e
    <3>1. c # e
      BY <1>0, <2>1
    <3> QED
      BY <1>1, <2>1, <2>2, <3>1
  <2>4. CASE log[e].turn = t
    BY <1>0, <2>2, <2>3, <2>4
  <2>5. CASE log[e].turn # t
    <3>1. PICK g \in Events : c <= g /\ g < e /\ log[g].turn = t /\ log[g].kind \in Terminal
      BY <1>0, <2>1, <2>3, <2>5 DEF Separate
    <3>2. g \in Nat /\ log[g].kind \in Closers /\ c # g
      BY <1>0, <2>1, <3>1, CursorsTyped DEF Closers
    <3>3. c < g /\ g <= e
      BY <2>1, <2>2, <3>1, <3>2
    <3> QED
      BY <3>1, <3>2, <3>3
  <2> QED
    BY <2>4, <2>5
<1> QED
  BY <1>1 DEF Clean

LEMMA CleanHeld ==
  ASSUME Inv, Ahead, Ops, Separate, ToolKept, CallLast, CleanCursors, [Next]_vars,
         NEW t \in ownedSubmissions'
  PROVE  Clean(terminalCursor, t)'
<1>0. TypeOK /\ TypeOK' /\ t \in Turns
  BY TypeKept DEF Inv, TypeOK
<1>1. ASSUME terminalCursor' = 0 PROVE Clean(terminalCursor, t)'
  <2>1. PICK x : x = 0
    OBVIOUS
  <2>2. Clean(x, t)'
    BY <1>0, <2>1, CleanZero
  <2> QED
    BY <1>1, <2>1, <2>2, CleanFrom
<1>2. ASSUME NEW x, x = terminalCursor', x \in Nat, x <= Len(log), Clean(x, t) PROVE Clean(terminalCursor, t)'
  <2>1. Clean(x, t)'
    BY <1>0, <1>2, CleanGrows
  <2> QED
    BY <1>2, <2>1, CleanFrom
<1>3. CASE Restart \/ Crash \/ WrittenHeld \/ WrittenClose
  BY <1>1, <1>3 DEF Restart, Crash, Forgotten, WrittenHeld, WrittenClose
<1>4. ASSUME UNCHANGED terminalCursor, ~Restart PROVE Clean(terminalCursor, t)'
  <2>1. CASE t \in ownedSubmissions
    BY <1>0, <1>2, <1>4, <2>1, CursorTypes DEF CleanCursors
  <2>2. CASE t \notin ownedSubmissions
    <3>1. NotPassed(t)
      BY <1>4, <2>2, Joins
    <3>2. Clean(terminalCursor, t)
      BY <1>0, <3>1, CleanUnpassed
    <3> QED
      BY <1>0, <1>2, <1>4, <3>2, CursorTypes
  <2> QED
    BY <2>1, <2>2
<1>5. ASSUME Commit, obs.pc = "apply", terminalCursor' = Head(obs.todo).e, terminalCursor' # terminalCursor
      PROVE  Clean(terminalCursor, t)'
  <2>1. PICK op : op = Head(obs.todo)
    OBVIOUS
  <2>2. PICK x : x = op.e
    OBVIOUS
  <2>3. Undurable(op) = {} /\ t \in ownedSubmissions
    BY <1>5, <2>1, CommitMoves
  <2>4. Clean(x, t)
    BY <1>5, <2>1, <2>2, <2>3, CleanCommit
  <2>5. x \in Nat /\ x <= Len(log)
    <3>1. x \in Events
      BY <1>5, <2>1, <2>2, OpNow
    <3> QED
      BY <1>0, <3>1, LogKeeps
  <2> QED
    BY <1>2, <1>5, <2>1, <2>2, <2>4, <2>5
<1>6. ASSUME obs.at \in Events, terminalCursor' = obs.at, Completes(obs.at, log[obs.at].turn)
      PROVE  Clean(terminalCursor, t)'
  <2>1. PICK x : x = obs.at
    OBVIOUS
  <2>2. Clean(x, t)
    BY <1>0, <1>6, <2>1, CleanCompletes
  <2>3. x \in Nat /\ x <= Len(log)
    BY <1>0, <1>6, <2>1, LogKeeps
  <2> QED
    BY <1>2, <1>6, <2>1, <2>2, <2>3
<1> QED
  BY <1>3, <1>4, <1>5, <1>6, TerminalMove DEF TerminalMoves

(* What holds at the start.                                                *)
LEMMA InitTools ==
  ASSUME Init
  PROVE  Ahead /\ Ops /\ TextLast /\ LiveOurs /\ ToolKept /\ CallLast /\ CleanCursors
<1>1. /\ log = <<>> /\ writes = <<>> /\ ownedSubmissions = {} /\ late = "none" /\ pendingSubmit = NoAttempt
      /\ pc = "idle" /\ obs.todo = <<>> /\ obs.pc = "read" /\ binding.owned = {}
      /\ sinks = [t \in Turns |-> NoSink]
  BY DEF Init, Observer, Idle, pc
<1>2. DOMAIN writes = {} /\ DOMAIN obs.todo = {}
  BY <1>1
<1>3. Ahead
  BY <1>1 DEF Ahead, AskedBefore, Asked, LateBefore, InDoubtBefore
<1>4. ToolKept /\ CallLast /\ CleanCursors
  BY <1>1, <1>2 DEF ToolKept, CallLast, CleanCursors
<1>5. Ops
  BY <1>1, <1>2 DEF Ops
<1>6. TextLast /\ LiveOurs
  BY <1>1, SinkValues DEF TextLast, LiveOurs
<1> QED
  BY <1>3, <1>4, <1>5, <1>6

(* The call of a result that is next, with nothing committed between, is   *)
(* open, so that the sink has it.                                          *)
LEMMA ToolFound ==
  ASSUME Inv, ToolKept, LiveOurs
  PROVE  OnlyCallRetained
<1>0. TypeOK /\ ObsOK(obs) /\ obs.at \in Nat
  BY CursorsTyped DEF Inv, ObsShape
<1> SUFFICES ASSUME MidTool, NEW c \in 1..(obs.at - 1),
                    log[c].turn = log[obs.at].turn, log[c].kind = "call", ~Repeated(c),
                    log[c].callId = log[obs.at].callId,
                    \A f \in c..(obs.at - 1) :
                      log[f].turn = log[c].turn => log[f].kind \notin {"text", "result"}
             PROVE  FALSE
  BY DEF OnlyCallRetained
<1>1. obs.pc \in Reading /\ obs.at \in Events /\ log[obs.at].kind = "result"
  BY <1>0 DEF MidTool, ObsOK, Reading
<1>2. life = "up" /\ ~failed /\ obs.todo = <<>>
  BY <1>0, <1>1 DEF Inv, ObsShape, ObsOK, Reading
<1>3. PICK t : t = log[obs.at].turn
  OBVIOUS
<1>4. (SinkOf(t).live \/ t \in ownedSubmissions) /\ log[obs.at].callId \notin SinkOf(t).called
  BY <1>3 DEF MidTool
<1>5. t \in Turns
  <2>1. t \in Turns \cup {Foreign}
    BY <1>0, <1>1, <1>3, EventTyped
  <2>2. t # Foreign
    BY <1>0, <1>4, SinkValues DEF SinkOf, TypeOK
  <2> QED
    BY <2>1, <2>2
<1>6. SinkOf(t) = sinks[t]
  BY <1>5 DEF SinkOf
<1>7. t \in ownedSubmissions
  <2>1. ~Closing(t)
    BY <1>2 DEF Closing
  <2> QED
    BY <1>1, <1>4, <1>5, <1>6, <2>1 DEF LiveOurs, Reading
<1>8. c \in Events /\ c \in Nat /\ c < obs.at
  BY <1>0, <1>1, CursorsTyped DEF Events
<1>9. CallOf(c, t) /\ Taken(c)
  BY <1>1, <1>3, <1>8 DEF CallOf, Taken, Reading
<1>10. ASSUME NEW f \in Events, log[f].turn = t, c < f, log[f].kind \in Closers, Taken(f) PROVE FALSE
  <2>1. f < obs.at /\ f \in Nat
    BY <1>0, <1>1, <1>10, CursorsTyped DEF Taken, Working, Reading
  <2>2. f \in c..(obs.at - 1)
    BY <1>0, <1>8, <1>10, <2>1
  <2>3. log[f].kind \in Terminal
    BY <1>3, <1>10, <2>2 DEF Closers
  <2>4. obs.at <= f
    BY <1>1, <1>3, <1>5, <1>10, <2>3 DEF Inv, Reach
  <2> QED
    BY <1>0, <2>1, <2>4
<1>11. Open(t, c)
  BY <1>9, <1>10 DEF Open
<1> QED
  BY <1>2, <1>3, <1>4, <1>6, <1>7, <1>8, <1>11 DEF ToolKept, Retains

\* When the observer comes to the result of a tool, in a turn of ours, the sink
\* of e4-agent-stream.ts has the call it belongs to, so that line 1094 does not
\* throw, unless a text or a result of the turn came between: also after a
\* restart, whose cursor is never between the two, and after a submission whose
\* answer came late, whose turn no cursor had passed.  It is so whatever the
\* engine emits, several open calls and repeated ones included.
THEOREM ToolCallKept == Spec => []OnlyCallRetained
<1> DEFINE Tools == Ahead /\ Ops /\ TextLast /\ LiveOurs /\ ToolKept /\ CallLast /\ CleanCursors
<1>1. Init => Plain /\ Tools
  BY OrderAtFirst, InitTools DEF Order
<1>2. Inv /\ Plain /\ [Next]_vars => Plain'
  BY PlainKept
<1>3. Inv /\ Plain /\ Tools /\ [Next]_vars => Tools'
  <2> SUFFICES ASSUME Inv, Plain, Tools, [Next]_vars PROVE Tools'
    OBVIOUS
  <2>1. Separate /\ Once /\ Ids
    BY DEF Plain, InTurn
  <2>2. Ahead'
    BY AskedBeforeKept, LateBeforeKept, InDoubtBeforeKept DEF Ahead
  <2>3. Ops' /\ TextLast' /\ LiveOurs'
    BY <2>1, OpsKept, TextLastKept, LiveOursKept
  <2>4. ToolKept' /\ CallLast'
    BY <2>1, ToolKeptKept, CallLastKept
  <2>5. CleanCursors'
    BY <2>1, CleanBinding, CleanWrites, CleanHeld DEF CleanCursors
  <2> QED
    BY <2>2, <2>3, <2>4, <2>5
<1>4. Inv /\ Tools => OnlyCallRetained
  BY ToolFound
<1> HIDE DEF Tools
<1> QED
  BY <1>1, <1>2, <1>3, <1>4, InvCorrect, PTL DEF Spec

--------------------------------------------------------------------------------
(* A message of ours that a cursor passes is in the transcript.            *)
(* What is covered by a cursor.                                            *)

\* The event e is accounted for as far as a cursor at x goes: a text may be part
\* of the message of a later event, up to x.
ShownBy(x, e) ==
  e \in Accounted \/ \E f \in Events : f \in Accounted /\ f <= x /\ PartOf(e, f)
Covered(x, t) ==
  \A e \in Events :
    e <= x /\ log[e].turn = t /\ log[e].kind \in Projecting /\ ~Repeated(e) => ShownBy(x, e)
CoveredCursors ==
  /\ \A t \in binding.owned \cup ownedSubmissions : Covered(binding.cursor, t)
  /\ \A i \in DOMAIN writes : \A t \in writes[i].owned \cup ownedSubmissions : Covered(writes[i].cursor, t)
  /\ \A t \in ownedSubmissions : Covered(terminalCursor, t)

\* An event that the observer took is stored, or is about to be; or it is part of
\* a message that is, or that the sink of its turn has.
ToStore(e) == \E i \in DOMAIN obs.todo : Storing(obs.todo[i]) /\ obs.todo[i].e = e
Done(e) == e \in Accounted \/ ToStore(e)
Awaits(t, e) ==
  /\ t \in undurableSinks /\ (Working => log[obs.at].turn # t)
  /\ life = "up" /\ ~failed => sinks[t].text = e
Handled(t, e) ==
  Done(e) \/ \E f \in Events : Taken(f) /\ PartOf(e, f) /\ (Done(f) \/ Awaits(t, f))
TakenHandled ==
  \A t \in ownedSubmissions : \A e \in Events :
    log[e].turn = t /\ log[e].kind \in Projecting /\ ~Repeated(e) /\ Taken(e) => Handled(t, e)

\* What is stored after a commit is ahead of it, and a text of before is stored
\* before it is committed.
StoresLast ==
  \A i \in DOMAIN obs.todo : obs.todo[i].op = "commit" =>
    /\ obs.todo[i].e # obs.at => Done(obs.todo[i].e)
    /\ \A j \in DOMAIN obs.todo : i < j /\ Storing(obs.todo[j]) => obs.todo[i].e < obs.todo[j].e
ReceiptsStored == receipts \subseteq transcript

(* A text is part of its own message, and a text that is still open when   *)
(* the next text of its turn, or its end, comes is part of the message of  *)
(* that.                                                                   *)
LEMMA PartOfSelf ==
  ASSUME NEW e \in Events, log[e].kind = "text"
  PROVE  PartOf(e, e)
<1>1. e <= e /\ e..(e - 1) = {}
  BY DEF Events
<1> QED
  BY <1>1 DEF PartOf

LEMMA PartOfOn ==
  ASSUME NEW g \in Events, NEW x \in Events, NEW e \in Events, PartOf(g, x), log[x].kind = "text", x < e,
         log[e].turn = log[x].turn, log[e].kind \in Terminal \cup {"text"},
         \A f \in Events : log[f].turn = log[x].turn /\ x < f => e <= f \/ Repeated(f)
  PROVE  PartOf(g, e)
<1>1. /\ log[g].kind = "text" /\ log[x].turn = log[g].turn /\ g <= x
      /\ \A h \in g..(x - 1) : log[h].turn = log[g].turn => log[h].kind = "text" \/ Repeated(h)
  BY DEF PartOf
<1>2. g <= e
  BY <1>1 DEF Events
<1>3. ASSUME NEW h \in g..(e - 1), log[h].turn = log[g].turn PROVE log[h].kind = "text" \/ Repeated(h)
  <2>1. h \in Events /\ h < e /\ (h \in g..(x - 1) \/ h = x \/ x < h) /\ ~(e <= h)
    BY DEF Events
  <2> QED
    BY <1>1, <1>3, <2>1
<1> QED
  BY <1>1, <1>2, <1>3 DEF PartOf

LEMMA PartOfKept ==
  ASSUME TypeOK, [Next]_vars, NEW e \in Events, NEW f \in Events
  PROVE  PartOf(e, f)' <=> PartOf(e, f)
<1>1. \A g \in e..f : g \in Events
  BY DEF Events
<1>2. \A g \in Events : log'[g] = log[g] /\ (Repeated(g)' <=> Repeated(g))
  BY LogKeeps, RepeatedKept
<1>3. \A g \in e..(f - 1) : g \in Events
  BY <1>1 DEF Events
<1>4. /\ \A g \in e..(f - 1) : log'[g] = log[g] /\ (Repeated(g)' <=> Repeated(g))
      /\ log'[e] = log[e] /\ log'[f] = log[f]
  BY <1>2, <1>3
<1> QED
  BY <1>4 DEF PartOf, Terminal

--------------------------------------------------------------------------------
(* What is accounted for stays so.                                         *)

LEMMA HistoryGrows ==
  ASSUME [Next]_vars
  PROVE  /\ transcript \subseteq transcript' /\ skipped \subseteq skipped'
         /\ discarded \subseteq discarded' /\ dropped \subseteq dropped'
<1>1. transcript \subseteq transcript'
  BY StoreMove DEF StoreMoves, Store
<1>2. CASE UNCHANGED vars \/ Admit \/ EmitForeign \/ \E t \in Turns, k \in Kinds : Emit(t, k)
  BY <1>2 DEF vars, Admit, EmitForeign, Emit, history
<1>3. CASE (\E p \in Prompts : Stream(p)) \/ StreamStep \/ Abort \/ Consume \/ LateStep
  <2>1. CASE \E p \in Prompts : Stream(p)
    BY <2>1 DEF Stream, history
  <2>2. CASE Submit \/ Receipt \/ \E b \in BOOLEAN : Rejected(b)
    BY <2>2 DEF Submit, Receipt, Rejected, history
  <2>3. CASE Abort
    BY <2>3 DEF Abort, history
  <2>4. CASE Consume
    BY <1>1, <2>4 DEF Consume
  <2>5. CASE LateReceipt \/ \E b \in BOOLEAN : LateRejected(b)
    BY <2>5 DEF LateReceipt, LateRejected, history
  <2> QED
    BY <1>3, <2>1, <2>2, <2>3, <2>4, <2>5 DEF StreamStep, LateStep
<1>4. CASE Observe \/ Woken
  <2>1. discarded \subseteq discarded'
    <3>1. ASSUME NEW e, NEW t, NativeTerminal(e, t) PROVE discarded \subseteq discarded'
      BY <3>1 DEF NativeTerminal
    <3>2. ASSUME NEW e, NEW t, NEW s, Project(e, t, s) PROVE discarded \subseteq discarded'
      BY <3>1, <3>2 DEF Project
    <3>3. ASSUME NEW e, NEW t, Apply(e, t) PROVE discarded \subseteq discarded'
      BY <3>2, <3>3 DEF Apply
    <3>4. ASSUME NEW e, NEW t, Correlate(e, t) PROVE discarded \subseteq discarded'
      BY <3>3, <3>4 DEF Correlate, Waiting
    <3> QED
      BY <1>4, <3>3, <3>4 DEF Observe, Woken, Waiting
  <2> QED
    BY <1>1, <1>4, <2>1 DEF Observe, Woken, ObserveUnchanged
<1>5. CASE StoreMessage \/ Commit \/ CloseSink
  BY <1>1, <1>5 DEF StoreMessage, Commit, CloseSink, ApplyUnchanged
<1>6. CASE WriteStep \/ WrittenClose
  BY <1>6 DEF WriteStep, WrittenObserved, WrittenHeld, WrittenOwn, WrittenLate, WrittenClose, history
<1>7. CASE ObserverLost \/ BeginClose \/ CloseInterrupt \/ CloseCommit
  BY <1>7 DEF ObserverLost, BeginClose, CloseInterrupt, CloseCommit, history
<1>8. CASE Crash \/ Restart
  BY <1>1, <1>8 DEF Crash, Restart
<1> QED
  BY <1>1, <1>2, <1>3, <1>4, <1>5, <1>6, <1>7, <1>8 DEF Next, ObserveStep

(* The message a stream ended with stays until it is stored.               *)
LEMMA MessageKept ==
  ASSUME Inv, [Next]_vars, ~Crash, message # 0
  PROVE  message' = message \/ message \in transcript'
<1>0. pc = "ended" /\ TypeOK
  BY DEF Inv, CallShape
<1>1. CASE UNCHANGED vars
  BY <1>1 DEF vars, message
<1>2. CASE Consume
  BY <1>2 DEF Consume, Store
<1>3. CASE (\E p \in Prompts : Stream(p)) \/ StreamStep \/ CloseInterrupt \/ Restart
  BY <1>0, <1>3 DEF Stream, StreamStep, Submit, Receipt, Rejected, CloseInterrupt, Restart
<1>4. CASE Abort
  BY <1>0, <1>4 DEF Abort
<1>5. CASE WrittenHeld \/ WrittenOwn
  BY <1>0, <1>5, QueueHead DEF WrittenHeld, WrittenOwn
<1>6. CASE Next /\ ~StreamStep /\ ~Abort /\ ~Consume /\ ~WrittenOwn /\ ~WrittenHeld /\ ~CloseInterrupt
           /\ (~\E p \in Prompts : Stream(p)) /\ ~Restart
  <2>1. \/ UNCHANGED request
        \/ pc = "streaming"
        \/ (Observe \/ Woken) /\ ~sinks[log[obs.at].turn].left /\ Completes(obs.at, log[obs.at].turn)
    BY <1>6, OtherMoves
  <2>2. ASSUME ~sinks[log[obs.at].turn].left, Completes(obs.at, log[obs.at].turn) PROVE pc = "streaming"
    BY <2>2 DEF Completes, Inv, CallShape
  <2> QED
    BY <1>0, <2>1, <2>2 DEF message
<1> QED
  BY <1>1, <1>2, <1>3, <1>4, <1>5, <1>6

LEMMA AccountedKept ==
  ASSUME Inv, [Next]_vars, ~Crash, NEW e \in Events, e \in Accounted
  PROVE  e \in Accounted'
<1>1. e # 0
  BY DEF Events
<1>2. CASE e = message
  BY <1>1, <1>2, MessageKept DEF Accounted
<1>3. CASE e # message
  BY <1>3, HistoryGrows DEF Accounted
<1> QED
  BY <1>2, <1>3

LEMMA ShownKept ==
  ASSUME Inv, [Next]_vars, ~Crash, NEW x, NEW e \in Events, ShownBy(x, e)
  PROVE  ShownBy(x, e)'
<1>1. TypeOK
  BY DEF Inv
<1>2. CASE e \in Accounted
  BY <1>2, AccountedKept DEF ShownBy
<1>3. CASE e \notin Accounted
  <2>1. PICK f \in Events : f \in Accounted /\ f <= x /\ PartOf(e, f)
    BY <1>3 DEF ShownBy
  <2>2. f \in Events' /\ PartOf(e, f)'
    BY <1>1, <2>1, LogKeeps, PartOfKept
  <2>3. f \in Accounted'
    BY <2>1, AccountedKept
  <2> QED
    BY <2>1, <2>2, <2>3 DEF ShownBy
<1> QED
  BY <1>2, <1>3

(* When the process dies, a message in a stream is lost.                   *)
LEMMA ShownCrash ==
  ASSUME Inv, [Next]_vars, Crash, NEW x \in Nat, x <= binding.cursor, NEW e \in Events, e <= x, ShownBy(x, e)
  PROVE  ShownBy(x, e)'
<1>1. log' = log /\ Events' = Events /\ binding.cursor \in Nat /\ TypeOK
  BY CursorsTyped DEF Crash, engine, Events, Inv
<1>2. ASSUME NEW f \in Events, f \in Accounted, f <= x PROVE f \in Accounted'
  <2>1. f # 0 /\ f <= binding.cursor
    BY <1>1, <1>2 DEF Events
  <2>2. CASE f = message
    BY <2>1, <2>2 DEF Accounted, Crash
  <2>3. CASE f # message
    BY <1>2, <2>3, HistoryGrows DEF Accounted
  <2> QED
    BY <2>2, <2>3
<1>3. \A f \in Events : PartOf(e, f)' <=> PartOf(e, f)
  BY <1>1, PartOfKept
<1> QED
  BY <1>1, <1>2, <1>3 DEF ShownBy

--------------------------------------------------------------------------------
(* What is covered stays so.                                               *)

LEMMA CoveredGrows ==
  ASSUME Inv, [Next]_vars, ~Crash, NEW x \in Nat, x <= Len(log), NEW t, Covered(x, t)
  PROVE  Covered(x, t)'
<1>0. TypeOK
  BY DEF Inv
<1>1. ASSUME NEW e \in Events', log'[e].turn = t, log'[e].kind \in Projecting, e <= x, ~Repeated(e)'
      PROVE  ShownBy(x, e)'
  <2>1. e \in Events
    <3>1. ASSUME e = Len(log) + 1 PROVE FALSE
      <4>1. Len(log) \in Nat
        BY <1>0, CursorsTyped
      <4> QED
        BY <1>1, <3>1, <4>1
    <3> QED
      BY <1>0, <1>1, <3>1, LogKeeps
  <2>2. log'[e] = log[e]
    BY <1>0, <2>1, LogKeeps
  <2>3. ShownBy(x, e)
    BY <1>0, <1>1, <2>1, <2>2, RepeatedKept DEF Covered
  <2> QED
    BY <2>1, <2>3, ShownKept
<1> QED
  BY <1>1 DEF Covered, Projecting

LEMMA CoveredUnpassed ==
  ASSUME TypeOK, NEW t, NotPassed(t)
  PROVE  /\ Covered(binding.cursor, t) /\ Covered(terminalCursor, t)
         /\ \A i \in DOMAIN writes : Covered(writes[i].cursor, t)
<1>1. ASSUME NEW x \in Nat, NEW e \in Events, log[e].turn = t, e <= x, Reached(e - 1) => x <= e - 1 PROVE FALSE
  <2>1. e \in Nat
    BY <1>1, CursorsTyped
  <2>2. Reached(e - 1)
    BY <1>1 DEF NotPassed
  <2> QED
    BY <1>1, <2>1, <2>2
<1>2. ASSUME NEW x \in Nat, \A y : Reached(y) => x <= y PROVE Covered(x, t)
  BY <1>1, <1>2 DEF Covered
<1>3. /\ binding.cursor \in Nat /\ terminalCursor \in Nat
      /\ \A i \in DOMAIN writes : writes[i].cursor \in Nat
  BY CursorsTyped
<1>4. \A y : Reached(y) => /\ binding.cursor <= y /\ terminalCursor <= y
                           /\ \A i \in DOMAIN writes : writes[i].cursor <= y
  BY DEF Reached
<1> QED
  BY <1>2, <1>3, <1>4

LEMMA CoveredFrom ==
  ASSUME NEW x, NEW t
  PROVE  /\ x = binding'.cursor => (Covered(x, t)' <=> Covered(binding.cursor, t)')
         /\ x = terminalCursor' => (Covered(x, t)' <=> Covered(terminalCursor, t)')
         /\ \A i \in DOMAIN writes' : x = writes'[i].cursor => (Covered(x, t)' <=> Covered(writes[i].cursor, t)')
BY DEF Covered, ShownBy

LEMMA CoveredZero ==
  ASSUME TypeOK', NEW t, NEW x, x = 0
  PROVE  Covered(x, t)'
<1>1. ASSUME NEW e \in Events', e <= x PROVE FALSE
  <2>1. e \in Nat /\ e >= 1
    <3>1. Events' = 1..Len(log') /\ Len(log') \in Nat
      BY DEF Events, TypeOK
    <3> QED
      BY <1>1, <3>1
  <2> QED
    BY <1>1, <2>1
<1> QED
  BY <1>1 DEF Covered

(* A turn that becomes one of ours was not passed by any cursor.           *)
LEMMA CoveredJoins ==
  ASSUME Inv, Ahead, [Next]_vars, ~Restart, NEW t \in ownedSubmissions', t \notin ownedSubmissions
  PROVE  /\ Covered(binding.cursor, t) /\ Covered(terminalCursor, t)
         /\ \A i \in DOMAIN writes : Covered(writes[i].cursor, t)
<1>1. TypeOK /\ NotPassed(t)
  BY Joins DEF Inv
<1> QED
  BY <1>1, CoveredUnpassed

(* What a restart passes is skipped; what is before was accounted for.     *)
LEMMA CoveredRestart ==
  ASSUME Inv, CoveredCursors, [Next]_vars, Restart, NEW t \in binding.owned
  PROVE  Covered(binding.cursor, t)' /\ binding'.owned = binding.owned /\ ownedSubmissions' = binding.owned
<1>0. TypeOK /\ binding \in BindingType /\ binding.cursor \in Nat /\ Len(log) \in Nat /\ binding.cursor <= Len(log)
  BY CursorTypes, CursorsTyped DEF Inv, TypeOK
<1>1. PICK h : h = RecoveredCursor(binding.owned # {} /\ \A u \in binding.owned : Over(u))
  OBVIOUS
<1>2. /\ binding' = [binding EXCEPT !.cursor = h] /\ skipped' = skipped \cup (binding.cursor + 1)..h
      /\ ownedSubmissions' = binding.owned /\ log' = log /\ ~Crash
  <2>1. life = "down" /\ life' = "up"
    BY DEF Restart
  <2>2. ~Crash
    BY <2>1 DEF Crash
  <2> QED
    BY <1>1, <2>2 DEF Restart, engine
<1>3. h \in Nat /\ binding.cursor <= h /\ binding'.cursor = h /\ binding'.owned = binding.owned
  BY <1>0, <1>1, <1>2 DEF RecoveredCursor, BindingType
<1>4. ASSUME NEW e \in Events, log[e].turn = t, log[e].kind \in Projecting, ~Repeated(e), e <= h PROVE ShownBy(h, e)'
  <2>1. e \in Nat /\ e # 0
    BY DEF Events
  <2>2. CASE e <= binding.cursor
    <3>1. ShownBy(binding.cursor, e)
      BY <1>4, <2>2 DEF CoveredCursors, Covered
    <3>2. PICK x : x = binding.cursor
      OBVIOUS
    <3>3. ShownBy(x, e)'
      BY <1>2, <3>1, <3>2, ShownKept
    <3>4. \A f \in Events : f <= x => f <= h
      BY <1>0, <1>3, <3>2 DEF Events
    <3>5. Events' = Events
      BY <1>2 DEF Events
    <3> QED
      BY <3>3, <3>4, <3>5 DEF ShownBy
  <2>3. CASE ~(e <= binding.cursor)
    <3>1. e \in (binding.cursor + 1)..h
      BY <1>0, <1>3, <1>4, <2>1, <2>3
    <3> QED
      BY <1>2, <3>1 DEF ShownBy, Accounted
  <2> QED
    BY <2>2, <2>3
<1>5. Covered(h, t)'
  <2>1. \A e \in Events : Repeated(e)' <=> Repeated(e)
    BY <1>0, RepeatedKept
  <2>2. Events' = Events
    BY <1>2 DEF Events
  <2> QED
    BY <1>2, <1>4, <2>1, <2>2 DEF Covered, Projecting
<1> QED
  BY <1>2, <1>3, <1>5, CoveredFrom

(* What is committed is covered: what the observer took is stored, or is   *)
(* about to be, or makes its turn undurable.                               *)
LEMMA CoveredCommit ==
  ASSUME Inv, Todo(obs), Separate, TakenHandled, StoresLast, Commit, NEW x, x = Head(obs.todo).e,
         Undurable(Head(obs.todo)) = {}, NEW t \in ownedSubmissions
  PROVE  Covered(x, t)
<1>0. TypeOK /\ t \in Turns /\ obs.at \in Nat /\ undurableSinks \subseteq Turns /\ Reach
  BY CursorsTyped DEF Inv, TypeOK
<1>1. PICK op : op = Head(obs.todo)
  OBVIOUS
<1>2. /\ op = obs.todo[1] /\ 1 \in DOMAIN obs.todo /\ op.op = "commit" /\ obs.pc = "apply"
      /\ x = op.e /\ x \in Events /\ x \in Nat /\ x <= obs.at /\ op.t = log[x].turn
  BY <1>1, CommitMoves, HeadOp
<1>3. /\ op.t = log[obs.at].turn
      /\ x # obs.at => Done(x) /\ log[x].kind = "text" /\ op.t \in undurableSinks
  BY <1>2 DEF Todo, StoresLast
<1>4. Working /\ obs.at \in Events
  BY <1>2 DEF Working, Inv, ObsShape, ObsOK
<1>5. SUFFICES ASSUME NEW e \in Events, e <= x, log[e].turn = t, log[e].kind \in Projecting, ~Repeated(e)
               PROVE  ShownBy(x, e)
  BY DEF Covered
<1>6. \A f \in Events : f \in Nat
  BY DEF Events
<1>7. Taken(e)
  BY <1>0, <1>2, <1>4, <1>5, <1>6 DEF Taken
<1>8. ASSUME NEW f \in Events, Done(f), f <= x PROVE f \in Accounted
  <2>1. ASSUME NEW j \in DOMAIN obs.todo, Storing(obs.todo[j]), obs.todo[j].e = f PROVE FALSE
    <3>1. j # 1
      BY <1>2, <2>1 DEF Storing
    <3>2. j > 1
      <4>1. DOMAIN obs.todo = 1..Len(obs.todo)
        BY DEF Inv, ObsShape, ObsOK, ObsType
      <4>2. Len(obs.todo) \in Nat
        BY DEF Inv, ObsShape, ObsOK, ObsType
      <4> QED
        BY <2>1, <3>1, <4>1, <4>2
    <3>3. x < f
      BY <1>2, <2>1, <3>2 DEF StoresLast
    <3>4. x \in Nat /\ f \in Nat /\ f <= x
      BY <1>2, <1>6, <1>8
    <3> QED
      BY <3>3, <3>4, SMTT(60)
  <2> QED
    BY <1>8, <2>1 DEF Done, ToStore
<1>9. CASE Done(e)
  BY <1>5, <1>8, <1>9 DEF ShownBy
<1>10. ASSUME NEW f, Awaits(t, f) PROVE FALSE
  <2>1. t \in undurableSinks /\ log[obs.at].turn # t
    BY <1>4, <1>10 DEF Awaits
  <2>2. t \in Undurable(op)
    BY <1>3, <2>1 DEF Undurable
  <2> QED
    BY <1>1, <2>2
<1>11. ASSUME NEW f \in Events, Taken(f), Done(f), PartOf(e, f) PROVE ShownBy(x, e)
  <2>1. f <= obs.at /\ f \in Nat /\ e \in Nat /\ log[f].turn = t /\ log[e].kind = "text"
    BY <1>0, <1>5, <1>6, <1>11 DEF Taken, PartOf
  <2>2. CASE f <= x
    BY <1>8, <1>11, <2>2 DEF ShownBy
  <2>3. CASE x < f /\ op.t = t
    <3>1. Done(x) /\ log[x].kind = "text" /\ log[x].turn = log[e].turn
      BY <1>2, <1>3, <1>5, <2>1, <2>3
    <3>2. \A g \in e..(x - 1) : g \in e..(f - 1)
      BY <1>2, <2>1, <2>3
    <3>3. PartOf(e, x)
      BY <1>5, <1>11, <2>1, <3>1, <3>2 DEF PartOf
    <3>4. x \in Accounted /\ x <= x
      BY <1>2, <1>8, <3>1
    <3> QED
      BY <1>2, <3>3, <3>4 DEF ShownBy
  <2>4. CASE x < f /\ op.t # t
    <3>1. op.t \in Turns
      <4>1. x # obs.at
        BY <1>0, <1>2, <2>1, <2>4
      <4> QED
        BY <1>0, <1>3, <4>1
    <3>2. e < x
      <4>1. e # x
        BY <1>2, <1>5, <2>4
      <4> QED
        BY <1>2, <1>5, <2>1, <4>1
    <3>3. PICK g \in Events : e <= g /\ g < x /\ log[g].turn = t /\ log[g].kind \in Terminal
      BY <1>0, <1>2, <1>5, <2>4, <3>1, <3>2 DEF Separate
    <3>4. f <= g /\ g \in Nat
      BY <1>0, <1>6, <2>1, <3>3 DEF Reach
    <3> QED
      BY <1>2, <2>1, <2>4, <3>3, <3>4
  <2> QED
    BY <1>2, <2>1, <2>2, <2>3, <2>4
<1> QED
  BY <1>5, <1>7, <1>9, <1>10, <1>11 DEF TakenHandled, Handled

(* The end of a turn that has a stream is in the stream.                   *)
LEMMA CompletesAccounted ==
  ASSUME Inv, NEW e \in Events, NEW t, Completes(e, t)
  PROVE  e \in Accounted'
<1>1. NativeTerminal(e, t)
  BY DEF Completes
<1>2. CASE sinks[t].left
  BY <1>1, <1>2 DEF NativeTerminal, Accounted
<1>3. CASE ~sinks[t].left
  <2>1. request' = Ended(e)
    BY <1>1, <1>3 DEF NativeTerminal
  <2>2. message' = e
    BY <2>1, RequestForms DEF message, Is, Inv
  <2> QED
    BY <2>2 DEF Accounted
<1> QED
  BY <1>2, <1>3

LEMMA CoveredCompletes ==
  ASSUME Inv, Once, OpenText, InTurn, TakenHandled, [Next]_vars, Observe \/ Woken, NEW e \in Events, e = obs.at,
         Completes(e, log[e].turn), NEW t \in ownedSubmissions
  PROVE  Covered(e, t)'
<1>0. /\ TypeOK /\ obs.pc \in Reading /\ log' = log /\ t \in Turns /\ log[e].turn \in Turns /\ log[e].kind \in Terminal
      /\ life = "up" /\ ~failed /\ e \in Nat /\ ~Crash
  <2>1. log' = log
    BY ObserverMoves DEF ObserveUnchanged, engine
  <2>2. life = "up" /\ ~failed /\ life' = life
    BY ObserverMoves DEF ObserveUnchanged, runtime
  <2> QED
    BY <2>1, <2>2, ObserverMoves, CursorsTyped DEF Inv, Completes, TypeOK, Crash
<1>1. Events' = Events /\ obs.todo = <<>> /\ ~Working /\ e \in Accounted' /\ e <= e
  BY <1>0, ReadingNothing, CompletesAccounted DEF Events
<1>s. \A g \in Events : (Repeated(g)' <=> Repeated(g)) /\ \A f \in Events : PartOf(g, f)' <=> PartOf(g, f)
  BY <1>0, RepeatedKept, PartOfKept
<1>2. SUFFICES ASSUME NEW g \in Events, g <= e, log[g].turn = t, log[g].kind \in Projecting, ~Repeated(g)
               PROVE  ShownBy(e, g)'
  BY <1>0, <1>1, <1>s DEF Covered, Projecting
<1>3. CASE g = e
  BY <1>1, <1>3 DEF ShownBy
<1>4. CASE g # e
  <2>1. g < e /\ g \in Nat
    BY <1>0, <1>2, <1>4, CursorsTyped
  <2>2. Taken(g)
    BY <1>0, <2>1 DEF Taken, Reading
  <2>3. Handled(t, g)
    BY <1>2, <2>2 DEF TakenHandled
  <2>4. \A f : Done(f) => f \in Accounted
    BY <1>1 DEF Done, ToStore
  <2>5. CASE g \in Accounted
    BY <2>5, AccountedKept, <1>0 DEF ShownBy
  <2>6. ASSUME NEW f \in Events, PartOf(g, f), Awaits(t, f) PROVE ShownBy(e, g)'
    <3>1. sinks[t].text = f /\ f # 0
      BY <1>0, <2>6 DEF Awaits, Events
    <3>2. log[e].turn = t
      BY <1>0, <3>1, OpenAlone
    <3>3. log[f].kind = "text" /\ log[f].turn = t
      BY <1>0, <3>1, TextIs
    <3>4. f < e
      BY <1>0, <3>1 DEF Inv, ObsShape
    <3>5. \A h \in Events : log[h].turn = t /\ f < h => e <= h \/ Repeated(h)
      BY <1>0, <3>1 DEF OpenText, OpenAt, Again, Reading
    <3>6. PartOf(g, e)
      BY <1>0, <2>6, <3>2, <3>3, <3>4, <3>5, PartOfOn
    <3> QED
      BY <1>1, <1>s, <3>6 DEF ShownBy
  <2>7. ASSUME NEW f \in Events, Taken(f), Done(f), PartOf(g, f) PROVE ShownBy(e, g)'
    <3>1. f \in Accounted' /\ f <= e
      BY <1>0, <1>1, <2>4, <2>7, AccountedKept, CursorsTyped DEF Taken
    <3> QED
      BY <1>1, <1>s, <2>7, <3>1 DEF ShownBy
  <2> QED
    BY <2>3, <2>4, <2>5, <2>6, <2>7 DEF Handled
<1> QED
  BY <1>3, <1>4

--------------------------------------------------------------------------------
(* Every cursor stays covered.                                             *)

(* The durable one, for the turns of the binding and those that are ours.  *)
LEMMA CoveredBinding ==
  ASSUME Inv, Ahead, CoveredCursors, [Next]_vars, NEW t \in binding'.owned \cup ownedSubmissions'
  PROVE  Covered(binding.cursor, t)'
<1>0. TypeOK /\ Attempts /\ binding \in BindingType
  BY DEF Inv, TypeOK
<1>1. CASE Restart
  BY <1>1, CoveredRestart DEF Restart
<1>2. CASE Crash
  <2>1. log' = log /\ Events' = Events /\ binding' = binding /\ ownedSubmissions' = {}
    BY <1>2 DEF Crash, engine, Events
  <2>2. PICK x : x = binding.cursor
    OBVIOUS
  <2>3. x \in Nat /\ x <= binding.cursor
    BY <1>0, <2>2, CursorsTyped
  <2>4. Covered(x, t)
    BY <2>1, <2>2 DEF CoveredCursors
  <2>5. \A e \in Events : Repeated(e)' <=> Repeated(e)
    BY <1>0, RepeatedKept
  <2>6. Covered(x, t)'
    BY <1>2, <2>1, <2>3, <2>4, <2>5, ShownCrash DEF Covered, Projecting
  <2> QED
    BY <2>1, <2>2, <2>6, CoveredFrom
<1>3. ASSUME NEW x, x = binding'.cursor, x \in Nat, x <= Len(log), ~Crash, Covered(x, t)
      PROVE  Covered(binding.cursor, t)'
  <2>1. Covered(x, t)'
    BY <1>3, CoveredGrows
  <2> QED
    BY <1>3, <2>1, CoveredFrom
<1>4. ASSUME ~Restart, t \in ownedSubmissions', t \notin ownedSubmissions
      PROVE  Covered(binding.cursor, t) /\ \A i \in DOMAIN writes : Covered(writes[i].cursor, t)
  BY <1>4, CoveredJoins
<1>5. ASSUME UNCHANGED binding, ~Crash, ~Restart PROVE Covered(binding.cursor, t)'
  <2>1. Covered(binding.cursor, t)
    BY <1>4, <1>5 DEF CoveredCursors
  <2> QED
    BY <1>0, <1>3, <1>5, <2>1, CursorTypes
<1>6. ASSUME NEW by \in {"obs", "held", "close"}, Written(by), ~Crash, ~Restart PROVE Covered(binding.cursor, t)'
  <2>1. 1 \in DOMAIN writes /\ binding' = [cursor |-> writes[1].cursor, owned |-> writes[1].owned]
    BY <1>0, <1>6, QueueTail DEF Written
  <2>2. PICK x : x = writes[1].cursor
    OBVIOUS
  <2>3. binding'.cursor = x /\ binding'.owned = writes[1].owned
    BY <2>1, <2>2
  <2>4. x \in Nat /\ x <= Len(log)
    BY <1>0, <2>1, <2>2, CursorTypes
  <2>5. Covered(x, t)
    BY <1>4, <1>6, <2>1, <2>2, <2>3 DEF CoveredCursors
  <2> QED
    BY <1>3, <1>6, <2>3, <2>4, <2>5
<1>7. ASSUME NEW by \in {"own", "late"}, Written(by), ~Crash, ~Restart PROVE Covered(binding.cursor, t)'
  <2>1. binding' = [binding EXCEPT !.owned = @ \cup Head(writes).owned]
    BY <1>7 DEF Written
  <2>2. binding'.cursor = binding.cursor /\ binding'.owned = binding.owned \cup Head(writes).owned
    BY <1>0, <2>1 DEF BindingType
  <2>3. ASSUME t \in Head(writes).owned, by = "own" PROVE NotPassed(t)
    <3>1. pc = "own" /\ t = request.id
      BY <1>7, <2>3, QueueHead
    <3>2. Unseen(t) /\ Before(t)
      BY <1>0, <3>1 DEF Attempts, Asked, Ahead, AskedBefore
    <3> QED
      BY <3>2 DEF Unseen, Before
  <2>4. ASSUME t \in Head(writes).owned, by = "late" PROVE NotPassed(t)
    <3>1. late = "own" /\ t = pendingSubmit.id
      BY <1>7, <2>4, QueueHead
    <3>2. pendingSubmit # NoAttempt /\ pc # "own" /\ late # "none"
      BY <1>0, <3>1 DEF Attempts, Asked
    <3>3. life \in {"up", "closing"}
      BY <1>0, <3>1 DEF Inv, CallShape, TypeOK
    <3>4. Before(t) /\ t \notin adoptedTerminalTurnIds
      BY <3>1, <3>2, <3>3 DEF Ahead, InDoubtBefore, LateBefore
    <3> QED
      BY <3>4 DEF Before
  <2>5. Covered(binding.cursor, t)
    BY <1>0, <1>4, <1>7, <2>2, <2>3, <2>4, CoveredUnpassed DEF CoveredCursors
  <2> QED
    BY <1>0, <1>3, <1>7, <2>2, <2>5, CursorTypes
<1>8. WriteDone => \E by \in {"obs", "held", "close", "own", "late"} : Written(by)
  BY DEF WriteDone
<1> QED
  BY <1>1, <1>2, <1>5, <1>6, <1>7, <1>8, QueueMove DEF QueueMoves

(* The one that is asked for.                                              *)
LEMMA CoveredAsked ==
  ASSUME Inv, Ahead, Todo(obs), Separate, TakenHandled, StoresLast, CoveredCursors, [Next]_vars, Persists,
         ~Crash, ~Restart
  PROVE  \E w \in WriteType : Persist(w) /\ \A t \in w.owned \cup ownedSubmissions' : Covered(w.cursor, t)'
<1>0. TypeOK /\ terminalCursor \in 0..Len(log) /\ ownedSubmissions \subseteq Turns
  BY DEF Inv, TypeOK
<1>1. ASSUME NEW by \in {"held", "close"}, Persist(CursorWrite(by, terminalCursor, ownedSubmissions))
      PROVE  \E w \in WriteType : Persist(w) /\ \A t \in w.owned \cup ownedSubmissions' : Covered(w.cursor, t)'
  <2>1. PICK w : w = CursorWrite(by, terminalCursor, ownedSubmissions)
    OBVIOUS
  <2>2. PICK x : x = terminalCursor
    OBVIOUS
  <2>3. w \in WriteType /\ w.cursor = x /\ w.owned = ownedSubmissions
    BY <1>0, <2>1, <2>2, WritesTyped
  <2>4. x \in Nat /\ x <= Len(log)
    BY <1>0, <2>2, CursorTypes
  <2>5. ASSUME NEW t \in ownedSubmissions \cup ownedSubmissions' PROVE Covered(x, t)'
    <3>1. Covered(x, t)
      BY <2>2, CoveredJoins DEF CoveredCursors
    <3> QED
      BY <2>4, <3>1, CoveredGrows
  <2>6. \A t \in w.owned \cup ownedSubmissions' : Covered(w.cursor, t)'
    BY <2>3, <2>5 DEF Covered, ShownBy
  <2> QED
    BY <1>1, <2>1, <2>3, <2>6
<1>2. ASSUME NEW by \in {"own", "late"}, NEW u \in Turns, Persist(OwnWrite(by, u))
      PROVE  \E w \in WriteType : Persist(w) /\ \A t \in w.owned \cup ownedSubmissions' : Covered(w.cursor, t)'
  <2>1. PICK w : w = OwnWrite(by, u)
    OBVIOUS
  <2>2. w \in WriteType /\ w.cursor = 0
    BY <1>0, <2>1, WritesTyped
  <2>3. TypeOK'
    BY TypeKept
  <2>4. \A t : Covered(w.cursor, t)'
    BY <2>2, <2>3, CoveredZero
  <2> QED
    BY <1>2, <2>1, <2>2, <2>4
<1>3. ASSUME Commit, Persist(CursorWrite("obs", Head(obs.todo).e, ownedSubmissions))
      PROVE  \E w \in WriteType : Persist(w) /\ \A t \in w.owned \cup ownedSubmissions' : Covered(w.cursor, t)'
  <2>1. PICK op : op = Head(obs.todo)
    OBVIOUS
  <2>2. PICK x : x = op.e
    OBVIOUS
  <2>3. obs.pc = "apply" /\ (Undurable(op) = {} \/ UNCHANGED writes) /\ ownedSubmissions' = ownedSubmissions
    BY <1>3, <2>1, CommitMoves
  <2>4. writes' # writes
    <3>1. \A v : Append(writes, v) # writes
      BY <1>0 DEF TypeOK
    <3> QED
      BY <1>3, <3>1 DEF Persist
  <2>5. x \in Events /\ x \in Nat /\ x <= Len(log) /\ x \in 0..Len(log)
    <3>1. x \in 1..Len(log) /\ Len(log) \in Nat
      BY <1>0, <2>1, <2>2, <2>3, OpNow, CursorsTyped DEF Events
    <3> QED
      BY <3>1 DEF Events
  <2>6. PICK w : w = CursorWrite("obs", x, ownedSubmissions)
    OBVIOUS
  <2>7. w \in WriteType /\ w.cursor = x /\ w.owned = ownedSubmissions
    BY <1>0, <2>5, <2>6, WritesTyped
  <2>8. ASSUME NEW t \in ownedSubmissions PROVE Covered(x, t)'
    <3>1. Covered(x, t)
      BY <1>3, <2>1, <2>2, <2>3, <2>4, CoveredCommit
    <3> QED
      BY <2>5, <3>1, CoveredGrows
  <2>9. \A t \in w.owned \cup ownedSubmissions' : Covered(w.cursor, t)'
    BY <2>3, <2>7, <2>8 DEF Covered, ShownBy
  <2> QED
    BY <1>3, <2>1, <2>2, <2>6, <2>7, <2>9
<1> QED
  BY <1>1, <1>2, <1>3 DEF Persists

(* The cursors that are being written.                                     *)
LEMMA CoveredWrites ==
  ASSUME Inv, Ahead, Todo(obs), Separate, TakenHandled, StoresLast, CoveredCursors, [Next]_vars,
         NEW i \in DOMAIN writes', NEW t \in writes'[i].owned \cup ownedSubmissions'
  PROVE  Covered(writes[i].cursor, t)'
<1>0. TypeOK
  BY DEF Inv
<1>1. CASE writes' = <<>>
  <2>1. DOMAIN writes' = {}
    BY <1>1
  <2> QED
    BY <2>1
<1>2. CASE Crash \/ Restart
  BY <1>1, <1>2 DEF Crash, Restart, Forgotten
<1>3. ASSUME ~Crash, ~Restart, NEW j \in DOMAIN writes, writes'[i] = writes[j] PROVE Covered(writes[i].cursor, t)'
  <2>1. PICK x : x = writes[j].cursor
    OBVIOUS
  <2>2. x \in Nat /\ x <= Len(log)
    BY <1>0, <2>1, CursorTypes
  <2>3. Covered(x, t)
    BY <1>3, <2>1, CoveredJoins DEF CoveredCursors
  <2>4. Covered(x, t)'
    BY <1>3, <2>2, <2>3, CoveredGrows
  <2> QED
    BY <1>3, <2>1, <2>4, CoveredFrom
<1>4. ASSUME ~Crash, ~Restart, UNCHANGED writes PROVE Covered(writes[i].cursor, t)'
  BY <1>3, <1>4
<1>5. ASSUME ~Crash, ~Restart, NEW by, Written(by) PROVE Covered(writes[i].cursor, t)'
  <2>1. i + 1 \in DOMAIN writes /\ writes'[i] = writes[i + 1]
    BY <1>0, <1>5, QueueTail
  <2> QED
    BY <1>3, <1>5, <2>1
<1>6. ASSUME ~Crash, ~Restart, Persists PROVE Covered(writes[i].cursor, t)'
  <2>1. PICK w \in WriteType : Persist(w) /\ \A u \in w.owned \cup ownedSubmissions' : Covered(w.cursor, u)'
    BY <1>6, CoveredAsked
  <2>2. /\ DOMAIN writes' = DOMAIN writes \cup {Len(writes) + 1}
        /\ \A j \in DOMAIN writes : writes'[j] = writes[j]
        /\ writes'[Len(writes) + 1] = w
    BY <1>0, <2>1, QueueGrown
  <2>3. CASE i \in DOMAIN writes
    BY <1>3, <1>6, <2>2, <2>3
  <2>4. CASE i \notin DOMAIN writes
    <3>1. writes'[i] = w
      BY <2>2, <2>4
    <3>2. PICK x : x = w.cursor
      OBVIOUS
    <3>3. Covered(x, t)'
      BY <2>1, <3>1, <3>2 DEF Covered, ShownBy
    <3> QED
      BY <3>1, <3>2, <3>3, CoveredFrom
  <2> QED
    BY <2>3, <2>4
<1>7. WriteDone => \E by : Written(by)
  BY DEF WriteDone
<1> QED
  BY <1>1, <1>2, <1>4, <1>5, <1>6, <1>7, QueueMove DEF QueueMoves

(* The one that is held.                                                   *)
LEMMA CoveredHeld ==
  ASSUME Inv, Once, Ahead, Todo(obs), OpenText, InTurn, TakenHandled, StoresLast, CoveredCursors, [Next]_vars,
         NEW t \in ownedSubmissions'
  PROVE  Covered(terminalCursor, t)'
<1>0. TypeOK /\ TypeOK' /\ t \in Turns /\ Separate
  BY TypeKept DEF Inv, TypeOK, InTurn
<1>1. ASSUME terminalCursor' = 0 PROVE Covered(terminalCursor, t)'
  <2>1. PICK x : x = 0
    OBVIOUS
  <2>2. Covered(x, t)'
    BY <1>0, <2>1, CoveredZero
  <2> QED
    BY <1>1, <2>1, <2>2, CoveredFrom
<1>2. ASSUME NEW x, x = terminalCursor', x \in Nat, x <= Len(log), Covered(x, t), ~Crash
      PROVE  Covered(terminalCursor, t)'
  <2>1. Covered(x, t)'
    BY <1>2, CoveredGrows
  <2> QED
    BY <1>2, <2>1, CoveredFrom
<1>3. CASE Restart \/ Crash \/ WrittenHeld \/ WrittenClose
  BY <1>1, <1>3 DEF Restart, Crash, Forgotten, WrittenHeld, WrittenClose
<1>4. ASSUME UNCHANGED terminalCursor, ~Restart, ~Crash PROVE Covered(terminalCursor, t)'
  <2>1. Covered(terminalCursor, t)
    BY <1>4, CoveredJoins DEF CoveredCursors
  <2> QED
    BY <1>0, <1>2, <1>4, <2>1, CursorTypes
<1>5. ASSUME Commit, obs.pc = "apply", terminalCursor' = Head(obs.todo).e, terminalCursor' # terminalCursor, ~Crash
      PROVE  Covered(terminalCursor, t)'
  <2>1. PICK op : op = Head(obs.todo)
    OBVIOUS
  <2>2. PICK x : x = op.e
    OBVIOUS
  <2>3. Undurable(op) = {} /\ t \in ownedSubmissions
    BY <1>5, <2>1, CommitMoves
  <2>4. Covered(x, t)
    BY <1>0, <1>5, <2>1, <2>2, <2>3, CoveredCommit
  <2>5. x \in Nat /\ x <= Len(log)
    <3>1. x \in Events
      BY <1>5, <2>1, <2>2, OpNow
    <3> QED
      BY <1>0, <3>1, LogKeeps
  <2> QED
    BY <1>2, <1>5, <2>1, <2>2, <2>4, <2>5
<1>6. ASSUME Observe \/ Woken, obs.at \in Events, terminalCursor' = obs.at, Completes(obs.at, log[obs.at].turn)
      PROVE  Covered(terminalCursor, t)'
  <2>1. PICK x : x = obs.at
    OBVIOUS
  <2>2. t \in ownedSubmissions
    BY <1>0, <1>6 DEF Completes
  <2>3. Covered(x, t)'
    BY <1>6, <2>1, <2>2, CoveredCompletes
  <2> QED
    BY <1>6, <2>1, <2>3, CoveredFrom
<1> QED
  BY <1>3, <1>4, <1>5, <1>6, TerminalMove DEF TerminalMoves

--------------------------------------------------------------------------------
(* What the observer took.                                                 *)

(* An event is taken because it was before, or because the observer takes  *)
(* it.                                                                     *)
LEMMA TakenBack ==
  ASSUME Inv, [Next]_vars, ~Crash, ~Restart, NEW e \in Events', Taken(e)'
  PROVE  /\ e \in Events /\ e \in Nat /\ log'[e] = log[e] /\ obs'.pc # "stopped"
         /\ Taken(e) \/ ((Observe \/ Woken) /\ e = obs.at)
<1>0. TypeOK /\ Reach /\ Onward /\ obs.at \in Nat /\ obs'.pc # "stopped"
  BY OnwardMove, CursorsTyped DEF Inv, Taken
<1>1. e \in Events
  <2>1. ASSUME e \notin Events PROVE FALSE
    <3>1. e = Len(log) + 1 /\ UNCHANGED obs
      BY <1>0, <2>1, LogKeeps DEF Emits
    <3>2. obs.at <= Len(log) + 1 /\ Len(log) \in Nat
      BY <1>0, <3>1, CursorsTyped DEF Reach
    <3>3. Working => obs.at \in Events
      BY DEF Inv, ObsShape, ObsOK, Working
    <3>4. Taken(e)
      BY <3>1 DEF Taken, Working
    <3> QED
      BY <1>0, <2>1, <3>1, <3>2, <3>3, <3>4 DEF Taken
  <2> QED
    BY <2>1
<1>2. log'[e] = log[e] /\ e \in Nat
  BY <1>0, <1>1, LogKeeps
<1>3. Taken(e) \/ (e = obs.at /\ (Observe \/ Woken))
  BY <1>0, <1>1 DEF Onward
<1> QED
  BY <1>0, <1>1, <1>2, <1>3

(* What is to be stored stays so until it is.                              *)
LEMMA ToStoreStays ==
  ASSUME Inv, Todo(obs), [Next]_vars, ~Crash, ~Restart, NEW e, ToStore(e)
  PROVE  ToStore(e)' \/ e \in transcript'
<1>0. /\ ObsOK(obs) /\ obs \in ObsType /\ obs.todo \in Seq(OpType) /\ (life = "up" /\ ~failed) \in BOOLEAN
      /\ receipts' = receipts
  BY ReceiptsMove DEF Inv, ObsShape, ObsOK, ObsType
<1>1. PICK i \in DOMAIN obs.todo : Storing(obs.todo[i]) /\ obs.todo[i].e = e
  BY DEF ToStore
<1>2. obs.todo # <<>> /\ Working
  BY <1>0, <1>1 DEF ObsOK, Working
<1>3. CASE obs'.todo = obs.todo
  BY <1>0, <1>1, <1>3 DEF ToStore, Storing
<1>4. CASE obs' = Advanced(life = "up" /\ ~failed) /\ i # 1
  <2>1. PICK p, q : p = obs.todo /\ q = Tail(obs.todo)
    OBVIOUS
  <2>2. p \in Seq(OpType) /\ p # <<>> /\ q = Tail(p) /\ i \in DOMAIN p /\ Len(p) \in Nat /\ DOMAIN p = 1..Len(p)
    BY <1>0, <1>1, <1>2, <2>1
  <2>3. Len(q) = Len(p) - 1 /\ DOMAIN q = 1..Len(q) /\ \A j \in DOMAIN q : q[j] = p[j + 1]
    BY <2>2, SeqFacts
  <2>4. i \in Nat /\ i > 1 /\ Len(p) # 1 /\ i - 1 \in DOMAIN q /\ (i - 1) + 1 = i
    BY <1>4, <2>2, <2>3
  <2>5. obs'.todo = q
    BY <1>0, <1>2, <1>4, <2>1, <2>4, AdvancedOK
  <2>6. q[i - 1] = p[i]
    BY <2>3, <2>4
  <2>7. Storing(q[i - 1])' /\ q[i - 1].e = e
    BY <1>0, <1>1, <2>1, <2>6 DEF Storing
  <2> QED
    BY <2>4, <2>5, <2>7 DEF ToStore, Storing
<1>5. CASE StoreMessage
  <2>1. /\ obs' = Advanced(life = "up" /\ ~failed) /\ obs.pc = "apply"
        /\ IF Head(obs.todo).op = "call" /\ Head(obs.todo).e \in receipts THEN TRUE ELSE Store(Head(obs.todo).e)
    BY <1>5 DEF StoreMessage
  <2>2. PICK op : op = Head(obs.todo)
    OBVIOUS
  <2>3. op = obs.todo[1]
    BY <2>1, <2>2, HeadOp
  <2>4. i = 1 => e \in transcript'
    <3>1. ASSUME i = 1 PROVE e \in transcript'
      <4>1. op.e = e /\ Storing(op)
        BY <1>1, <2>3, <3>1
      <4>2. ~(op.op = "call" /\ op.e \in receipts)
        BY <4>1 DEF Storing
      <4>3. Store(e)
        BY <2>1, <2>2, <4>1, <4>2
      <4> QED
        BY <4>3 DEF Store
    <3> QED
      BY <3>1
  <2> QED
    BY <1>4, <2>1, <2>4
<1>6. CASE Commit
  <2>1. obs.pc = "apply" /\ Head(obs.todo).op = "commit"
        /\ (obs' = Advanced(life = "up" /\ ~failed) \/ obs' = [obs EXCEPT !.pc = "write"])
    BY <1>6 DEF Commit
  <2>2. PICK op : op = Head(obs.todo)
    OBVIOUS
  <2>3. op = obs.todo[1]
    BY <2>1, <2>2, HeadOp
  <2>4. i # 1
    BY <1>1, <2>1, <2>2, <2>3 DEF Storing
  <2>5. [obs EXCEPT !.pc = "write"].todo = obs.todo
    BY <1>0 DEF ObsType
  <2> QED
    BY <1>3, <1>4, <2>1, <2>4, <2>5
<1>7. CASE CloseSink
  <2>1. obs.pc = "apply" /\ Head(obs.todo).op = "close" /\ obs' = Advanced(life = "up" /\ ~failed)
    BY <1>7 DEF CloseSink
  <2>2. PICK op : op = Head(obs.todo)
    OBVIOUS
  <2>3. op = obs.todo[1]
    BY <2>1, <2>2, HeadOp
  <2>4. i # 1
    BY <1>1, <2>1, <2>2, <2>3 DEF Storing
  <2> QED
    BY <1>4, <2>1, <2>4
<1>8. CASE WrittenObserved
  <2>1. Written("obs") /\ obs' = Advanced(life = "up" /\ ~failed)
    BY <1>8 DEF WrittenObserved
  <2>2. obs.pc = "write"
    BY <2>1, QueueHead
  <2>3. i # 1
    BY <1>1, <2>2 DEF Todo, Storing
  <2> QED
    BY <1>4, <2>1, <2>3
<1> QED
  BY <1>2, <1>3, <1>5, <1>6, <1>7, <1>8, WorkStays

LEMMA DoneKept ==
  ASSUME Inv, Todo(obs), [Next]_vars, ~Crash, ~Restart, NEW e \in Events, Done(e)
  PROVE  Done(e)'
<1>1. CASE e \in Accounted
  BY <1>1, AccountedKept DEF Done
<1>2. CASE ToStore(e)
  BY <1>2, ToStoreStays DEF Done, Accounted
<1> QED
  BY <1>1, <1>2 DEF Done


LEMMA ReceiptsStoredKept ==
  ASSUME ReceiptsStored, [Next]_vars
  PROVE  ReceiptsStored'
BY ReceiptsMove, HistoryGrows DEF ReceiptsStored

(* A text that a sink has stays open while the observer takes no event.    *)
LEMMA AwaitsKept ==
  ASSUME Inv, Todo(obs), [Next]_vars, ~Crash, ~Restart, ~Observe, ~Woken, NEW t \in Turns, NEW e \in Events,
         log[e].turn = t, Taken(e), Awaits(t, e)
  PROVE  Awaits(t, e)'
<1>0. /\ TypeOK /\ Attempts /\ SinkMoves /\ sinks \in [Turns -> SinkType] /\ t \in undurableSinks
      /\ Working => log[obs.at].turn # t
  BY SinksMove DEF Inv, TypeOK, Awaits
<1>1. t \in undurableSinks'
  <2>1. CASE ~Commit
    BY <1>0, <2>1, UndurableMove DEF KeptBack
  <2>2. CASE Commit
    <3>1. PICK op : op = Head(obs.todo)
      OBVIOUS
    <3>2. obs.pc = "apply" /\ undurableSinks' = Undurable(op)
      BY <2>2, <3>1, CommitMoves
    <3>3. op = obs.todo[1] /\ 1 \in DOMAIN obs.todo
      BY <3>1, <3>2, HeadOp
    <3>4. op.t # t
      BY <1>0, <3>2, <3>3 DEF Todo, Working
    <3> QED
      BY <1>0, <3>2, <3>4 DEF Undurable
  <2> QED
    BY <2>1, <2>2
<1>2. Working' => log'[obs'.at].turn # t
  <2>1. Working' => Working /\ obs'.at = obs.at
    BY AtMoves
  <2>2. Working => obs.at \in Events
    BY DEF Inv, ObsShape, ObsOK, Working
  <2> QED
    BY <1>0, <2>1, <2>2, LogKeeps
<1>3. ASSUME life' = "up", ~failed' PROVE sinks'[t].text = e
  <2>0. life = "up" /\ ~failed
    <3>1. \/ life' = life /\ failed' = failed
          \/ failed' = TRUE \/ life' \in {"closing", "committing", "down"}
      BY LifeMoves
    <3> QED
      BY <1>3, <3>1
  <2>1. sinks[t].text = e
    BY <2>0 DEF Awaits
  <2>2. CASE UNCHANGED sinks
    BY <2>1, <2>2
  <2>3. CASE Opens
    <3>1. /\ pc \in {"submit", "own"} /\ request.id \in Turns
          /\ sinks' = [sinks EXCEPT ![request.id] = [NewSink(FALSE) EXCEPT !.left = request.aborted]]
      BY <2>3 DEF Opens
    <3>2. Fresh(request.id) \/ Unseen(request.id)
      BY <1>0, <3>1 DEF Attempts
    <3>3. Unseen(request.id)
      BY <2>3, <3>2, OpensUnended DEF Fresh
    <3>4. t # request.id
      BY <3>3 DEF Unseen
    <3> QED
      BY <1>0, <2>1, <3>1, <3>4
  <2>4. CASE Abandons
    <3>1. PICK u : u = request.id
      OBVIOUS
    <3>2. u \in Turns /\ sinks' = [sinks EXCEPT ![u].left = TRUE] /\ sinks[t] \in SinkType
      BY <1>0, <2>4, <3>1 DEF Abandons
    <3>3. sinks'[t] \in {sinks[t], [sinks[t] EXCEPT !.left = TRUE]}
      BY <1>0, <3>2
    <3>4. [sinks[t] EXCEPT !.left = TRUE].text = sinks[t].text
      BY <3>2 DEF SinkType
    <3> QED
      BY <2>1, <3>3, <3>4
  <2>5. CASE Resets
    BY <1>3, <2>5 DEF Resets, Invalidated, ObserverLost, BeginClose
  <2>6. CASE CloseSink
    <3>1. PICK op : op = Head(obs.todo)
      OBVIOUS
    <3>2. op.t = log[obs.at].turn /\ obs.pc = "apply"
      BY <2>6, <3>1, Closes
    <3>3. op.t # t
      BY <1>0, <3>2 DEF Working
    <3>4. sinks' = [sinks EXCEPT ![op.t] = NoSink]
      BY <2>6, <3>1 DEF CloseSink
    <3> QED
      BY <1>0, <2>1, <3>3, <3>4
  <2> QED
    BY <1>0, <2>2, <2>3, <2>4, <2>5, <2>6 DEF SinkMoves
<1> QED
  BY <1>1, <1>2, <1>3 DEF Awaits

--------------------------------------------------------------------------------
(* What a projection is about to store.                                    *)

\* The ops q store e, unless a receipt says it is; and what they store after a
\* commit is ahead of it.
StoredBy(q, e) == e \in receipts \/ \E i \in DOMAIN q : Storing(q[i]) /\ q[i].e = e
Ascending(q) ==
  \A i \in DOMAIN q : q[i].op = "commit" =>
    \A j \in DOMAIN q : i < j /\ Storing(q[j]) => q[i].e < q[j].e

LEMMA OpFacts ==
  ASSUME NEW o, NEW e
  PROVE  /\ Op(o, e).op = o /\ Op(o, e).e = e
         /\ Storing(Op(o, e)) <=> (o = "store" \/ (o = "call" /\ e \notin receipts))
BY DEF Op, Storing

\* The ops q for the event that c is for flush the text x, if there is one.
Flushed(q, c, x) ==
  /\ \E i \in DOMAIN q : q[i] = c
  /\ x # 0 => StoredBy(q, x)
  /\ Ascending(q)
  /\ \A i \in DOMAIN q : q[i] # c /\ q[i].op = "commit" => x # 0 /\ q[i].e = x

LEMMA FlushedOps ==
  ASSUME NEW a, NEW b, NEW c, NEW x, a.e = x, Storing(a), b.op = "commit", b.e = x, ~Storing(b),
         a.op # "commit", x # 0 => x < c.e
  PROVE  /\ x = 0 => Flushed(<<c>>, c, x)
         /\ x # 0 /\ x \in receipts => Flushed(<<b, c>>, c, x)
         /\ x # 0 => Flushed(<<a, b, c>>, c, x)
<1>q. ~(1 < 1) /\ ~(2 < 2) /\ ~(2 < 1) /\ ~(3 < 3) /\ ~(3 < 1) /\ ~(3 < 2)
  OBVIOUS
<1>t. /\ DOMAIN <<c>> = {1} /\ <<c>>[1] = c
      /\ DOMAIN <<b, c>> = {1, 2} /\ <<b, c>>[1] = b /\ <<b, c>>[2] = c
      /\ DOMAIN <<a, b, c>> = {1, 2, 3}
      /\ <<a, b, c>>[1] = a /\ <<a, b, c>>[2] = b /\ <<a, b, c>>[3] = c
  OBVIOUS
<1>3. ASSUME x = 0, NEW q, DOMAIN q = {1}, q[1] = c PROVE Flushed(q, c, x)
  <2>2. \A i \in DOMAIN q : q[i] = c
    BY <1>3
  <2>3. \A i, j \in DOMAIN q : ~(i < j)
    BY <1>q, <1>3
  <2>4. Ascending(q)
    BY <2>3 DEF Ascending
  <2>5. 1 \in DOMAIN q
    BY <1>3
  <2> QED
    BY <1>3, <2>2, <2>4, <2>5 DEF Flushed
<1>4. ASSUME x # 0, x \in receipts, NEW q, DOMAIN q = {1, 2}, q[1] = b, q[2] = c PROVE Flushed(q, c, x)
  <2>2. \A i, j \in DOMAIN q : i < j => q[i] = b /\ q[j] = c
    BY <1>q, <1>4
  <2>3. Ascending(q)
    BY <1>4, <2>2 DEF Ascending
  <2>4. \A i \in DOMAIN q : q[i] # c => q[i] = b
    BY <1>4
  <2>5. StoredBy(q, x)
    BY <1>4 DEF StoredBy
  <2>6. 2 \in DOMAIN q
    BY <1>4
  <2> QED
    BY <1>4, <2>3, <2>4, <2>5, <2>6 DEF Flushed
<1>5. ASSUME x # 0, NEW q, DOMAIN q = {1, 2, 3}, q[1] = a, q[2] = b, q[3] = c PROVE Flushed(q, c, x)
  <2>2. \A i, j \in DOMAIN q : i < j => q[i] = a \/ (q[i] = b /\ q[j] = c)
    BY <1>q, <1>5
  <2>3. Ascending(q)
    BY <1>5, <2>2 DEF Ascending
  <2>4. \A i \in DOMAIN q : q[i] # c => q[i] = b \/ q[i] = a
    BY <1>5
  <2>5. StoredBy(q, x)
    <3>1. 1 \in DOMAIN q
      BY <1>5
    <3> QED
      BY <1>5, <3>1 DEF StoredBy
  <2>6. 3 \in DOMAIN q
    BY <1>5
  <2> QED
    BY <1>5, <2>3, <2>4, <2>5, <2>6 DEF Flushed
<1>6. x = 0 => Flushed(<<c>>, c, x)
  BY <1>t, <1>3
<1>7. x # 0 /\ x \in receipts => Flushed(<<b, c>>, c, x)
  BY <1>t, <1>4
<1>8. x # 0 => Flushed(<<a, b, c>>, c, x)
  BY <1>t, <1>5
<1> QED
  BY <1>6, <1>7, <1>8

LEMMA FlushStores ==
  ASSUME NEW s, NEW c, NEW q, q = Flush(s) \o <<c>>, s.text # 0 => s.text < c.e
  PROVE  Flushed(q, c, s.text)
<1>1. PICK x, a, b : x = s.text /\ a = Op("store", x) /\ b = Op("commit", x)
  OBVIOUS
<1>2. /\ a.op = "store" /\ a.e = x /\ Storing(a)
      /\ b.op = "commit" /\ b.e = x /\ ~Storing(b)
  BY <1>1, OpFacts
<1>3. /\ x = 0 => Flushed(<<c>>, c, x)
      /\ x # 0 /\ x \in receipts => Flushed(<<b, c>>, c, x)
      /\ x # 0 => Flushed(<<a, b, c>>, c, x)
  BY <1>1, <1>2, FlushedOps
<1>4. \/ x = 0 /\ q = <<c>>
      \/ x # 0 /\ x \in receipts /\ q = <<b, c>>
      \/ x # 0 /\ q = <<a, b, c>>
  BY <1>1, FlushForms
<1> QED
  BY <1>1, <1>3, <1>4

LEMMA EndStores ==
  ASSUME NEW e, NEW q, NEW c, NEW d, c = Op("commit", e), d = Op("close", e),
         q = StoreUnlessReceipt(e) \o <<c>> \/ q = StoreUnlessReceipt(e) \o <<c, d>>
  PROVE  /\ StoredBy(q, e) /\ Ascending(q)
         /\ \A i \in DOMAIN q : q[i].e = e
<1>1. PICK a : a = Op("store", e)
  OBVIOUS
<1>2. /\ a.op = "store" /\ a.e = e /\ Storing(a)
      /\ c.op = "commit" /\ c.e = e /\ ~Storing(c)
      /\ d.op = "close" /\ d.e = e /\ ~Storing(d)
  BY <1>1, OpFacts
<1>3. CASE e \in receipts /\ q = <<c>>
  <2>1. DOMAIN q = {1} /\ q[1] = c
    BY <1>3
  <2> QED
    BY <1>2, <1>3, <2>1 DEF StoredBy, Ascending
<1>4. CASE q = <<a, c>>
  <2>1. DOMAIN q = {1, 2} /\ q[1] = a /\ q[2] = c /\ ~(2 < 1)
    BY <1>4
  <2> QED
    BY <1>2, <2>1 DEF StoredBy, Ascending
<1>5. CASE e \in receipts /\ q = <<c, d>>
  <2>1. DOMAIN q = {1, 2} /\ q[1] = c /\ q[2] = d
    BY <1>5
  <2> QED
    BY <1>2, <1>5, <2>1 DEF StoredBy, Ascending
<1>6. CASE q = <<a, c, d>>
  <2>1. DOMAIN q = {1, 2, 3} /\ q[1] = a /\ q[2] = c /\ q[3] = d /\ ~(2 < 1)
    BY <1>6
  <2> QED
    BY <1>2, <2>1 DEF StoredBy, Ascending
<1>7. \/ e \in receipts /\ q = <<c>>
      \/ q = <<a, c>>
      \/ e \in receipts /\ q = <<c, d>>
      \/ q = <<a, c, d>>
  BY <1>1, StoreForms
<1> QED
  BY <1>3, <1>4, <1>5, <1>6, <1>7

LEMMA FormStores ==
  ASSUME NEW e, NEW s, NEW y, NEW q, Form(e, s, y, q), s.text # 0 => s.text < e
  PROVE  /\ log[e].kind # "start" => StoredBy(q, e)
         /\ log[e].kind \in {"start", "call"} /\ s.text # 0 => StoredBy(q, s.text)
         /\ Ascending(q)
         /\ \A i \in DOMAIN q : q[i].op = "commit" /\ q[i].e # e => StoredBy(q, q[i].e)
<1>1. PICK b, c, d : b = Op("call", e) /\ c = Op("commit", e) /\ d = Op("close", e)
  OBVIOUS
<1>2. /\ b.e = e /\ c.e = e /\ b.op = "call" /\ (Storing(b) <=> e \notin receipts)
  BY <1>1, OpFacts
<1>3. CASE log[e].kind = "start" /\ q = Flush(s) \o <<c>>
  <2>1. (s.text # 0 => StoredBy(q, s.text)) /\ Ascending(q)
    <3>1. s.text # 0 => s.text < c.e
      BY <1>2
    <3>2. Flushed(q, c, s.text)
      BY <1>3, <3>1, FlushStores
    <3> QED
      BY <3>2 DEF Flushed
  <2>2. \A i \in DOMAIN q : q[i].op = "commit" /\ q[i].e # e => StoredBy(q, q[i].e)
    <3>1. s.text # 0 => s.text < c.e
      BY <1>2
    <3>2. Flushed(q, c, s.text)
      BY <1>3, <3>1, FlushStores
    <3> QED
      BY <1>2, <3>2 DEF Flushed
  <2> QED
    BY <1>3, <2>1, <2>2
<1>4. CASE log[e].kind = "call" /\ q = Flush(s) \o <<b>>
  <2>1. (s.text # 0 => StoredBy(q, s.text)) /\ Ascending(q) /\ \E i \in DOMAIN q : q[i] = b
    <3>1. s.text # 0 => s.text < b.e
      BY <1>2
    <3>2. Flushed(q, b, s.text)
      BY <1>4, <3>1, FlushStores
    <3> QED
      BY <3>2 DEF Flushed
  <2>2. StoredBy(q, e)
    BY <1>2, <2>1 DEF StoredBy
  <2>3. \A i \in DOMAIN q : q[i].op = "commit" /\ q[i].e # e => StoredBy(q, q[i].e)
    <3>1. s.text # 0 => s.text < b.e
      BY <1>2
    <3>2. Flushed(q, b, s.text)
      BY <1>4, <3>1, FlushStores
    <3> QED
      BY <1>2, <3>2 DEF Flushed
  <2> QED
    BY <1>4, <2>1, <2>2, <2>3
<1>5. CASE /\ log[e].kind \in {"result"} \cup Terminal
           /\ q = StoreUnlessReceipt(e) \o <<c>> \/ q = StoreUnlessReceipt(e) \o <<c, d>>
  <2>1. StoredBy(q, e) /\ Ascending(q) /\ \A i \in DOMAIN q : q[i].e = e
    BY <1>1, <1>5, EndStores
  <2>2. log[e].kind \notin {"start", "call"}
    BY <1>5 DEF Terminal
  <2> QED
    BY <2>1, <2>2
<1> QED
  BY <1>1, <1>3, <1>4, <1>5 DEF Form

--------------------------------------------------------------------------------
(* What is stored after a commit stays ahead of it.                        *)

\* What the observer planned at e leaves nothing behind a commit.
LEMMA PlanAscends ==
  ASSUME Inv, NEW e \in Events, e = obs.at, obs.pc \in Reading, NEW t \in Turns,
         NEW y, NEW q, Form(e, SinkFor(t), y, q)
  PROVE  /\ SinkFor(t).text # 0 => SinkFor(t).text < e
         /\ log[e].kind # "start" => StoredBy(q, e)
         /\ log[e].kind \in {"start", "call"} /\ SinkFor(t).text # 0 => StoredBy(q, SinkFor(t).text)
         /\ Ascending(q)
         /\ \A i \in DOMAIN q : q[i].op = "commit" /\ q[i].e # e => StoredBy(q, q[i].e)
<1>1. SinkFor(t).text # 0 => SinkFor(t).text < e
  <2>1. sinks[t].text < e
    BY DEF Inv, ObsShape
  <2>2. NewSink(TRUE).text = 0
    BY DEF NewSink, NoSink
  <2> QED
    BY <2>1, <2>2 DEF SinkFor
<1> QED
  BY <1>1, FormStores

\* What a plan of the observer stores is stored, or about to be.
LEMMA PlanStores ==
  ASSUME ReceiptsStored, [Next]_vars, receipts' = receipts, NEW q, obs'.todo = q, NEW e, StoredBy(q, e)
  PROVE  Done(e)'
<1>1. CASE e \in receipts
  <2>1. e \in transcript'
    BY <1>1, HistoryGrows DEF ReceiptsStored
  <2> QED
    BY <2>1 DEF Done, Accounted
<1>2. CASE \E i \in DOMAIN q : Storing(q[i]) /\ q[i].e = e
  <2>1. PICK i \in DOMAIN q : Storing(q[i]) /\ q[i].e = e
    BY <1>2
  <2>2. Storing(q[i])'
    BY <2>1 DEF Storing
  <2>3. i \in DOMAIN obs'.todo /\ obs'.todo[i] = q[i]
    BY <2>1
  <2> QED
    BY <2>1, <2>2, <2>3 DEF Done, ToStore, Storing
<1> QED
  BY <1>1, <1>2 DEF StoredBy

LEMMA StoresLastTakes ==
  ASSUME Inv, Ids, ReceiptsStored, [Next]_vars, Observe \/ Woken
  PROVE  StoresLast'
<1>1. PICK e, u : e = obs.at /\ u = log[e].turn
  OBVIOUS
<1>2. /\ TypeOK /\ e \in Events /\ obs.pc \in Reading /\ ~Crash /\ ~Restart
  <2>1. TypeOK /\ e \in Events /\ obs.pc \in Reading
    BY <1>1, ObserverMoves DEF Inv
  <2>2. life = "up" /\ ~failed
    BY <2>1 DEF Inv, ObsShape
  <2>3. life' = life
    BY DEF Observe, Woken, ObserveUnchanged, runtime
  <2> QED
    BY <2>1, <2>2, <2>3 DEF Crash, Restart
<1>3. receipts' = receipts /\ log' = log
  <2>1. receipts' = receipts
    BY <1>2, ReceiptsMove
  <2> QED
    BY <2>1 DEF Observe, Woken, ObserveUnchanged, engine
<1>4. CASE obs'.todo = <<>>
  <2>1. DOMAIN obs'.todo = {}
    BY <1>4
  <2> QED
    BY <2>1 DEF StoresLast
<1>5. CASE obs'.at = e /\ obs'.todo = <<Op("commit", e)>>
  <2>1. PICK c : c = Op("commit", e)
    OBVIOUS
  <2>2. DOMAIN obs'.todo = {1} /\ obs'.todo[1] = c /\ ~(1 < 1)
    BY <1>5, <2>1
  <2>3. c.e = e
    BY <2>1, OpFacts
  <2> QED
    BY <1>5, <2>2, <2>3 DEF StoresLast
<1>6. CASE u \in Turns /\ Plans(e, u)
  <2>1. PICK y, q : Form(e, SinkFor(u), y, q) /\ obs' = Apply1(e, q)
    BY <1>6 DEF Plans
  <2>2. obs'.todo = q /\ obs'.at = e
    BY <2>1 DEF Apply1
  <2>3. /\ Ascending(q)
        /\ \A i \in DOMAIN q : q[i].op = "commit" /\ q[i].e # e => StoredBy(q, q[i].e)
    BY <1>1, <1>2, <1>6, <2>1, PlanAscends
  <2>5. ASSUME NEW i \in DOMAIN q, q[i].op = "commit", q[i].e # e PROVE Done(q[i].e)'
    <3>1. PICK x : x = q[i].e
      OBVIOUS
    <3>2. StoredBy(q, x)
      BY <2>3, <2>5, <3>1
    <3>3. Done(x)'
      BY <1>3, <2>2, <3>2, PlanStores
    <3>4. (q[i].e)' = x
      BY <3>1
    <3> QED
      BY <3>1, <3>3 DEF Done, ToStore, Accounted, Storing
  <2>4. \A i \in DOMAIN q : Storing(q[i])' => Storing(q[i])
    BY <1>3 DEF Storing
  <2> QED
    BY <1>3, <2>2, <2>3, <2>4, <2>5 DEF StoresLast, Ascending, Storing, Done, ToStore, Accounted
<1> QED
  BY <1>1, <1>4, <1>5, <1>6, ObserverTools

LEMMA StoresLastKept ==
  ASSUME Inv, Ids, Todo(obs), ReceiptsStored, StoresLast, [Next]_vars
  PROVE  StoresLast'
<1>1. CASE obs'.todo = <<>>
  <2>1. DOMAIN obs'.todo = {}
    BY <1>1
  <2> QED
    BY <2>1 DEF StoresLast
<1>2. CASE Crash \/ Restart
  <2>1. obs'.todo = <<>>
    BY <1>2 DEF Crash, Restart, Stopped, Observer
  <2> QED
    BY <1>1, <2>1
<1>3. CASE Observe \/ Woken
  BY <1>3, StoresLastTakes
<1>4. CASE ~Crash /\ ~Restart /\ ~Observe /\ ~Woken /\ obs'.todo # <<>>
  <2>0. TypeOK /\ ObsOK(obs) /\ receipts' = receipts
    BY <1>4, ReceiptsMove DEF Inv, ObsShape
  <2>1. obs'.at = obs.at
    BY <1>4, TodoMoves
  <2>3. ASSUME NEW i \in DOMAIN obs'.todo, obs'.todo[i].op = "commit", NEW x \in DOMAIN obs.todo,
               obs'.todo[i] = obs.todo[x], obs.todo # <<>>,
               \A j \in DOMAIN obs'.todo : i < j => \E z \in DOMAIN obs.todo : x < z /\ obs.todo[z] = obs'.todo[j]
        PROVE  /\ obs'.todo[i].e # obs'.at => Done(obs.todo[i].e)'
               /\ \A j \in DOMAIN obs'.todo : i < j /\ Storing(obs.todo[j])' => obs'.todo[i].e < obs'.todo[j].e
    <3>1. ASSUME obs'.todo[i].e # obs'.at PROVE Done(obs.todo[i].e)'
      <4>1. PICK e : e = obs.todo[x].e
        OBVIOUS
      <4>2. e \in Events
        <5>1. obs.todo \in Seq(OpType) /\ obs.todo[x] \in OpType
          BY <2>0, <2>3, ElementOfSeq DEF ObsOK, ObsType
        <5> QED
          BY <4>1, <5>1 DEF OpType
      <4>3. Done(e)
        BY <2>1, <2>3, <3>1, <4>1 DEF StoresLast
      <4>4. Done(e)'
        BY <1>4, <4>2, <4>3, DoneKept
      <4> QED
        BY <2>3, <4>1, <4>4 DEF Done, ToStore, Accounted, Storing
    <3>2. ASSUME NEW j \in DOMAIN obs'.todo, i < j, Storing(obs.todo[j])' PROVE obs'.todo[i].e < obs'.todo[j].e
      <4>1. PICK z \in DOMAIN obs.todo : x < z /\ obs.todo[z] = obs'.todo[j]
        BY <2>3, <3>2
      <4>2. Storing(obs.todo[z])
        BY <2>0, <3>2, <4>1 DEF Storing
      <4> QED
        BY <2>3, <4>1, <4>2 DEF StoresLast
    <3> QED
      BY <3>1, <3>2
  <2>4. CASE obs'.todo = obs.todo
    <3>1. obs.todo # <<>>
      BY <1>4, <2>4
    <3>2. ASSUME NEW i \in DOMAIN obs'.todo, obs'.todo[i].op = "commit"
          PROVE  /\ obs'.todo[i].e # obs'.at => Done(obs.todo[i].e)'
                 /\ \A j \in DOMAIN obs'.todo : i < j /\ Storing(obs.todo[j])' => obs'.todo[i].e < obs'.todo[j].e
      BY <2>3, <2>4, <3>1, <3>2
    <3> QED
      BY <3>2 DEF StoresLast
  <2>5. CASE /\ obs'.at = obs.at /\ obs'.pc = "apply" /\ Advances /\ Len(obs.todo) > 1
             /\ \A i \in DOMAIN obs'.todo : /\ i \in Nat /\ i >= 1 /\ i + 1 \in DOMAIN obs.todo
                                            /\ obs'.todo[i] = obs.todo[i + 1]
    <3>1. obs.todo # <<>>
      BY <2>0, <2>5 DEF Advances, ObsOK, Working
    <3>2. ASSUME NEW i \in DOMAIN obs'.todo, obs'.todo[i].op = "commit"
          PROVE  /\ obs'.todo[i].e # obs'.at => Done(obs.todo[i].e)'
                 /\ \A j \in DOMAIN obs'.todo : i < j /\ Storing(obs.todo[j])' => obs'.todo[i].e < obs'.todo[j].e
      <4>1. PICK x \in DOMAIN obs.todo : x = i + 1 /\ obs'.todo[i] = obs.todo[x]
        BY <2>5
      <4>2. ASSUME NEW j \in DOMAIN obs'.todo, i < j
            PROVE  \E z \in DOMAIN obs.todo : x < z /\ obs.todo[z] = obs'.todo[j]
        <5>1. j + 1 \in DOMAIN obs.todo /\ obs'.todo[j] = obs.todo[j + 1] /\ i + 1 < j + 1
          BY <2>5, <4>2
        <5> QED
          BY <4>1, <5>1
      <4> QED
        BY <2>3, <3>1, <3>2, <4>1, <4>2
    <3> QED
      BY <3>2 DEF StoresLast
  <2> QED
    BY <1>4, <2>4, <2>5, TodoMoves
<1> QED
  BY <1>1, <1>2, <1>3, <1>4

--------------------------------------------------------------------------------
(* Every event of ours that the observer took is handled.                  *)

LEMMA HandledRestart ==
  ASSUME Inv, CoveredCursors, [Next]_vars, Restart
  PROVE  TakenHandled'
<1>1. PICK h : h = RecoveredCursor(binding.owned # {} /\ \A u \in binding.owned : Over(u))
  OBVIOUS
<1>2. /\ binding' = [binding EXCEPT !.cursor = h] /\ obs' = Observer("read", h + 1)
      /\ ownedSubmissions' = binding.owned /\ log' = log
  BY <1>1 DEF Restart, engine
<1>3. binding \in BindingType /\ binding.cursor \in Nat /\ Len(log) \in Nat
  BY CursorsTyped DEF Inv, TypeOK
<1>4. h \in Nat /\ binding'.cursor = h
  BY <1>1, <1>2, <1>3 DEF RecoveredCursor, BindingType
<1>5. \A e \in Events' : e \in Nat /\ (Taken(e)' <=> e <= h)
  <2>1. obs'.pc = "read" /\ obs'.at = h + 1
    BY <1>2 DEF Observer
  <2>2. \A e \in Events' : e \in Nat
    BY DEF Events
  <2> QED
    BY <1>4, <2>1, <2>2 DEF Taken, Working
<1>6. ASSUME NEW t \in ownedSubmissions', NEW e \in Events', log'[e].turn = t,
             log'[e].kind \in Projecting, ~Repeated(e)', Taken(e)'
      PROVE  Handled(t, e)'
  <2>1. e <= h
    BY <1>5, <1>6
  <2>2. t \in binding.owned /\ Covered(binding.cursor, t)'
    BY <1>2, <1>6, CoveredRestart
  <2>3. ShownBy(h, e)'
    <3>1. Covered(h, t)'
      BY <1>4, <2>2, CoveredFrom
    <3> QED
      BY <1>6, <2>1, <3>1 DEF Covered, Projecting
  <2>4. CASE e \in Accounted'
    BY <2>4 DEF Handled, Done
  <2>5. CASE \E f \in Events' : f \in Accounted' /\ f <= h /\ PartOf(e, f)'
    <3>1. PICK f \in Events' : f \in Accounted' /\ f <= h /\ PartOf(e, f)'
      BY <2>5
    <3>2. Taken(f)' /\ Done(f)'
      BY <1>5, <3>1 DEF Done
    <3> QED
      BY <3>1, <3>2 DEF Handled
  <2> QED
    BY <2>3, <2>4, <2>5 DEF ShownBy
<1> QED
  BY <1>6 DEF TakenHandled, Projecting

(* While the observer takes no event.                                      *)
LEMMA HandledStays ==
  ASSUME Inv, Ahead, Todo(obs), TakenHandled, [Next]_vars, ~Crash, ~Restart, ~Observe, ~Woken
  PROVE  TakenHandled'
<1>0. TypeOK
  BY DEF Inv
<1>1. SUFFICES ASSUME NEW t \in ownedSubmissions', NEW e \in Events', log'[e].turn = t,
                      log'[e].kind \in Projecting, ~Repeated(e)', Taken(e)'
               PROVE  Handled(t, e)'
  BY DEF TakenHandled, Projecting
<1>2. e \in Events /\ e \in Nat /\ log'[e] = log[e] /\ obs'.pc # "stopped" /\ Taken(e)
  BY <1>1, TakenBack
<1>3. t \in ownedSubmissions
  <2>1. ASSUME t \notin ownedSubmissions PROVE FALSE
    <3>1. Unseen(t)
      BY <1>1, <2>1, Joins
    <3> QED
      BY <1>1, <1>2, <3>1 DEF Unseen
  <2> QED
    BY <2>1
<1>4. t \in Turns /\ ~Repeated(e)
  BY <1>0, <1>1, <1>2, <1>3, RepeatedKept DEF TypeOK
<1>5. Handled(t, e)
  BY <1>1, <1>2, <1>3, <1>4 DEF TakenHandled
<1>6. CASE Done(e)
  BY <1>2, <1>6, DoneKept DEF Handled
<1>7. ASSUME NEW f \in Events, Taken(f), PartOf(e, f), Done(f) \/ Awaits(t, f) PROVE Handled(t, e)'
  <2>1. f \in Events' /\ f \in Nat /\ PartOf(e, f)' /\ Taken(f)' /\ log[f].turn = t
    <3>1. f \in Events' /\ f \in Nat /\ PartOf(e, f)'
      BY <1>0, <1>2, <1>7, LogKeeps, PartOfKept
    <3>2. Taken(f)'
      BY <1>2, <1>7, <3>1, TakenKept
    <3> QED
      BY <1>1, <1>2, <1>7, <3>1, <3>2 DEF PartOf
  <2>2. CASE Done(f)
    <3>1. Done(f)'
      BY <2>2, DoneKept
    <3> QED
      BY <2>1, <3>1 DEF Handled
  <2>3. CASE Awaits(t, f)
    <3>1. Awaits(t, f)'
      BY <1>4, <1>7, <2>1, <2>3, AwaitsKept
    <3> QED
      BY <2>1, <3>1 DEF Handled
  <2> QED
    BY <1>7, <2>2, <2>3
<1> QED
  BY <1>5, <1>6, <1>7 DEF Handled

(* An event that the observer comes to.                                    *)
LEMMA HandledNow ==
  ASSUME Inv, Ids, ReceiptsStored, [Next]_vars, Observe \/ Woken,
         NEW t \in Turns, NEW e \in Events, e = obs.at, log[e].turn = t, t \in ownedSubmissions,
         log[e].kind \in Projecting, ~Repeated(e), Taken(e)'
  PROVE  Handled(t, e)'
<1>0. /\ TypeOK /\ obs.pc \in Reading /\ obs.todo = <<>> /\ log' = log /\ e \in Nat /\ obs \in ObsType
      /\ sinks \in [Turns -> SinkType] /\ receipts' = receipts /\ e \in Events'
  <2>1. log' = log /\ receipts' = receipts
    BY ObserverMoves DEF ObserveUnchanged, engine, runtime
  <2> QED
    BY <2>1, ObserverMoves, ReadingNothing, CursorsTyped DEF Inv, TypeOK, Events
<1>1. CASE Waits
  <2>1. obs'.pc \in {"wait", "waitOwner"} /\ obs'.at = e
    BY <1>0, <1>1 DEF Waits, Waiting, ObsType
  <2>2. ~Taken(e)'
    BY <1>0, <2>1 DEF Taken, Working
  <2> QED
    BY <2>2
<1>2. CASE Passes(e) /\ (t \in Turns => ~sinks[t].live)
  BY <1>2, PassesOthers
<1>3. CASE Completes(e, t)
  BY <1>3, CompletesAccounted DEF Handled, Done
<1>4. CASE ShowsText(e, t)
  <2>1. t \in undurableSinks' /\ obs'.pc = "read" /\ log[e].kind = "text"
    BY <1>4 DEF ShowsText, Observer
  <2>2. sinks'[t].text = e
    <3>1. sinks'[t] = [SinkFor(t) EXCEPT !.text = e]
      BY <1>0, <1>4 DEF ShowsText
    <3>2. SinkFor(t) \in SinkType
      BY <1>0, TypedValues DEF SinkFor
    <3> QED
      BY <3>1, <3>2 DEF SinkType
  <2>3. Awaits(t, e)'
    BY <2>1, <2>2 DEF Awaits, Working
  <2>4. PartOf(e, e)'
    BY <1>0, <2>1, PartOfSelf, PartOfKept
  <2> QED
    BY <1>0, <2>3, <2>4 DEF Handled
<1>5. CASE Plans(e, t)
  <2>1. PICK y, q : Form(e, SinkFor(t), y, q) /\ obs' = Apply1(e, q)
    BY <1>5 DEF Plans
  <2>2. obs'.todo = q
    BY <2>1 DEF Apply1
  <2>3. log[e].kind # "start"
    BY DEF Projecting
  <2>4. StoredBy(q, e)
    BY <1>0, <2>1, <2>3, PlanAscends
  <2> QED
    BY <1>0, <2>2, <2>4, PlanStores DEF Handled
<1>6. ~Ignores(e, t)
  BY <1>0, IgnoredRepeats DEF Ignores
<1> QED
  BY <1>1, <1>2, <1>3, <1>4, <1>5, <1>6, ObserverForms

(* A text that its sink has, when the observer comes to an event.          *)
LEMMA HandledText ==
  ASSUME TextsFlushed, Inv, Once, OpenText, Ids, Todo(obs), ReceiptsStored, [Next]_vars, Observe \/ Woken,
         NEW t \in Turns, t \in ownedSubmissions, NEW x \in Events, Taken(x), Awaits(t, x)
  PROVE  \E f \in Events : /\ Taken(f)' /\ (Done(f)' \/ Awaits(t, f)')
                           /\ \A g \in Events : PartOf(g, x) => PartOf(g, f)
<1>1. PICK e, u : e = obs.at /\ u = log[e].turn
  OBVIOUS
<1>0. /\ TypeOK /\ obs.pc \in Reading /\ log' = log /\ e \in Nat /\ e \in Events /\ Events' = Events
      /\ receipts' = receipts /\ sinks[t].text = x /\ x # 0 /\ sinks[t].live /\ t \in undurableSinks
      /\ life' = "up" /\ ~failed' /\ obs \in ObsType
  <2>1. log' = log /\ receipts' = receipts /\ life' = life /\ failed' = failed
    BY ObserverMoves DEF ObserveUnchanged, engine, runtime
  <2>2. life = "up" /\ ~failed /\ TypeOK /\ obs.pc \in Reading /\ e \in Events
    BY <1>1, ObserverMoves DEF Inv, ObsShape
  <2>3. sinks[t].text = x /\ x # 0 /\ t \in undurableSinks
    BY <2>2 DEF Awaits, Events
  <2>4. sinks[t].live
    BY <2>3 DEF OpenText, OpenAt
  <2>5. Events' = Events /\ e \in Nat
    BY <2>1, <2>2 DEF Events
  <2>6. obs \in ObsType
    BY <2>2 DEF TypeOK
  <2>7. life' = "up" /\ ~failed'
    BY <2>1, <2>2
  <2> QED
    BY <2>1, <2>2, <2>3, <2>4, <2>5, <2>6, <2>7
<1>x. x \in Nat /\ log[x].turn = t /\ log[x].kind = "text" /\ x < e
  <2>1. x < e
    BY <1>0, <1>1 DEF Inv, ObsShape
  <2> QED
    BY <1>0, <2>1, TextIs
<1>y. ASSUME obs'.pc # "stopped" PROVE Taken(x)'
  <2>1. ~Crash /\ ~Restart
    BY <1>0, ObserverMoves DEF Crash, Restart
  <2> QED
    BY <1>x, <1>y, <2>1, TakenKept
<1>z. ASSUME log[e].turn = t, log[e].kind \in Terminal \cup {"text"}
      PROVE  \A g \in Events : PartOf(g, x) => PartOf(g, e)
  <2>1. \A f \in Events : log[f].turn = t /\ x < f => e <= f \/ Repeated(f)
    BY <1>0, <1>1 DEF OpenText, OpenAt, Again, Reading
  <2> QED
    BY <1>0, <1>x, <1>z, <2>1, PartOfOn
<1> DEFINE Goal == \E f \in Events : /\ Taken(f)' /\ (Done(f)' \/ Awaits(t, f)')
                                     /\ \A g \in Events : PartOf(g, x) => PartOf(g, f)
<1>2. ASSUME t \in undurableSinks', sinks'[t] = sinks[t], Working' => log[obs'.at].turn # t, obs'.pc # "stopped"
      PROVE  Goal
  <2>1. Awaits(t, x)'
    BY <1>0, <1>2 DEF Awaits
  <2> QED
    BY <1>2, <1>y, <2>1
<1>3. ASSUME log[e].turn = t, log[e].kind \in Terminal \cup {"text"}, Taken(e)', Done(e)' \/ Awaits(t, e)'
      PROVE  Goal
  BY <1>0, <1>3, <1>z
<1>s. ASSUME Done(x)', obs'.pc # "stopped" PROVE Goal
  BY <1>s, <1>y
<1>4. CASE UNCHANGED <<sinks, undurableSinks>> /\ obs'.pc \in Reading
  BY <1>0, <1>2, <1>4 DEF Working, Reading
<1>5. CASE u # t /\ obs'.at = e /\ obs'.pc # "stopped" /\ t \in undurableSinks' /\ sinks'[t] = sinks[t]
  BY <1>0, <1>1, <1>2, <1>5
<1>6. CASE u # t /\ obs'.pc = "read" /\ t \in undurableSinks' /\ sinks'[t] = sinks[t]
  BY <1>2, <1>6 DEF Working
<1>7. CASE u # t
  <2>1. \/ UNCHANGED <<sinks, undurableSinks>> /\ (obs'.pc \in Reading \/ (obs'.pc = "apply" /\ obs'.at = e))
        \/ undurableSinks \ {u} \subseteq undurableSinks' /\ sinks'[t] = sinks[t]
             /\ (obs'.pc = "read" \/ (obs'.pc = "apply" /\ obs'.at = e))
    BY <1>1, <1>7, ObserverTools
  <2> QED
    BY <1>0, <1>4, <1>5, <1>6, <1>7, <2>1
<1>8. CASE u = t /\ Waits
  <2>1. UNCHANGED <<sinks, undurableSinks>> /\ obs'.pc \in {"wait", "waitOwner"}
    BY <1>0, <1>8 DEF Waits, Waiting, ObsType
  <2> QED
    BY <1>4, <2>1 DEF Reading
<1>9. CASE u = t /\ Completes(e, t)
  <2>1. e \in Accounted' /\ log[e].kind \in Terminal /\ obs' = Observer("read", e + 1)
    BY <1>0, <1>9, CompletesAccounted DEF Completes
  <2>2. obs'.pc = "read" /\ obs'.at = e + 1
    BY <2>1 DEF Observer
  <2>3. Taken(e)' /\ Done(e)'
    BY <1>0, <2>1, <2>2 DEF Taken, Done
  <2> QED
    BY <1>0, <1>1, <1>3, <1>9, <2>1, <2>3
<1>10. CASE u = t /\ ShowsText(e, t)
  <2>1. /\ log[e].kind = "text" /\ obs'.pc = "read" /\ obs'.at = e + 1 /\ t \in undurableSinks'
        /\ sinks' = [sinks EXCEPT ![t] = [SinkFor(t) EXCEPT !.text = e]]
    BY <1>10 DEF ShowsText, Observer
  <2>2. sinks'[t].text = e
    <3>1. sinks \in [Turns -> SinkType] /\ SinkFor(t) \in SinkType
      BY <1>0, TypedValues DEF SinkFor, TypeOK
    <3> QED
      BY <2>1, <3>1 DEF SinkType
  <2>3. Awaits(t, e)' /\ Taken(e)'
    BY <1>0, <2>1, <2>2 DEF Awaits, Working, Taken
  <2> QED
    BY <1>1, <1>3, <1>10, <2>1, <2>3
<1>11. CASE u = t /\ Plans(e, t)
  <2>1. PICK y, q : Form(e, SinkFor(t), y, q) /\ obs' = Apply1(e, q)
    BY <1>11 DEF Plans
  <2>2. obs'.todo = q /\ obs'.pc = "apply" /\ obs'.at = e
    BY <2>1 DEF Apply1
  <2>3. SinkFor(t).text = x
    BY <1>0 DEF SinkFor
  <2>4. /\ log[e].kind # "start" => StoredBy(q, e)
        /\ log[e].kind \in {"start", "call"} => StoredBy(q, x)
    BY <1>0, <1>1, <2>1, <2>3, PlanAscends
  <2>5. CASE log[e].kind \in {"start", "call"}
    <3>1. Done(x)'
      BY <1>0, <2>2, <2>4, <2>5, PlanStores
    <3> QED
      BY <1>s, <2>2, <3>1
  <2>6. CASE log[e].kind = "result"
    <3>1. sinks[t].text = 0
      <4>1. ~Ignored(e, sinks[t])
        BY <1>0, <1>11 DEF Plans, SinkFor
      <4> QED
        BY <1>0, <1>1, <1>11, <2>6, <4>1, ResultClear
    <3> QED
      BY <1>0, <3>1
  <2>7. CASE log[e].kind \in Terminal
    <3>1. Done(e)'
      BY <1>0, <2>2, <2>4, <2>7, PlanStores DEF Terminal
    <3>2. Taken(e)'
      BY <2>2 DEF Taken, Working
    <3> QED
      BY <1>0, <1>1, <1>3, <1>11, <2>7, <3>1, <3>2
  <2> QED
    BY <2>1, <2>5, <2>6, <2>7 DEF Form
<1>12. u = t => ~(Passes(e) /\ (t \in Turns => ~sinks[t].live))
  BY <1>0
<1>13. CASE u = t /\ Ignores(e, t) /\ UNCHANGED undurableSinks
  <2>1. obs'.pc = "read" /\ UNCHANGED <<sinks, undurableSinks>>
    BY <1>13 DEF Ignores, Observer
  <2> QED
    BY <1>4, <2>1 DEF Reading
<1> QED
  BY <1>1, <1>7, <1>8, <1>9, <1>10, <1>11, <1>12, <1>13, ObserverForms

LEMMA HandledTakes ==
  ASSUME TextsFlushed, Inv, Once, OpenText, Ids, Todo(obs), ReceiptsStored, TakenHandled, [Next]_vars,
         Observe \/ Woken
  PROVE  TakenHandled'
<1>0. TypeOK /\ ~Crash /\ ~Restart /\ log' = log /\ ownedSubmissions' \subseteq ownedSubmissions
  <2>1. obs.pc \in Reading /\ log' = log /\ life' = life
    BY ObserverMoves DEF ObserveUnchanged, engine, runtime
  <2>2. life = "up"
    BY <2>1 DEF Inv, ObsShape
  <2> QED
    BY <2>1, <2>2, ObserverTools DEF Crash, Restart, Inv, Owns
<1>1. SUFFICES ASSUME NEW t \in ownedSubmissions', NEW e \in Events', log'[e].turn = t,
                      log'[e].kind \in Projecting, ~Repeated(e)', Taken(e)'
               PROVE  Handled(t, e)'
  BY DEF TakenHandled, Projecting
<1>2. /\ e \in Events /\ e \in Nat /\ log'[e] = log[e] /\ obs'.pc # "stopped"
      /\ Taken(e) \/ e = obs.at
  BY <1>0, <1>1, TakenBack
<1>3. t \in ownedSubmissions /\ t \in Turns /\ ~Repeated(e)
  BY <1>0, <1>1, <1>2, RepeatedKept DEF TypeOK
<1>4. CASE e = obs.at
  BY <1>1, <1>2, <1>3, <1>4, HandledNow
<1>5. CASE Taken(e)
  <2>1. Handled(t, e)
    BY <1>1, <1>2, <1>3, <1>5 DEF TakenHandled
  <2>2. CASE Done(e)
    BY <1>0, <1>2, <2>2, DoneKept DEF Handled
  <2>3. ASSUME NEW f \in Events, Taken(f)', PartOf(e, f), Done(f)' \/ Awaits(t, f)' PROVE Handled(t, e)'
    <3>1. f \in Events' /\ PartOf(e, f)'
      BY <1>0, <1>2, <2>3, LogKeeps, PartOfKept
    <3> QED
      BY <2>3, <3>1 DEF Handled
  <2>4. ASSUME NEW f \in Events, Taken(f), PartOf(e, f), Done(f) PROVE Handled(t, e)'
    <3>1. Done(f)' /\ f \in Nat
      BY <1>0, <2>4, DoneKept, LogKeeps
    <3>2. Taken(f)'
      BY <1>0, <1>2, <2>4, <3>1, TakenKept
    <3> QED
      BY <2>3, <2>4, <3>1, <3>2
  <2>5. ASSUME NEW f \in Events, Taken(f), PartOf(e, f), Awaits(t, f) PROVE Handled(t, e)'
    <3>1. PICK h \in Events : /\ Taken(h)' /\ (Done(h)' \/ Awaits(t, h)')
                              /\ \A g \in Events : PartOf(g, f) => PartOf(g, h)
      BY <1>3, <2>5, HandledText
    <3> QED
      BY <1>2, <2>3, <2>5, <3>1
  <2> QED
    BY <2>1, <2>2, <2>4, <2>5 DEF Handled
<1> QED
  BY <1>2, <1>4, <1>5

LEMMA TakenHandledKept ==
  ASSUME TextsFlushed, Inv, Order, Ahead, CoveredCursors, ReceiptsStored, TakenHandled, [Next]_vars
  PROVE  TakenHandled'
<1>1. Once /\ OpenText /\ Ids /\ Todo(obs)
  BY DEF Order, Plain
<1>2. CASE Crash
  <2>1. ownedSubmissions' = {}
    BY <1>2 DEF Crash
  <2> QED
    BY <2>1 DEF TakenHandled
<1>3. CASE Restart
  BY <1>3, HandledRestart
<1>4. CASE Observe \/ Woken
  BY <1>1, <1>4, HandledTakes
<1>5. CASE ~Crash /\ ~Restart /\ ~Observe /\ ~Woken
  BY <1>1, <1>5, HandledStays
<1> QED
  BY <1>2, <1>3, <1>4, <1>5

LEMMA InitCovered ==
  ASSUME Init
  PROVE  CoveredCursors /\ TakenHandled /\ StoresLast /\ ReceiptsStored
<1>1. /\ Events = {} /\ obs.todo = <<>> /\ ownedSubmissions = {} /\ binding.owned = {} /\ writes = <<>>
      /\ receipts = {}
  BY DEF Init, Events, Stopped, Observer
<1>2. DOMAIN obs.todo = {} /\ DOMAIN writes = {}
  BY <1>1
<1>3. CoveredCursors
  BY <1>1, <1>2 DEF CoveredCursors
<1>4. TakenHandled
  BY <1>1 DEF TakenHandled
<1>5. StoresLast
  BY <1>2 DEF StoresLast
<1> QED
  BY <1>1, <1>3, <1>4, <1>5 DEF ReceiptsStored

LEMMA CoveredCursorsKept ==
  ASSUME Inv, Order, Ahead, TakenHandled, StoresLast, CoveredCursors, [Next]_vars
  PROVE  CoveredCursors'
<1>1. Once /\ Todo(obs) /\ OpenText /\ InTurn /\ Separate
  BY DEF Order, Plain, InTurn
<1>2. \A t \in binding'.owned \cup ownedSubmissions' : Covered(binding.cursor, t)'
  BY CoveredBinding
<1>3. \A i \in DOMAIN writes' : \A t \in writes'[i].owned \cup ownedSubmissions' : Covered(writes[i].cursor, t)'
  BY <1>1, CoveredWrites
<1>4. \A t \in ownedSubmissions' : Covered(terminalCursor, t)'
  BY <1>1, CoveredHeld
<1> QED
  BY <1>2, <1>3, <1>4 DEF CoveredCursors

LEMMA CoveredShown ==
  ASSUME Inv, CoveredCursors
  PROVE  CursorCovered
<1>1. binding.cursor \in Nat /\ Len(log) \in Nat /\ binding.cursor <= Len(log)
  BY CursorTypes, CursorsTyped DEF Inv
<1>2. SUFFICES ASSUME NEW e \in 1..binding.cursor, log[e].turn \in binding.owned \cup ownedSubmissions,
                      log[e].kind \in Projecting, ~Repeated(e)
               PROVE  Shown(e)
  BY DEF CursorCovered
<1>3. e \in Events /\ e <= binding.cursor
  BY <1>1 DEF Events
<1>4. ShownBy(binding.cursor, e)
  BY <1>2, <1>3 DEF CoveredCursors, Covered
<1> QED
  BY <1>4 DEF ShownBy, Shown

\* Whatever a durable cursor passes of a turn that is ours is accounted for: it
\* is in the transcript, or in the stream that the agent reads, or was given up
\* in a way that the code names, or it is part of a later message that is.  A
\* restart, which reads on behind the cursor, loses no message.  It is so in every
\* state whose log has its texts flushed: a result between the texts of a message
\* is committed with the turn no longer undurable (#commit deletes the turn of the
\* event from undurableSinks), whatever text its sink still has.
THEOREM CursorIsCovered == Spec => [](TextsFlushed => CursorCovered)
<1> DEFINE Cover == CoveredCursors /\ TakenHandled /\ StoresLast
           Base == Plain /\ Ahead /\ ReceiptsStored
<1>1. Init => Base /\ (TextsFlushed => Order /\ Cover)
  BY OrderAtFirst, InitTools, InitCovered DEF Order
<1>2. Inv /\ Base /\ (TextsFlushed => Order /\ Cover) /\ [Next]_vars
        => Base' /\ (TextsFlushed => Order /\ Cover)'
  <2>1. SUFFICES ASSUME Inv, Base, TextsFlushed => Order /\ Cover, [Next]_vars
                 PROVE  Base' /\ (TextsFlushed => Order /\ Cover)'
    OBVIOUS
  <2>2. Plain'
    BY <2>1, PlainKept
  <2>3. Ahead'
    BY <2>1, AskedBeforeKept, LateBeforeKept, InDoubtBeforeKept DEF Ahead
  <2>4. ReceiptsStored'
    BY <2>1, ReceiptsStoredKept
  <2>5. ASSUME TextsFlushed' PROVE Order' /\ Cover'
    <3>1. TextsFlushed
      BY <2>1, <2>5, FlushedBefore DEF Inv
    <3>2. Order /\ CoveredCursors /\ TakenHandled /\ StoresLast /\ Ahead /\ ReceiptsStored /\ Ids /\ Todo(obs)
      BY <2>1, <3>1 DEF Order, Plain
    <3>3. Order'
      BY <2>1, <3>1, <3>2, OrderKept
    <3>4. CoveredCursors'
      BY <2>1, <3>2, CoveredCursorsKept
    <3>5. TakenHandled'
      BY <2>1, <3>1, <3>2, TakenHandledKept
    <3>6. StoresLast'
      BY <2>1, <3>2, StoresLastKept
    <3> QED
      BY <3>3, <3>4, <3>5, <3>6
  <2> QED
    BY <2>2, <2>3, <2>4, <2>5
<1>3. Inv /\ (TextsFlushed => Order /\ Cover) => (TextsFlushed => CursorCovered)
  BY CoveredShown
<1> HIDE DEF Cover, Base
<1> QED
  BY <1>1, <1>2, <1>3, InvCorrect, PTL DEF Spec
=================================================================================
