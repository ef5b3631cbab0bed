---------------------------- MODULE TurnBridgeProofs ----------------------------
(***************************************************************************)
(* Proofs about TurnBridge: its types, that no turn this process knows of  *)
(* runs unfollowed, that the message a stream ended with is stored before  *)
(* the cursor passes it, and that no message is stored twice.              *)
(***************************************************************************)
EXTENDS TurnBridge, SequenceTheorems, FiniteSetTheorems, TLAPS

--------------------------------------------------------------------------------
(* The inductive invariant.                                                *)

\* The observer reads the event at obs.at, and is not applying one.
Reading == {"read", "wait", "waitOwner"}

\* The ops that are left concern the event they name, none is ahead of the
\* observer, and the sink is closed last, at the event that ends its turn.
Planned(o) ==
  \A i \in DOMAIN o.todo :
    /\ o.todo[i].t = log[o.todo[i].e].turn /\ o.todo[i].e <= o.at
    /\ o.todo[i].op = "call" => o.todo[i].t \in Turns
    /\ o.todo[i].op = "close" => /\ i = Len(o.todo) /\ o.todo[i].e = o.at
                                 /\ o.todo[i].t \in Turns /\ log[o.at].kind \in Terminal

\* An observer that waits or works has an event, and works exactly while ops
\* are left.
ObsOK(o) ==
  /\ o \in ObsType
  /\ o.pc # "stopped" => o.at >= 1
  /\ o.pc \in {"wait", "waitOwner", "apply", "write"} => o.at \in Events
  /\ o.woken => o.pc \in {"wait", "waitOwner"}
  /\ o.pc \in {"apply", "write"} <=> (o.todo # <<>>)
  /\ Planned(o)

\* The observer, the life of the bridge, and the text the sinks hold of the
\* events before the one it is at.
ObsShape ==
  /\ ObsOK(obs)
  /\ obs.pc \in Reading => life = "up" /\ ~failed
  /\ life \in {"committing", "down"} => obs.pc = "stopped"
  /\ \A t \in Turns : /\ obs.pc \in Reading => sinks[t].text < obs.at
                      /\ Working => sinks[t].text <= obs.at

\* The stream call, its attempt, and the sink it opened.
CallShape ==
  /\ pc \in {"commit", "ready"} => request.digest \in Prompts
  /\ pc \in {"submit", "own", "streaming"} => request.id \in Turns
  /\ pc = "submit" => call \in AttemptType /\ call.id = request.id
  /\ message # 0 => pc = "ended"
  /\ life \in {"committing", "down"} => ~inFlight /\ late # "own"
  /\ \A t \in Turns : /\ sinks[t].adopted => sinks[t].live
                      /\ sinks[t].live /\ ~sinks[t].adopted /\ ~sinks[t].left
                           => pc = "streaming" /\ request.id = t

\* Nothing carries the id of a submission that was not made yet.
Made ==
  /\ Range(admitted) \subseteq 1..made /\ sent \subseteq 1..made
  /\ \A e \in Events : /\ log[e].turn \in {Foreign} \cup Range(admitted)
                       /\ log[e].kind \in {"session", "foreign"} => log[e].turn = Foreign
  /\ ownedSubmissions \subseteq 1..made /\ binding.owned \subseteq 1..made
  /\ correlated \subseteq 1..made
  /\ \A i \in DOMAIN writes : writes[i].owned \subseteq 1..made
  /\ \A t \in Turns : sinks[t].live => t <= made
  /\ pendingSubmit.id <= made /\ call.id <= made /\ request.id <= made

\* Whoever writes the binding writes it once, and waits for it.
Queue ==
  /\ \A i, j \in DOMAIN writes : writes[i].by = writes[j].by => i = j
  /\ \A i \in DOMAIN writes :
       /\ writes[i].by = "own" => pc = "own" /\ writes[i].owned = {request.id}
       /\ writes[i].by = "late" => late = "own" /\ writes[i].owned = {pendingSubmit.id}
       /\ writes[i].by = "held" => pc = "commit"
       /\ writes[i].by = "obs" => obs.pc = "write"
       /\ writes[i].by = "close" => life = "committing"

\* The observer took the event at i.
Taken(i) == obs.pc # "stopped" /\ (i < obs.at \/ (i = obs.at /\ Working))

\* The turn t ended, has no sink, and the observer is past all of its events.
Past(t) ==
  /\ Over(t) /\ ~sinks[t].live
  /\ obs.pc = "stopped" \/ \A i \in Events : log[i].turn = t => i < obs.at
Closing(t) == \E i \in DOMAIN obs.todo : obs.todo[i].op = "close" /\ obs.todo[i].t = t

\* This process showed nothing of the turn t, and does not own it.
Unseen(t) ==
  /\ t \notin ownedSubmissions /\ ~sinks[t].live /\ t \notin adoptedTerminalTurnIds /\ ~Closing(t)
  /\ \A i \in Events : log[i].turn = t => ~Taken(i)
Asked == pc \in {"submit", "own"}

\* The turn t was seen to end, or nobody here knows that it was started.
Fresh(t) == t \in adoptedTerminalTurnIds \/ (Unseen(t) /\ t \notin correlated)

\* The attempt in doubt: while its submission, or the recovery of it, may still
\* be answered, the observer has not shown its turn as one of somebody else,
\* unless it showed it to the end.
Attempts ==
  /\ late # "none" => /\ pendingSubmit # NoAttempt /\ pendingSubmit.id \in recoveringAfterAbort
                      /\ ~Asked
  /\ late = "wait" => call = pendingSubmit
  /\ Asked => /\ pendingSubmit.id \in {0, request.id}
              /\ pendingSubmit.id \notin recoveringAfterAbort
              /\ ~obs.woken
  /\ pc = "submit" => pendingSubmit \in {NoAttempt, call} /\ Fresh(request.id)
  /\ pc = "own" => Unseen(request.id)
  /\ pendingSubmit # NoAttempt /\ life \in {"up", "closing"} /\ pc # "own" =>
       Fresh(pendingSubmit.id) \/ (late = "none" /\ pendingSubmit.id \in recoveringAfterAbort)
  /\ obs.woken /\ obs.pc = "waitOwner" /\ pendingSubmit # NoAttempt => ~Unseen(pendingSubmit.id)
  /\ \A t \in adoptedTerminalTurnIds : Past(t)
  /\ \A a \in observedSubmitAttempts : a.id \in adoptedTerminalTurnIds
  /\ \A t \in Turns : sinks[t].live /\ ~sinks[t].adopted => pendingSubmit.id # t

\* The observer is at most one event ahead of the log, and nothing follows the
\* end of a turn.
Reach ==
  /\ obs.pc # "stopped" => obs.at <= Len(log) + 1
  /\ \A i, j \in Events :
       log[i].kind \in Terminal /\ log[i].turn \in Turns /\ log[j].turn = log[i].turn => j <= i

Inv == TypeOK /\ ObsShape /\ CallShape /\ Made /\ Queue /\ Reach /\ Attempts

\* A turn that this process knows to run is followed by a sink of its own, or is
\* about to be.
Followed ==
  \A t \in correlated :
    \/ Over(t) \/ t \in cancelled
    \/ sinks[t].live /\ ~sinks[t].left /\ ~sinks[t].adopted
    \/ pc = "own" /\ request.id = t

\* No cursor is beyond x: not the durable one, nor the one held back, nor one
\* that is being written.
Reached(x) ==
  /\ binding.cursor <= x /\ terminalCursor <= x
  /\ \A i \in DOMAIN writes : writes[i].cursor <= x
Bound ==
  /\ obs.pc \in Reading => Reached(obs.at - 1)
  /\ Working => Reached(obs.at)

\* While the message of a turn is not stored, the cursor of its end is held
\* back, and no write under way reaches it.
HeldInv ==
  message # 0 /\ life = "up" =>
    /\ terminalCursor # 0
    /\ binding.cursor < message
    /\ \A i \in DOMAIN writes : writes[i].cursor < message

--------------------------------------------------------------------------------
(* Sequences.                                                              *)

USE DEF Turns, Prompts, NoPrompt, Foreign
LEMMA Bounds == MaxTurns \in Nat /\ MaxPrompts \in Nat
BY BridgeAssumption
USE Bounds

LEMMA SeqFacts ==
  ASSUME NEW S, NEW q \in Seq(S), q # <<>>
  PROVE  /\ Head(q) \in S /\ Head(q) = q[1] /\ 1 \in DOMAIN q /\ DOMAIN q = 1..Len(q)
         /\ Tail(q) \in Seq(S) /\ Len(q) \in Nat /\ Len(q) >= 1
         /\ Len(q) = 1 \/ Len(q) > 1
         /\ Len(q) > 1 => Tail(q) # <<>>
         /\ Len(Tail(q)) = Len(q) - 1
         /\ \A i \in DOMAIN Tail(q) : /\ i + 1 \in DOMAIN q /\ Tail(q)[i] = q[i + 1]
                                      /\ i + 1 = Len(q) => i = Len(Tail(q))
<1>1. /\ Len(q) \in Nat /\ Len(q) >= 1 /\ DOMAIN q = 1..Len(q) /\ Head(q) \in S /\ Head(q) = q[1]
      /\ Tail(q) \in Seq(S) /\ Len(Tail(q)) = Len(q) - 1
      /\ \A i \in 1..(Len(q) - 1) : Tail(q)[i] = q[i + 1]
  OBVIOUS
<1>2. DOMAIN Tail(q) = 1..(Len(q) - 1)
  BY <1>1
<1>3. Len(q) = 1 \/ Len(q) > 1
  BY <1>1
<1>4. Len(q) > 1 => Tail(q) # <<>>
  <2>1. Len(q) > 1 => Len(Tail(q)) # 0
    BY <1>1
  <2> QED
    BY <2>1
<1> QED
  BY <1>1, <1>2, <1>3, <1>4

LEMMA AppendFacts ==
  ASSUME NEW S, NEW q \in Seq(S), NEW x \in S
  PROVE  /\ Append(q, x) \in Seq(S) /\ Len(Append(q, x)) = Len(q) + 1 /\ Len(q) \in Nat
         /\ DOMAIN q = 1..Len(q) /\ DOMAIN Append(q, x) = DOMAIN q \cup {Len(q) + 1}
         /\ \A i \in DOMAIN q : Append(q, x)[i] = q[i] /\ i # Len(q) + 1
         /\ Append(q, x)[Len(q) + 1] = x
OBVIOUS

--------------------------------------------------------------------------------
(* The observer stays well formed.                                         *)

Types == <<Events, OpType, SinkType, WriteType, BindingType, RequestType, ObsType, Len(log)>>

LEMMA SameTypes ==
  ASSUME log' = log
  PROVE  Types' = Types
BY DEF Types, Events, OpType, SinkType, WriteType, BindingType, RequestType, ObsType

LEMMA SameObs ==
  ASSUME log' = log
  PROVE  ObsOK(obs)' <=> ObsOK(obs')
<1>1. ObsType' = ObsType /\ Events' = Events
  BY SameTypes DEF Types
<1>2. Planned(obs)' <=> Planned(obs')
  BY DEF Planned
<1> QED
  BY <1>1, <1>2 DEF ObsOK

LEMMA ObserverOK ==
  ASSUME NEW n \in Nat
  PROVE  /\ n >= 1 => ObsOK(Observer("read", n))
         /\ ObsOK(Stopped)
<1>1. <<>> \in Seq(OpType) /\ Len(<<>>) = 0
  OBVIOUS
<1>2. n >= 1 => ObsOK(Observer("read", n))
  BY <1>1 DEF ObsOK, Observer, Planned, ObsType
<1>3. ObsOK(Stopped)
  BY <1>1 DEF ObsOK, Observer, Stopped, Planned, ObsType
<1> QED
  BY <1>2, <1>3

(* The observer after an op.                                               *)
LEMMA AdvancedOK ==
  ASSUME ObsOK(obs), obs.todo # <<>>, NEW up \in BOOLEAN
  PROVE  /\ ObsOK(Advanced(up))
         /\ \/ /\ Advanced(up).pc = "apply" /\ Advanced(up).at = obs.at
               /\ Advanced(up).todo = Tail(obs.todo) /\ Len(obs.todo) > 1
            \/ (Advanced(up) = Observer("read", obs.at + 1) /\ up /\ Len(obs.todo) = 1)
            \/ (Advanced(up) = Stopped /\ ~up /\ Len(obs.todo) = 1)
         /\ ~Advanced(up).woken
<1>1. /\ obs.todo \in Seq(OpType) /\ obs.at \in Nat /\ obs \in ObsType
      /\ obs.pc \in {"apply", "write"} /\ obs.woken = FALSE /\ obs.at >= 1 /\ obs.at \in Events
  BY DEF ObsOK, ObsType
<1>2. /\ Tail(obs.todo) \in Seq(OpType) /\ Len(obs.todo) \in Nat
      /\ Len(obs.todo) = 1 \/ Len(obs.todo) > 1
      /\ Len(obs.todo) > 1 => Tail(obs.todo) # <<>>
      /\ \A i \in DOMAIN Tail(obs.todo) :
           /\ i + 1 \in DOMAIN obs.todo /\ Tail(obs.todo)[i] = obs.todo[i + 1]
           /\ i + 1 = Len(obs.todo) => i = Len(Tail(obs.todo))
  BY <1>1, SeqFacts
<1>3. CASE Len(obs.todo) > 1
  <2> DEFINE o == [obs EXCEPT !.pc = "apply", !.todo = Tail(@)]
  <2>1. /\ Advanced(up) = o /\ o \in ObsType /\ o.pc = "apply" /\ o.at = obs.at
        /\ o.todo = Tail(obs.todo) /\ o.woken = FALSE
    BY <1>1, <1>2, <1>3 DEF Advanced, ObsType
  <2>3. Planned(obs) => Planned(o)
    BY <1>2, <2>1 DEF Planned
  <2>4. o.todo # <<>>
    BY <1>2, <1>3, <2>1
  <2> HIDE DEF o
  <2> QED
    BY <1>1, <1>3, <2>1, <2>3, <2>4 DEF ObsOK
<1>4. CASE Len(obs.todo) = 1
  <2>1. Advanced(up) = IF up THEN Observer("read", obs.at + 1) ELSE Stopped
    BY <1>4 DEF Advanced
  <2>2. obs.at + 1 \in Nat /\ obs.at + 1 >= 1
    BY <1>1
  <2>3. ~Observer("read", obs.at + 1).woken /\ ~Stopped.woken
    BY DEF Observer, Stopped
  <2> QED
    BY <1>4, <2>1, <2>2, <2>3, ObserverOK
<1> QED
  BY <1>2, <1>3, <1>4

(* The observer when it is notified.                                       *)
LEMMA NotifiedOK ==
  ASSUME ObsOK(obs), NEW o \in {Notified(obs), SubmissionEnded(obs)}
  PROVE  /\ ObsOK(o) /\ o.pc = obs.pc /\ o.at = obs.at /\ o.todo = obs.todo
         /\ o.woken => o.pc \in {"wait", "waitOwner"}
         /\ (o = SubmissionEnded(obs) /\ o.woken /\ o.pc = "waitOwner") => obs.woken
<1>1. obs \in ObsType /\ obs.woken \in BOOLEAN
  BY DEF ObsOK, ObsType
<1>2. /\ o \in ObsType /\ o.pc = obs.pc /\ o.at = obs.at /\ o.todo = obs.todo
      /\ o.woken => (o.pc \in {"wait", "waitOwner"} \/ obs.woken)
      /\ (o = SubmissionEnded(obs) /\ o.woken /\ o.pc = "waitOwner") => obs.woken
  BY <1>1 DEF Notified, SubmissionEnded, ObsType
<1>3. Planned(obs) => Planned(o)
  BY <1>2 DEF Planned
<1> QED
  BY <1>2, <1>3 DEF ObsOK

LEMMA HaltedOK ==
  ASSUME ObsOK(obs)
  PROVE  /\ ObsOK(Halted)
         /\ (Halted = obs /\ Working) \/ (Halted = Stopped /\ ~Working)
BY ObserverOK DEF Halted

(* Sequences put together.                                                 *)
LEMMA JoinedTwo ==
  ASSUME NEW a, NEW b, NEW c
  PROVE  <<a, b>> \o <<c>> = <<a, b, c>>
<1> DEFINE S == {a, b, c}  r == <<a, b, c>>
<1>1. /\ <<a>> \in Seq(S) /\ <<c>> \in Seq(S) /\ <<b, c>> \in Seq(S) /\ <<a, b>> \in Seq(S)
      /\ Len(<<a>>) = 1 /\ Len(<<c>>) = 1 /\ Len(<<b, c>>) = 2 /\ Len(<<a, b>>) = 2
  OBVIOUS
<1>2. r \in Seq(S) /\ Len(r) = 3
  OBVIOUS
<1>4. <<a, b>> \o <<c>> = r
  <2> DEFINE q == <<a, b>> \o <<c>>
  <2>1. q \in Seq(S) /\ Len(q) = 3
    BY <1>1
  <2>2. q[1] = <<a, b>>[1] /\ q[2] = <<a, b>>[2] /\ q[3] = <<c>>[1]
    BY <1>1
  <2>3. q[1] = a /\ q[2] = b /\ q[3] = c
    BY <2>2
  <2>4. \A i \in 1..Len(q) : q[i] = r[i]
    BY <2>1, <2>3
  <2> QED
    BY <1>2, <2>1, <2>4, SeqEqual
<1> QED
  BY <1>4

LEMMA JoinedThree ==
  ASSUME NEW a, NEW b, NEW c
  PROVE  <<a>> \o <<b, c>> = <<a, b, c>>
<1> DEFINE S == {a, b, c}  r == <<a, b, c>>
<1>1. /\ <<a>> \in Seq(S) /\ <<c>> \in Seq(S) /\ <<b, c>> \in Seq(S) /\ <<a, b>> \in Seq(S)
      /\ Len(<<a>>) = 1 /\ Len(<<c>>) = 1 /\ Len(<<b, c>>) = 2 /\ Len(<<a, b>>) = 2
  OBVIOUS
<1>2. r \in Seq(S) /\ Len(r) = 3
  OBVIOUS
<1>3. <<a>> \o <<b, c>> = r
  <2> DEFINE q == <<a>> \o <<b, c>>
  <2>1. q \in Seq(S) /\ Len(q) = 3
    BY <1>1
  <2>2. q[1] = <<a>>[1] /\ q[2] = <<b, c>>[1] /\ q[3] = <<b, c>>[2]
    BY <1>1
  <2>3. q[1] = a /\ q[2] = b /\ q[3] = c
    BY <2>2
  <2>4. \A i \in 1..Len(q) : q[i] = r[i]
    BY <2>1, <2>3
  <2> QED
    BY <1>2, <2>1, <2>4, SeqEqual
<1> QED
  BY <1>3

LEMMA Joined ==
  ASSUME NEW a, NEW b, NEW c
  PROVE  /\ <<>> \o <<c>> = <<c>> /\ <<a>> \o <<c>> = <<a, c>> /\ <<>> \o <<b, c>> = <<b, c>>
<1> DEFINE S == {a, b, c}
<1>1. /\ <<a>> \in Seq(S) /\ <<c>> \in Seq(S) /\ <<b, c>> \in Seq(S) /\ <<a, b>> \in Seq(S)
      /\ Len(<<a>>) = 1 /\ Len(<<c>>) = 1 /\ Len(<<b, c>>) = 2 /\ Len(<<a, b>>) = 2
  OBVIOUS
<1>5. <<>> \o <<c>> = <<c>> /\ <<>> \o <<b, c>> = <<b, c>>
  BY <1>1, ConcatEmptySeq
<1>6. <<a>> \o <<c>> = <<a, c>>
  <2> DEFINE q == <<a>> \o <<c>>  p == <<a, c>>
  <2>0. p \in Seq(S) /\ Len(p) = 2
    OBVIOUS
  <2>1. q \in Seq(S) /\ Len(q) = 2
    BY <1>1
  <2>2. q[1] = <<a>>[1] /\ q[2] = <<c>>[1]
    BY <1>1
  <2>3. q[1] = a /\ q[2] = c
    BY <2>2
  <2>4. \A i \in 1..Len(q) : q[i] = p[i]
    BY <2>1, <2>3
  <2> QED
    BY <2>0, <2>1, <2>4, SeqEqual
<1> QED
  BY <1>5, <1>6

(* What the application of the event at e may have to do: ops that fit.    *)
Fits(op, e) ==
  /\ op \in OpType /\ op.t = log[op.e].turn /\ op.e <= e
  /\ op.op = "call" => op.t \in Turns
  /\ op.op = "close" => op.e = e /\ op.t \in Turns /\ log[e].kind \in Terminal
Apply1(e, todo) == [pc |-> "apply", at |-> e, woken |-> FALSE, todo |-> todo]

LEMMA TodoOK ==
  ASSUME NEW e \in Events, NEW a, NEW b, NEW c, Fits(a, e), Fits(b, e), Fits(c, e),
         a.op # "close", b.op # "close"
  PROVE  /\ ObsOK(Apply1(e, <<c>>)) /\ ObsOK(Apply1(e, <<b, c>>)) /\ ObsOK(Apply1(e, <<a, b, c>>))
<1>1. \A q \in Seq(OpType) : q # <<>> => Apply1(e, q) \in ObsType /\ e >= 1
  BY DEF Apply1, ObsType, Events
<1>2. /\ <<c>> \in Seq(OpType) /\ <<b, c>> \in Seq(OpType) /\ <<a, b, c>> \in Seq(OpType)
      /\ <<c>> # <<>> /\ <<b, c>> # <<>> /\ <<a, b, c>> # <<>>
  BY DEF Fits
<1>3. Planned(Apply1(e, <<c>>)) /\ Planned(Apply1(e, <<b, c>>)) /\ Planned(Apply1(e, <<a, b, c>>))
  BY DEF Planned, Apply1, Fits
<1> QED
  BY <1>1, <1>2, <1>3 DEF ObsOK, Apply1

LEMMA OpFits ==
  ASSUME TypeOK, NEW e \in Events, NEW x \in Events, x <= e,
         NEW k \in {"store", "call", "commit", "close"},
         k = "call" => log[x].turn \in Turns,
         k = "close" => x = e /\ log[e].turn \in Turns /\ log[e].kind \in Terminal
  PROVE  Fits(Op(k, x), e) /\ Op(k, x).op = k
<1>1. log[x] \in EventType
  BY ElementOfSeq DEF TypeOK, Events
<1>2. log[x].turn \in Turns \cup {Foreign}
  BY <1>1 DEF EventType
<1> QED
  BY <1>2 DEF Op, Fits, OpType

LEMMA AppliedOK ==
  ASSUME TypeOK, NEW e \in Events, NEW s, s.text \in 0..Len(log), s.text <= e,
         NEW k \in {"commit", "call"}, k = "call" => log[e].turn \in Turns
  PROVE  /\ ObsOK(Apply1(e, Flush(s) \o <<Op(k, e)>>)) /\ Flush(s) \o <<Op(k, e)>> # <<>>
         /\ ObsOK(Apply1(e, StoreUnlessReceipt(e) \o <<Op("commit", e)>>))
         /\ StoreUnlessReceipt(e) \o <<Op("commit", e)>> # <<>>
         /\ (log[e].turn \in Turns /\ log[e].kind \in Terminal) =>
              /\ ObsOK(Apply1(e, StoreUnlessReceipt(e) \o <<Op("commit", e), Op("close", e)>>))
              /\ StoreUnlessReceipt(e) \o <<Op("commit", e), Op("close", e)>> # <<>>
<1>0. e \in Nat /\ e >= 1
  BY DEF Events
<1>1. /\ Fits(Op(k, e), e) /\ Op(k, e).op = k
      /\ Fits(Op("commit", e), e) /\ Op("commit", e).op = "commit"
      /\ Fits(Op("store", e), e) /\ Op("store", e).op = "store"
  BY <1>0, OpFits
<1>2. /\ ObsOK(Apply1(e, Flush(s) \o <<Op(k, e)>>)) /\ Flush(s) \o <<Op(k, e)>> # <<>>
  <2>1. CASE s.text = 0
    <3>1. Flush(s) = <<>> /\ <<>> \o <<Op(k, e)>> = <<Op(k, e)>>
      BY <2>1, Joined DEF Flush
    <3>2. ObsOK(Apply1(e, <<Op(k, e)>>))
      BY <1>1, TodoOK
    <3> QED
      BY <3>1, <3>2
  <2>2. CASE s.text # 0
    <3>1. s.text \in Events
      BY <2>2 DEF Events
    <3>2. /\ Fits(Op("commit", s.text), e) /\ Op("commit", s.text).op = "commit"
          /\ Fits(Op("store", s.text), e) /\ Op("store", s.text).op = "store"
      BY <3>1, OpFits
    <3>3. Flush(s) \in {<<Op("commit", s.text)>>, <<Op("store", s.text), Op("commit", s.text)>>}
      BY <2>2, Joined DEF Flush, StoreUnlessReceipt
    <3>a. /\ <<Op("commit", s.text)>> \o <<Op(k, e)>> = <<Op("commit", s.text), Op(k, e)>>
          /\ <<Op("store", s.text), Op("commit", s.text)>> \o <<Op(k, e)>>
               = <<Op("store", s.text), Op("commit", s.text), Op(k, e)>>
      <4>1. <<Op("commit", s.text)>> \o <<Op(k, e)>> = <<Op("commit", s.text), Op(k, e)>>
        BY Joined
      <4>2. <<Op("store", s.text), Op("commit", s.text)>> \o <<Op(k, e)>>
               = <<Op("store", s.text), Op("commit", s.text), Op(k, e)>>
        BY JoinedTwo
      <4> QED
        BY <4>1, <4>2
    <3>4. Flush(s) \o <<Op(k, e)>> \in {<<Op("commit", s.text), Op(k, e)>>,
                                       <<Op("store", s.text), Op("commit", s.text), Op(k, e)>>}
      BY <3>3, <3>a
    <3>5. /\ ObsOK(Apply1(e, <<Op("commit", s.text), Op(k, e)>>))
          /\ ObsOK(Apply1(e, <<Op("store", s.text), Op("commit", s.text), Op(k, e)>>))
      BY <1>1, <3>2, TodoOK
    <3>6. /\ <<Op("commit", s.text), Op(k, e)>> # <<>>
          /\ <<Op("store", s.text), Op("commit", s.text), Op(k, e)>> # <<>>
      OBVIOUS
    <3> QED
      BY <3>4, <3>5, <3>6
  <2> QED
    BY <2>1, <2>2
<1>3. /\ ObsOK(Apply1(e, StoreUnlessReceipt(e) \o <<Op("commit", e)>>))
      /\ StoreUnlessReceipt(e) \o <<Op("commit", e)>> # <<>>
  <2>1. /\ <<>> \o <<Op("commit", e)>> = <<Op("commit", e)>>
        /\ <<Op("store", e)>> \o <<Op("commit", e)>> = <<Op("store", e), Op("commit", e)>>
    BY Joined
  <2>2. /\ ObsOK(Apply1(e, <<Op("commit", e)>>)) /\ <<Op("commit", e)>> # <<>>
        /\ ObsOK(Apply1(e, <<Op("store", e), Op("commit", e)>>)) /\ <<Op("store", e), Op("commit", e)>> # <<>>
    BY <1>1, TodoOK
  <2> QED
    BY <2>1, <2>2 DEF StoreUnlessReceipt
<1>4. ASSUME log[e].turn \in Turns, log[e].kind \in Terminal
      PROVE  /\ ObsOK(Apply1(e, StoreUnlessReceipt(e) \o <<Op("commit", e), Op("close", e)>>))
             /\ StoreUnlessReceipt(e) \o <<Op("commit", e), Op("close", e)>> # <<>>
  <2>1. Fits(Op("close", e), e) /\ Op("close", e).op = "close"
    BY <1>0, <1>4, OpFits
  <2>2. StoreUnlessReceipt(e) \o <<Op("commit", e), Op("close", e)>> \in
          {<<Op("commit", e), Op("close", e)>>, <<Op("store", e), Op("commit", e), Op("close", e)>>}
    <3>1. /\ <<>> \o <<Op("commit", e), Op("close", e)>> = <<Op("commit", e), Op("close", e)>>
          /\ <<Op("store", e)>> \o <<Op("commit", e), Op("close", e)>>
               = <<Op("store", e), Op("commit", e), Op("close", e)>>
      <4>1. <<>> \o <<Op("commit", e), Op("close", e)>> = <<Op("commit", e), Op("close", e)>>
        BY Joined
      <4>2. <<Op("store", e)>> \o <<Op("commit", e), Op("close", e)>>
               = <<Op("store", e), Op("commit", e), Op("close", e)>>
        BY JoinedThree
      <4> QED
        BY <4>1, <4>2
    <3> QED
      BY <3>1 DEF StoreUnlessReceipt
  <2>3. /\ ObsOK(Apply1(e, <<Op("commit", e), Op("close", e)>>))
        /\ ObsOK(Apply1(e, <<Op("store", e), Op("commit", e), Op("close", e)>>))
    BY <1>1, <2>1, TodoOK
  <2>4. /\ <<Op("commit", e), Op("close", e)>> # <<>>
        /\ <<Op("store", e), Op("commit", e), Op("close", e)>> # <<>>
    OBVIOUS
  <2> QED
    BY <2>2, <2>3, <2>4
<1> QED
  BY <1>2, <1>3, <1>4

(* The event at e is passed, is the end of a turn that has a stream, or is *)
(* shown in the transcript.                                                *)
Still == UNCHANGED <<ownedSubmissions, sinks, undurableSinks, terminalCursor, request,
                     discarded, pendingSubmit, observedSubmitAttempts>>
Passes(e) == obs' = Apply1(e, <<Op("commit", e)>>) /\ Still
Completes(e, t) ==
  /\ t \in Turns /\ sinks[t].live /\ ~sinks[t].adopted /\ log[e].kind \in Terminal
  /\ NativeTerminal(e, t) /\ ownedSubmissions' \subseteq ownedSubmissions
  /\ obs' = Observer("read", e + 1)
SinkFor(t) == IF sinks[t].live THEN sinks[t] ELSE NewSink(TRUE)
Shows(e, t) ==
  /\ t \in Turns /\ (sinks[t].live \/ t \in ownedSubmissions)
  /\ \E x \in SinkType : /\ sinks' = [sinks EXCEPT ![t] = x] /\ x.live /\ x.text <= e
                         /\ x.adopted = SinkFor(t).adopted /\ x.left = SinkFor(t).left
  /\ \/ obs' = Observer("read", e + 1)
     \/ ObsOK(obs') /\ obs'.pc = "apply" /\ obs'.at = e /\ ~obs'.woken
  /\ undurableSinks' \subseteq undurableSinks \cup {t} /\ ownedSubmissions' \subseteq ownedSubmissions
  /\ UNCHANGED <<terminalCursor, request, discarded, pendingSubmit, observedSubmitAttempts>>

LEMMA AppliedNext ==
  ASSUME NEW e, NEW ops, Applying(e, ops)
  PROVE  /\ ops # <<>> => obs' = Apply1(e, ops)
         /\ ops = <<>> => obs' = Observer("read", e + 1)
BY DEF Applying, Apply1

LEMMA EventTyped ==
  ASSUME TypeOK, NEW e \in Events
  PROVE  /\ log[e] \in EventType /\ log[e].turn \in Turns \cup {Foreign} /\ log[e].kind \in Kinds
         /\ e \in Nat /\ e >= 1
<1>1. log[e] \in EventType
  BY ElementOfSeq DEF TypeOK, Events
<1> QED
  BY <1>1 DEF EventType, Events

LEMMA OwnKinds ==
  ASSUME Made, NEW e \in Events, log[e].kind \in {"session", "foreign"}
  PROVE  log[e].turn = Foreign
<1>1. \A i \in Events : log[i].kind \in {"session", "foreign"} => log[i].turn = Foreign
  BY DEF Made
<1> QED
  BY <1>1

(* A sink x that the event e made of the sink s.                           *)
Edits(x, s, e) ==
  x \in SinkType /\ x.live /\ x.text <= e /\ x.adopted = s.adopted /\ x.left = s.left

LEMMA SinkEdits ==
  ASSUME NEW s \in SinkType, s.live, NEW e \in Events, s.text <= e, NEW id \in Nat
  PROVE  /\ Edits([s EXCEPT !.text = 0], s, e) /\ Edits([s EXCEPT !.text = e], s, e)
         /\ Edits([s EXCEPT !.text = 0, !.called = @ \cup {id}], s, e)
         /\ Edits([s EXCEPT !.answered = @ \cup {id}], s, e) /\ Edits(s, s, e)
<1>1. e \in 0..Len(log) /\ 0 \in 0..Len(log) /\ 0 <= e
  BY DEF Events
<1>2. Edits([s EXCEPT !.text = 0], s, e)
  BY <1>1 DEF Edits, SinkType
<1>3. Edits([s EXCEPT !.text = e], s, e)
  BY <1>1 DEF Edits, SinkType
<1>4. Edits([s EXCEPT !.text = 0, !.called = @ \cup {id}], s, e)
  BY <1>1 DEF Edits, SinkType
<1>5. Edits([s EXCEPT !.answered = @ \cup {id}], s, e)
  BY <1>1 DEF Edits, SinkType
<1>6. Edits(s, s, e)
  BY DEF Edits
<1> QED
  BY <1>2, <1>3, <1>4, <1>5, <1>6

LEMMA ProjectMoves ==
  ASSUME TypeOK, ObsShape, Made, CallShape, NEW e \in Events, obs.pc \in Reading, e = obs.at,
         NEW t \in Turns, t = log[e].turn, sinks[t].live \/ t \in ownedSubmissions,
         Project(e, t, SinkFor(t))
  PROVE  Completes(e, t) \/ Shows(e, t)
<1> DEFINE s == SinkFor(t)  k == log[e].kind  id == log[e].callId
<1>1. s \in SinkType /\ s.live /\ s.text <= e /\ s.text \in 0..Len(log) /\ e \in Nat /\ e >= 1
  <2>1. sinks[t] \in SinkType /\ sinks[t].text < e
    BY DEF TypeOK, ObsShape
  <2>2. NewSink(TRUE) \in SinkType /\ NewSink(TRUE).text = 0 /\ NewSink(TRUE).live
    <3>1. 0 \in 0..Len(log)
      BY DEF TypeOK
    <3> QED
      BY <3>1 DEF NewSink, NoSink, SinkType
  <2>3. e \in Nat /\ e >= 1
    BY DEF Events
  <2>4. s \in SinkType /\ s.live /\ s.text <= e
    <3>1. CASE sinks[t].live
      <4>1. s = sinks[t] /\ sinks[t].text \in Nat
        BY <2>1, <3>1 DEF SinkFor, SinkType
      <4>2. sinks[t].text <= e
        BY <2>1, <2>3, <4>1
      <4> HIDE DEF s
      <4> QED
        BY <2>1, <3>1, <4>1, <4>2
    <3>2. CASE ~sinks[t].live
      <4>1. s = NewSink(TRUE)
        BY <3>2 DEF SinkFor
      <4>0. 0 <= e
        BY <2>3
      <4>2. NewSink(TRUE).text <= e
        BY <2>2, <4>0
      <4> HIDE DEF s
      <4> QED
        BY <2>2, <4>1, <4>2
    <3> QED
      BY <3>1, <3>2
  <2> HIDE DEF s
  <2> QED
    BY <2>3, <2>4 DEF SinkType
<1>2. ownedSubmissions' \subseteq ownedSubmissions
  BY DEF Project
<1>3. CASE k \in Terminal /\ ~s.adopted
  <2>1. NativeTerminal(e, t)
    BY <1>3 DEF Project
  <2>2. sinks[t].live /\ ~sinks[t].adopted
    BY <1>3 DEF SinkFor, NewSink, NoSink
  <2>3. obs' = Observer("read", e + 1)
    BY <2>1, AppliedNext DEF NativeTerminal
  <2> QED
    BY <1>2, <1>3, <2>1, <2>2, <2>3 DEF Completes
<1>4. CASE ~(k \in Terminal /\ ~s.adopted)
  <2> DEFINE Keep(x) == sinks' = [sinks EXCEPT ![t] = x]
  <2>1. /\ IF Ignored(e, s) THEN Keep(s) /\ Applying(e, <<>>)
           ELSE CASE k = "start"  -> Keep([s EXCEPT !.text = 0])
                                     /\ Applying(e, Flush(s) \o <<Op("commit", e)>>)
                  [] k = "text"   -> Keep([s EXCEPT !.text = e]) /\ Applying(e, <<>>)
                  [] k = "call"   -> Keep([s EXCEPT !.text = 0, !.called = @ \cup {id}])
                                     /\ Applying(e, Flush(s) \o <<Op("call", e)>>)
                  [] k = "result" -> Keep([s EXCEPT !.answered = @ \cup {id}])
                                     /\ Applying(e, StoreUnlessReceipt(e) \o <<Op("commit", e)>>)
                  [] OTHER        -> Keep(s)
                                     /\ Applying(e, StoreUnlessReceipt(e)
                                                    \o <<Op("commit", e), Op("close", e)>>)
        /\ undurableSinks' = IF k = "text" THEN undurableSinks \cup {t} ELSE undurableSinks
        /\ UNCHANGED <<terminalCursor, request, discarded, pendingSubmit, observedSubmitAttempts>>
    BY <1>4 DEF Project
  <2>2. k \in {"start", "text", "call", "result"} \cup Terminal
    <3>1. k \in Kinds
      BY EventTyped
    <3>2. k \notin {"session", "foreign"}
      <4>1. log[e].kind \in {"session", "foreign"} => log[e].turn = 0
        BY OwnKinds
      <4>2. log[e].turn # 0
        BY DEF Turns
      <4> QED
        BY <4>1, <4>2
    <3> QED
      BY <3>1, <3>2 DEF Kinds, Projecting, Terminal
  <2>3. \E x \in SinkType : /\ Keep(x) /\ x.live /\ x.text <= e
                            /\ x.adopted = SinkFor(t).adopted /\ x.left = SinkFor(t).left
    <3>0. id \in Nat
      <4>1. log[e] \in EventType
        BY EventTyped
      <4> QED
        BY <4>1 DEF EventType
    <3> HIDE DEF Keep, s, k, id
    <3>1. /\ Edits([s EXCEPT !.text = 0], s, e) /\ Edits([s EXCEPT !.text = e], s, e)
          /\ Edits([s EXCEPT !.text = 0, !.called = @ \cup {id}], s, e)
          /\ Edits([s EXCEPT !.answered = @ \cup {id}], s, e) /\ Edits(s, s, e)
      BY <1>1, <3>0, SinkEdits, Zenon
    <3>2. \E x : Keep(x) /\ Edits(x, s, e)
      BY <2>1, <2>2, <3>1
    <3>3. \E x \in SinkType : /\ Keep(x) /\ x.live /\ x.text <= e
                              /\ x.adopted = s.adopted /\ x.left = s.left
      BY <3>2 DEF Edits
    <3> QED
      BY <3>3 DEF s
  <2>4. \/ obs' = Observer("read", e + 1)
        \/ ObsOK(obs') /\ obs'.pc = "apply" /\ obs'.at = e /\ ~obs'.woken
    <3>0. \A q : Apply1(e, q).pc = "apply" /\ Apply1(e, q).at = e /\ ~Apply1(e, q).woken
      BY DEF Apply1
    <3> HIDE DEF s, k, id
    <3>6. CASE Ignored(e, s)
      BY <2>1, <3>6, AppliedNext
    <3> SUFFICES ASSUME ~Ignored(e, s) PROVE \/ obs' = Observer("read", e + 1)
                                             \/ ObsOK(obs') /\ obs'.pc = "apply" /\ obs'.at = e /\ ~obs'.woken
      BY <3>6
    <3>1. CASE k = "text"
      BY <2>1, <3>1, AppliedNext
    <3>2. CASE k = "start"
      <4>1. /\ ObsOK(Apply1(e, Flush(s) \o <<Op("commit", e)>>))
            /\ Flush(s) \o <<Op("commit", e)>> # <<>>
        BY <1>1, AppliedOK
      <4> QED
        BY <2>1, <3>0, <3>2, <4>1, AppliedNext
    <3>3. CASE k = "call"
      <4>1. /\ ObsOK(Apply1(e, Flush(s) \o <<Op("call", e)>>))
            /\ Flush(s) \o <<Op("call", e)>> # <<>>
        BY <1>1, AppliedOK
      <4> QED
        BY <2>1, <3>0, <3>3, <4>1, AppliedNext
    <3>4. CASE k = "result"
      <4>1. /\ ObsOK(Apply1(e, StoreUnlessReceipt(e) \o <<Op("commit", e)>>))
            /\ StoreUnlessReceipt(e) \o <<Op("commit", e)>> # <<>>
        BY <1>1, AppliedOK
      <4>2. Applying(e, StoreUnlessReceipt(e) \o <<Op("commit", e)>>)
        BY <2>1, <3>4
      <4>3. obs' = Apply1(e, StoreUnlessReceipt(e) \o <<Op("commit", e)>>)
        BY <4>1, <4>2, AppliedNext
      <4> QED
        BY <3>0, <4>1, <4>3
    <3>5. CASE k \in Terminal
      <4>1. k \notin {"start", "text", "call", "result"}
        BY <3>5 DEF Terminal
      <4>2. Applying(e, StoreUnlessReceipt(e) \o <<Op("commit", e), Op("close", e)>>)
        BY <2>1, <4>1
      <4>3. log[e].turn \in Turns /\ log[e].kind \in Terminal
        BY <3>5 DEF k
      <4>4. /\ ObsOK(Apply1(e, StoreUnlessReceipt(e) \o <<Op("commit", e), Op("close", e)>>))
            /\ StoreUnlessReceipt(e) \o <<Op("commit", e), Op("close", e)>> # <<>>
        BY <1>1, <4>3, AppliedOK
      <4>5. obs' = Apply1(e, StoreUnlessReceipt(e) \o <<Op("commit", e), Op("close", e)>>)
        BY <4>2, <4>4, AppliedNext
      <4> QED
        BY <3>0, <4>4, <4>5
    <3> QED
      BY <2>2, <3>1, <3>2, <3>3, <3>4, <3>5
  <2> QED
    BY <1>2, <2>1, <2>3, <2>4 DEF Shows
<1> QED
  BY <1>3, <1>4

(* What the observer does when it takes the next event or is woken.        *)
Waits == obs.pc \in {"read", "wait"} /\ (Waiting("wait") \/ Waiting("waitOwner"))
Takes(e, t) ==
  /\ \/ Passes(e) /\ (t \in Turns => ~sinks[t].live /\ t \notin ownedSubmissions)
     \/ Completes(e, t)
     \/ Shows(e, t)
  /\ t \in Turns => /\ Asked => sinks[t].live
                    /\ pendingSubmit.id = t => ~(Unseen(t) /\ t \notin correlated)

LEMMA ApplyMoves ==
  ASSUME TypeOK, ObsShape, Made, CallShape, NEW e \in Events, obs.pc \in Reading, e = obs.at,
         NEW t, t = log[e].turn, Apply(e, t)
  PROVE  \/ Passes(e) /\ (t \in Turns => ~sinks[t].live /\ t \notin ownedSubmissions)
         \/ Completes(e, t)
         \/ Shows(e, t)
<1>1. t \in Turns \cup {Foreign}
  BY EventTyped
<1>2. CASE ~SinkOf(t).live /\ t \notin ownedSubmissions
  <2>1. Applying(e, <<Op("commit", e)>>) /\ Still
    BY <1>2 DEF Apply, Still
  <2>2. Passes(e)
    BY <2>1, AppliedNext DEF Passes
  <2>3. t \in Turns => ~sinks[t].live
    BY <1>2 DEF SinkOf
  <2> QED
    BY <1>2, <2>2, <2>3
<1>3. CASE ~(~SinkOf(t).live /\ t \notin ownedSubmissions)
  <2>1. t \in Turns
    BY <1>1, <1>3 DEF SinkOf, NoSink, TypeOK
  <2>2. SinkOf(t) = sinks[t]
    BY <2>1 DEF SinkOf
  <2>3. Project(e, t, SinkFor(t))
    BY <1>3, <2>2 DEF Apply, SinkFor
  <2>4. Completes(e, t) \/ Shows(e, t)
    BY <1>3, <2>1, <2>2, <2>3, ProjectMoves
  <2> QED
    BY <2>4
<1> QED
  BY <1>2, <1>3

LEMMA CorrelateMoves ==
  ASSUME TypeOK, ObsShape, Made, CallShape, NEW e \in Events, obs.pc \in {"read", "wait"}, e = obs.at,
         NEW t, t = log[e].turn, Correlate(e, t), (t \in Turns /\ Asked) => sinks[t].live
  PROVE  Waits \/ Takes(e, t)
<1>1. CASE InDoubt(t)
  BY <1>1 DEF Correlate, Waits
<1>2. CASE ~InDoubt(t)
  <2>1. \/ Passes(e) /\ (t \in Turns => ~sinks[t].live /\ t \notin ownedSubmissions)
        \/ Completes(e, t)
        \/ Shows(e, t)
    BY <1>2, ApplyMoves DEF Correlate, Reading
  <2>2. ASSUME t \in Turns, pendingSubmit.id = t, Unseen(t) PROVE t \in correlated
    <3>1. SinkOf(t) = sinks[t] /\ pendingSubmit # NoAttempt
      BY <2>2 DEF SinkOf, NoAttempt
    <3> QED
      BY <1>2, <2>2, <3>1 DEF InDoubt, Unseen
  <2> QED
    BY <2>1, <2>2 DEF Takes
<1> QED
  BY <1>1, <1>2

LEMMA SessionMoves ==
  ASSUME NEW e \in Events, TypeOK, Made, log[e].kind = "session",
         Applying(e, <<Op("commit", e)>>), Still
  PROVE  Takes(e, log[e].turn)
<1>1. log[e].turn = Foreign
  BY OwnKinds
<1>2. Passes(e)
  BY AppliedNext DEF Passes
<1> QED
  BY <1>1, <1>2 DEF Takes

LEMMA ObserverMoves ==
  ASSUME Inv, Observe \/ Woken
  PROVE  /\ obs.pc \in Reading /\ obs.at \in Events /\ life = "up" /\ ~failed
         /\ Waits \/ Takes(obs.at, log[obs.at].turn)
         /\ ObserveUnchanged
<1> DEFINE e == obs.at  t == log[e].turn
<1>0. TypeOK /\ ObsShape /\ Made /\ CallShape
  BY DEF Inv
<1>1. CASE Observe
  <2>1. obs.pc = "read" /\ e \in Events /\ life = "up" /\ ~failed /\ ObserveUnchanged
    BY <1>1 DEF Observe
  <2>2. CASE log[e].kind = "session"
    <3>1. Applying(e, <<Op("commit", e)>>) /\ Still
      BY <1>1, <2>2 DEF Observe, Still
    <3> QED
      BY <1>0, <2>1, <2>2, <3>1, SessionMoves DEF Reading
  <2>3. CASE log[e].kind # "session" /\ AwaitsSubmission(t)
    <3>1. Waiting("wait")
      BY <1>1, <2>3 DEF Observe
    <3> QED
      BY <2>1, <3>1 DEF Waits, Reading
  <2>4. CASE log[e].kind # "session" /\ ~AwaitsSubmission(t)
    <3>1. Correlate(e, t)
      BY <1>1, <2>4 DEF Observe
    <3>2. (t \in Turns /\ Asked) => sinks[t].live
      BY <2>4 DEF AwaitsSubmission, Inv, Attempts, Asked, inFlight, SinkOf
    <3> QED
      BY <1>0, <2>1, <3>1, <3>2, CorrelateMoves DEF Reading
  <2> QED
    BY <2>1, <2>2, <2>3, <2>4
<1>2. CASE Woken
  <2>1. obs.woken /\ ObserveUnchanged /\ obs.pc \in {"wait", "waitOwner"} /\ e \in Events
        /\ life = "up" /\ ~failed
    BY <1>0, <1>2 DEF Woken, ObsShape, ObsOK, Reading
  <2>2. ~Asked
    BY <2>1 DEF Inv, Attempts
  <2>3. CASE obs.pc = "wait"
    <3>1. Correlate(e, t)
      BY <1>2, <2>3 DEF Woken
    <3> QED
      BY <1>0, <2>1, <2>2, <2>3, <3>1, CorrelateMoves DEF Reading
  <2>4. CASE obs.pc = "waitOwner"
    <3>1. Apply(e, t)
      BY <1>2, <2>4 DEF Woken
    <3>2. \/ Passes(e) /\ (t \in Turns => ~sinks[t].live /\ t \notin ownedSubmissions)
          \/ Completes(e, t)
          \/ Shows(e, t)
      BY <1>0, <2>1, <3>1, ApplyMoves DEF Reading
    <3>3. ASSUME t \in Turns, pendingSubmit.id = t PROVE ~Unseen(t)
      <4>1. pendingSubmit # NoAttempt
        BY <3>3 DEF NoAttempt
      <4>2. ~Unseen(pendingSubmit.id)
        BY <2>1, <2>4, <4>1 DEF Inv, Attempts
      <4> QED
        BY <3>3, <4>2
    <3> QED
      BY <2>1, <2>2, <3>2, <3>3 DEF Takes, Reading
  <2> QED
    BY <2>1, <2>3, <2>4
<1> QED
  BY <1>1, <1>2

(* The observer is well formed after every step.                           *)
LEMMA ObsKept ==
  ASSUME Inv, [Next]_vars, log' = log
  PROVE  ObsOK(obs')
<1>0. TypeOK /\ ObsShape /\ ObsOK(obs)
  BY DEF Inv, ObsShape
<1>1. CASE obs' = obs
  BY <1>0, <1>1
<1>2. CASE obs' \in {Notified(obs), SubmissionEnded(obs), Halted, Stopped}
  BY <1>0, <1>2, NotifiedOK, HaltedOK, ObserverOK
<1>3. ASSUME Working, NEW up \in BOOLEAN, obs' = Advanced(up) PROVE ObsOK(obs')
  <2>1. obs.todo # <<>>
    BY <1>0, <1>3 DEF ObsOK, Working
  <2> QED
    BY <1>0, <1>3, <2>1, AdvancedOK
<1> DEFINE up == life = "up" /\ ~failed
<1>4. up \in BOOLEAN
  OBVIOUS
<1>5. CASE Admit \/ Consume \/ LateReceipt \/ CloseCommit \/ WrittenHeld \/ WrittenClose
  BY <1>1, <1>5 DEF Admit, Consume, LateReceipt, CloseCommit, WrittenHeld, WrittenClose
<1>6. ASSUME NEW p \in Prompts, Stream(p) PROVE ObsOK(obs')
  BY <1>1, <1>2, <1>6 DEF Stream
<1>7. CASE Submit \/ Receipt \/ WrittenOwn
  BY <1>1, <1>2, <1>7 DEF Submit, Receipt, WrittenOwn, Installed
<1>8. ASSUME NEW b \in BOOLEAN, Rejected(b) \/ LateRejected(b) PROVE ObsOK(obs')
  BY <1>1, <1>2, <1>8 DEF Rejected, LateRejected
<1>9. CASE Abort
  BY <1>1, <1>2, <1>9 DEF Abort, Interrupted
<1>10. CASE CloseInterrupt
  BY <1>2, <1>10 DEF CloseInterrupt, Interrupted
<1>11. CASE Observe \/ Woken
  <2>1. /\ obs.pc \in Reading /\ obs.at \in Events
        /\ Waits \/ Takes(obs.at, log[obs.at].turn)
    BY <1>11, ObserverMoves
  <2>2. ASSUME NEW p \in {"wait", "waitOwner"}, obs' = [obs EXCEPT !.pc = p, !.woken = FALSE]
        PROVE  ObsOK(obs')
    <3>1. obs \in ObsType /\ obs.todo = <<>> /\ obs.at >= 1
      BY <1>0, <2>1 DEF ObsOK, Reading
    <3>2. obs' \in ObsType /\ obs'.pc = p /\ obs'.at = obs.at /\ obs'.todo = <<>> /\ ~obs'.woken
      BY <2>2, <3>1 DEF ObsType
    <3>3. Planned(obs')
      BY <3>2 DEF Planned
    <3> QED
      BY <2>1, <2>2, <3>1, <3>2, <3>3 DEF ObsOK
  <2>3. CASE Waits
    BY <2>2, <2>3 DEF Waits, Waiting
  <2>4. obs.at + 1 \in Nat /\ obs.at + 1 >= 1
    BY <2>1 DEF Events
  <2>5. CASE Passes(obs.at)
    <3>1. Fits(Op("commit", obs.at), obs.at) /\ Op("commit", obs.at).op = "commit"
      BY <1>0, <2>1, <2>4, OpFits DEF Events
    <3> QED
      BY <2>1, <2>5, <3>1, TodoOK DEF Passes
  <2>6. CASE Completes(obs.at, log[obs.at].turn) \/ Shows(obs.at, log[obs.at].turn)
    BY <2>4, <2>6, ObserverOK DEF Completes, Shows
  <2> QED
    BY <2>1, <2>3, <2>5, <2>6 DEF Takes
<1>12. CASE StoreMessage \/ CloseSink
  BY <1>3, <1>4, <1>12 DEF StoreMessage, CloseSink, Working
<1>13. CASE Commit
  <2>1. obs.pc = "apply"
    BY <1>13 DEF Commit
  <2>2. CASE obs' = Advanced(up)
    BY <1>3, <1>4, <2>1, <2>2 DEF Working
  <2>3. CASE obs' = [obs EXCEPT !.pc = "write"]
    <3>1. obs \in ObsType /\ obs.todo # <<>> /\ obs.at >= 1 /\ obs.at \in Events /\ ~obs.woken
      BY <1>0, <2>1 DEF ObsOK
    <3>2. obs' \in ObsType /\ obs'.pc = "write" /\ obs'.at = obs.at /\ obs'.todo = obs.todo /\ ~obs'.woken
      BY <2>3, <3>1 DEF ObsType
    <3>3. Planned(obs')
      BY <1>0, <3>2 DEF Planned, ObsOK
    <3> QED
      BY <3>1, <3>2, <3>3 DEF ObsOK
  <2> QED
    BY <1>13, <2>2, <2>3 DEF Commit
<1>14. CASE WrittenObserved
  <2>1. obs' = Advanced(up) /\ writes # <<>> /\ Head(writes).by = "obs"
    BY <1>14 DEF WrittenObserved, Written
  <2>2. obs.pc = "write"
    <3>1. Head(writes) = writes[1] /\ 1 \in DOMAIN writes
      BY <1>0, <2>1, SeqFacts DEF TypeOK
    <3> QED
      BY <2>1, <3>1 DEF Inv, Queue
  <2> QED
    BY <1>3, <1>4, <2>1, <2>2 DEF Working
<1>15. CASE WrittenLate
  BY <1>2, <1>15 DEF WrittenLate
<1>16. CASE ObserverLost \/ BeginClose \/ Crash
  BY <1>2, <1>16 DEF ObserverLost, BeginClose, Crash
<1>17. CASE Restart
  <2>1. Len(log) + 1 \in Nat /\ binding.cursor + 1 \in Nat
    BY <1>0 DEF TypeOK, BindingType
  <2>2. \E n \in {Len(log), binding.cursor} : obs' = Observer("read", n + 1)
    BY <1>17 DEF Restart, RecoveredCursor
  <2>3. \A n \in {Len(log), binding.cursor} : n + 1 \in Nat /\ n + 1 >= 1
    BY <1>0 DEF TypeOK, BindingType
  <2> QED
    BY <2>2, <2>3, ObserverOK
<1>18. CASE EmitForeign \/ \E t \in Turns, k \in Kinds : Emit(t, k)
  <2>1. obs' = obs
    BY <1>18 DEF EmitForeign, Emit
  <2> QED
    BY <1>1, <2>1
<1>19. CASE UNCHANGED vars
  BY <1>1, <1>19 DEF vars
<1> QED
  BY <1>5, <1>6, <1>7, <1>8, <1>9, <1>10, <1>11, <1>12, <1>13, <1>14, <1>15, <1>16, <1>17, <1>18, <1>19
     DEF Next, StreamStep, LateStep, ObserveStep, WriteStep

LEMMA TypedValues ==
  ASSUME TypeOK
  PROVE  /\ Len(log) \in Nat /\ 0 \in 0..Len(log)
         /\ Idle \in RequestType /\ \A e \in 0..Len(log) : Ended(e) \in RequestType
         /\ NoSink \in SinkType /\ NewSink(TRUE) \in SinkType /\ NewSink(FALSE) \in SinkType
         /\ \A b \in BOOLEAN : [NewSink(FALSE) EXCEPT !.left = b] \in SinkType
         /\ [t \in Turns |-> NoSink] \in [Turns -> SinkType]
         /\ request.aborted \in BOOLEAN /\ message \in 0..Len(log) /\ request.id \in Turns \cup {0}
         /\ Natives \subseteq Turns
<1>1. Len(log) \in Nat /\ 0 \in 0..Len(log)
  BY DEF TypeOK
<1>2. Idle \in RequestType /\ \A e \in 0..Len(log) : Ended(e) \in RequestType
  BY <1>1 DEF Idle, Ended, RequestType
<1>3. NoSink \in SinkType /\ NewSink(TRUE) \in SinkType /\ NewSink(FALSE) \in SinkType
  BY <1>1 DEF NoSink, NewSink, SinkType
<1>4. \A b \in BOOLEAN : [NewSink(FALSE) EXCEPT !.left = b] \in SinkType
  BY <1>3 DEF SinkType
<1>5. [t \in Turns |-> NoSink] \in [Turns -> SinkType]
  BY <1>3
<1>6. request.aborted \in BOOLEAN /\ message \in 0..Len(log) /\ request.id \in Turns \cup {0}
  BY DEF TypeOK, RequestType, message
<1>7. Natives \subseteq Turns
  BY DEF Natives
<1> QED
  BY <1>1, <1>2, <1>3, <1>4, <1>5, <1>6, <1>7

LEMMA CancelTyped ==
  ASSUME TypeOK, NEW S, S \subseteq Turns, Cancel(S)
  PROVE  cancelled' \subseteq Turns
BY DEF Cancel, TypeOK

LEMMA RefusedTyped ==
  ASSUME TypeOK, Refused
  PROVE  request' \in RequestType
BY TypedValues DEF Refused

LEMMA PersistTyped ==
  ASSUME TypeOK, NEW w \in WriteType, Persist(w)
  PROVE  writes' \in Seq(WriteType)
BY DEF Persist, TypeOK

LEMMA PendingTyped ==
  ASSUME TypeOK, NEW a \in AttemptType
  PROVE  /\ Pending(a) => pendingSubmit' \in AttemptType \cup {NoAttempt}
         /\ Settled(a) => observedSubmitAttempts' \subseteq AttemptType
BY DEF Pending, Settled, TypeOK

LEMMA ClearedTyped ==
  ASSUME TypeOK, NEW a, Cleared(a)
  PROVE  pendingSubmit' \in AttemptType \cup {NoAttempt}
BY DEF Cleared, TypeOK

LEMMA WrittenTyped ==
  ASSUME TypeOK, NEW by \in {"own", "late", "held", "obs", "close"}, Written(by)
  PROVE  /\ writes' \in Seq(WriteType) /\ binding' \in BindingType
         /\ Head(writes) = writes[1] /\ 1 \in DOMAIN writes /\ Head(writes) \in WriteType
         /\ Head(writes).by = by
<1>1. writes \in Seq(WriteType) /\ writes # <<>> /\ Head(writes).by = by /\ writes' = Tail(writes)
  BY DEF Written, TypeOK
<1>2. /\ Head(writes) = writes[1] /\ 1 \in DOMAIN writes /\ Head(writes) \in WriteType
      /\ Tail(writes) \in Seq(WriteType)
  BY <1>1, SeqFacts
<1>3. Head(writes).cursor \in 0..Len(log) /\ Head(writes).owned \in SUBSET Turns
  BY <1>2 DEF WriteType
<1>4. binding' \in BindingType
  <2>1. binding' = IF by \in {"own", "late"} THEN [binding EXCEPT !.owned = @ \cup Head(writes).owned]
                   ELSE [cursor |-> Head(writes).cursor, owned |-> Head(writes).owned]
    BY DEF Written
  <2>2. binding \in BindingType
    BY DEF TypeOK
  <2>3. [binding EXCEPT !.owned = @ \cup Head(writes).owned] \in BindingType
    BY <1>3, <2>2 DEF BindingType
  <2>4. [cursor |-> Head(writes).cursor, owned |-> Head(writes).owned] \in BindingType
    BY <1>3 DEF BindingType
  <2> QED
    BY <2>1, <2>3, <2>4
<1> QED
  BY <1>1, <1>2, <1>4

LEMMA CallTyped ==
  ASSUME Inv
  PROVE  /\ pc = "submit" => call \in AttemptType /\ call.id \in Turns /\ call.id = request.id
         /\ late = "wait" => call \in AttemptType /\ call.id \in Turns /\ call = pendingSubmit
         /\ pendingSubmit # NoAttempt => pendingSubmit \in AttemptType /\ pendingSubmit.id \in Turns
         /\ pc \in {"own", "streaming"} => request.id \in Turns
<1>1. TypeOK /\ CallShape /\ Attempts
  BY DEF Inv
<1>2. /\ pc = "submit" => call \in AttemptType /\ call.id = request.id
      /\ pc \in {"own", "streaming"} => request.id \in Turns
  BY <1>1 DEF CallShape
<1>3. pendingSubmit # NoAttempt => pendingSubmit \in AttemptType
  BY <1>1 DEF TypeOK
<1>4. late = "wait" => call = pendingSubmit /\ pendingSubmit # NoAttempt
  BY <1>1 DEF Attempts
<1>5. \A a \in AttemptType : a.id \in Turns
  BY DEF AttemptType
<1> QED
  BY <1>2, <1>3, <1>4, <1>5

LEMMA TypeCalls ==
  ASSUME Inv, [Next]_vars, log' = log,
         (\E p \in Prompts : Stream(p)) \/ Submit \/ Receipt \/ (\E b \in BOOLEAN : Rejected(b))
           \/ Abort \/ Consume
  PROVE  TypeOK'
<1> USE DEF engine, wire, submission, projection, runtime, history, Trouble
<1>0. TypeOK /\ Types' = Types /\ ObsOK(obs') /\ obs' \in ObsType /\ CallShape
  BY ObsKept, SameTypes DEF Inv, ObsOK
<1>1. ASSUME NEW p \in Prompts, Stream(p) PROVE TypeOK'
  <2>1. request' \in RequestType
    <3>0. Len(log) \in Nat /\ 0 \in 0..Len(log) /\ Ended(0) \in RequestType
      BY <1>0, TypedValues
    <3>1. [Idle EXCEPT !.pc = "ready", !.digest = p] \in RequestType
      BY <3>0 DEF Idle, RequestType
    <3>2. [Idle EXCEPT !.pc = "commit", !.digest = p] \in RequestType
      BY <3>0 DEF Idle, RequestType
    <3> QED
      BY <1>1, <3>0, <3>1, <3>2 DEF Stream
  <2>2. writes' \in Seq(WriteType)
    <3>1. CursorWrite("held", terminalCursor, ownedSubmissions) \in WriteType
      BY <1>0 DEF CursorWrite, WriteType, TypeOK
    <3>2. writes' = writes \/ Persist(CursorWrite("held", terminalCursor, ownedSubmissions))
      BY <1>1 DEF Stream
    <3> QED
      BY <1>0, <3>1, <3>2, PersistTyped DEF TypeOK
  <2>3. cancelled' \subseteq Turns /\ sinks' \in [Turns -> SinkType] /\ failed' \in BOOLEAN
    <3>1. \/ UNCHANGED <<failed, sinks, cancelled>>
          \/ Invalidated
      BY <1>1 DEF Stream
    <3>2. CASE Invalidated
      BY <1>0, <3>2, TypedValues, CancelTyped DEF Invalidated
    <3> QED
      BY <1>0, <3>1, <3>2 DEF TypeOK
  <2> QED
    BY <1>0, <1>1, <2>1, <2>2, <2>3 DEF Stream, TypeOK, Types
<1>2. CASE Submit
  <2>1. request' \in RequestType /\ made' \in 0..MaxTurns /\ sent' \subseteq Turns
        /\ call' \in AttemptType \cup {NoAttempt}
    <3>1. CASE Refused /\ UNCHANGED <<made, sent, call>>
      BY <1>0, <3>1, RefusedTyped DEF TypeOK
    <3>2. CASE /\ request' = [request EXCEPT !.pc = "submit", !.id = Attempt.id]
               /\ call' = Attempt /\ sent' = sent \cup {Attempt.id}
               /\ made' = IF Attempt.id > made THEN Attempt.id ELSE made
               /\ Attempt.id \in Turns /\ pc = "ready"
      <4>1. Attempt \in AttemptType \/ Attempt = [id |-> made + 1, digest |-> request.digest]
        BY <1>0 DEF Attempt, TypeOK
      <4>2. request.digest \in Prompts
        BY <1>0, <3>2 DEF CallShape
      <4>3. Attempt \in AttemptType
        BY <3>2, <4>1, <4>2 DEF AttemptType
      <4>4. request' \in RequestType
        BY <1>0, <3>2 DEF RequestType, TypeOK
      <4> QED
        BY <1>0, <3>2, <4>3, <4>4 DEF TypeOK
    <3> QED
      BY <1>2, <3>1, <3>2 DEF Submit
  <2> QED
    BY <1>0, <1>2, <2>1 DEF Submit, TypeOK, Types
<1>3. CASE Receipt
  <2>0. call \in AttemptType /\ call.id \in Turns /\ pc = "submit"
    BY <1>3, CallTyped DEF Receipt
  <2>1. /\ request' \in RequestType /\ pendingSubmit' \in AttemptType \cup {NoAttempt}
        /\ observedSubmitAttempts' \subseteq AttemptType /\ cancelled' \subseteq Turns
        /\ writes' \in Seq(WriteType) /\ ownedSubmissions' \subseteq Turns /\ sinks' \in [Turns -> SinkType]
    <3>1. CASE /\ Settled(call) /\ Refused
               /\ UNCHANGED <<cancelled, writes, ownedSubmissions, sinks>>
      <4>1. Cleared(call)
        BY <3>1 DEF Settled
      <4> QED
        BY <1>0, <2>0, <3>1, <4>1, RefusedTyped, PendingTyped, ClearedTyped DEF TypeOK
    <3>2. CASE Installed(call.id) /\ UNCHANGED <<observedSubmitAttempts, writes>>
      <4>1. pendingSubmit' \in AttemptType \cup {NoAttempt}
        BY <1>0, <3>2, ClearedTyped DEF Installed
      <4>2. cancelled' \subseteq Turns
        BY <1>0, <2>0, <3>2, CancelTyped DEF Installed, TypeOK
      <4>3. request' \in RequestType /\ sinks' \in [Turns -> SinkType]
        <5>1. CASE Refused /\ UNCHANGED sinks
          BY <1>0, <5>1, RefusedTyped DEF TypeOK
        <5>2. CASE /\ sinks' = [sinks EXCEPT ![call.id] = [NewSink(FALSE) EXCEPT !.left = request.aborted]]
                   /\ request' = IF request.aborted THEN Idle
                                 ELSE [Idle EXCEPT !.pc = "streaming", !.id = call.id]
          <6>1. [Idle EXCEPT !.pc = "streaming", !.id = call.id] \in RequestType
            <7>1. Len(log) \in Nat /\ 0 \in 0..Len(log)
              BY <1>0, TypedValues
            <7> QED
              BY <2>0, <7>1 DEF Idle, RequestType
          <6> QED
            BY <1>0, <2>0, <5>2, <6>1, TypedValues DEF TypeOK
        <5> QED
          BY <3>2, <5>1, <5>2 DEF Installed
      <4> QED
        BY <1>0, <2>0, <3>2, <4>1, <4>2, <4>3 DEF Installed, TypeOK
    <3>3. CASE /\ Persist(OwnWrite("own", call.id))
               /\ request' = [request EXCEPT !.pc = "own"]
               /\ UNCHANGED <<cancelled, pendingSubmit, observedSubmitAttempts,
                              ownedSubmissions, sinks>>
      <4>1. OwnWrite("own", call.id) \in WriteType
        BY <1>0, <2>0 DEF OwnWrite, WriteType, TypeOK
      <4>2. request' \in RequestType
        BY <1>0, <3>3 DEF RequestType, TypeOK
      <4> QED
        BY <1>0, <3>3, <4>1, <4>2, PersistTyped DEF TypeOK
    <3> QED
      BY <1>3, <3>1, <3>2, <3>3 DEF Receipt
  <2> QED
    BY <1>0, <1>3, <2>0, <2>1 DEF Receipt, TypeOK, Types
<1>4. ASSUME NEW b \in BOOLEAN, Rejected(b) PROVE TypeOK'
  <2>0. call \in AttemptType /\ call.id \in Turns /\ pc = "submit"
    BY <1>4, CallTyped DEF Rejected
  <2>1. request' \in RequestType
    BY <1>0, <1>4, RefusedTyped DEF Rejected
  <2>2. pendingSubmit' \in AttemptType \cup {NoAttempt} /\ sent' \subseteq Turns
    BY <1>0, <1>4, <2>0, PendingTyped DEF Rejected, TypeOK
  <2> QED
    BY <1>0, <1>4, <2>1, <2>2 DEF Rejected, TypeOK, Types
<1>5. CASE Abort
  <2>1. CASE /\ pc \in {"commit", "ready", "own"}
             /\ request' = [request EXCEPT !.aborted = TRUE]
             /\ UNCHANGED <<cancelled, late, submission, sinks, obs>>
    <3>1. request' \in RequestType
      BY <1>0, <2>1 DEF TypeOK, RequestType
    <3> QED
      BY <1>0, <1>5, <2>1, <3>1 DEF Abort, TypeOK, Types
  <2>2. CASE /\ pc = "submit" /\ Interrupted
             /\ request' = Idle
             /\ UNCHANGED <<cancelled, correlated, observedSubmitAttempts, sinks>>
    <3>1. call \in AttemptType /\ call.id \in Turns
      BY <2>2, CallTyped
    <3>2. pendingSubmit' \in AttemptType \cup {NoAttempt}
      BY <1>0, <2>2, <3>1, PendingTyped DEF Interrupted
    <3> QED
      <4>1. /\ Idle \in RequestType /\ request' = Idle /\ late' = "wait"
            /\ recoveringAfterAbort' = recoveringAfterAbort \cup {call.id}
        BY <1>0, <2>2, TypedValues DEF Interrupted
      <4>2. /\ troubles' = troubles + 1
            /\ UNCHANGED <<log, admitted, cancelled, transcript, binding, made, sent, call, correlated,
                           observedSubmitAttempts, ownedSubmissions, sinks, undurableSinks,
                           adoptedTerminalTurnIds, terminalCursor, receipts, writes, life, failed,
                           twice, skipped, discarded, dropped>>
        BY <1>5, <2>2 DEF Abort
      <4>3. recoveringAfterAbort' \subseteq Turns /\ late' \in {"none", "wait", "own"}
        BY <1>0, <3>1, <4>1 DEF TypeOK
      <4>4. troubles' \in Nat /\ request' \in RequestType
        BY <1>0, <4>1, <4>2 DEF TypeOK
      <4> QED
        BY <1>0, <3>2, <4>2, <4>3, <4>4 DEF TypeOK, Types
  <2>3. CASE /\ pc = "streaming" /\ request' = Idle
             /\ Cancel({request.id})
             /\ sinks' = [sinks EXCEPT ![request.id].left = TRUE]
             /\ UNCHANGED <<late, submission, obs>>
    <3>1. request.id \in Turns
      BY <2>3, CallTyped
    <3>2. cancelled' \subseteq Turns
      BY <1>0, <2>3, <3>1, CancelTyped
    <3>3. sinks' \in [Turns -> SinkType]
      BY <1>0, <2>3, <3>1 DEF TypeOK, SinkType
    <3> QED
      <4>1. Idle \in RequestType /\ request' = Idle
        BY <1>0, <2>3, TypedValues
      <4>2. /\ troubles' = troubles + 1
            /\ UNCHANGED <<log, admitted, transcript, binding, made, sent, call, late, correlated,
                           pendingSubmit, recoveringAfterAbort, observedSubmitAttempts,
                           ownedSubmissions, undurableSinks,
                           adoptedTerminalTurnIds, terminalCursor, receipts, writes, life, failed,
                           twice, skipped, discarded, dropped>>
        BY <1>5, <2>3 DEF Abort
      <4> QED
        BY <1>0, <3>2, <3>3, <4>1, <4>2 DEF TypeOK, Types
  <2> QED
    BY <1>5, <2>1, <2>2, <2>3 DEF Abort
<1>6. CASE Consume
  <2>1. transcript' \subseteq Events /\ twice' \subseteq Events
    <3>1. message # 0 => message \in Events
      BY <1>0, TypedValues DEF Events
    <3> QED
      BY <1>0, <1>6, <3>1 DEF Consume, Store, TypeOK
  <2> QED
    BY <1>0, <1>6, <2>1, TypedValues DEF Consume, TypeOK, Types
<1> QED
  BY <1>1, <1>2, <1>3, <1>4, <1>5, <1>6

LEMMA SettleTyped ==
  ASSUME TypeOK, NEW t, SettleSink(t)
  PROVE  /\ pendingSubmit' \in AttemptType \cup {NoAttempt}
         /\ observedSubmitAttempts' \subseteq AttemptType \/ pendingSubmit = NoAttempt
<1>1. CASE UNCHANGED <<pendingSubmit, observedSubmitAttempts>>
  BY <1>1 DEF TypeOK
<1>2. CASE Settled(pendingSubmit)
  <2>1. pendingSubmit' \in AttemptType \cup {NoAttempt}
    BY <1>2, ClearedTyped DEF Settled
  <2>2. pendingSubmit # NoAttempt => observedSubmitAttempts' \subseteq AttemptType
    BY <1>2 DEF Settled, TypeOK
  <2> QED
    BY <2>1, <2>2
<1> QED
  BY <1>1, <1>2 DEF SettleSink

LEMMA SettleObserved ==
  ASSUME TypeOK, NEW t \in Turns, SettleSink(t)
  PROVE  observedSubmitAttempts' \subseteq AttemptType
<1>1. CASE pendingSubmit = NoAttempt
  <2>1. pendingSubmit.id = 0
    BY <1>1 DEF NoAttempt
  <2>2. UNCHANGED observedSubmitAttempts
    BY <2>1 DEF SettleSink
  <2> QED
    BY <2>2 DEF TypeOK
<1>2. CASE pendingSubmit # NoAttempt
  BY <1>2, SettleTyped
<1> QED
  BY <1>1, <1>2

LEMMA TypeObserver ==
  ASSUME Inv, [Next]_vars, log' = log,
         Observe \/ Woken \/ StoreMessage \/ Commit \/ CloseSink
  PROVE  TypeOK'
<1> USE DEF engine, wire, submission, projection, runtime, history
<1>0. TypeOK /\ Types' = Types /\ ObsOK(obs') /\ obs' \in ObsType /\ ObsOK(obs)
  BY ObsKept, SameTypes DEF Inv, ObsShape, ObsOK
<1>1. CASE Observe \/ Woken
  <2> DEFINE e == obs.at  t == log[e].turn
  <2>1. /\ e \in Events
        /\ Waits \/ Takes(e, t)
        /\ ObserveUnchanged
    BY <1>1, ObserverMoves
  <2>2. e \in 0..Len(log)
    BY <2>1 DEF Events
  <2>3. /\ ownedSubmissions' \subseteq Turns /\ sinks' \in [Turns -> SinkType]
        /\ undurableSinks' \subseteq Turns /\ terminalCursor' \in 0..Len(log)
        /\ request' \in RequestType /\ discarded' \subseteq Events
        /\ pendingSubmit' \in AttemptType \cup {NoAttempt}
        /\ observedSubmitAttempts' \subseteq AttemptType
    <3>1. CASE Waits \/ Passes(e)
      <4>1. Still
        BY <3>1 DEF Waits, Waiting, Passes, Still
      <4> QED
        BY <1>0, <4>1 DEF Still, TypeOK
    <3>2. CASE Completes(e, t)
      <4>1. /\ t \in Turns /\ undurableSinks' = undurableSinks \ {t} /\ terminalCursor' = e
            /\ sinks' = [sinks EXCEPT ![t] = NoSink] /\ SettleSink(t)
            /\ ownedSubmissions' \subseteq ownedSubmissions
            /\ \/ discarded' = discarded \cup {e} /\ UNCHANGED request
               \/ request' = Ended(e) /\ UNCHANGED discarded
        BY <3>2 DEF Completes, NativeTerminal
      <4>2. request' \in RequestType /\ discarded' \subseteq Events
        BY <1>0, <2>1, <2>2, <4>1, TypedValues DEF TypeOK
      <4>3. sinks' \in [Turns -> SinkType]
        <5>1. NoSink \in SinkType
          BY <1>0, TypedValues
        <5> QED
          BY <1>0, <4>1, <5>1 DEF TypeOK
      <4>4. /\ pendingSubmit' \in AttemptType \cup {NoAttempt}
            /\ observedSubmitAttempts' \subseteq AttemptType
        BY <1>0, <4>1, SettleTyped, SettleObserved
      <4> QED
        BY <1>0, <2>2, <4>1, <4>2, <4>3, <4>4 DEF TypeOK
    <3>3. CASE Shows(e, t)
      <4>1. /\ t \in Turns /\ undurableSinks' \subseteq undurableSinks \cup {t}
            /\ ownedSubmissions' \subseteq ownedSubmissions
            /\ \E x \in SinkType : sinks' = [sinks EXCEPT ![t] = x]
            /\ UNCHANGED <<terminalCursor, request, discarded, pendingSubmit, observedSubmitAttempts>>
        BY <3>3 DEF Shows
      <4>2. sinks' \in [Turns -> SinkType]
        BY <1>0, <4>1 DEF TypeOK
      <4> QED
        BY <1>0, <4>1, <4>2 DEF TypeOK
    <3> QED
      BY <2>1, <3>1, <3>2, <3>3 DEF Takes
  <2> QED
    BY <1>0, <2>1, <2>3 DEF ObserveUnchanged, TypeOK, Types
<1> DEFINE op == Head(obs.todo)
<1>2. ASSUME obs.pc = "apply"
      PROVE  /\ op \in OpType /\ op.e \in Events /\ op.t \in Turns \cup {Foreign}
             /\ op.op \in {"call", "close"} => op.t \in Turns
  <2>1. obs.todo \in Seq(OpType) /\ obs.todo # <<>> /\ Planned(obs)
    BY <1>0, <1>2 DEF ObsOK, ObsType
  <2>2. op \in OpType /\ op = obs.todo[1] /\ 1 \in DOMAIN obs.todo
    BY <2>1, SeqFacts
  <2> HIDE DEF op
  <2>3. op.op \in {"call", "close"} => op.t \in Turns
    BY <2>1, <2>2 DEF Planned
  <2> QED
    BY <2>2, <2>3 DEF OpType
<1>3. CASE StoreMessage
  <2>1. /\ obs.pc = "apply" /\ undurableSinks' = KeptBack(op)
        /\ UNCHANGED <<transcript, twice>> \/ Store(op.e)
    BY <1>3 DEF StoreMessage
  <2>2. transcript' \subseteq Events /\ twice' \subseteq Events
    <3> HIDE DEF op
    <3> QED
      BY <1>0, <1>2, <2>1 DEF Store, TypeOK
  <2>3. undurableSinks' \subseteq Turns
    <3> HIDE DEF op
    <3> QED
      BY <1>0, <1>2, <2>1 DEF KeptBack, TypeOK
  <2>4. /\ ApplyUnchanged
        /\ UNCHANGED <<pendingSubmit, observedSubmitAttempts, sinks, adoptedTerminalTurnIds,
                 terminalCursor, writes>>
    BY <1>3 DEF StoreMessage
  <2> QED
    BY <1>0, <2>2, <2>3, <2>4 DEF ApplyUnchanged, TypeOK, Types
<1>4. CASE Commit
  <2>1. /\ obs.pc = "apply" /\ undurableSinks' = Undurable(op)
        /\ \/ UNCHANGED <<terminalCursor, writes>>
           \/ terminalCursor' = op.e /\ UNCHANGED writes
           \/ Persist(CursorWrite("obs", op.e, ownedSubmissions)) /\ UNCHANGED terminalCursor
        /\ ApplyUnchanged
        /\ UNCHANGED <<transcript, twice, pendingSubmit, observedSubmitAttempts, sinks,
                 adoptedTerminalTurnIds>>
    BY <1>4 DEF Commit
  <2> HIDE DEF op
  <2>2. undurableSinks' \subseteq Turns
    BY <1>0, <2>1 DEF Undurable, TypeOK
  <2>3. op.e \in 0..Len(log)
    BY <1>2, <2>1 DEF Events
  <2>4. CursorWrite("obs", op.e, ownedSubmissions) \in WriteType
    BY <1>0, <2>3 DEF CursorWrite, WriteType, TypeOK
  <2>5. terminalCursor' \in 0..Len(log) /\ writes' \in Seq(WriteType)
    BY <1>0, <2>1, <2>3, <2>4, PersistTyped DEF TypeOK
  <2> QED
    BY <1>0, <2>1, <2>2, <2>5 DEF ApplyUnchanged, TypeOK, Types
<1>5. CASE CloseSink
  <2>1. /\ obs.pc = "apply" /\ op.op = "close" /\ SettleSink(op.t)
        /\ adoptedTerminalTurnIds' = adoptedTerminalTurnIds \cup {op.t}
        /\ sinks' = [sinks EXCEPT ![op.t] = NoSink]
        /\ ApplyUnchanged
        /\ UNCHANGED <<transcript, twice, undurableSinks, terminalCursor, writes>>
    BY <1>5 DEF CloseSink
  <2> HIDE DEF op
  <2>2. op.t \in Turns
    BY <1>2, <2>1
  <2>3. /\ pendingSubmit' \in AttemptType \cup {NoAttempt}
        /\ observedSubmitAttempts' \subseteq AttemptType
    BY <1>0, <2>1, <2>2, SettleTyped, SettleObserved
  <2>4. sinks' \in [Turns -> SinkType] /\ adoptedTerminalTurnIds' \subseteq Turns
    <3>1. NoSink \in SinkType
      BY <1>0, TypedValues
    <3> QED
      BY <1>0, <2>1, <2>2, <3>1 DEF TypeOK
  <2> QED
    BY <1>0, <2>1, <2>3, <2>4 DEF ApplyUnchanged, TypeOK, Types
<1> QED
  BY <1>1, <1>3, <1>4, <1>5

LEMMA InstalledTyped ==
  ASSUME TypeOK, NEW a \in Turns, Installed(a)
  PROVE  /\ ownedSubmissions' \subseteq Turns /\ pendingSubmit' \in AttemptType \cup {NoAttempt}
         /\ cancelled' \subseteq Turns /\ request' \in RequestType /\ sinks' \in [Turns -> SinkType]
<1>1. pendingSubmit' \in AttemptType \cup {NoAttempt}
  BY ClearedTyped DEF Installed
<1>2. cancelled' \subseteq Turns
  BY CancelTyped DEF Installed, TypeOK
<1>3. request' \in RequestType /\ sinks' \in [Turns -> SinkType]
  <2>1. CASE Refused /\ UNCHANGED sinks
    BY <2>1, RefusedTyped DEF TypeOK
  <2>2. CASE /\ sinks' = [sinks EXCEPT ![a] = [NewSink(FALSE) EXCEPT !.left = request.aborted]]
             /\ request' = IF request.aborted THEN Idle
                           ELSE [Idle EXCEPT !.pc = "streaming", !.id = a]
    <3>1. Len(log) \in Nat /\ 0 \in 0..Len(log)
      BY TypedValues
    <3>2. [Idle EXCEPT !.pc = "streaming", !.id = a] \in RequestType
      BY <3>1 DEF Idle, RequestType
    <3>3. [NewSink(FALSE) EXCEPT !.left = request.aborted] \in SinkType /\ Idle \in RequestType
      BY TypedValues
    <3> QED
      BY <2>2, <3>2, <3>3 DEF TypeOK
  <2> QED
    BY <2>1, <2>2 DEF Installed
<1> QED
  BY <1>1, <1>2, <1>3 DEF Installed, TypeOK

LEMMA QueueHead ==
  ASSUME Inv, NEW by \in {"own", "late", "held", "obs", "close"}, Written(by)
  PROVE  /\ by = "own" => pc = "own" /\ Head(writes).owned = {request.id} /\ request.id \in Turns
         /\ by = "late" => late = "own" /\ Head(writes).owned = {pendingSubmit.id}
                           /\ pendingSubmit.id \in Turns
         /\ by = "held" => pc = "commit"
         /\ by = "obs" => obs.pc = "write"
         /\ by = "close" => life = "committing"
<1>1. Head(writes) = writes[1] /\ 1 \in DOMAIN writes /\ Head(writes).by = by
  BY WrittenTyped DEF Inv
<1>2. /\ by = "own" => pc = "own" /\ Head(writes).owned = {request.id}
      /\ by = "late" => late = "own" /\ Head(writes).owned = {pendingSubmit.id}
      /\ by = "held" => pc = "commit"
      /\ by = "obs" => obs.pc = "write"
      /\ by = "close" => life = "committing"
  BY <1>1 DEF Inv, Queue
<1>3. late = "own" => pendingSubmit # NoAttempt
  BY DEF Inv, Attempts
<1> QED
  BY <1>2, <1>3, CallTyped

LEMMA TypeWrites ==
  ASSUME Inv, [Next]_vars, log' = log, WriteStep \/ WrittenClose
  PROVE  TypeOK'
<1> USE DEF engine, wire, submission, projection, runtime, history
<1>0. TypeOK /\ Types' = Types /\ obs' \in ObsType
  BY ObsKept, SameTypes DEF Inv, ObsOK
<1>1. CASE WrittenObserved
  <2>1. Written("obs")
    BY <1>1 DEF WrittenObserved
  <2>2. writes' \in Seq(WriteType) /\ binding' \in BindingType
    BY <1>0, <2>1, WrittenTyped
  <2> QED
    BY <1>0, <1>1, <2>2 DEF WrittenObserved, TypeOK, Types
<1>2. CASE WrittenHeld
  <2>1. Written("held")
    BY <1>2 DEF WrittenHeld
  <2>2. writes' \in Seq(WriteType) /\ binding' \in BindingType
    BY <1>0, <2>1, WrittenTyped
  <2>3. request' \in RequestType /\ terminalCursor' \in 0..Len(log)
    <3>1. Len(log) \in Nat /\ 0 \in 0..Len(log)
      BY <1>0, TypedValues
    <3> QED
      BY <1>0, <1>2, <3>1 DEF WrittenHeld, RequestType, TypeOK
  <2> QED
    BY <1>0, <1>2, <2>2, <2>3 DEF WrittenHeld, TypeOK, Types
<1>3. CASE WrittenOwn
  <2>1. Written("own") /\ Installed(request.id)
    BY <1>3 DEF WrittenOwn
  <2>2. writes' \in Seq(WriteType) /\ binding' \in BindingType /\ request.id \in Turns
    BY <1>0, <2>1, WrittenTyped, QueueHead
  <2>3. /\ ownedSubmissions' \subseteq Turns /\ pendingSubmit' \in AttemptType \cup {NoAttempt}
        /\ cancelled' \subseteq Turns /\ request' \in RequestType /\ sinks' \in [Turns -> SinkType]
    BY <1>0, <2>1, <2>2, InstalledTyped
  <2> QED
    BY <1>0, <1>3, <2>2, <2>3 DEF WrittenOwn, TypeOK, Types
<1>4. CASE WrittenLate
  <2>1. Written("late")
    BY <1>4 DEF WrittenLate
  <2>2. /\ writes' \in Seq(WriteType) /\ binding' \in BindingType
        /\ pendingSubmit.id \in Turns /\ Head(writes).owned = {pendingSubmit.id}
    BY <1>0, <2>1, WrittenTyped, QueueHead
  <2>3. /\ ownedSubmissions' = ownedSubmissions \cup {pendingSubmit.id}
        /\ correlated' = correlated \cup {pendingSubmit.id}
        /\ Cancel({pendingSubmit.id})
    BY <1>4, <2>2 DEF WrittenLate
  <2>4. cancelled' \subseteq Turns
    BY <1>0, <2>2, <2>3, CancelTyped
  <2> QED
    BY <1>0, <1>4, <2>2, <2>3, <2>4 DEF WrittenLate, TypeOK, Types
<1>5. CASE WrittenClose
  <2>1. Written("close")
    BY <1>5 DEF WrittenClose
  <2>2. writes' \in Seq(WriteType) /\ binding' \in BindingType /\ 0 \in 0..Len(log)
    BY <1>0, <2>1, WrittenTyped, TypedValues
  <2> QED
    BY <1>0, <1>5, <2>2 DEF WrittenClose, TypeOK, Types
<1> QED
  BY <1>1, <1>2, <1>3, <1>4, <1>5 DEF WriteStep

LEMMA TypeLate ==
  ASSUME Inv, [Next]_vars, log' = log,
         LateReceipt \/ (\E b \in BOOLEAN : LateRejected(b)) \/ CloseInterrupt
  PROVE  TypeOK'
<1> USE DEF engine, wire, submission, projection, runtime, history, Trouble
<1>0. TypeOK /\ Types' = Types /\ obs' \in ObsType
  BY ObsKept, SameTypes DEF Inv, ObsOK
<1>1. CASE LateReceipt
  <2>1. call \in AttemptType /\ call.id \in Turns
    BY <1>1, CallTyped DEF LateReceipt
  <2>2. /\ cancelled' \subseteq Turns /\ pendingSubmit' \in AttemptType \cup {NoAttempt}
        /\ correlated' \subseteq Turns /\ late' \in {"none", "wait", "own"}
        /\ observedSubmitAttempts' \subseteq AttemptType /\ writes' \in Seq(WriteType)
    <3>1. CASE /\ Cancel({call.id})
               /\ Cleared(call)
               /\ correlated' = correlated \cup {call.id} /\ late' = "none"
               /\ UNCHANGED <<observedSubmitAttempts, writes>>
      BY <1>0, <2>1, <3>1, CancelTyped, ClearedTyped DEF TypeOK
    <3>2. CASE /\ Settled(call)
               /\ correlated' = correlated \cup {call.id} /\ late' = "none"
               /\ UNCHANGED <<cancelled, writes>>
      <4>1. Cleared(call)
        BY <3>2 DEF Settled
      <4> QED
        BY <1>0, <2>1, <3>2, <4>1, ClearedTyped, PendingTyped DEF TypeOK
    <3>3. CASE /\ Cancel({call.id})
               /\ correlated' = correlated \cup {call.id} /\ late' = "none"
               /\ UNCHANGED <<pendingSubmit, observedSubmitAttempts, writes>>
      BY <1>0, <2>1, <3>3, CancelTyped DEF TypeOK
    <3>4. CASE /\ Persist(OwnWrite("late", call.id)) /\ late' = "own"
               /\ UNCHANGED <<cancelled, pendingSubmit, correlated, observedSubmitAttempts>>
      <4>0. Len(log) \in Nat /\ 0 \in 0..Len(log)
        BY <1>0, TypedValues
      <4>1. OwnWrite("late", call.id) \in WriteType
        BY <2>1, <4>0 DEF OwnWrite, WriteType
      <4>2. writes' \in Seq(WriteType)
        BY <1>0, <3>4, <4>1, PersistTyped
      <4> QED
        BY <1>0, <3>4, <4>2 DEF TypeOK
    <3> QED
      BY <1>1, <3>1, <3>2, <3>3, <3>4 DEF LateReceipt
  <2> QED
    BY <1>0, <1>1, <2>2 DEF LateReceipt, TypeOK, Types
<1>2. ASSUME NEW b \in BOOLEAN, LateRejected(b) PROVE TypeOK'
  <2>1. call \in AttemptType /\ call.id \in Turns
    BY <1>2, CallTyped DEF LateRejected
  <2>2. pendingSubmit' \in AttemptType \cup {NoAttempt} /\ sent' \subseteq Turns
    <3>1. UNCHANGED <<sent, pendingSubmit>> \/ (Cleared(call) /\ sent' = sent \ {call.id})
      BY <1>2 DEF LateRejected
    <3> QED
      BY <1>0, <3>1, ClearedTyped DEF TypeOK
  <2> QED
    <3>1. /\ troubles' = troubles + 1 /\ late' = "none" /\ call' = NoAttempt
          /\ recoveringAfterAbort' = recoveringAfterAbort \ {call.id}
          /\ UNCHANGED <<log, admitted, cancelled, transcript, binding, request, made, correlated,
                 observedSubmitAttempts, ownedSubmissions, sinks, undurableSinks,
                 adoptedTerminalTurnIds, terminalCursor, writes, receipts, life, failed,
                 twice, skipped, discarded, dropped>>
      BY <1>2 DEF LateRejected
    <3>2. recoveringAfterAbort' \subseteq Turns /\ troubles' \in Nat
      <4>1. recoveringAfterAbort \subseteq Turns /\ troubles \in Nat
        BY <1>0 DEF TypeOK
      <4>2. troubles' \in Nat
        BY <3>1, <4>1
      <4>3. recoveringAfterAbort' \subseteq recoveringAfterAbort
        BY <3>1
      <4> QED
        BY <4>1, <4>2, <4>3
    <3> QED
      BY <1>0, <2>2, <3>1, <3>2 DEF TypeOK, Types
<1>3. CASE CloseInterrupt
  <2>1. call \in AttemptType /\ call.id \in Turns
    BY <1>3, CallTyped DEF CloseInterrupt
  <2>2. pendingSubmit' \in AttemptType \cup {NoAttempt} /\ request' \in RequestType
    BY <1>0, <1>3, <2>1, PendingTyped, RefusedTyped DEF CloseInterrupt, Interrupted
  <2>3. recoveringAfterAbort' \subseteq Turns /\ late' \in {"none", "wait", "own"}
    BY <1>0, <1>3, <2>1 DEF CloseInterrupt, Interrupted, TypeOK
  <2>4. UNCHANGED <<log, admitted, cancelled, transcript, binding, made, sent, call, correlated,
                   observedSubmitAttempts, ownedSubmissions, sinks, undurableSinks,
                   adoptedTerminalTurnIds, terminalCursor, writes, receipts, life, failed, troubles,
                   twice, skipped, discarded, dropped>>
    BY <1>3 DEF CloseInterrupt
  <2> QED
    BY <1>0, <2>2, <2>3, <2>4 DEF TypeOK, Types
<1> QED
  BY <1>1, <1>2, <1>3

LEMMA TypeEnds ==
  ASSUME Inv, [Next]_vars, log' = log,
         ObserverLost \/ BeginClose \/ CloseCommit \/ Crash \/ Restart \/ Admit \/ UNCHANGED vars
  PROVE  TypeOK'
<1> USE DEF engine, wire, submission, projection, runtime, history, Trouble
<1>0. TypeOK /\ Types' = Types /\ obs' \in ObsType
  BY ObsKept, SameTypes DEF Inv, ObsOK
<1>a. /\ Len(log) \in Nat /\ 0 \in 0..Len(log) /\ Idle \in RequestType /\ Ended(0) \in RequestType
      /\ [t \in Turns |-> NoSink] \in [Turns -> SinkType] /\ Natives \subseteq Turns
      /\ message \in 0..Len(log)
  BY <1>0, TypedValues
<1>1. ASSUME FailedSinks
      PROVE  /\ cancelled' \subseteq Turns /\ sinks' \in [Turns -> SinkType] /\ request' \in RequestType
  BY <1>0, <1>a, <1>1, CancelTyped DEF FailedSinks, TypeOK
<1>2. CASE ObserverLost
  BY <1>0, <1>1, <1>2 DEF ObserverLost, TypeOK, Types
<1>3. CASE BeginClose
  BY <1>0, <1>1, <1>3 DEF BeginClose, TypeOK, Types
<1>4. CASE CloseCommit
  <2>1. CursorWrite("close", terminalCursor, ownedSubmissions) \in WriteType
    BY <1>0 DEF CursorWrite, WriteType, TypeOK
  <2>2. writes' \in Seq(WriteType) /\ life' \in {"up", "closing", "committing", "down"}
    BY <1>0, <1>4, <2>1, PersistTyped DEF CloseCommit, TypeOK
  <2> QED
    BY <1>0, <1>4, <2>2 DEF CloseCommit, TypeOK, Types
<1>5. Forgotten => /\ request' \in RequestType /\ call' \in AttemptType \cup {NoAttempt}
                   /\ late' \in {"none", "wait", "own"}
                   /\ pendingSubmit' \in AttemptType \cup {NoAttempt}
                   /\ recoveringAfterAbort' \subseteq Turns /\ correlated' \subseteq Turns
                   /\ observedSubmitAttempts' \subseteq AttemptType /\ sinks' \in [Turns -> SinkType]
                   /\ undurableSinks' \subseteq Turns /\ adoptedTerminalTurnIds' \subseteq Turns
                   /\ terminalCursor' \in 0..Len(log) /\ writes' \in Seq(WriteType)
                   /\ failed' \in BOOLEAN
  <2>1. <<>> \in Seq(WriteType)
    OBVIOUS
  <2>2. ASSUME Forgotten
        PROVE  /\ request' = Idle /\ call' = NoAttempt /\ late' = "none" /\ pendingSubmit' = NoAttempt
               /\ recoveringAfterAbort' = {} /\ correlated' = {} /\ observedSubmitAttempts' = {}
               /\ sinks' = [t \in Turns |-> NoSink]
               /\ undurableSinks' = {} /\ adoptedTerminalTurnIds' = {} /\ terminalCursor' = 0
               /\ writes' = <<>> /\ failed' = FALSE
    BY <2>2 DEF Forgotten
  <2> QED
    BY <1>a, <2>1, <2>2
<1>6. CASE Crash
  <2>1. dropped' \subseteq Events
    BY <1>0, <1>a, <1>6 DEF Crash, TypeOK, Events
  <2> QED
    BY <1>0, <1>5, <1>6, <2>1 DEF Crash, TypeOK, Types
<1>7. CASE Restart
  <2>1. \E h \in 0..Len(log) : /\ binding' = [binding EXCEPT !.cursor = h]
                               /\ skipped' = skipped \cup (binding.cursor + 1)..h
    <3>1. Len(log) \in 0..Len(log) /\ binding.cursor \in 0..Len(log)
      BY <1>0, <1>a DEF TypeOK, BindingType
    <3> QED
      BY <1>7, <3>1 DEF Restart, RecoveredCursor
  <2>2. binding' \in BindingType /\ skipped' \subseteq Nat
    <3>1. binding' \in BindingType
      BY <1>0, <2>1 DEF BindingType, TypeOK
    <3>2. binding.cursor \in Nat
      BY <1>0 DEF BindingType, TypeOK
    <3>3. \A h \in 0..Len(log) : (binding.cursor + 1)..h \subseteq Nat
      BY <1>a, <3>2
    <3>4. skipped' \subseteq Nat
      BY <1>0, <2>1, <3>3 DEF TypeOK
    <3> QED
      BY <3>1, <3>4
  <2>3. ownedSubmissions' \subseteq Turns /\ receipts' \subseteq Events
    BY <1>0, <1>7 DEF Restart, BindingType, TypeOK
  <2>4. Forgotten /\ life' = "up"
        /\ UNCHANGED <<log, admitted, cancelled, transcript, made, sent, troubles, twice, discarded, dropped>>
    BY <1>7 DEF Restart
  <2> QED
    BY <1>0, <1>5, <2>2, <2>3, <2>4 DEF TypeOK, Types
<1>8. CASE Admit
  <2>1. \E a \in Turns : admitted' = Append(admitted, a)
    BY <1>0, <1>8 DEF Admit, TypeOK
  <2>2. admitted' \in Seq(Turns)
    BY <1>0, <2>1 DEF TypeOK
  <2> QED
    BY <1>0, <1>8, <2>2 DEF Admit, TypeOK, Types
<1>9. CASE UNCHANGED vars
  BY <1>0, <1>9 DEF vars, TypeOK, Types
<1> QED
  BY <1>2, <1>3, <1>4, <1>6, <1>7, <1>8, <1>9

--------------------------------------------------------------------------------
(* The types.                                                              *)

(* The events that are there stay when the engine appends one.             *)
LEMMA Grown ==
  ASSUME TypeOK, NEW x \in EventType, log' = Append(log, x)
  PROVE  /\ log' \in Seq(EventType) /\ Len(log)' = Len(log) + 1 /\ Len(log) \in Nat
         /\ Events' = Events \cup {Len(log) + 1} /\ Len(log) + 1 \notin Events
         /\ \A i \in Events : log'[i] = log[i] /\ i <= Len(log)
         /\ log'[Len(log) + 1] = x
         /\ 0..Len(log) \subseteq (0..Len(log))'
<1>1. log \in Seq(EventType) /\ Len(log) \in Nat /\ DOMAIN log = 1..Len(log)
  BY DEF TypeOK
<1>2. /\ log' \in Seq(EventType) /\ Len(log') = Len(log) + 1
      /\ \A i \in 1..Len(log) : log'[i] = log[i]
      /\ log'[Len(log) + 1] = x
  BY <1>1, AppendFacts
<1>3. /\ 1..(Len(log) + 1) = 1..Len(log) \cup {Len(log) + 1} /\ Len(log) + 1 \notin 1..Len(log)
      /\ 0..Len(log) \subseteq 0..(Len(log) + 1) /\ \A i \in 1..Len(log) : i <= Len(log)
  BY <1>1
<1> QED
  BY <1>1, <1>2, <1>3 DEF Events

LEMMA SeqsGrow ==
  ASSUME OpType \subseteq OpType', WriteType \subseteq WriteType'
  PROVE  Seq(WriteType) \subseteq Seq(WriteType') /\ Seq(OpType) \subseteq Seq(OpType')
OBVIOUS

LEMMA TypesGrow ==
  ASSUME TypeOK, NEW x \in EventType, log' = Append(log, x)
  PROVE  /\ OpType \subseteq OpType' /\ SinkType \subseteq SinkType' /\ WriteType \subseteq WriteType'
         /\ BindingType \subseteq BindingType' /\ RequestType \subseteq RequestType'
         /\ ObsType \subseteq ObsType' /\ Events \subseteq Events'
         /\ 0..Len(log) \subseteq (0..Len(log))'
         /\ Seq(WriteType) \subseteq Seq(WriteType') /\ Seq(OpType) \subseteq Seq(OpType')
         /\ [Turns -> SinkType] \subseteq [Turns -> SinkType']
<1>1. /\ Events \subseteq Events' /\ 0..Len(log) \subseteq (0..Len(log))'
      /\ log' \in Seq(EventType)
  BY Grown
<1>2. OpType \subseteq OpType'
  BY <1>1 DEF OpType
<1> DEFINE N == 0..Len(log)
<1>a. N \subseteq N'
  BY <1>1
<1>3. SinkType \subseteq SinkType'
  <2>1. SinkType = [adopted : BOOLEAN, left : BOOLEAN, text : N, called : SUBSET Nat, answered : SUBSET Nat,
                     live : BOOLEAN]
    BY DEF SinkType
  <2>2. SinkType' = [adopted : BOOLEAN, left : BOOLEAN, text : N', called : SUBSET Nat, answered : SUBSET Nat,
                      live : BOOLEAN]
    BY DEF SinkType
  <2> HIDE DEF N
  <2> QED
    BY <1>a, <2>1, <2>2
<1>4. WriteType \subseteq WriteType'
  <2>1. WriteType = [by : {"own", "late", "held", "obs", "close"}, cursor : N, owned : SUBSET Turns]
    BY DEF WriteType
  <2>2. WriteType' = [by : {"own", "late", "held", "obs", "close"}, cursor : N', owned : SUBSET Turns]
    BY DEF WriteType
  <2> HIDE DEF N
  <2> QED
    BY <1>a, <2>1, <2>2
<1>5. BindingType \subseteq BindingType'
  <2>1. BindingType = [cursor : N, owned : SUBSET Turns]
    BY DEF BindingType
  <2>2. BindingType' = [cursor : N', owned : SUBSET Turns]
    BY DEF BindingType
  <2> HIDE DEF N
  <2> QED
    BY <1>a, <2>1, <2>2
<1>6. RequestType \subseteq RequestType'
  <2> DEFINE R(M) == [pc : {"idle", "commit", "ready", "submit", "own", "streaming", "ended"},
                digest : Prompts \cup {NoPrompt}, id : Turns \cup {0},
                aborted : BOOLEAN, message : M]
  <2>1. RequestType = R(N)
    BY DEF RequestType
  <2>2. RequestType' = R(N')
    BY DEF RequestType
  <2>3. \A A, B : A \subseteq B => R(A) \subseteq R(B)
    OBVIOUS
  <2> HIDE DEF N, R
  <2> QED
    BY <1>a, <2>1, <2>2, <2>3
<1>7. Seq(WriteType) \subseteq Seq(WriteType') /\ Seq(OpType) \subseteq Seq(OpType')
  BY <1>2, <1>4, SeqsGrow
<1>8. ObsType \subseteq ObsType'
  <2> DEFINE R(Q) == [pc : {"read", "wait", "waitOwner", "apply", "write", "stopped"}, at : Nat,
            woken : BOOLEAN, todo : Q]
  <2>1. ObsType = R(Seq(OpType))
    BY DEF ObsType
  <2>2. ObsType' = R(Seq(OpType'))
    BY DEF ObsType
  <2>3. \A A, B : A \subseteq B => R(A) \subseteq R(B)
    OBVIOUS
  <2> HIDE DEF R
  <2> QED
    BY <1>7, <2>1, <2>2, <2>3
<1>9. [Turns -> SinkType] \subseteq [Turns -> SinkType']
  BY <1>3
<1> QED
  BY <1>1, <1>2, <1>3, <1>4, <1>5, <1>6, <1>7, <1>8, <1>9

(* What a step that appends an event does.                                 *)
Emits(x) ==
  /\ log' = Append(log, x) /\ x \in EventType
  /\ x.turn \in {Foreign} \cup Range(admitted)
  /\ x.kind \in {"session", "foreign"} => x.turn = Foreign
  /\ x.turn \in Turns => ~Over(x.turn)
  /\ cancelled' \subseteq cancelled
  /\ \A t \in cancelled \ cancelled' : x.turn = t /\ x.kind \in Terminal
  /\ UNCHANGED <<admitted, transcript, binding, request, made, sent, call, late,
                 pendingSubmit, recoveringAfterAbort, correlated, observedSubmitAttempts,
                 ownedSubmissions, sinks, undurableSinks, adoptedTerminalTurnIds, terminalCursor,
                 obs, writes, receipts, life, failed, twice, skipped, discarded, dropped>>
  /\ troubles \in Nat => troubles' \in Nat

LEMMA EmittedNat ==
  ASSUME TypeOK, NEW t
  PROVE  Emitted(t) \in Nat
<1>1. Len(log) \in Nat
  BY DEF TypeOK
<1>2. IsFiniteSet(1..Len(log))
  BY <1>1, FS_Interval
<1>3. IsFiniteSet({i \in Events : log[i].turn = t})
  BY <1>2, FS_Subset DEF Events
<1> QED
  BY <1>3, FS_CardinalityType DEF Emitted

LEMMA NextScripted ==
  ASSUME TypeOK, NEW t \in Turns, Emitted(t) < Len(Script[t])
  PROVE  /\ Emitted(t) + 1 \in 1..Len(Script[t]) /\ DOMAIN Script[t] = 1..Len(Script[t])
         /\ Script[t][Emitted(t) + 1] \in [kind : {"start", "text", "call", "result"}, callId : Nat]
<1>1. Script[t] \in Seq([kind : {"start", "text", "call", "result"}, callId : Nat])
  BY BridgeAssumption
<1>2. Emitted(t) \in Nat /\ Len(Script[t]) \in Nat /\ DOMAIN Script[t] = 1..Len(Script[t])
  BY <1>1, EmittedNat
<1>3. Emitted(t) + 1 \in 1..Len(Script[t])
  BY <1>2
<1> QED
  BY <1>1, <1>2, <1>3, ElementOfSeq

LEMMA LogSteps ==
  ASSUME TypeOK, EmitForeign \/ \E t \in Turns, k \in Kinds : Emit(t, k)
  PROVE  \E x \in EventType : Emits(x)
<1> USE DEF engine, wire, submission, projection, runtime, history, Trouble
<1>1. CASE EmitForeign
  <2>1. PICK k \in {"foreign", "session"} : log' = Append(log, [turn |-> Foreign, kind |-> k, callId |-> 0])
    BY <1>1 DEF EmitForeign
  <2> DEFINE x == [turn |-> Foreign, kind |-> k, callId |-> 0]
  <2>2. x \in EventType /\ x.turn = Foreign
    BY DEF EventType, Kinds
  <2>3. x.turn \notin Turns
    BY <2>2
  <2>4. troubles \in Nat => troubles' \in Nat
    BY <1>1 DEF EmitForeign
  <2> HIDE DEF x
  <2> QED
    BY <1>1, <2>1, <2>2, <2>3, <2>4 DEF EmitForeign, Emits, x
<1>2. ASSUME NEW t \in Turns, NEW k \in Kinds, Emit(t, k) PROVE \E x \in EventType : Emits(x)
  <2> DEFINE x == [turn |-> t, kind |-> k, callId |-> CallId(t, k)]
  <2>0. k \notin {"end", "fail"} =>
          /\ k = Script[t][Emitted(t) + 1].kind
          /\ Script[t][Emitted(t) + 1] \in [kind : {"start", "text", "call", "result"}, callId : Nat]
    <3>1. SUFFICES ASSUME k \notin {"end", "fail"}
                   PROVE  /\ k = Script[t][Emitted(t) + 1].kind
                          /\ Script[t][Emitted(t) + 1] \in [kind : {"start", "text", "call", "result"}, callId : Nat]
      OBVIOUS
    <3>2. Emitted(t) < Len(Script[t]) /\ k = Script[t][Emitted(t) + 1].kind
      BY <1>2, <3>1 DEF Emit
    <3> QED
      BY <3>2, NextScripted
  <2>1. x \in EventType /\ x.turn = t /\ x.kind = k
    <3>1. CallId(t, k) \in Nat
      BY <2>0 DEF CallId, Terminal
    <3> QED
      BY <3>1 DEF EventType
  <2>2. k \notin {"session", "foreign"}
    BY <2>0
  <2>3. /\ log' = Append(log, x) /\ t \in Range(admitted) /\ ~Over(t)
        /\ cancelled' = IF k \in Terminal THEN cancelled \ {t} ELSE cancelled
        /\ UNCHANGED <<admitted, transcript, binding, request, made, sent, call, late,
                 pendingSubmit, recoveringAfterAbort, correlated, observedSubmitAttempts,
                 ownedSubmissions, sinks, undurableSinks, adoptedTerminalTurnIds, terminalCursor,
                 obs, writes, receipts, life, failed, troubles, twice, skipped, discarded, dropped>>
    BY <1>2 DEF Emit
  <2> HIDE DEF x
  <2> QED
    BY <2>1, <2>2, <2>3 DEF Emits
<1> QED
  BY <1>1, <1>2

LEMMA TypeEmits ==
  ASSUME TypeOK, NEW x \in EventType, Emits(x)
  PROVE  TypeOK'
<1>1. /\ OpType \subseteq OpType' /\ SinkType \subseteq SinkType' /\ WriteType \subseteq WriteType'
      /\ BindingType \subseteq BindingType' /\ RequestType \subseteq RequestType'
      /\ ObsType \subseteq ObsType' /\ Events \subseteq Events'
      /\ 0..Len(log) \subseteq (0..Len(log))'
      /\ Seq(WriteType) \subseteq Seq(WriteType')
      /\ [Turns -> SinkType] \subseteq [Turns -> SinkType']
  BY TypesGrow DEF Emits
<1>2. log' \in Seq(EventType')
  BY Grown DEF Emits, EventType
<1> QED
  BY <1>1, <1>2 DEF TypeOK, Emits

(* Every step keeps the types.                                             *)
LEMMA TypeKept ==
  ASSUME Inv, [Next]_vars
  PROVE  TypeOK'
<1>1. CASE EmitForeign \/ \E t \in Turns, k \in Kinds : Emit(t, k)
  BY <1>1, LogSteps, TypeEmits DEF Inv
<1>2. CASE \/ (\E p \in Prompts : Stream(p)) \/ StreamStep \/ Abort \/ Consume
  <2>1. log' = log
    BY <1>2 DEF Stream, StreamStep, Submit, Receipt, Rejected, Abort, Consume, engine
  <2> QED
    BY <1>2, <2>1, TypeCalls DEF StreamStep
<1>3. CASE ObserveStep \/ Woken
  <2>1. log' = log
    BY <1>3 DEF ObserveStep, Observe, StoreMessage, Commit, CloseSink, Woken, ObserveUnchanged,
                ApplyUnchanged, engine
  <2> QED
    BY <1>3, <2>1, TypeObserver DEF ObserveStep
<1>4. CASE WriteStep \/ WrittenClose
  <2>1. log' = log
    BY <1>4 DEF WriteStep, WrittenObserved, WrittenHeld, WrittenOwn, WrittenLate, WrittenClose, engine
  <2> QED
    BY <1>4, <2>1, TypeWrites
<1>5. CASE LateStep \/ CloseInterrupt
  <2>1. log' = log
    BY <1>5 DEF LateStep, LateReceipt, LateRejected, CloseInterrupt, engine
  <2> QED
    BY <1>5, <2>1, TypeLate DEF LateStep
<1>6. CASE ObserverLost \/ BeginClose \/ CloseCommit \/ Crash \/ Restart \/ Admit \/ UNCHANGED vars
  <2>1. log' = log
    BY <1>6 DEF ObserverLost, BeginClose, CloseCommit, Crash, Restart, Admit, vars, engine
  <2> QED
    BY <1>6, <2>1, TypeEnds
<1> QED
  BY <1>1, <1>2, <1>3, <1>4, <1>5, <1>6 DEF Next

--------------------------------------------------------------------------------
(* The stream call and its sinks.                                          *)

(* The fields of a stream call.                                            *)
Is(r, q, d, i, m) == r.pc = q /\ r.digest = d /\ r.id = i /\ r.message = m

LEMMA RequestForms ==
  ASSUME TypeOK
  PROVE  /\ Is(Idle, "idle", 0, 0, 0) /\ \A e : Is(Ended(e), "ended", 0, 0, e)
         /\ \A p : /\ Is([Idle EXCEPT !.pc = "ready", !.digest = p], "ready", p, 0, 0)
                   /\ Is([Idle EXCEPT !.pc = "commit", !.digest = p], "commit", p, 0, 0)
         /\ \A i : /\ Is([request EXCEPT !.pc = "submit", !.id = i], "submit", request.digest, i, message)
                   /\ Is([Idle EXCEPT !.pc = "streaming", !.id = i], "streaming", 0, i, 0)
         /\ Is([request EXCEPT !.pc = "own"], "own", request.digest, request.id, message)
         /\ Is([request EXCEPT !.pc = "ready"], "ready", request.digest, request.id, message)
         /\ Is([request EXCEPT !.aborted = TRUE], pc, request.digest, request.id, message)
         /\ Refused => Is(request', "idle", 0, 0, 0) \/ Is(request', "ended", 0, 0, 0)
<1>1. request \in RequestType
  BY DEF TypeOK
<1>2. /\ Is(Idle, "idle", 0, 0, 0) /\ \A e : Is(Ended(e), "ended", 0, 0, e)
  BY DEF Is, Idle, Ended
<1>3. \A p : /\ Is([Idle EXCEPT !.pc = "ready", !.digest = p], "ready", p, 0, 0)
             /\ Is([Idle EXCEPT !.pc = "commit", !.digest = p], "commit", p, 0, 0)
  BY DEF Is, Idle
<1>4. \A i : /\ Is([request EXCEPT !.pc = "submit", !.id = i], "submit", request.digest, i, message)
             /\ Is([Idle EXCEPT !.pc = "streaming", !.id = i], "streaming", 0, i, 0)
  BY <1>1 DEF Is, Idle, RequestType, message
<1>5. /\ Is([request EXCEPT !.pc = "own"], "own", request.digest, request.id, message)
      /\ Is([request EXCEPT !.pc = "ready"], "ready", request.digest, request.id, message)
      /\ Is([request EXCEPT !.aborted = TRUE], pc, request.digest, request.id, message)
  BY <1>1 DEF Is, RequestType, message, pc
<1>6. Refused => Is(request', "idle", 0, 0, 0) \/ Is(request', "ended", 0, 0, 0)
  BY <1>2 DEF Refused
<1> QED
  BY <1>2, <1>3, <1>4, <1>5, <1>6

(* What a step does to the stream call.                                    *)
Asks(q) == pc = "idle" /\ life = "up" /\ q \in {"ready", "commit"}
           /\ \E p \in Prompts : Is(request', q, p, 0, 0)
Goes(q, r) == pc = q /\ Is(request', r, request.digest, request.id, message)
Leaves == (Is(request', "idle", 0, 0, 0) \/ Is(request', "ended", 0, 0, 0))
Moves ==
  \/ UNCHANGED request
  \/ Asks("ready") \/ Asks("commit")
  \/ pc = "ready" /\ call' = Attempt /\ Attempt.id \in Turns
     /\ Is(request', "submit", request.digest, Attempt.id, message)
  \/ Goes("submit", "own")
  \/ \E q \in {"commit", "ready", "own"} : Goes(q, q)
  \/ Goes("commit", "ready")
  \/ pc \in {"submit", "own"} /\ request.id \in Turns /\ Is(request', "streaming", 0, request.id, 0)
  \/ Leaves
  \/ \E e \in Events : Is(request', "ended", 0, 0, e)

LEMMA StreamMoves ==
  ASSUME Inv, (\E p \in Prompts : Stream(p)) \/ Submit \/ Receipt \/ (\E b \in BOOLEAN : Rejected(b))
           \/ Abort \/ Consume \/ WrittenOwn \/ WrittenHeld \/ CloseInterrupt
  PROVE  Moves
<1>0. TypeOK
  BY DEF Inv
<1>1. ASSUME NEW p \in Prompts, Stream(p) PROVE Moves
  <2>1. /\ pc = "idle" /\ life = "up"
        /\ request' \in {[Idle EXCEPT !.pc = "ready", !.digest = p], Ended(0),
                         [Idle EXCEPT !.pc = "commit", !.digest = p]}
    BY <1>1 DEF Stream
  <2>2. \/ Is(request', "ready", p, 0, 0) \/ Is(request', "commit", p, 0, 0)
        \/ Is(request', "ended", 0, 0, 0)
    BY <1>0, <2>1, RequestForms
  <2> QED
    BY <2>1, <2>2 DEF Moves, Asks, Leaves
<1>2. CASE Submit
  <2>1. \/ Refused
        \/ /\ request' = [request EXCEPT !.pc = "submit", !.id = Attempt.id]
           /\ call' = Attempt /\ Attempt.id \in Turns /\ pc = "ready"
    BY <1>2 DEF Submit
  <2> QED
    BY <1>0, <2>1, RequestForms DEF Moves, Leaves
<1>3. ASSUME NEW a, a = request.id, pc \in {"submit", "own"}, Installed(a) PROVE Moves
  <2>1. request.id \in Turns
    BY <1>0, <1>3, CallTyped
  <2>2. Refused \/ request' = Idle \/ request' = [Idle EXCEPT !.pc = "streaming", !.id = a]
    BY <1>3 DEF Installed
  <2> QED
    BY <1>0, <1>3, <2>1, <2>2, RequestForms DEF Moves, Leaves
<1>4. CASE Receipt
  <2>1. pc = "submit" /\ call.id = request.id
    BY <1>4, CallTyped DEF Receipt
  <2>2. Refused \/ Installed(call.id) \/ request' = [request EXCEPT !.pc = "own"]
    BY <1>4 DEF Receipt
  <2> QED
    BY <1>0, <1>3, <2>1, <2>2, RequestForms DEF Moves, Leaves, Goes
<1>5. CASE (\E b \in BOOLEAN : Rejected(b)) \/ CloseInterrupt
  BY <1>0, <1>5, RequestForms DEF Rejected, CloseInterrupt, Moves, Leaves
<1>6. CASE Abort
  <2>1. \/ pc \in {"commit", "ready", "own"} /\ request' = [request EXCEPT !.aborted = TRUE]
        \/ request' = Idle
    BY <1>6 DEF Abort
  <2> QED
    BY <1>0, <2>1, RequestForms DEF Moves, Leaves, Goes
<1>7. CASE Consume
  BY <1>0, <1>7, RequestForms DEF Consume, Moves, Leaves
<1>8. CASE WrittenOwn
  <2>1. Written("own") /\ Installed(request.id)
    BY <1>8 DEF WrittenOwn
  <2> QED
    BY <1>3, <2>1, QueueHead
<1>9. CASE WrittenHeld
  <2>1. Written("held") /\ request' = [request EXCEPT !.pc = "ready"]
    BY <1>9 DEF WrittenHeld
  <2>2. pc = "commit"
    BY <2>1, QueueHead
  <2> QED
    BY <1>0, <2>1, <2>2, RequestForms DEF Moves, Goes
<1> QED
  BY <1>1, <1>2, <1>4, <1>5, <1>6, <1>7, <1>8, <1>9

LEMMA OtherMoves ==
  ASSUME Inv, Next, ~StreamStep, ~Abort, ~Consume, ~WrittenOwn, ~WrittenHeld, ~CloseInterrupt,
         ~\E p \in Prompts : Stream(p)
  PROVE  /\ Moves
         /\ \/ UNCHANGED request
            \/ Leaves /\ pc \in {"streaming"} /\ (ObserverLost \/ BeginClose)
            \/ request' = Idle /\ (Crash \/ Restart)
            \/ (Observe \/ Woken) /\ request' = Ended(obs.at) /\ ~sinks[log[obs.at].turn].left
               /\ Completes(obs.at, log[obs.at].turn)
<1>0. TypeOK
  BY DEF Inv
<1>1. CASE \/ Admit \/ EmitForeign \/ (\E t \in Turns, k \in Kinds : Emit(t, k)) \/ LateStep
           \/ StoreMessage \/ Commit \/ CloseSink \/ WrittenObserved \/ WrittenLate
           \/ CloseCommit \/ WrittenClose
  <2>1. UNCHANGED request
    BY <1>1 DEF Admit, EmitForeign, Emit, LateStep, LateReceipt, LateRejected, StoreMessage, Commit,
                CloseSink, ApplyUnchanged, WrittenObserved, WrittenLate, CloseCommit, WrittenClose
  <2> QED
    BY <2>1 DEF Moves
<1>2. CASE ObserverLost \/ BeginClose
  <2>1. UNCHANGED request \/ (request' = Ended(0) /\ pc = "streaming")
    BY <1>2 DEF ObserverLost, BeginClose, FailedSinks
  <2> QED
    BY <1>0, <1>2, <2>1, RequestForms DEF Moves, Leaves
<1>3. CASE Crash \/ Restart
  BY <1>0, <1>3, RequestForms DEF Crash, Restart, Forgotten, Moves, Leaves
<1>4. CASE Observe \/ Woken
  <2>1. obs.at \in Events /\ (Waits \/ Takes(obs.at, log[obs.at].turn))
    BY <1>4, ObserverMoves
  <2>2. \/ UNCHANGED request
        \/ /\ request' = Ended(obs.at) /\ ~sinks[log[obs.at].turn].left
           /\ Completes(obs.at, log[obs.at].turn)
    BY <2>1 DEF Waits, Waiting, Takes, Passes, Still, Completes, NativeTerminal, Shows
  <2> QED
    BY <1>0, <1>4, <2>1, <2>2, RequestForms DEF Moves
<1> QED
  BY <1>1, <1>2, <1>3, <1>4 DEF Next, ObserveStep, WriteStep

LEMMA CallMoves ==
  ASSUME Inv, [Next]_vars
  PROVE  Moves
<1>1. CASE UNCHANGED vars
  BY <1>1 DEF vars, Moves
<1>2. CASE Next
  BY <1>2, StreamMoves, OtherMoves DEF StreamStep
<1> QED
  BY <1>1, <1>2

LEMMA LifeMoves ==
  ASSUME [Next]_vars
  PROVE  \/ UNCHANGED <<life, failed>>
         \/ life = "up" /\ UNCHANGED life /\ failed' = TRUE
              /\ (ObserverLost \/ \E p \in Prompts : Stream(p) /\ Invalidated)
         \/ life = "up" /\ life' = "closing" /\ UNCHANGED failed /\ BeginClose
         \/ life = "closing" /\ life' \in {"committing", "down"} /\ UNCHANGED failed /\ CloseCommit
         \/ WrittenClose /\ life' = "down" /\ UNCHANGED failed
         \/ Crash \/ Restart
<1> USE DEF runtime
<1>1. CASE UNCHANGED vars
  BY <1>1 DEF vars
<1>2. ASSUME NEW p \in Prompts, Stream(p)
      PROVE  UNCHANGED <<life, failed>> \/ (life = "up" /\ UNCHANGED life /\ failed' = TRUE /\ Invalidated)
  BY <1>2 DEF Stream, Invalidated
<1>3. CASE StreamStep \/ Abort \/ Consume \/ LateStep \/ CloseInterrupt
  BY <1>3 DEF StreamStep, Submit, Receipt, Rejected, Abort, Consume, LateStep, LateReceipt, LateRejected,
              CloseInterrupt
<1>4. CASE ObserveStep \/ Woken \/ WriteStep
  BY <1>4 DEF ObserveStep, Observe, StoreMessage, Commit, CloseSink, Woken, ObserveUnchanged, ApplyUnchanged,
              WriteStep, WrittenObserved, WrittenHeld, WrittenOwn, WrittenLate
<1>5. CASE Admit \/ EmitForeign \/ \E t \in Turns, k \in Kinds : Emit(t, k)
  BY <1>5 DEF Admit, EmitForeign, Emit
<1>6. CASE ObserverLost
  BY <1>6 DEF ObserverLost
<1>7. CASE BeginClose
  BY <1>7 DEF BeginClose
<1>8. CASE CloseCommit
  BY <1>8 DEF CloseCommit
<1>9. CASE WrittenClose
  BY <1>9 DEF WrittenClose
<1> QED
  BY <1>1, <1>2, <1>3, <1>4, <1>5, <1>6, <1>7, <1>8, <1>9 DEF Next

LEMMA LateMoves ==
  ASSUME [Next]_vars
  PROVE  \/ UNCHANGED late
         \/ pc = "submit" /\ Interrupted /\ late' = "wait" /\ (Abort \/ CloseInterrupt)
         \/ late = "wait" /\ late' = "none" /\ (LateReceipt \/ \E b \in BOOLEAN : LateRejected(b))
         \/ late = "wait" /\ late' = "own" /\ life = "up" /\ ~failed /\ LateReceipt
         \/ WrittenLate /\ late' = "none"
         \/ Crash \/ Restart
<1> USE DEF submission
<1>1. CASE UNCHANGED vars
  BY <1>1 DEF vars
<1>2. ASSUME NEW p \in Prompts, Stream(p) PROVE UNCHANGED late
  BY <1>2 DEF Stream
<1>3. CASE StreamStep \/ Consume
  BY <1>3 DEF StreamStep, Submit, Receipt, Rejected, Consume
<1>4. CASE ObserveStep \/ Woken \/ WrittenObserved \/ WrittenHeld \/ WrittenOwn
  BY <1>4 DEF ObserveStep, Observe, StoreMessage, Commit, CloseSink, Woken, ObserveUnchanged, ApplyUnchanged,
              WrittenObserved, WrittenHeld, WrittenOwn
<1>5. CASE Admit \/ EmitForeign \/ \E t \in Turns, k \in Kinds : Emit(t, k)
  BY <1>5 DEF Admit, EmitForeign, Emit
<1>6. CASE ObserverLost \/ BeginClose \/ CloseCommit \/ WrittenClose
  BY <1>6 DEF ObserverLost, BeginClose, CloseCommit, WrittenClose
<1>7. CASE Abort \/ CloseInterrupt
  BY <1>7 DEF Abort, CloseInterrupt, Interrupted
<1>8. CASE LateStep
  BY <1>8 DEF LateStep, LateReceipt, LateRejected
<1>9. CASE WrittenLate
  BY <1>9 DEF WrittenLate
<1> QED
  BY <1>1, <1>2, <1>3, <1>4, <1>5, <1>6, <1>7, <1>8, <1>9 DEF Next, WriteStep

(* The attempt whose answer is out stays while it is awaited.              *)
LEMMA CallStays ==
  ASSUME Inv, [Next]_vars, pc = "submit", UNCHANGED request
  PROVE  UNCHANGED <<call, late>>
<1> USE DEF submission, wire
<1>0. TypeOK /\ late = "none"
  <2>1. late # "none" => ~Asked
    BY DEF Inv, Attempts
  <2> QED
    BY <2>1 DEF Inv, Asked
<1>b. request' # Idle /\ ~Refused /\ request' # [request EXCEPT !.pc = "own"]
  <2>1. request' = request /\ request.pc = "submit" /\ request \in RequestType
    BY <1>0 DEF pc, TypeOK
  <2>2. Idle.pc # "submit" /\ Ended(0).pc # "submit"
    BY DEF Idle, Ended
  <2>3. [request EXCEPT !.pc = "own"].pc # "submit"
    BY <2>1 DEF RequestType
  <2> QED
    BY <2>1, <2>2, <2>3 DEF Refused
<1>c. \A i : request' # [Idle EXCEPT !.pc = "streaming", !.id = i]
  <2>1. \A i : [Idle EXCEPT !.pc = "streaming", !.id = i].pc # "submit"
    BY DEF Idle
  <2>2. request'.pc = "submit"
    BY DEF pc
  <2> QED
    BY <2>1, <2>2
<1>1. CASE UNCHANGED vars
  BY <1>1 DEF vars
<1>2. CASE (\E p \in Prompts : Stream(p)) \/ Consume \/ WrittenHeld \/ Submit
  <2>1. CASE WrittenHeld
    BY <2>1, QueueHead DEF WrittenHeld
  <2> QED
    BY <1>2, <2>1 DEF Stream, Submit, Consume
<1>3. CASE Receipt
  <2>1. call.id = request.id
    BY <1>3, CallTyped
  <2>2. Refused \/ Installed(call.id) \/ request' = [request EXCEPT !.pc = "own"]
    BY <1>3 DEF Receipt
  <2>3. Installed(call.id) => Refused \/ request' = Idle
                              \/ request' = [Idle EXCEPT !.pc = "streaming", !.id = call.id]
    BY DEF Installed
  <2> QED
    BY <1>b, <1>c, <2>2, <2>3
<1>4. CASE (\E b \in BOOLEAN : Rejected(b)) \/ CloseInterrupt
  BY <1>b, <1>4 DEF Rejected, CloseInterrupt
<1>5. CASE Abort
  BY <1>b, <1>5 DEF Abort
<1>6. CASE LateStep
  BY <1>0, <1>6 DEF LateStep, LateReceipt, LateRejected
<1>7. CASE ObserveStep \/ Woken \/ WrittenObserved
  BY <1>7 DEF ObserveStep, Observe, StoreMessage, Commit, CloseSink, Woken, ObserveUnchanged, ApplyUnchanged,
              WrittenObserved
<1>8. CASE Admit \/ EmitForeign \/ \E t \in Turns, k \in Kinds : Emit(t, k)
  BY <1>8 DEF Admit, EmitForeign, Emit
<1>9. CASE ObserverLost \/ BeginClose \/ CloseCommit \/ WrittenClose
  BY <1>9 DEF ObserverLost, BeginClose, CloseCommit, WrittenClose
<1>10. CASE WrittenOwn \/ WrittenLate
  <2>1. CASE WrittenOwn
    BY <2>1, QueueHead DEF WrittenOwn
  <2>2. CASE WrittenLate
    BY <1>0, <2>2, QueueHead DEF WrittenLate
  <2> QED
    BY <1>10, <2>1, <2>2
<1>11. CASE Crash \/ Restart
  BY <1>b, <1>11 DEF Crash, Restart, Forgotten
<1> QED
  BY <1>1, <1>2, <1>3, <1>4, <1>5, <1>6, <1>7, <1>8, <1>9, <1>10, <1>11 DEF Next, WriteStep, StreamStep

CallForm ==
  /\ pc \in {"commit", "ready"} => request.digest \in Prompts
  /\ pc \in {"submit", "own", "streaming"} => request.id \in Turns
  /\ pc = "submit" => call \in AttemptType /\ call.id = request.id
  /\ message # 0 => pc = "ended"

LEMMA CallFormKept ==
  ASSUME Inv, [Next]_vars
  PROVE  CallForm'
<1>0. TypeOK /\ TypeOK' /\ CallForm /\ Moves
  BY TypeKept, CallMoves DEF Inv, CallShape, CallForm
<1> USE DEF pc, message
<1>1. CASE UNCHANGED request
  <2>1. pc = "submit" => call' = call
    BY <1>1, CallStays
  <2> QED
    BY <1>0, <1>1, <2>1 DEF CallForm
<1>2. CASE Asks("ready") \/ Asks("commit")
  BY <1>0, <1>2 DEF Asks, Is, CallForm
<1>3. CASE pc = "ready" /\ call' = Attempt /\ Attempt.id \in Turns
           /\ Is(request', "submit", request.digest, Attempt.id, message)
  <2>1. call' \in AttemptType \cup {NoAttempt} /\ call' # NoAttempt
    BY <1>0, <1>3 DEF TypeOK, NoAttempt
  <2> QED
    BY <1>0, <1>3, <2>1 DEF Is, CallForm
<1>4. CASE Goes("submit", "own") \/ Goes("commit", "ready") \/ \E q \in {"commit", "ready", "own"} : Goes(q, q)
  BY <1>0, <1>4 DEF Goes, Is, CallForm
<1>5. CASE pc \in {"submit", "own"} /\ request.id \in Turns /\ Is(request', "streaming", 0, request.id, 0)
  BY <1>5 DEF Is, CallForm
<1>6. CASE Leaves \/ \E e \in Events : Is(request', "ended", 0, 0, e)
  BY <1>6 DEF Leaves, Is, CallForm
<1> QED
  BY <1>0, <1>1, <1>2, <1>3, <1>4, <1>5, <1>6 DEF Moves

LEMMA OverKept ==
  ASSUME Inv, [Next]_vars, life' \in {"committing", "down"}
  PROVE  ~inFlight' /\ late' # "own"
<1>0. TypeOK /\ Moves /\ CallShape
  BY CallMoves DEF Inv
<1>1. CASE Crash \/ Restart
  BY <1>1 DEF Crash, Restart, Forgotten, Idle, pc, inFlight
<1>2. CASE ~Crash /\ ~Restart
  <2>1. \/ life' = life
        \/ CloseCommit \/ WrittenClose
    BY <1>2, LifeMoves
  <2>2. ~inFlight /\ late # "own" /\ life # "up"
    <3>1. CASE life' = life
      BY <1>0, <3>1 DEF CallShape
    <3>2. CASE CloseCommit
      BY <3>2 DEF CloseCommit
    <3>3. CASE WrittenClose
      <4>1. life = "committing"
        BY <3>3, QueueHead DEF WrittenClose
      <4> QED
        BY <1>0, <4>1 DEF CallShape
    <3> QED
      BY <2>1, <3>1, <3>2, <3>3
  <2>3. ~inFlight'
    BY <1>0, <2>2 DEF Moves, Asks, Goes, Leaves, Is, inFlight, pc
  <2>4. late' # "own"
    BY <1>2, <2>2, LateMoves
  <2> QED
    BY <2>3, <2>4
<1> QED
  BY <1>1, <1>2

(* What a step does to the sinks.                                          *)
Opens ==
  /\ pc \in {"submit", "own"} /\ request.id \in Turns /\ life = "up" /\ ~failed
  /\ Receipt \/ WrittenOwn
  /\ sinks' = [sinks EXCEPT ![request.id] = [NewSink(FALSE) EXCEPT !.left = request.aborted]]
  /\ request' = IF request.aborted THEN Idle ELSE [Idle EXCEPT !.pc = "streaming", !.id = request.id]
Abandons ==
  /\ Abort /\ pc = "streaming" /\ request' = Idle /\ request.id \in Turns
  /\ sinks' = [sinks EXCEPT ![request.id].left = TRUE]
Resets ==
  /\ sinks' = [t \in Turns |-> NoSink]
  /\ (\E p \in Prompts : Stream(p) /\ Invalidated) \/ ObserverLost \/ BeginClose \/ Crash \/ Restart
SinkMoves ==
  \/ UNCHANGED sinks
  \/ Opens \/ Abandons \/ Resets
  \/ /\ Observe \/ Woken
     /\ Completes(obs.at, log[obs.at].turn) \/ Shows(obs.at, log[obs.at].turn)
  \/ CloseSink

LEMMA SinksMove ==
  ASSUME Inv, [Next]_vars
  PROVE  SinkMoves
<1> USE DEF projection
<1>1. CASE UNCHANGED vars
  BY <1>1 DEF vars, SinkMoves
<1>2. ASSUME NEW p \in Prompts, Stream(p) PROVE SinkMoves
  BY <1>2 DEF Stream, Invalidated, SinkMoves, Resets
<1>3. CASE Submit \/ (\E b \in BOOLEAN : Rejected(b)) \/ Consume \/ LateStep \/ CloseInterrupt
  BY <1>3 DEF Submit, Rejected, Consume, LateStep, LateReceipt, LateRejected, CloseInterrupt, SinkMoves
<1>4. ASSUME pc \in {"submit", "own"}, Installed(request.id), Receipt \/ WrittenOwn PROVE SinkMoves
  <2>1. request.id \in Turns
    BY <1>4, CallTyped
  <2>2. CASE UNCHANGED sinks
    BY <2>2 DEF SinkMoves
  <2>3. CASE ~(UNCHANGED sinks)
    <3>1. /\ ~failed /\ life = "up"
          /\ sinks' = [sinks EXCEPT ![request.id] = [NewSink(FALSE) EXCEPT !.left = request.aborted]]
          /\ request' = IF request.aborted THEN Idle ELSE [Idle EXCEPT !.pc = "streaming", !.id = request.id]
      BY <1>4, <2>3 DEF Installed
    <3>2. Opens
      BY <1>4, <2>1, <3>1 DEF Opens
    <3> QED
      BY <3>2 DEF SinkMoves
  <2> QED
    BY <2>2, <2>3
<1>5. CASE Receipt
  <2>1. pc = "submit" /\ call.id = request.id
    BY <1>5, CallTyped DEF Receipt
  <2>2. Installed(call.id) \/ UNCHANGED sinks
    BY <1>5 DEF Receipt
  <2> QED
    BY <1>4, <1>5, <2>1, <2>2 DEF SinkMoves
<1>6. CASE WrittenOwn
  <2>1. Installed(request.id) /\ Written("own")
    BY <1>6 DEF WrittenOwn
  <2>2. pc = "own"
    BY <2>1, QueueHead
  <2> QED
    BY <1>4, <1>6, <2>1, <2>2
<1>7. CASE Abort
  <2>1. \/ UNCHANGED sinks
        \/ pc = "streaming" /\ request' = Idle /\ sinks' = [sinks EXCEPT ![request.id].left = TRUE]
    BY <1>7 DEF Abort
  <2>2. pc = "streaming" => request.id \in Turns
    BY CallTyped
  <2> QED
    BY <1>7, <2>1, <2>2 DEF SinkMoves, Abandons
<1>8. CASE Observe \/ Woken
  <2>1. obs.at \in Events /\ (Waits \/ Takes(obs.at, log[obs.at].turn))
    BY <1>8, ObserverMoves
  <2>2. \/ UNCHANGED sinks
        \/ Completes(obs.at, log[obs.at].turn) \/ Shows(obs.at, log[obs.at].turn)
    BY <2>1 DEF Waits, Waiting, Takes, Passes, Still
  <2> QED
    BY <1>8, <2>2 DEF SinkMoves
<1>9. CASE StoreMessage \/ Commit \/ WrittenObserved \/ WrittenHeld \/ WrittenLate
  BY <1>9 DEF StoreMessage, Commit, WrittenObserved, WrittenHeld, WrittenLate, SinkMoves
<1>10. CASE CloseSink
  BY <1>10 DEF SinkMoves
<1>11. CASE ObserverLost \/ BeginClose
  BY <1>11 DEF ObserverLost, BeginClose, FailedSinks, SinkMoves, Resets
<1>12. CASE Crash \/ Restart
  BY <1>12 DEF Crash, Restart, Forgotten, SinkMoves, Resets
<1>13. CASE CloseCommit \/ WrittenClose \/ Admit \/ EmitForeign \/ \E t \in Turns, k \in Kinds : Emit(t, k)
  BY <1>13 DEF CloseCommit, WrittenClose, Admit, EmitForeign, Emit, SinkMoves
<1> QED
  BY <1>1, <1>2, <1>3, <1>5, <1>6, <1>7, <1>8, <1>9, <1>10, <1>11, <1>12, <1>13
     DEF Next, StreamStep, ObserveStep, WriteStep

LEMMA SinkValues ==
  /\ ~NoSink.live /\ ~NoSink.adopted /\ NoSink.text = 0 /\ ~NoSink.left
  /\ NewSink(TRUE).live /\ NewSink(TRUE).adopted /\ ~NewSink(TRUE).left /\ NewSink(TRUE).text = 0
  /\ \A b : LET s == [NewSink(FALSE) EXCEPT !.left = b]
            IN  s.live /\ ~s.adopted /\ s.left = b /\ s.text = 0
BY DEF NoSink, NewSink

(* A turn that is streamed is the one of the call.                         *)
SinkForm ==
  \A t \in Turns : /\ sinks[t].adopted => sinks[t].live
                   /\ sinks[t].live /\ ~sinks[t].adopted /\ ~sinks[t].left
                        => pc = "streaming" /\ request.id = t

(* The observer closes the sink of a turn whose end it applies.            *)
LEMMA Closes ==
  ASSUME Inv, CloseSink
  PROVE  LET op == Head(obs.todo)
         IN  /\ op.op = "close" /\ op.t \in Turns /\ op.e = obs.at /\ op.t = log[obs.at].turn
             /\ log[obs.at].kind \in Terminal /\ obs.at \in Events /\ obs.pc = "apply"
             /\ Len(obs.todo) = 1 /\ Closing(op.t)
<1> DEFINE op == Head(obs.todo)
<1>1. obs.pc = "apply" /\ op.op = "close"
  BY DEF CloseSink
<1>2. obs.todo \in Seq(OpType) /\ obs.todo # <<>> /\ Planned(obs) /\ obs.at \in Events
  BY <1>1 DEF Inv, ObsShape, ObsOK, ObsType
<1>3. op = obs.todo[1] /\ 1 \in DOMAIN obs.todo /\ Len(obs.todo) \in Nat
  BY <1>2, SeqFacts
<1> HIDE DEF op
<1>4. /\ op.t = log[op.e].turn /\ 1 = Len(obs.todo) /\ op.e = obs.at
      /\ op.t \in Turns /\ log[obs.at].kind \in Terminal
  BY <1>1, <1>2, <1>3 DEF Planned
<1>5. Closing(op.t)
  BY <1>1, <1>3 DEF Closing
<1> QED
  BY <1>1, <1>2, <1>4, <1>5 DEF op

LEMMA SinkFormKept ==
  ASSUME Inv, [Next]_vars
  PROVE  SinkForm'
<1>0. TypeOK /\ SinkForm /\ Moves /\ SinkMoves /\ request \in RequestType /\ sinks \in [Turns -> SinkType]
  BY CallMoves, SinksMove DEF Inv, CallShape, SinkForm, TypeOK
<1>1. CASE Resets
  BY <1>1, SinkValues DEF Resets, SinkForm
<1>2. CASE Opens
  <2>1. \A t \in Turns : ~(sinks[t].live /\ ~sinks[t].adopted /\ ~sinks[t].left)
    BY <1>0, <1>2 DEF Opens, SinkForm
  <2>2. ~request.aborted => Is(request', "streaming", 0, request.id, 0)
    BY <1>0, <1>2, RequestForms DEF Opens
  <2>3. \A t \in Turns : sinks'[t] = IF t = request.id THEN [NewSink(FALSE) EXCEPT !.left = request.aborted]
                                     ELSE sinks[t]
    BY <1>0, <1>2 DEF Opens
  <2> DEFINE s == [NewSink(FALSE) EXCEPT !.left = request.aborted]
  <2>4. s.live /\ ~s.adopted /\ s.left = request.aborted
    BY SinkValues
  <2>5. ~request.aborted => pc' = "streaming" /\ request'.id = request.id
    BY <2>2 DEF Is, pc
  <2>6. \A t \in Turns : sinks'[t] = IF t = request.id THEN s ELSE sinks[t]
    BY <2>3
  <2> HIDE DEF s
  <2>7. ASSUME NEW t \in Turns
        PROVE  /\ sinks'[t].adopted => sinks'[t].live
               /\ sinks'[t].live /\ ~sinks'[t].adopted /\ ~sinks'[t].left
                        => pc' = "streaming" /\ request'.id = t
    <3>1. CASE t = request.id
      <4>1. sinks'[t] = s
        BY <2>6, <3>1
      <4> QED
        BY <2>4, <2>5, <3>1, <4>1
    <3>2. CASE t # request.id
      <4>1. sinks'[t] = sinks[t]
        BY <2>6, <3>2
      <4> QED
        BY <1>0, <2>1, <4>1 DEF SinkForm
    <3> QED
      BY <3>1, <3>2
  <2> QED
    BY <2>7 DEF SinkForm
<1>3. CASE Abandons
  <2>1. \A t \in Turns : /\ sinks'[t].adopted = sinks[t].adopted /\ sinks'[t].live = sinks[t].live
                         /\ sinks[t].left => sinks'[t].left
                         /\ t = request.id => sinks'[t].left
    BY <1>0, <1>3 DEF Abandons, SinkType
  <2> QED
    BY <1>0, <2>1 DEF SinkForm
<1> DEFINE e == obs.at  u == log[obs.at].turn
<1>4. CASE Completes(e, u)
  <2>1. /\ u \in Turns /\ sinks' = [sinks EXCEPT ![u] = NoSink] /\ sinks[u].live /\ ~sinks[u].adopted
        /\ sinks[u].left => UNCHANGED request
    BY <1>4 DEF Completes, NativeTerminal
  <2>2. \A t \in Turns : sinks'[t] = IF t = u THEN NoSink ELSE sinks[t]
    BY <1>0, <2>1
  <2> HIDE DEF u, e
  <2>3. CASE sinks[u].left
    BY <1>0, <2>1, <2>2, <2>3, SinkValues DEF SinkForm, pc
  <2>4. CASE ~sinks[u].left
    <3>1. request.id = u
      BY <1>0, <2>1, <2>4 DEF SinkForm
    <3> QED
      BY <1>0, <2>2, <3>1, SinkValues DEF SinkForm
  <2> QED
    BY <2>3, <2>4
<1>5. CASE Shows(e, u)
  <2>1. PICK x \in SinkType : /\ sinks' = [sinks EXCEPT ![u] = x] /\ x.live
                              /\ x.adopted = SinkFor(u).adopted /\ x.left = SinkFor(u).left
    BY <1>5 DEF Shows
  <2>2. u \in Turns /\ UNCHANGED request
    BY <1>5 DEF Shows
  <2>3. \A t \in Turns : sinks'[t] = IF t = u THEN x ELSE sinks[t]
    BY <1>0, <2>1, <2>2
  <2>4. (SinkFor(u) = sinks[u] /\ sinks[u].live) \/ SinkFor(u) = NewSink(TRUE)
    BY DEF SinkFor
  <2> HIDE DEF u, e
  <2>5. x.live /\ (x.adopted \/ (sinks[u].live /\ x.adopted = sinks[u].adopted /\ x.left = sinks[u].left))
    BY <2>1, <2>4, SinkValues
  <2> QED
    BY <1>0, <2>2, <2>3, <2>5 DEF SinkForm, pc
<1>6. CASE CloseSink
  <2>1. PICK t \in Turns : sinks' = [sinks EXCEPT ![t] = NoSink]
    BY <1>6, Closes DEF CloseSink
  <2>2. UNCHANGED request
    BY <1>6 DEF CloseSink, ApplyUnchanged
  <2>3. \A s \in Turns : sinks'[s] = IF s = t THEN NoSink ELSE sinks[s]
    BY <1>0, <2>1
  <2> QED
    BY <1>0, <2>2, <2>3, SinkValues DEF SinkForm, pc
<1>7. CASE UNCHANGED sinks
  <2>1. ASSUME NEW t \in Turns, sinks[t].live, ~sinks[t].adopted, ~sinks[t].left
        PROVE  UNCHANGED request
    <3>1. pc = "streaming" /\ request.id = t
      BY <1>0, <2>1 DEF SinkForm
    <3>2. ~WrittenOwn /\ ~WrittenHeld
      BY <3>1, QueueHead DEF WrittenOwn, WrittenHeld
    <3>3. (\E p \in Prompts : Stream(p)) \/ StreamStep \/ Consume \/ CloseInterrupt => FALSE
      BY <3>1 DEF Stream, StreamStep, Submit, Receipt, Rejected, Consume, CloseInterrupt
    <3>4. sinks'[t].live /\ ~sinks'[t].left
      BY <1>7, <2>1
    <3>5. CASE Abort
      <4>1. sinks' = [sinks EXCEPT ![request.id].left = TRUE]
        BY <3>1, <3>5 DEF Abort
      <4>2. sinks'[t].left
        BY <1>0, <3>1, <4>1 DEF SinkType
      <4> QED
        BY <3>4, <4>2
    <3>6. CASE UNCHANGED vars
      BY <3>6 DEF vars
    <3>7. CASE Next /\ ~Abort
      <4>1. \/ UNCHANGED request
            \/ ObserverLost \/ BeginClose \/ Crash \/ Restart
            \/ Completes(obs.at, log[obs.at].turn) /\ ~sinks[log[obs.at].turn].left
        BY <3>2, <3>3, <3>7, OtherMoves
      <4>2. CASE ObserverLost \/ BeginClose \/ Crash \/ Restart
        <5>1. sinks' = [s \in Turns |-> NoSink]
          BY <4>2 DEF ObserverLost, BeginClose, Crash, Restart, FailedSinks, Forgotten
        <5> QED
          BY <3>4, <5>1, SinkValues
      <4>3. CASE Completes(obs.at, log[obs.at].turn) /\ ~sinks[log[obs.at].turn].left
        <5>1. /\ u \in Turns /\ sinks' = [sinks EXCEPT ![u] = NoSink] /\ sinks[u].live /\ ~sinks[u].adopted
          BY <4>3 DEF Completes, NativeTerminal
        <5> HIDE DEF u
        <5>2. ~sinks'[u].live
          BY <1>0, <5>1, SinkValues
        <5> QED
          BY <1>7, <5>1, <5>2
      <4> QED
        BY <4>1, <4>2, <4>3
    <3> QED
      BY <3>5, <3>6, <3>7
  <2> QED
    BY <1>0, <1>7, <2>1 DEF SinkForm, pc
<1> QED
  BY <1>0, <1>1, <1>2, <1>3, <1>4, <1>5, <1>6, <1>7 DEF SinkMoves

LEMMA CallShapeKept ==
  ASSUME Inv, [Next]_vars
  PROVE  CallShape'
BY CallFormKept, SinkFormKept, OverKept DEF CallShape, CallForm, SinkForm

--------------------------------------------------------------------------------
(* The observer and the queue of writes.                                   *)

(* What a step does to the observer.                                       *)
TextsKept == \A t \in Turns : sinks'[t].text \in {0, sinks[t].text}
Quiet == /\ obs' \in {obs, Notified(obs), SubmissionEnded(obs)} /\ UNCHANGED <<life, failed>> /\ TextsKept
Halts == obs' = Halted /\ life' \in {"up", "closing"} /\ TextsKept /\ life = "up"
Advances == /\ Working /\ obs' = Advanced(life = "up" /\ ~failed) /\ UNCHANGED <<life, failed>> /\ TextsKept
            /\ StoreMessage \/ Commit \/ CloseSink \/ WrittenObserved
Flushes == /\ obs.pc = "apply" /\ obs' = [obs EXCEPT !.pc = "write"] /\ UNCHANGED <<life, failed, sinks>>
           /\ Commit
ObsMoves ==
  \/ Quiet \/ Halts \/ Advances \/ Flushes
  \/ obs' = obs /\ UNCHANGED <<sinks, failed>> /\ (CloseCommit \/ WrittenClose)
  \/ Crash \/ Restart \/ Observe \/ Woken

LEMMA TextsMove ==
  ASSUME Inv, [Next]_vars, ~Observe, ~Woken
  PROVE  TextsKept
<1>0. TypeOK /\ SinkMoves /\ sinks \in [Turns -> SinkType]
  BY SinksMove DEF Inv, TypeOK
<1>1. CASE UNCHANGED sinks
  BY <1>1 DEF TextsKept
<1>2. CASE Opens
  <2> DEFINE s == [NewSink(FALSE) EXCEPT !.left = request.aborted]
  <2>1. s.text = 0
    BY SinkValues
  <2>2. sinks' = [sinks EXCEPT ![request.id] = s]
    BY <1>2 DEF Opens
  <2> HIDE DEF s
  <2> QED
    BY <1>0, <2>1, <2>2 DEF TextsKept
<1>3. CASE Abandons
  BY <1>0, <1>3 DEF Abandons, TextsKept, SinkType
<1>4. CASE Resets
  BY <1>4, SinkValues DEF Resets, TextsKept
<1>5. CASE CloseSink
  <2>1. \E t : sinks' = [sinks EXCEPT ![t] = NoSink]
    BY <1>5 DEF CloseSink
  <2> QED
    BY <1>0, <2>1, SinkValues DEF TextsKept
<1> QED
  BY <1>0, <1>1, <1>2, <1>3, <1>4, <1>5 DEF SinkMoves

LEMMA ObsMove ==
  ASSUME Inv, [Next]_vars
  PROVE  ObsMoves
<1> USE DEF runtime, projection
<1>0. CASE Observe \/ Woken \/ Crash \/ Restart
  BY <1>0 DEF ObsMoves
<1>a. ASSUME ~(Observe \/ Woken) PROVE TextsKept
  BY <1>a, TextsMove
<1>1. CASE UNCHANGED vars
  BY <1>0, <1>1, <1>a DEF vars, ObsMoves, Quiet
<1>2. ASSUME NEW p \in Prompts, Stream(p) PROVE ObsMoves
  BY <1>0, <1>2, <1>a DEF Stream, ObsMoves, Quiet, Halts
<1>3. CASE Admit \/ EmitForeign \/ \E t \in Turns, k \in Kinds : Emit(t, k)
  BY <1>0, <1>3, <1>a DEF Admit, EmitForeign, Emit, ObsMoves, Quiet
<1>4. CASE StreamStep \/ LateStep \/ Consume \/ CloseInterrupt
  BY <1>0, <1>4, <1>a DEF StreamStep, Submit, Receipt, Rejected, LateStep, LateReceipt, LateRejected, Consume,
       CloseInterrupt, Interrupted, Installed, ObsMoves, Quiet
<1>5. CASE Abort \/ WrittenHeld \/ WrittenOwn \/ WrittenLate
  BY <1>0, <1>5, <1>a DEF Abort, Interrupted, WrittenHeld, WrittenOwn, WrittenLate, Installed, ObsMoves, Quiet
<1>6. CASE StoreMessage \/ CloseSink
  BY <1>0, <1>6, <1>a DEF StoreMessage, CloseSink, ApplyUnchanged, ObsMoves, Advances, Working
<1>7. CASE Commit
  <2>1. obs' = Advanced(life = "up" /\ ~failed) \/ obs' = [obs EXCEPT !.pc = "write"]
    BY <1>7 DEF Commit
  <2>2. obs.pc = "apply" /\ UNCHANGED <<life, failed, sinks>>
    BY <1>7 DEF Commit, ApplyUnchanged
  <2> QED
    BY <1>0, <1>7, <1>a, <2>1, <2>2 DEF ObsMoves, Advances, Flushes, Working
<1>8. CASE WrittenObserved
  <2>1. Written("obs") /\ obs' = Advanced(life = "up" /\ ~failed) /\ UNCHANGED <<life, failed, sinks>>
    BY <1>8 DEF WrittenObserved
  <2>2. Working
    BY <2>1, QueueHead DEF Working
  <2> QED
    BY <1>0, <1>8, <1>a, <2>1, <2>2 DEF ObsMoves, Advances
<1>9. CASE ObserverLost \/ BeginClose
  BY <1>0, <1>9, <1>a DEF ObserverLost, BeginClose, ObsMoves, Halts
<1>10. CASE CloseCommit \/ WrittenClose
  BY <1>10 DEF CloseCommit, WrittenClose, ObsMoves
<1> QED
  BY <1>0, <1>1, <1>2, <1>3, <1>4, <1>5, <1>6, <1>7, <1>8, <1>9, <1>10 DEF Next, ObserveStep, WriteStep

ObsRest ==
  /\ obs.pc \in Reading => life = "up" /\ ~failed
  /\ life \in {"committing", "down"} => obs.pc = "stopped"
  /\ \A t \in Turns : /\ obs.pc \in Reading => sinks[t].text < obs.at
                      /\ Working => sinks[t].text <= obs.at

LEMMA ObsRestKept ==
  ASSUME Inv, [Next]_vars
  PROVE  ObsRest'
<1> USE DEF Reading, Working
<1>0. /\ TypeOK /\ ObsRest /\ ObsMoves /\ obs \in ObsType /\ ObsOK(obs) /\ sinks \in [Turns -> SinkType]
      /\ obs.at \in Nat
      /\ obs.pc # "stopped" => obs.at >= 1
  BY ObsMove DEF Inv, ObsShape, ObsRest, TypeOK, ObsOK, ObsType
<1>a. \A t \in Turns : sinks[t].text \in Nat
  BY <1>0, TypedValues DEF SinkType
<1>1. CASE Quiet
  <2>1. obs'.pc = obs.pc /\ obs'.at = obs.at
    BY <1>0, <1>1, NotifiedOK DEF Quiet
  <2> QED
    BY <1>0, <1>1, <1>a, <2>1 DEF Quiet, TextsKept, ObsRest
<1>2. CASE Halts
  <2>1. (Halted = obs /\ obs.pc \in {"apply", "write"}) \/ Halted.pc = "stopped"
    BY DEF Halted, Stopped, Observer
  <2> QED
    BY <1>0, <1>2, <1>a, <2>1 DEF Halts, TextsKept, ObsRest
<1>3. CASE Advances
  <2> DEFINE up == life = "up" /\ ~failed
  <2>0. obs.todo # <<>> /\ up \in BOOLEAN
    BY <1>0, <1>3 DEF Advances, ObsOK
  <2>1. \/ obs'.pc = "apply" /\ obs'.at = obs.at
        \/ obs' = Observer("read", obs.at + 1) /\ up
        \/ obs' = Stopped
    BY <1>0, <1>3, <2>0, AdvancedOK DEF Advances
  <2>2. /\ Observer("read", obs.at + 1).pc = "read" /\ Observer("read", obs.at + 1).at = obs.at + 1
        /\ Stopped.pc = "stopped"
    BY DEF Stopped, Observer
  <2> QED
    BY <1>0, <1>3, <1>a, <2>1, <2>2 DEF Advances, TextsKept, ObsRest
<1>4. CASE Flushes
  <2>1. obs'.pc = "write" /\ obs'.at = obs.at
    BY <1>0, <1>4 DEF Flushes, ObsType
  <2> QED
    BY <1>0, <1>4, <1>a, <2>1 DEF Flushes, ObsRest
<1>5. CASE obs' = obs /\ UNCHANGED <<sinks, failed>> /\ (CloseCommit \/ WrittenClose)
  <2>1. obs.pc = "stopped"
    <3>1. CASE CloseCommit
      <4>1. life = "closing" /\ obs.pc \notin {"apply", "write"}
        BY <3>1 DEF CloseCommit
      <4> QED
        BY <1>0, <4>1 DEF ObsRest, ObsType
    <3>2. CASE WrittenClose
      <4>1. life = "committing"
        BY <3>2, QueueHead DEF WrittenClose
      <4> QED
        BY <1>0, <4>1 DEF ObsRest
    <3> QED
      BY <1>5, <3>1, <3>2
  <2> QED
    BY <1>5, <2>1 DEF ObsRest
<1>6. CASE Crash
  BY <1>6 DEF Crash, ObsRest, Stopped, Observer
<1>7. CASE Restart
  <2>1. /\ life' = "up" /\ ~failed' /\ sinks' = [t \in Turns |-> NoSink]
        /\ \E n \in 0..Len(log) : obs' = Observer("read", n + 1)
    <3>1. Len(log) \in 0..Len(log) /\ binding.cursor \in 0..Len(log)
      BY <1>0, TypedValues DEF TypeOK, BindingType
    <3> QED
      BY <1>7, <3>1 DEF Restart, RecoveredCursor, Forgotten
  <2>2. obs'.pc = "read" /\ obs'.at \in Nat /\ obs'.at >= 1
    BY <2>1 DEF Observer
  <2> QED
    BY <2>1, <2>2, SinkValues DEF ObsRest
<1>8. CASE Observe \/ Woken
  <2> DEFINE e == obs.at  u == log[obs.at].turn
  <2>1. /\ obs.pc \in Reading /\ e \in Events /\ life = "up" /\ ~failed
        /\ Waits \/ Takes(e, u)
        /\ UNCHANGED <<life, failed>>
    BY <1>8, ObserverMoves DEF ObserveUnchanged, runtime
  <2>2. CASE Waits
    <3>1. /\ UNCHANGED <<sinks, life, failed>> /\ obs'.at = obs.at /\ obs'.pc \in {"wait", "waitOwner"}
      BY <1>0, <1>8, <2>2 DEF Waits, Waiting, ObsType, Observe, Woken, ObserveUnchanged, runtime
    <3> QED
      BY <1>0, <2>1, <3>1 DEF ObsRest
  <2>3. CASE Passes(e)
    <3>1. UNCHANGED sinks /\ obs'.at = obs.at /\ obs'.pc = "apply"
      BY <2>3 DEF Passes, Still, Apply1
    <3> QED
      BY <1>0, <1>a, <2>1, <3>1, ObserverMoves DEF ObsRest, ObserveUnchanged, runtime
  <2>4. CASE Completes(e, u)
    <3>1. /\ u \in Turns /\ sinks' = [sinks EXCEPT ![u] = NoSink] /\ obs' = Observer("read", e + 1)
      BY <2>4 DEF Completes, NativeTerminal
    <3>2. obs'.pc = "read" /\ obs'.at = e + 1
      BY <3>1 DEF Observer
    <3>3. \A t \in Turns : sinks'[t].text \in {0, sinks[t].text}
      BY <1>0, <3>1, SinkValues
    <3>4. UNCHANGED <<life, failed>>
      BY <1>8, ObserverMoves DEF ObserveUnchanged, runtime
    <3> HIDE DEF u
    <3> QED
      BY <1>0, <1>a, <2>1, <3>2, <3>3, <3>4 DEF ObsRest
  <2>5. CASE Shows(e, u)
    <3>1. PICK x \in SinkType : u \in Turns /\ sinks' = [sinks EXCEPT ![u] = x] /\ x.text <= e
      BY <2>5 DEF Shows
    <3>2. \A t \in Turns : sinks'[t] = IF t = u THEN x ELSE sinks[t]
      BY <1>0, <3>1
    <3>3. UNCHANGED <<life, failed>>
      BY <1>8, ObserverMoves DEF ObserveUnchanged, runtime
    <3>4. \A t \in Turns : sinks'[t].text <= e /\ sinks'[t].text \in Nat
      <4> HIDE DEF u
      <4>1. x.text \in Nat
        BY <1>0, TypedValues DEF SinkType
      <4> QED
        BY <1>0, <1>a, <2>1, <3>1, <3>2, <4>1 DEF ObsRest
    <3>5. (obs'.pc = "read" /\ obs'.at = e + 1) \/ (obs'.pc = "apply" /\ obs'.at = e)
      BY <2>5 DEF Shows, Observer
    <3> HIDE DEF u
    <3> QED
      BY <1>0, <2>1, <3>3, <3>4, <3>5 DEF ObsRest
  <2> QED
    BY <2>1, <2>2, <2>3, <2>4, <2>5 DEF Takes
<1> QED
  BY <1>0, <1>1, <1>2, <1>3, <1>4, <1>5, <1>6, <1>7, <1>8 DEF ObsMoves

(* The log only grows, by an event at its end.                             *)
LEMMA LogMoves ==
  ASSUME TypeOK, [Next]_vars
  PROVE  log' = log \/ \E x \in EventType : Emits(x)
<1>1. CASE EmitForeign \/ \E t \in Turns, k \in Kinds : Emit(t, k)
  BY <1>1, LogSteps
<1>2. CASE \/ (\E p \in Prompts : Stream(p)) \/ StreamStep \/ Abort \/ Consume
  BY <1>2 DEF Stream, StreamStep, Submit, Receipt, Rejected, Abort, Consume, engine
<1>3. CASE ObserveStep \/ Woken
  BY <1>3 DEF ObserveStep, Observe, StoreMessage, Commit, CloseSink, Woken, ObserveUnchanged,
              ApplyUnchanged, engine
<1>4. CASE WriteStep \/ WrittenClose
  BY <1>4 DEF WriteStep, WrittenObserved, WrittenHeld, WrittenOwn, WrittenLate, WrittenClose, engine
<1>5. CASE LateStep \/ CloseInterrupt
  BY <1>5 DEF LateStep, LateReceipt, LateRejected, CloseInterrupt, engine
<1>6. CASE ObserverLost \/ BeginClose \/ CloseCommit \/ Crash \/ Restart \/ Admit \/ UNCHANGED vars
  BY <1>6 DEF ObserverLost, BeginClose, CloseCommit, Crash, Restart, Admit, vars, engine
<1> QED
  BY <1>1, <1>2, <1>3, <1>4, <1>5, <1>6 DEF Next

LEMMA ObsShapeKept ==
  ASSUME Inv, [Next]_vars
  PROVE  ObsShape'
<1>1. ObsRest' /\ TypeOK
  BY ObsRestKept DEF Inv
<1>2. ObsOK(obs)'
  <2>1. CASE log' = log
    BY <2>1, ObsKept, SameObs
  <2>2. ASSUME NEW x \in EventType, Emits(x) PROVE ObsOK(obs)'
    <3>1. ObsOK(obs) /\ obs' = obs
      BY <2>2 DEF Inv, ObsShape, Emits
    <3>2. ObsType \subseteq ObsType' /\ Events \subseteq Events'
      BY <1>1, <2>2, TypesGrow DEF Emits
    <3>3. \A i \in Events : log'[i] = log[i]
      BY <1>1, <2>2, Grown DEF Emits
    <3>4. \A i \in DOMAIN obs.todo : obs.todo[i].e \in Events
      <4>1. obs.todo \in Seq(OpType)
        BY <3>1 DEF ObsOK, ObsType
      <4>2. \A i \in DOMAIN obs.todo : obs.todo[i] \in OpType
        BY <4>1
      <4> QED
        BY <4>2 DEF OpType
    <3>5. obs.todo # <<>> => obs.at \in Events
      BY <3>1 DEF ObsOK
    <3>6. \A i \in DOMAIN obs.todo : obs.todo # <<>>
      <4>1. obs.todo \in Seq(OpType)
        BY <3>1 DEF ObsOK, ObsType
      <4> QED
        BY <4>1
    <3>7. Planned(obs)'
      <4>1. Planned(obs)
        BY <3>1 DEF ObsOK
      <4> QED
        BY <3>1, <3>3, <3>4, <3>5, <3>6, <4>1 DEF Planned
    <3> QED
      BY <3>1, <3>2, <3>7 DEF ObsOK
  <2> QED
    BY <1>1, <2>1, <2>2, LogMoves
<1> QED
  BY <1>1, <1>2 DEF ObsShape, ObsRest

(* What a step does to the queue of the writes of the binding.             *)
Persists ==
  \/ /\ \E p \in Prompts : Stream(p)
     /\ Persist(CursorWrite("held", terminalCursor, ownedSubmissions))
     /\ terminalCursor # 0 /\ undurableSinks = {} /\ pc = "idle" /\ request'.pc = "commit"
  \/ /\ Receipt /\ Persist(OwnWrite("own", request.id)) /\ request.id \in Turns
     /\ pc = "submit" /\ Goes("submit", "own")
  \/ /\ LateReceipt /\ Persist(OwnWrite("late", pendingSubmit.id)) /\ pendingSubmit.id \in Turns
     /\ late = "wait" /\ late' = "own" /\ UNCHANGED pendingSubmit
  \/ /\ Commit /\ Persist(CursorWrite("obs", Head(obs.todo).e, ownedSubmissions))
     /\ obs.pc = "apply" /\ obs'.pc = "write" /\ terminalCursor = 0
  \/ /\ CloseCommit /\ Persist(CursorWrite("close", terminalCursor, ownedSubmissions))
     /\ life = "closing" /\ life' = "committing"
WriteDone ==
  \/ Written("obs") /\ WrittenObserved
  \/ Written("held") /\ WrittenHeld
  \/ Written("own") /\ WrittenOwn
  \/ Written("late") /\ WrittenLate
  \/ Written("close") /\ WrittenClose
QueueMoves ==
  \/ UNCHANGED <<writes, binding>>
  \/ writes' = <<>> /\ (Crash \/ Restart)
  \/ WriteDone
  \/ Persists /\ UNCHANGED binding

LEMMA QueueMove ==
  ASSUME Inv, [Next]_vars
  PROVE  QueueMoves
<1>0. TypeOK
  BY DEF Inv
<1>1. CASE UNCHANGED vars
  BY <1>1 DEF vars, QueueMoves
<1>2. ASSUME NEW p \in Prompts, Stream(p) PROVE QueueMoves
  <2>1. \/ UNCHANGED writes
        \/ /\ Persist(CursorWrite("held", terminalCursor, ownedSubmissions)) /\ terminalCursor # 0
           /\ undurableSinks = {} /\ pc = "idle" /\ request' = [Idle EXCEPT !.pc = "commit", !.digest = p]
    BY <1>2 DEF Stream
  <2>2. [Idle EXCEPT !.pc = "commit", !.digest = p].pc = "commit"
    BY DEF Idle
  <2>3. UNCHANGED binding
    BY <1>2 DEF Stream
  <2> QED
    BY <1>2, <2>1, <2>2, <2>3 DEF QueueMoves, Persists
<1>3. CASE Submit \/ (\E b \in BOOLEAN : Rejected(b)) \/ Abort \/ Consume \/ (\E b \in BOOLEAN : LateRejected(b))
           \/ CloseInterrupt
  BY <1>3 DEF Submit, Rejected, Abort, Consume, LateRejected, CloseInterrupt, QueueMoves
<1>4. CASE Receipt
  <2>1. pc = "submit" /\ call.id = request.id /\ call.id \in Turns /\ UNCHANGED binding
    BY <1>4, CallTyped DEF Receipt
  <2>2. \/ UNCHANGED writes
        \/ Persist(OwnWrite("own", call.id)) /\ request' = [request EXCEPT !.pc = "own"]
    BY <1>4 DEF Receipt
  <2>3. Is([request EXCEPT !.pc = "own"], "own", request.digest, request.id, message)
    BY <1>0, RequestForms
  <2> QED
    BY <1>4, <2>1, <2>2, <2>3 DEF QueueMoves, Persists, Goes
<1>5. CASE LateReceipt
  <2>1. late = "wait" /\ call = pendingSubmit /\ call.id \in Turns /\ UNCHANGED binding
    BY <1>5, CallTyped DEF LateReceipt
  <2>2. \/ UNCHANGED writes
        \/ Persist(OwnWrite("late", call.id)) /\ late' = "own" /\ UNCHANGED pendingSubmit
    BY <1>5 DEF LateReceipt
  <2> QED
    BY <1>5, <2>1, <2>2 DEF QueueMoves, Persists
<1>6. CASE Commit
  <2>1. obs.pc = "apply" /\ UNCHANGED binding
    BY <1>6 DEF Commit, ApplyUnchanged
  <2>2. \/ UNCHANGED writes
        \/ /\ Persist(CursorWrite("obs", Head(obs.todo).e, ownedSubmissions))
           /\ obs' = [obs EXCEPT !.pc = "write"] /\ terminalCursor = 0
    BY <1>6 DEF Commit, Held
  <2>3. [obs EXCEPT !.pc = "write"].pc = "write"
    BY <1>0 DEF TypeOK, ObsType
  <2> QED
    BY <1>6, <2>1, <2>2, <2>3 DEF QueueMoves, Persists
<1>7. CASE CloseCommit
  BY <1>7 DEF CloseCommit, QueueMoves, Persists
<1>8. CASE Observe \/ Woken \/ StoreMessage \/ CloseSink
  BY <1>8 DEF Observe, Woken, StoreMessage, CloseSink, ObserveUnchanged, ApplyUnchanged, QueueMoves
<1>9. CASE WriteStep \/ WrittenClose
  <2>1. WrittenObserved \/ WrittenHeld \/ WrittenOwn \/ WrittenLate \/ WrittenClose
    BY <1>9 DEF WriteStep
  <2>2. WrittenObserved => Written("obs")
    BY DEF WrittenObserved
  <2>3. WrittenHeld => Written("held")
    BY DEF WrittenHeld
  <2>4. WrittenOwn => Written("own")
    BY DEF WrittenOwn
  <2>5. WrittenLate => Written("late")
    BY DEF WrittenLate
  <2>6. WrittenClose => Written("close")
    BY DEF WrittenClose
  <2>7. WriteDone
    BY <2>1, <2>2, <2>3, <2>4, <2>5, <2>6 DEF WriteDone
  <2> QED
    BY <2>7 DEF QueueMoves
<1>10. CASE Crash \/ Restart
  BY <1>10 DEF Crash, Restart, Forgotten, QueueMoves
<1>11. CASE ObserverLost \/ BeginClose \/ Admit \/ EmitForeign \/ \E t \in Turns, k \in Kinds : Emit(t, k)
  BY <1>11 DEF ObserverLost, BeginClose, Admit, EmitForeign, Emit, QueueMoves
<1> QED
  BY <1>1, <1>2, <1>3, <1>4, <1>5, <1>6, <1>7, <1>8, <1>9, <1>10, <1>11
     DEF Next, StreamStep, LateStep, ObserveStep

(* The other writes stay when the first is done or one more is asked for.  *)
LEMMA QueueTail ==
  ASSUME TypeOK, NEW by, Written(by)
  PROVE  /\ \A i \in DOMAIN writes' : i + 1 \in DOMAIN writes /\ writes'[i] = writes[i + 1] /\ i \in Nat /\ i >= 1
         /\ 1 \in DOMAIN writes /\ Head(writes) = writes[1] /\ Head(writes).by = by
<1>1. writes \in Seq(WriteType) /\ writes # <<>> /\ writes' = Tail(writes) /\ Head(writes).by = by
  BY DEF Written, TypeOK
<1>2. Tail(writes) \in Seq(WriteType)
  BY <1>1, SeqFacts
<1>3. \A i \in DOMAIN Tail(writes) : i \in Nat /\ i >= 1
  BY <1>2
<1> QED
  BY <1>1, <1>3, SeqFacts

LEMMA QueueGrown ==
  ASSUME TypeOK, NEW w \in WriteType, Persist(w)
  PROVE  /\ DOMAIN writes' = DOMAIN writes \cup {Len(writes) + 1}
         /\ \A i \in DOMAIN writes : writes'[i] = writes[i] /\ i # Len(writes) + 1 /\ i < Len(writes) + 1
         /\ writes'[Len(writes) + 1] = w
<1>1. writes \in Seq(WriteType) /\ writes' = Append(writes, w)
  BY DEF Persist, TypeOK
<1>2. \A i \in DOMAIN writes : i < Len(writes) + 1
  BY <1>1
<1> QED
  BY <1>1, <1>2, AppendFacts

LEMMA WritesTyped ==
  ASSUME TypeOK
  PROVE  /\ \A c \in 0..Len(log) : \A by \in {"held", "obs", "close"} :
              /\ CursorWrite(by, c, ownedSubmissions) \in WriteType
              /\ CursorWrite(by, c, ownedSubmissions).by = by
              /\ CursorWrite(by, c, ownedSubmissions).cursor = c
              /\ CursorWrite(by, c, ownedSubmissions).owned = ownedSubmissions
         /\ \A t \in Turns : \A by \in {"own", "late"} :
              /\ OwnWrite(by, t) \in WriteType /\ OwnWrite(by, t).by = by
              /\ OwnWrite(by, t).cursor = 0 /\ OwnWrite(by, t).owned = {t}
<1>1. Len(log) \in Nat /\ 0 \in 0..Len(log)
  BY TypedValues
<1>2. ownedSubmissions \subseteq Turns
  BY DEF TypeOK
<1> QED
  BY <1>1, <1>2 DEF CursorWrite, OwnWrite, WriteType

(* What the next op of the observer is.                                    *)
LEMMA OpNow ==
  ASSUME Inv, obs.pc = "apply"
  PROVE  LET op == Head(obs.todo)
         IN  /\ op \in OpType /\ op.e \in Events /\ op.e <= obs.at /\ op.t = log[op.e].turn
             /\ obs.at \in Events /\ op.t \in Turns \cup {Foreign}
             /\ op.op \in {"call", "close"} => op.t \in Turns
<1> DEFINE op == Head(obs.todo)
<1>2. obs.todo \in Seq(OpType) /\ obs.todo # <<>> /\ Planned(obs) /\ obs.at \in Events
  BY DEF Inv, ObsShape, ObsOK, ObsType
<1>3. op = obs.todo[1] /\ 1 \in DOMAIN obs.todo /\ op \in OpType
  BY <1>2, SeqFacts
<1> HIDE DEF op
<1>4. /\ op.t = log[op.e].turn /\ op.e <= obs.at
      /\ op.op \in {"call", "close"} => op.t \in Turns
  BY <1>2, <1>3 DEF Planned
<1>5. op.e \in Events /\ op.t \in Turns \cup {Foreign}
  BY <1>3 DEF OpType
<1> QED
  BY <1>2, <1>3, <1>4, <1>5 DEF op

(* Who asks for a write is waiting for it.                                 *)
Owner(w) ==
  /\ w.by = "own" => pc = "own" /\ w.owned = {request.id}
  /\ w.by = "late" => late = "own" /\ w.owned = {pendingSubmit.id}
  /\ w.by = "held" => pc = "commit"
  /\ w.by = "obs" => obs.pc = "write"
  /\ w.by = "close" => life = "committing"
Singles == \A i, j \in DOMAIN writes : writes[i].by = writes[j].by => i = j

LEMMA QueueParts ==
  Queue <=> Singles /\ \A i \in DOMAIN writes : Owner(writes[i])
BY DEF Queue, Singles, Owner

LEMMA PersistsNew ==
  ASSUME Inv, Persists
  PROVE  \E w \in WriteType : /\ Persist(w) /\ w.by \in {"own", "late", "held", "obs", "close"}
                              /\ \A i \in DOMAIN writes : writes[i].by # w.by
                              /\ Owner(w)'
<1>0. TypeOK /\ \A i \in DOMAIN writes : Owner(writes[i])
  BY QueueParts DEF Inv
<1>1. terminalCursor \in 0..Len(log)
  BY <1>0 DEF TypeOK
<1>2. CASE \E p \in Prompts : Stream(p) /\ Persist(CursorWrite("held", terminalCursor, ownedSubmissions))
              /\ pc = "idle" /\ request'.pc = "commit"
  <2>w. PICK w : w = CursorWrite("held", terminalCursor, ownedSubmissions)
    OBVIOUS
  <2>1. w \in WriteType /\ w.by = "held" /\ Persist(w) /\ request'.pc = "commit" /\ pc = "idle"
    BY <1>0, <1>1, <1>2, <2>w, WritesTyped
  <2>2. Owner(w)'
    BY <2>1 DEF Owner, pc
  <2> QED
    BY <1>0, <2>1, <2>2 DEF Owner
<1>3. CASE Persist(OwnWrite("own", request.id)) /\ request.id \in Turns /\ Goes("submit", "own")
  <2>w. PICK w : w = OwnWrite("own", request.id)
    OBVIOUS
  <2>1. /\ w \in WriteType /\ w.by = "own" /\ w.owned = {request.id} /\ Persist(w)
        /\ request'.pc = "own" /\ request'.id = request.id /\ pc = "submit"
    BY <1>0, <1>3, <2>w, WritesTyped DEF Goes, Is
  <2>2. Owner(w)'
    BY <2>1 DEF Owner, pc
  <2> QED
    BY <1>0, <2>1, <2>2 DEF Owner
<1>4. CASE /\ Persist(OwnWrite("late", pendingSubmit.id)) /\ pendingSubmit.id \in Turns
           /\ late = "wait" /\ late' = "own" /\ UNCHANGED pendingSubmit
  <2>w. PICK w : w = OwnWrite("late", pendingSubmit.id)
    OBVIOUS
  <2>1. /\ w \in WriteType /\ w.by = "late" /\ w.owned = {pendingSubmit.id} /\ Persist(w)
    BY <1>0, <1>4, <2>w, WritesTyped
  <2>2. Owner(w)'
    BY <1>4, <2>1 DEF Owner
  <2> QED
    BY <1>0, <1>4, <2>1, <2>2 DEF Owner
<1>5. CASE /\ Persist(CursorWrite("obs", Head(obs.todo).e, ownedSubmissions))
           /\ obs.pc = "apply" /\ obs'.pc = "write"
  <2>w. PICK w : w = CursorWrite("obs", Head(obs.todo).e, ownedSubmissions)
    OBVIOUS
  <2>0. Head(obs.todo).e \in 0..Len(log)
    BY <1>5, OpNow DEF Events
  <2>1. w \in WriteType /\ w.by = "obs" /\ Persist(w)
    BY <1>0, <1>5, <2>0, <2>w, WritesTyped
  <2>2. Owner(w)'
    BY <1>5, <2>1 DEF Owner
  <2> QED
    BY <1>0, <1>5, <2>1, <2>2 DEF Owner
<1>6. CASE /\ Persist(CursorWrite("close", terminalCursor, ownedSubmissions))
           /\ life = "closing" /\ life' = "committing"
  <2>w. PICK w : w = CursorWrite("close", terminalCursor, ownedSubmissions)
    OBVIOUS
  <2>1. w \in WriteType /\ w.by = "close" /\ Persist(w)
    BY <1>0, <1>1, <1>6, <2>w, WritesTyped
  <2>2. Owner(w)'
    BY <1>6, <2>1 DEF Owner
  <2> QED
    BY <1>0, <1>6, <2>1, <2>2 DEF Owner
<1> QED
  BY <1>2, <1>3, <1>4, <1>5, <1>6 DEF Persists

--------------------------------------------------------------------------------
(* The attempts.                                                           *)

(* What a step does to the attempt that is in doubt.                       *)
PendingMoves ==
  \/ UNCHANGED <<pendingSubmit, observedSubmitAttempts>>
  \/ /\ pc = "submit" /\ Pending(call) /\ UNCHANGED observedSubmitAttempts /\ request'.pc \in {"idle", "ended"}
     /\ Abort \/ CloseInterrupt \/ \E b \in BOOLEAN : Rejected(b)
  \/ pc = "submit" /\ Receipt /\ Settled(call) /\ request'.pc \in {"idle", "ended"}
     /\ (call.id \in adoptedTerminalTurnIds \/ sinks[call.id].adopted)
  \/ /\ pc \in {"submit", "own"} /\ Cleared([id |-> request.id]) /\ Installed(request.id)
     /\ Receipt \/ WrittenOwn
     /\ UNCHANGED observedSubmitAttempts
  \/ late = "wait" /\ LateReceipt /\ late' = "none" /\ Settled(call) /\ call.id \in adoptedTerminalTurnIds
  \/ /\ late = "wait" /\ late' = "none" /\ Cleared(call) /\ UNCHANGED observedSubmitAttempts
     /\ LateReceipt \/ \E b \in BOOLEAN : LateRejected(b)
  \/ /\ Observe \/ Woken
     /\ Completes(obs.at, log[obs.at].turn)
  \/ CloseSink /\ SettleSink(Head(obs.todo).t)
  \/ CloseCommit /\ UNCHANGED pendingSubmit /\ observedSubmitAttempts' = {} /\ adoptedTerminalTurnIds' = {}
  \/ Crash \/ Restart

LEMMA PendingMove ==
  ASSUME Inv, [Next]_vars
  PROVE  PendingMoves
<1> USE DEF submission
<1>0. TypeOK
  BY DEF Inv
<1>r. Refused => request'.pc \in {"idle", "ended"}
  BY <1>0, RequestForms DEF Is
<1>1. CASE UNCHANGED vars
  BY <1>1 DEF vars, PendingMoves
<1>2. CASE (\E p \in Prompts : Stream(p)) \/ Submit \/ Consume
  BY <1>2 DEF Stream, Submit, Consume, PendingMoves
<1>3. CASE Receipt
  <2>1. pc = "submit" /\ call.id = request.id /\ call.id \in Turns
    BY <1>3, CallTyped DEF Receipt
  <2>2. \/ Settled(call) /\ Refused /\ (call.id \in adoptedTerminalTurnIds \/ sinks[call.id].adopted)
        \/ Installed(call.id) /\ UNCHANGED observedSubmitAttempts
        \/ UNCHANGED <<pendingSubmit, observedSubmitAttempts>>
    BY <1>3 DEF Receipt
  <2>3. Installed(request.id) => Cleared([id |-> request.id])
    BY DEF Installed
  <2> QED
    BY <1>r, <1>3, <2>1, <2>2, <2>3 DEF PendingMoves
<1>4. ASSUME NEW b \in BOOLEAN, Rejected(b) PROVE PendingMoves
  BY <1>r, <1>4 DEF Rejected, PendingMoves
<1>5. CASE Abort
  <2>1. Idle.pc = "idle"
    BY DEF Idle
  <2> QED
    BY <1>5, <2>1 DEF Abort, Interrupted, PendingMoves
<1>6. CASE CloseInterrupt
  BY <1>r, <1>6 DEF CloseInterrupt, Interrupted, PendingMoves
<1>7. CASE LateReceipt
  BY <1>7 DEF LateReceipt, PendingMoves
<1>8. ASSUME NEW b \in BOOLEAN, LateRejected(b) PROVE PendingMoves
  BY <1>8 DEF LateRejected, PendingMoves
<1>9. CASE Observe \/ Woken
  <2>1. Waits \/ Takes(obs.at, log[obs.at].turn)
    BY <1>9, ObserverMoves
  <2> QED
    BY <1>9, <2>1 DEF Waits, Waiting, Takes, Passes, Still, Shows, PendingMoves
<1>10. CASE StoreMessage \/ Commit \/ WrittenObserved \/ WrittenHeld \/ WrittenLate
  BY <1>10 DEF StoreMessage, Commit, WrittenObserved, WrittenHeld, WrittenLate, PendingMoves
<1>11. CASE CloseSink
  BY <1>11 DEF CloseSink, PendingMoves
<1>12. CASE WrittenOwn
  <2>1. pc = "own" /\ Installed(request.id)
    BY <1>12, QueueHead DEF WrittenOwn
  <2>2. Cleared([id |-> request.id]) /\ UNCHANGED observedSubmitAttempts
    BY <1>12, <2>1 DEF WrittenOwn, Installed
  <2> QED
    BY <1>12, <2>1, <2>2 DEF PendingMoves
<1>13. CASE ObserverLost \/ BeginClose \/ WrittenClose \/ Admit \/ EmitForeign
            \/ \E t \in Turns, k \in Kinds : Emit(t, k)
  BY <1>13 DEF ObserverLost, BeginClose, WrittenClose, Admit, EmitForeign, Emit, PendingMoves
<1>14. CASE CloseCommit \/ Crash \/ Restart
  BY <1>14 DEF CloseCommit, PendingMoves
<1> QED
  BY <1>1, <1>2, <1>3, <1>4, <1>5, <1>6, <1>7, <1>8, <1>9, <1>10, <1>11, <1>12, <1>13, <1>14
     DEF Next, StreamStep, LateStep, ObserveStep, WriteStep

(* A turn whose sink the observer closes was seen, and is not settled yet. *)
LEMMA ClosedNotFresh ==
  ASSUME Inv, CloseSink
  PROVE  ~Fresh(Head(obs.todo).t) /\ Head(obs.todo).t \notin adoptedTerminalTurnIds
<1> DEFINE t == Head(obs.todo).t
<1>1. /\ t = log[obs.at].turn /\ obs.at \in Events /\ obs.pc = "apply" /\ Closing(t)
  BY Closes
<1> HIDE DEF t
<1>2. obs.at \in Nat /\ ~(obs.at < obs.at)
  BY <1>1 DEF Events
<1>3. ~Past(t)
  BY <1>1, <1>2 DEF Past
<1>4. t \notin adoptedTerminalTurnIds
  BY <1>3 DEF Inv, Attempts
<1>5. ~Unseen(t)
  BY <1>1 DEF Unseen
<1> QED
  BY <1>4, <1>5 DEF Fresh, t

(* A turn with a stream is not the attempt in doubt.                       *)
LEMMA CompletedKept ==
  ASSUME Inv, NEW e, NEW t, Completes(e, t)
  PROVE  UNCHANGED <<pendingSubmit, observedSubmitAttempts>>
<1>1. t \in Turns /\ sinks[t].live /\ ~sinks[t].adopted /\ SettleSink(t)
  BY DEF Completes, NativeTerminal
<1>2. pendingSubmit.id # t
  BY <1>1 DEF Inv, Attempts
<1> QED
  BY <1>1, <1>2 DEF SettleSink

(* While the ownership of an interrupted submission is written.            *)
LEMMA LateKeeps ==
  ASSUME Inv, [Next]_vars, late = "own", ~WrittenLate, ~Crash, ~Restart
  PROVE  late' = "own" /\ UNCHANGED pendingSubmit
<1>1. /\ ~Asked /\ pc \notin {"submit", "own"} /\ pendingSubmit # NoAttempt
  BY DEF Inv, Attempts, Asked
<1>2. late' = "own"
  BY <1>1, LateMoves
<1>3. CASE Completes(obs.at, log[obs.at].turn)
  BY <1>2, <1>3, CompletedKept
<1>4. CASE CloseSink /\ SettleSink(Head(obs.todo).t)
  <2>1. life \in {"up", "closing"}
    <3>1. obs.pc = "apply" /\ TypeOK
      BY <1>4, Closes DEF Inv
    <3> QED
      BY <3>1 DEF Inv, ObsShape, TypeOK
  <2>2. Fresh(pendingSubmit.id)
    BY <1>1, <2>1 DEF Inv, Attempts
  <2>3. pendingSubmit.id # Head(obs.todo).t
    BY <1>4, <2>2, ClosedNotFresh
  <2> QED
    BY <1>2, <1>4, <2>3 DEF SettleSink
<1> QED
  BY <1>1, <1>2, <1>3, <1>4, PendingMove DEF PendingMoves

(* A call that waits for a write goes on only when that is done.           *)
LEMMA CallWaits ==
  ASSUME Inv, [Next]_vars, pc \in {"own", "commit"}, ~Written(IF pc = "own" THEN "own" ELSE "held"),
         ~Crash, ~Restart
  PROVE  pc' = pc /\ request'.id = request.id
<1> USE DEF pc
<1>0. TypeOK
  BY DEF Inv
<1>1. ~WrittenOwn /\ ~WrittenHeld
  <2>1. WrittenOwn => pc = "own" /\ Written("own")
    BY QueueHead DEF WrittenOwn
  <2>2. WrittenHeld => pc = "commit" /\ Written("held")
    BY QueueHead DEF WrittenHeld
  <2> QED
    BY <2>1, <2>2
<1>2. ~(\E p \in Prompts : Stream(p)) /\ ~StreamStep /\ ~Consume /\ ~CloseInterrupt
  BY DEF Stream, StreamStep, Submit, Receipt, Rejected, Consume, CloseInterrupt
<1>3. CASE UNCHANGED vars
  BY <1>3 DEF vars
<1>4. CASE Abort
  <2>1. request' = [request EXCEPT !.aborted = TRUE]
    BY <1>4 DEF Abort
  <2> QED
    BY <1>0, <2>1, RequestForms DEF Is
<1>5. CASE Next /\ ~Abort
  <2>1. \/ UNCHANGED request
        \/ (Observe \/ Woken) /\ ~sinks[log[obs.at].turn].left /\ Completes(obs.at, log[obs.at].turn)
    BY <1>1, <1>2, <1>5, OtherMoves
  <2>2. Completes(obs.at, log[obs.at].turn) => sinks[log[obs.at].turn].left
    <3> DEFINE u == log[obs.at].turn
    <3>1. Completes(obs.at, u) => u \in Turns /\ sinks[u].live /\ ~sinks[u].adopted
      BY DEF Completes
    <3> HIDE DEF u
    <3>2. Completes(obs.at, u) => sinks[u].left
      BY <3>1 DEF Inv, CallShape
    <3> QED
      BY <3>2 DEF u
  <2> QED
    BY <2>1, <2>2
<1> QED
  BY <1>3, <1>4, <1>5

LEMMA ObserverWrites ==
  ASSUME Inv, [Next]_vars, obs.pc = "write", ~Written("obs"), ~Crash, ~Restart
  PROVE  obs'.pc = "write"
<1>0. ObsOK(obs) /\ ObsMoves
  BY ObsMove DEF Inv, ObsShape
<1>1. CASE Quiet
  BY <1>0, <1>1, NotifiedOK DEF Quiet
<1>2. CASE Halts
  BY <1>2 DEF Halts, Halted, Working
<1>3. ~Advances
  BY DEF Advances, StoreMessage, Commit, CloseSink, WrittenObserved
<1>4. ~Flushes
  BY DEF Flushes
<1>5. ~Observe /\ ~Woken
  BY ObserverMoves DEF Reading
<1> QED
  BY <1>0, <1>1, <1>2, <1>3, <1>4, <1>5 DEF ObsMoves

LEMMA OwnerKept ==
  ASSUME Inv, [Next]_vars, NEW w, Owner(w), ~Written(w.by), ~Crash, ~Restart
  PROVE  Owner(w)'
<1>1. w.by = "own" => pc' = "own" /\ w.owned = {request'.id}
  BY CallWaits DEF Owner
<1>2. w.by = "held" => pc' = "commit"
  BY CallWaits DEF Owner
<1>3. w.by = "late" => late' = "own" /\ w.owned = {pendingSubmit'.id}
  BY LateKeeps DEF Owner, WrittenLate
<1>4. w.by = "obs" => obs'.pc = "write"
  BY ObserverWrites DEF Owner
<1>5. w.by = "close" => life' = "committing"
  <2>1. ASSUME life = "committing", ~Written("close") PROVE life' = "committing"
    BY <2>1, LifeMoves DEF WrittenClose
  <2> QED
    BY <2>1 DEF Owner
<1> QED
  BY <1>1, <1>2, <1>3, <1>4, <1>5 DEF Owner

LEMMA QueueKept ==
  ASSUME Inv, [Next]_vars
  PROVE  Queue'
<1>0. TypeOK /\ Singles /\ (\A i \in DOMAIN writes : Owner(writes[i])) /\ QueueMoves
      /\ writes \in Seq(WriteType)
  BY QueueParts, QueueMove DEF Inv, TypeOK
<1>l. \A by : Written(by) => Len(writes') # Len(writes) /\ Len(writes') # Len(writes) + 1
                             /\ writes' # writes
  <2>1. ASSUME NEW by, Written(by) PROVE Len(writes') = Len(writes) - 1 /\ Len(writes) \in Nat
    BY <1>0, <2>1, SeqFacts DEF Written
  <2> QED
    BY <2>1
<1>1. CASE writes' = <<>>
  <2>1. DOMAIN writes' = {}
    BY <1>1
  <2> QED
    BY <2>1 DEF Queue
<1>2. CASE UNCHANGED writes /\ ~Crash /\ ~Restart
  <2>1. \A i \in DOMAIN writes : Owner(writes[i])'
    <3>1. ASSUME NEW i \in DOMAIN writes PROVE Owner(writes[i])'
      <4>1. PICK w : w = writes[i]
        OBVIOUS
      <4>2. Owner(w)'
        BY <1>0, <1>l, <1>2, <4>1, OwnerKept
      <4>3. w = writes[i]'
        BY <1>2, <4>1
      <4> QED
        BY <4>2, <4>3 DEF Owner
    <3> QED
      BY <3>1
  <2> QED
    BY <1>0, <1>2, <2>1 DEF Singles, Queue, Owner
<1>3. CASE WriteDone /\ ~Crash /\ ~Restart
  <2>1. PICK by \in {"own", "late", "held", "obs", "close"} : Written(by)
    BY <1>3 DEF WriteDone
  <2>2. /\ \A i \in DOMAIN writes' : i + 1 \in DOMAIN writes /\ writes'[i] = writes[i + 1] /\ i \in Nat /\ i >= 1
        /\ 1 \in DOMAIN writes /\ Head(writes) = writes[1] /\ writes[1].by = by
    BY <1>0, <2>1, QueueTail
  <2>3. ASSUME NEW i \in DOMAIN writes' PROVE Owner(writes[i])'
    <3>1. PICK w : w = writes'[i]
      OBVIOUS
    <3>2. w = writes[i + 1] /\ i + 1 \in DOMAIN writes /\ i + 1 # 1
      BY <2>2, <3>1
    <3>3. w.by # by
      BY <1>0, <2>2, <3>2 DEF Singles
    <3>4. ~Written(w.by)
      BY <2>2, <3>3 DEF Written
    <3>5. Owner(w)'
      BY <1>0, <1>3, <3>2, <3>4, OwnerKept
    <3>6. w = writes[i]'
      BY <3>1
    <3> QED
      BY <3>5, <3>6 DEF Owner
  <2>4. Singles'
    <3>1. ASSUME NEW i \in DOMAIN writes', NEW j \in DOMAIN writes', writes'[i].by = writes'[j].by
          PROVE  i = j
      <4>1. i + 1 = j + 1
        BY <1>0, <2>2, <3>1 DEF Singles
      <4> QED
        BY <2>2, <4>1
    <3> QED
      BY <3>1 DEF Singles
  <2> QED
    BY <2>3, <2>4 DEF Singles, Queue, Owner
<1>4. CASE Persists /\ ~Crash /\ ~Restart
  <2>1. PICK w \in WriteType : /\ Persist(w) /\ \A i \in DOMAIN writes : writes[i].by # w.by
                               /\ Owner(w)'
    BY <1>4, PersistsNew
  <2>2. /\ DOMAIN writes' = DOMAIN writes \cup {Len(writes) + 1}
        /\ \A i \in DOMAIN writes : writes'[i] = writes[i] /\ i # Len(writes) + 1
        /\ writes'[Len(writes) + 1] = w
    BY <1>0, <2>1, QueueGrown
  <2>3. \A by : ~Written(by)
    <3>1. Len(writes') = Len(writes) + 1
      BY <1>0, <2>1, AppendFacts DEF Persist
    <3> QED
      BY <1>l, <3>1
  <2>4. ASSUME NEW i \in DOMAIN writes' PROVE Owner(writes[i])'
    <3>1. PICK v : v = writes'[i]
      OBVIOUS
    <3>2. CASE i \in DOMAIN writes
      <4>1. Owner(v)
        BY <1>0, <2>2, <3>1, <3>2
      <4>2. Owner(v)'
        BY <1>4, <2>3, <4>1, OwnerKept
      <4>3. v = writes[i]'
        BY <3>1
      <4> QED
        BY <4>2, <4>3 DEF Owner
    <3>3. CASE i = Len(writes) + 1
      <4>1. w = writes[i]'
        BY <2>2, <3>3
      <4> QED
        BY <2>1, <4>1 DEF Owner
    <3> QED
      BY <2>2, <3>2, <3>3
  <2>5. Singles'
    BY <1>0, <2>1, <2>2 DEF Singles
  <2> QED
    BY <2>4, <2>5 DEF Singles, Queue, Owner
<1> QED
  <2>1. Crash \/ Restart => writes' = <<>>
    BY DEF Crash, Restart, Forgotten
  <2> QED
    BY <1>0, <1>1, <1>2, <1>3, <1>4, <2>1 DEF QueueMoves

(* What has an id was made before.                                         *)
LEMMA Upto ==
  ASSUME TypeOK
  PROVE  /\ made \in Nat
         /\ \A t \in Turns : t <= made <=> t \in 1..made
         /\ \A n \in Nat : n >= made => 1..made \subseteq 1..n
<1>1. made \in Nat /\ \A t \in Turns : t \in Nat /\ t >= 1
  BY DEF TypeOK
<1> QED
  BY <1>1

LEMMA MadeGrows ==
  ASSUME Inv, [Next]_vars
  PROVE  /\ made' \in Nat /\ made' >= made
         /\ 1..made \subseteq 1..made'
         /\ UNCHANGED made \/ Submit \/ Crash \/ Restart
<1>0. TypeOK /\ TypeOK'
  BY TypeKept DEF Inv
<1>1. UNCHANGED made \/ Submit
  <2>1. CASE UNCHANGED vars
    BY <2>1 DEF vars
  <2>2. CASE (\E p \in Prompts : Stream(p)) \/ Receipt \/ (\E b \in BOOLEAN : Rejected(b)) \/ Abort \/ Consume
    BY <2>2 DEF Stream, Receipt, Rejected, Abort, Consume
  <2>3. CASE LateStep \/ ObserveStep \/ Woken \/ WriteStep
    BY <2>3 DEF LateStep, LateReceipt, LateRejected, ObserveStep, Observe, StoreMessage, Commit, CloseSink,
         Woken, ObserveUnchanged, ApplyUnchanged, WriteStep, WrittenObserved, WrittenHeld, WrittenOwn, WrittenLate
  <2>4. CASE ObserverLost \/ BeginClose \/ CloseInterrupt \/ CloseCommit \/ WrittenClose \/ Crash \/ Restart
    BY <2>4 DEF ObserverLost, BeginClose, CloseInterrupt, CloseCommit, WrittenClose, Crash, Restart
  <2>5. CASE Admit \/ EmitForeign \/ \E t \in Turns, k \in Kinds : Emit(t, k)
    BY <2>5 DEF Admit, EmitForeign, Emit
  <2> QED
    BY <2>1, <2>2, <2>3, <2>4, <2>5 DEF Next, StreamStep
<1>2. made \in Nat /\ made' \in Nat
  BY <1>0 DEF TypeOK
<1>3. made' >= made
  <2>1. CASE UNCHANGED made
    BY <1>2, <2>1
  <2>2. CASE Submit
    <3>1. UNCHANGED made \/ made' = IF Attempt.id > made THEN Attempt.id ELSE made
      BY <2>2 DEF Submit
    <3> QED
      BY <1>2, <3>1
  <2> QED
    BY <1>1, <2>1, <2>2
<1> QED
  BY <1>1, <1>2, <1>3

(* The attempt that is submitted.                                          *)
LEMMA SubmitMoves ==
  ASSUME Inv, Submit
  PROVE  \/ UNCHANGED <<sent, call, made>> /\ Leaves
         \/ /\ pc = "ready" /\ Attempt.id \in Turns /\ Attempt.id <= made' /\ ~Unresolved /\ ~request.aborted
            /\ Attempt \in AttemptType /\ call' = Attempt /\ sent' = sent \cup {Attempt.id}
            /\ Is(request', "submit", request.digest, Attempt.id, message)
<1>0. TypeOK /\ made \in Nat /\ CallShape
  BY DEF Inv, TypeOK
<1>1. CASE Refused /\ UNCHANGED <<made, wire>>
  BY <1>0, <1>1, RequestForms DEF wire, Leaves
<1>2. CASE ~(Refused /\ UNCHANGED <<made, wire>>)
  <2>1. /\ request' = [request EXCEPT !.pc = "submit", !.id = Attempt.id]
        /\ call' = Attempt /\ sent' = sent \cup {Attempt.id} /\ pc = "ready"
        /\ made' = IF Attempt.id > made THEN Attempt.id ELSE made
        /\ Attempt.id \in Turns /\ ~Unresolved /\ ~request.aborted
    BY <1>2 DEF Submit
  <2>2. Attempt.id \in Nat
    BY <2>1
  <2>3. Attempt.id <= made'
    BY <1>0, <2>1, <2>2
  <2>4. Is(request', "submit", request.digest, Attempt.id, message)
    BY <1>0, <2>1, RequestForms
  <2>5. Attempt \in AttemptType
    <3>1. Attempt \in AttemptType \/ Attempt = [id |-> made + 1, digest |-> request.digest]
      BY <1>0 DEF Attempt, TypeOK
    <3>2. request.digest \in Prompts
      BY <1>0, <2>1 DEF CallShape
    <3> QED
      BY <2>1, <3>1, <3>2 DEF AttemptType
  <2> QED
    BY <2>1, <2>3, <2>4, <2>5
<1> QED
  BY <1>1, <1>2

Known == /\ pendingSubmit.id <= made /\ call.id <= made /\ request.id <= made

LEMMA CallIds ==
  ASSUME Inv, [Next]_vars
  PROVE  call' \in {call, NoAttempt} \/ (Submit /\ call' = Attempt /\ Attempt.id <= made')
<1> USE DEF wire
<1>1. CASE UNCHANGED vars
  BY <1>1 DEF vars
<1>2. CASE (\E p \in Prompts : Stream(p)) \/ Receipt \/ (\E b \in BOOLEAN : Rejected(b)) \/ Abort \/ Consume
  BY <1>2 DEF Stream, Receipt, Rejected, Abort, Consume
<1>3. CASE LateStep \/ ObserveStep \/ Woken \/ WriteStep
  BY <1>3 DEF LateStep, LateReceipt, LateRejected, ObserveStep, Observe, StoreMessage, Commit, CloseSink,
       Woken, ObserveUnchanged, ApplyUnchanged, WriteStep, WrittenObserved, WrittenHeld, WrittenOwn, WrittenLate
<1>4. CASE ObserverLost \/ BeginClose \/ CloseInterrupt \/ CloseCommit \/ WrittenClose \/ Crash \/ Restart
  BY <1>4 DEF ObserverLost, BeginClose, CloseInterrupt, CloseCommit, WrittenClose, Crash, Restart, Forgotten
<1>5. CASE Admit \/ EmitForeign \/ \E t \in Turns, k \in Kinds : Emit(t, k)
  BY <1>5 DEF Admit, EmitForeign, Emit
<1>6. CASE Submit
  BY <1>6, SubmitMoves
<1> QED
  BY <1>1, <1>2, <1>3, <1>4, <1>5, <1>6 DEF Next, StreamStep

LEMMA RequestIds ==
  ASSUME Inv, [Next]_vars
  PROVE  request'.id \in {0, request.id} \/ (Submit /\ request'.id = Attempt.id /\ Attempt.id <= made')
<1>0. Moves
  BY CallMoves
<1>1. CASE pc = "ready" /\ Is(request', "submit", request.digest, Attempt.id, message)
  <2>1. request'.pc = "submit"
    BY <1>1 DEF Is
  <2>2. CASE Submit
    BY <1>1, <2>1, <2>2, SubmitMoves DEF Leaves, Is
  <2>3. CASE UNCHANGED request
    BY <2>3
  <2>4. CASE ~Submit /\ Next
    <3>1. ~(\E p \in Prompts : Stream(p)) /\ ~Receipt /\ ~(\E b \in BOOLEAN : Rejected(b)) /\ ~Consume
          /\ ~WrittenOwn /\ ~WrittenHeld /\ ~CloseInterrupt
      BY <1>1, QueueHead DEF Stream, Receipt, Rejected, Consume, WrittenOwn, WrittenHeld, CloseInterrupt
    <3>2. CASE Abort
      <4>1. request' = [request EXCEPT !.aborted = TRUE] /\ request \in RequestType
        BY <1>1, <3>2 DEF Abort, Inv, TypeOK
      <4>2. request'.id = request.id
        BY <4>1 DEF RequestType
      <4> QED
        BY <4>2
    <3>3. CASE ~Abort
      <4>1. UNCHANGED request \/ Leaves \/ request' = Idle
            \/ \E e : request' = Ended(e)
        BY <2>4, <3>1, <3>3, OtherMoves DEF StreamStep
      <4>2. ~Leaves
        BY <2>1 DEF Leaves, Is
      <4>3. request' # Idle /\ \A e : request' # Ended(e)
        <5>1. Idle.pc = "idle" /\ \A e : Ended(e).pc = "ended"
          BY DEF Idle, Ended
        <5> QED
          BY <2>1, <5>1
      <4> QED
        BY <4>1, <4>2, <4>3
    <3> QED
      BY <3>2, <3>3
  <2> QED
    BY <2>2, <2>3, <2>4 DEF vars
<1> QED
  BY <1>0, <1>1 DEF Moves, Asks, Goes, Leaves, Is

LEMMA PendingIds ==
  ASSUME Inv, [Next]_vars
  PROVE  pendingSubmit' \in {pendingSubmit, call, NoAttempt}
<1>1. \A a : (Pending(a) => pendingSubmit' \in {pendingSubmit, a})
             /\ (Cleared(a) \/ Settled(a) => pendingSubmit' \in {pendingSubmit, NoAttempt})
  BY DEF Pending, Cleared, Settled
<1>2. \A t : SettleSink(t) => pendingSubmit' \in {pendingSubmit, NoAttempt}
  BY <1>1 DEF SettleSink
<1>3. Completes(obs.at, log[obs.at].turn) => UNCHANGED pendingSubmit
  BY CompletedKept
<1>4. Crash \/ Restart => pendingSubmit' = NoAttempt
  BY DEF Crash, Restart, Forgotten
<1> QED
  BY <1>1, <1>2, <1>3, <1>4, PendingMove DEF PendingMoves

LEMMA KnownKept ==
  ASSUME Inv, [Next]_vars
  PROVE  Known'
<1>0. /\ TypeOK /\ Known /\ made \in Nat /\ made' \in Nat /\ made' >= made
      /\ pendingSubmit.id \in Nat /\ call.id \in Nat /\ request.id \in Nat /\ NoAttempt.id = 0
  <2>1. TypeOK /\ Known /\ made' \in Nat /\ made' >= made
    BY MadeGrows DEF Inv, Made, Known
  <2>2. made \in Nat /\ request \in RequestType
        /\ pendingSubmit \in AttemptType \cup {NoAttempt} /\ call \in AttemptType \cup {NoAttempt}
    BY <2>1 DEF TypeOK
  <2>3. NoAttempt.id = 0 /\ \A a \in AttemptType : a.id \in Nat
    BY DEF NoAttempt, AttemptType
  <2>4. request.id \in Nat
    BY <2>2 DEF RequestType
  <2> QED
    BY <2>1, <2>2, <2>3, <2>4
<1>1. call'.id <= made'
  BY <1>0, CallIds DEF Known
<1>2. request'.id <= made'
  BY <1>0, RequestIds DEF Known
<1>3. pendingSubmit'.id <= made'
  BY <1>0, PendingIds DEF Known
<1> QED
  BY <1>1, <1>2, <1>3 DEF Known

LEMMA AdmittedMoves ==
  ASSUME TypeOK, [Next]_vars
  PROVE  UNCHANGED admitted \/ \E a \in sent : a \in Turns /\ a \notin Range(admitted)
                                               /\ admitted' = Append(admitted, a)
<1> USE DEF engine
<1>1. CASE UNCHANGED vars
  BY <1>1 DEF vars
<1>2. CASE (\E p \in Prompts : Stream(p)) \/ StreamStep \/ Abort \/ Consume
  BY <1>2 DEF Stream, StreamStep, Submit, Receipt, Rejected, Abort, Consume
<1>3. CASE LateStep \/ ObserveStep \/ Woken \/ WriteStep
  BY <1>3 DEF LateStep, LateReceipt, LateRejected, ObserveStep, Observe, StoreMessage, Commit, CloseSink,
       Woken, ObserveUnchanged, ApplyUnchanged, WriteStep, WrittenObserved, WrittenHeld, WrittenOwn, WrittenLate
<1>4. CASE ObserverLost \/ BeginClose \/ CloseInterrupt \/ CloseCommit \/ WrittenClose \/ Crash \/ Restart
  BY <1>4 DEF ObserverLost, BeginClose, CloseInterrupt, CloseCommit, WrittenClose, Crash, Restart
<1>5. CASE EmitForeign \/ \E t \in Turns, k \in Kinds : Emit(t, k)
  BY <1>5 DEF EmitForeign, Emit
<1>6. CASE Admit
  BY <1>6 DEF Admit, TypeOK
<1> QED
  BY <1>1, <1>2, <1>3, <1>4, <1>5, <1>6 DEF Next

LEMMA RangeAppend ==
  ASSUME NEW S, NEW q \in Seq(S), NEW a \in S
  PROVE  Range(Append(q, a)) = Range(q) \cup {a}
<1>1. /\ DOMAIN Append(q, a) = DOMAIN q \cup {Len(q) + 1}
      /\ \A i \in DOMAIN q : Append(q, a)[i] = q[i]
      /\ Append(q, a)[Len(q) + 1] = a
  BY AppendFacts
<1>2. Range(q) = {q[i] : i \in DOMAIN q} /\ Range(Append(q, a)) = {Append(q, a)[i] : i \in DOMAIN Append(q, a)}
  BY DEF Range
<1> DEFINE r == Append(q, a)
<1>3. \A v : (\E i \in DOMAIN r : v = r[i]) <=> (v = a \/ \E i \in DOMAIN q : v = q[i])
  <2> HIDE DEF r
  <2>1. /\ DOMAIN r = DOMAIN q \cup {Len(q) + 1}
        /\ \A i \in DOMAIN q : r[i] = q[i]
        /\ r[Len(q) + 1] = a
    BY <1>1 DEF r
  <2> QED
    BY <2>1
<1> HIDE DEF r
<1>4. Range(r) = {r[i] : i \in DOMAIN r}
  BY <1>2 DEF r
<1>5. Range(r) = Range(q) \cup {a}
  BY <1>2, <1>3, <1>4
<1> QED
  BY <1>5 DEF r

LEMMA RangeGrows ==
  ASSUME TypeOK, [Next]_vars
  PROVE  /\ Range(admitted) \subseteq Range(admitted')
         /\ Range(admitted') \subseteq Range(admitted) \cup sent
<1>1. admitted \in Seq(Turns)
  BY DEF TypeOK
<1>2. ASSUME NEW a \in Turns PROVE Range(Append(admitted, a)) = Range(admitted) \cup {a}
  BY <1>1, RangeAppend
<1> QED
  BY <1>2, AdmittedMoves

LEMMA SentMoves ==
  ASSUME Inv, [Next]_vars
  PROVE  sent' \subseteq sent \/ (sent' = sent \cup {Attempt.id} /\ Attempt.id \in Turns /\ Attempt.id <= made')
<1> USE DEF wire
<1>1. CASE UNCHANGED vars
  BY <1>1 DEF vars
<1>2. CASE (\E p \in Prompts : Stream(p)) \/ Receipt \/ (\E b \in BOOLEAN : Rejected(b)) \/ Abort \/ Consume
  BY <1>2 DEF Stream, Receipt, Rejected, Abort, Consume
<1>3. CASE LateStep \/ ObserveStep \/ Woken \/ WriteStep
  BY <1>3 DEF LateStep, LateReceipt, LateRejected, ObserveStep, Observe, StoreMessage, Commit, CloseSink,
       Woken, ObserveUnchanged, ApplyUnchanged, WriteStep, WrittenObserved, WrittenHeld, WrittenOwn, WrittenLate
<1>4. CASE ObserverLost \/ BeginClose \/ CloseInterrupt \/ CloseCommit \/ WrittenClose \/ Crash \/ Restart
  BY <1>4 DEF ObserverLost, BeginClose, CloseInterrupt, CloseCommit, WrittenClose, Crash, Restart
<1>5. CASE Admit \/ EmitForeign \/ \E t \in Turns, k \in Kinds : Emit(t, k)
  BY <1>5 DEF Admit, EmitForeign, Emit
<1>6. CASE Submit
  BY <1>6, SubmitMoves
<1> QED
  BY <1>1, <1>2, <1>3, <1>4, <1>5, <1>6 DEF Next, StreamStep

(* What a step does to the turns that are ours, and to those known to be.  *)
OwnedMoves ==
  \/ UNCHANGED ownedSubmissions
  \/ /\ pc \in {"submit", "own"} /\ ownedSubmissions' = ownedSubmissions \cup {request.id}
     /\ Installed(request.id) /\ (Receipt \/ WrittenOwn)
  \/ WrittenLate /\ ownedSubmissions' = ownedSubmissions \cup {pendingSubmit.id} /\ late = "own"
     /\ Cancel({pendingSubmit.id})
  \/ /\ Observe \/ Woken
     /\ ownedSubmissions' \subseteq ownedSubmissions
     /\ Completes(obs.at, log[obs.at].turn) \/ Shows(obs.at, log[obs.at].turn)
  \/ Crash /\ ownedSubmissions' = {}
  \/ Restart /\ ownedSubmissions' = binding.owned

LEMMA OwnedMove ==
  ASSUME Inv, [Next]_vars
  PROVE  OwnedMoves
<1>1. CASE UNCHANGED vars
  BY <1>1 DEF vars, OwnedMoves
<1>2. CASE (\E p \in Prompts : Stream(p)) \/ Submit \/ (\E b \in BOOLEAN : Rejected(b)) \/ Abort \/ Consume
  BY <1>2 DEF Stream, Submit, Rejected, Abort, Consume, OwnedMoves
<1>3. CASE Receipt
  <2>1. pc = "submit" /\ call.id = request.id
    BY <1>3, CallTyped DEF Receipt
  <2>2. UNCHANGED ownedSubmissions \/ Installed(request.id)
    BY <1>3, <2>1 DEF Receipt
  <2> QED
    BY <1>3, <2>1, <2>2 DEF Installed, OwnedMoves
<1>4. CASE WrittenOwn
  <2>1. pc = "own" /\ Installed(request.id)
    BY <1>4, QueueHead DEF WrittenOwn
  <2> QED
    BY <1>4, <2>1 DEF Installed, OwnedMoves
<1>5. CASE WrittenLate
  <2>1. Head(writes).owned = {pendingSubmit.id} /\ late = "own"
    BY <1>5, QueueHead DEF WrittenLate
  <2>2. ownedSubmissions' = ownedSubmissions \cup {pendingSubmit.id} /\ Cancel({pendingSubmit.id})
    BY <1>5, <2>1 DEF WrittenLate
  <2> QED
    BY <1>5, <2>1, <2>2 DEF OwnedMoves
<1>6. CASE Observe \/ Woken
  <2>1. Waits \/ Takes(obs.at, log[obs.at].turn)
    BY <1>6, ObserverMoves
  <2>2. CASE Waits \/ Passes(obs.at)
    BY <2>2 DEF Waits, Waiting, Passes, Still, OwnedMoves
  <2>3. CASE Completes(obs.at, log[obs.at].turn) \/ Shows(obs.at, log[obs.at].turn)
    BY <1>6, <2>3 DEF Completes, Shows, OwnedMoves
  <2> QED
    BY <2>1, <2>2, <2>3 DEF Takes
<1>7. CASE LateStep \/ StoreMessage \/ Commit \/ CloseSink \/ WrittenObserved \/ WrittenHeld
  BY <1>7 DEF LateStep, LateReceipt, LateRejected, StoreMessage, Commit, CloseSink, ApplyUnchanged,
       WrittenObserved, WrittenHeld, OwnedMoves
<1>8. CASE ObserverLost \/ BeginClose \/ CloseInterrupt \/ CloseCommit \/ WrittenClose \/ Crash \/ Restart
  BY <1>8 DEF ObserverLost, BeginClose, CloseInterrupt, CloseCommit, WrittenClose, Crash, Restart, OwnedMoves
<1>9. CASE Admit \/ EmitForeign \/ \E t \in Turns, k \in Kinds : Emit(t, k)
  BY <1>9 DEF Admit, EmitForeign, Emit, OwnedMoves
<1> QED
  BY <1>1, <1>2, <1>3, <1>4, <1>5, <1>6, <1>7, <1>8, <1>9 DEF Next, StreamStep, ObserveStep, WriteStep

CorrelatedMoves ==
  \/ UNCHANGED correlated
  \/ Receipt /\ pc = "submit" /\ call.id = request.id /\ correlated' = correlated \cup {request.id}
  \/ /\ LateReceipt /\ late = "wait" /\ late' = "none" /\ call = pendingSubmit
     /\ correlated' = correlated \cup {call.id}
     /\ Cancel({call.id}) \/ call.id \in adoptedTerminalTurnIds
  \/ /\ WrittenLate /\ late = "own" /\ correlated' = correlated \cup {pendingSubmit.id}
     /\ Cancel({pendingSubmit.id})
  \/ (Crash \/ Restart) /\ correlated' = {}

LEMMA CorrelatedMove ==
  ASSUME Inv, [Next]_vars
  PROVE  CorrelatedMoves
<1> USE DEF submission
<1>1. CASE UNCHANGED vars
  BY <1>1 DEF vars, CorrelatedMoves
<1>2. CASE (\E p \in Prompts : Stream(p)) \/ Submit \/ (\E b \in BOOLEAN : Rejected(b)) \/ Abort \/ Consume
  BY <1>2 DEF Stream, Submit, Rejected, Abort, Consume, CorrelatedMoves
<1>3. CASE Receipt
  <2>1. pc = "submit" /\ call.id = request.id
    BY <1>3, CallTyped DEF Receipt
  <2> QED
    BY <1>3, <2>1 DEF Receipt, CorrelatedMoves
<1>4. CASE LateReceipt
  <2>1. late = "wait" /\ call = pendingSubmit
    BY <1>4, CallTyped DEF LateReceipt
  <2>2. \/ UNCHANGED correlated
        \/ /\ Cancel({call.id}) \/ call.id \in adoptedTerminalTurnIds
           /\ correlated' = correlated \cup {call.id} /\ late' = "none"
    BY <1>4 DEF LateReceipt
  <2> QED
    BY <1>4, <2>1, <2>2 DEF CorrelatedMoves
<1>5. CASE WrittenLate
  <2>1. Head(writes).owned = {pendingSubmit.id} /\ late = "own"
    BY <1>5, QueueHead DEF WrittenLate
  <2>2. correlated' = correlated \cup {pendingSubmit.id} /\ Cancel({pendingSubmit.id})
    BY <1>5, <2>1 DEF WrittenLate
  <2> QED
    BY <1>5, <2>1, <2>2 DEF CorrelatedMoves
<1>6. CASE Observe \/ Woken \/ StoreMessage \/ Commit \/ CloseSink \/ (\E b \in BOOLEAN : LateRejected(b))
  BY <1>6 DEF Observe, Woken, ObserveUnchanged, StoreMessage, Commit, CloseSink, ApplyUnchanged, LateRejected,
       CorrelatedMoves
<1>7. CASE WrittenOwn \/ WrittenObserved \/ WrittenHeld
  BY <1>7 DEF WrittenOwn, WrittenObserved, WrittenHeld, CorrelatedMoves
<1>8. CASE ObserverLost \/ BeginClose \/ CloseInterrupt \/ CloseCommit \/ WrittenClose \/ Crash \/ Restart
  BY <1>8 DEF ObserverLost, BeginClose, CloseInterrupt, CloseCommit, WrittenClose, Crash, Restart, Forgotten,
       CorrelatedMoves
<1>9. CASE Admit \/ EmitForeign \/ \E t \in Turns, k \in Kinds : Emit(t, k)
  BY <1>9 DEF Admit, EmitForeign, Emit, CorrelatedMoves
<1> QED
  BY <1>1, <1>2, <1>3, <1>4, <1>5, <1>6, <1>7, <1>8, <1>9 DEF Next, StreamStep, LateStep, ObserveStep, WriteStep

LEMMA MadeKept ==
  ASSUME Inv, [Next]_vars
  PROVE  Made'
<1>0. /\ TypeOK /\ TypeOK' /\ Made /\ Known /\ made \in Nat /\ made' \in Nat /\ made' >= made
      /\ 1..made \subseteq 1..made' /\ sinks \in [Turns -> SinkType]
  <2>1. TypeOK /\ Made
    BY DEF Inv
  <2>2. TypeOK'
    BY TypeKept
  <2>3. Known
    BY <2>1 DEF Made, Known
  <2>4. sinks \in [Turns -> SinkType] /\ made \in Nat
    BY <2>1, Upto DEF TypeOK
  <2> QED
    BY <2>1, <2>2, <2>3, <2>4, MadeGrows
<1>1. Known'
  BY KnownKept
<1>2. Range(admitted) \subseteq 1..made /\ sent \subseteq 1..made /\ ownedSubmissions \subseteq 1..made
      /\ binding.owned \subseteq 1..made /\ correlated \subseteq 1..made
  BY <1>0 DEF Made
<1>3. /\ pc \in {"submit", "own"} => request.id \in 1..made
      /\ pendingSubmit # NoAttempt => pendingSubmit.id \in 1..made
      /\ pc = "submit" \/ late = "wait" => call.id \in 1..made
  BY <1>0, CallTyped DEF Known
<1>4. Range(admitted)' \subseteq 1..made'
  BY <1>0, <1>2, RangeGrows
<1>5. (sent \subseteq 1..made)'
  <2>1. \A t \in Turns : t <= made' => t \in 1..made'
    BY <1>0
  <2> QED
    BY <1>0, <1>2, <2>1, SentMoves
<1>6. (\A e \in Events : /\ log[e].turn \in {Foreign} \cup Range(admitted)
                         /\ log[e].kind \in {"session", "foreign"} => log[e].turn = Foreign)'
  <2>1. \A e \in Events : /\ log[e].turn \in {Foreign} \cup Range(admitted)
                          /\ log[e].kind \in {"session", "foreign"} => log[e].turn = Foreign
    BY <1>0 DEF Made
  <2>2. Range(admitted) \subseteq Range(admitted)'
    BY <1>0, RangeGrows
  <2>3. CASE log' = log
    BY <2>1, <2>2, <2>3 DEF Events
  <2>4. ASSUME NEW x \in EventType, Emits(x)
        PROVE  \A e \in Events' : /\ log'[e].turn \in {Foreign} \cup Range(admitted)'
                                  /\ log'[e].kind \in {"session", "foreign"} => log'[e].turn = Foreign
    <3>1. /\ Events' = Events \cup {Len(log) + 1} /\ \A i \in Events : log'[i] = log[i]
          /\ log'[Len(log) + 1] = x
      BY <1>0, <2>4, Grown DEF Emits
    <3>2. /\ x.turn \in {Foreign} \cup Range(admitted)
          /\ x.kind \in {"session", "foreign"} => x.turn = Foreign
      BY <2>4 DEF Emits
    <3> QED
      BY <2>1, <2>2, <3>1, <3>2
  <2> QED
    BY <1>0, <2>3, <2>4, LogMoves
<1>7. (ownedSubmissions \subseteq 1..made)'
  <2>1. late = "own" => pendingSubmit # NoAttempt
    BY DEF Inv, Attempts
  <2>2. CASE ownedSubmissions' \subseteq ownedSubmissions \cup binding.owned
    BY <1>0, <1>2, <2>2
  <2>3. CASE \E n \in 1..made : ownedSubmissions' = ownedSubmissions \cup {n}
    BY <1>0, <1>2, <2>3
  <2>4. \/ ownedSubmissions' \subseteq ownedSubmissions \cup binding.owned
        \/ \E n \in 1..made : ownedSubmissions' = ownedSubmissions \cup {n}
    BY <1>3, <2>1, OwnedMove DEF OwnedMoves
  <2> QED
    BY <2>2, <2>3, <2>4
<1>8. (correlated \subseteq 1..made)'
  <2>1. late = "own" => pendingSubmit # NoAttempt
    BY DEF Inv, Attempts
  <2>2. CASE UNCHANGED correlated \/ correlated' = {}
    BY <1>0, <1>2, <2>2
  <2>3. CASE \E n \in 1..made : correlated' = correlated \cup {n}
    BY <1>0, <1>2, <2>3
  <2>4. \/ UNCHANGED correlated \/ correlated' = {}
        \/ \E n \in 1..made : correlated' = correlated \cup {n}
    BY <1>3, <2>1, CorrelatedMove DEF CorrelatedMoves
  <2> QED
    BY <2>2, <2>3, <2>4
<1>9. /\ (\A i \in DOMAIN writes : writes[i].owned \subseteq 1..made)'
      /\ (binding.owned \subseteq 1..made)'
  <2>0. \A i \in DOMAIN writes : writes[i].owned \subseteq 1..made
    BY <1>0 DEF Made
  <2>1. CASE UNCHANGED <<writes, binding>>
    BY <1>0, <1>2, <2>0, <2>1
  <2>2. CASE Crash \/ Restart
    <3>1. writes' = <<>> /\ binding'.owned = binding.owned
      BY <1>0, <2>2 DEF Crash, Restart, Forgotten, TypeOK, BindingType
    <3>2. DOMAIN writes' = {}
      BY <3>1
    <3> QED
      BY <1>0, <1>2, <3>1, <3>2
  <2>3. CASE WriteDone
    <3>1. PICK by \in {"own", "late", "held", "obs", "close"} : Written(by)
      BY <2>3 DEF WriteDone
    <3>2. /\ \A i \in DOMAIN writes' : i + 1 \in DOMAIN writes /\ writes'[i] = writes[i + 1]
          /\ 1 \in DOMAIN writes /\ Head(writes) = writes[1]
      BY <1>0, <3>1, QueueTail
    <3>3. Head(writes).owned \subseteq 1..made
      BY <2>0, <3>2
    <3>4. binding'.owned \subseteq binding.owned \cup Head(writes).owned
      BY <1>0, <3>1 DEF Written, TypeOK, BindingType
    <3> QED
      BY <1>0, <1>2, <2>0, <3>2, <3>3, <3>4
  <2>4. CASE Persists /\ UNCHANGED binding
    <3>1. PICK w \in WriteType : Persist(w) /\ w.owned \subseteq 1..made
      <4>1. terminalCursor \in 0..Len(log)
        BY <1>0 DEF TypeOK
      <4>2. obs.pc = "apply" => Head(obs.todo).e \in 0..Len(log)
        BY OpNow DEF Events
      <4>3. \/ \E c \in 0..Len(log), by \in {"held", "obs", "close"} : Persist(CursorWrite(by, c, ownedSubmissions))
            \/ \E t \in 1..made, by \in {"own", "late"} : t \in Turns /\ Persist(OwnWrite(by, t))
        <5>1. pendingSubmit.id \in Turns => pendingSubmit.id \in 1..made
          BY <1>0 DEF Known
        <5> QED
          BY <1>3, <2>4, <4>1, <4>2, <5>1 DEF Persists
      <4>4. CASE \E c \in 0..Len(log), by \in {"held", "obs", "close"} : Persist(CursorWrite(by, c, ownedSubmissions))
        <5>1. PICK c \in 0..Len(log), by \in {"held", "obs", "close"} : Persist(CursorWrite(by, c, ownedSubmissions))
          BY <4>4
        <5>2. CursorWrite(by, c, ownedSubmissions) \in WriteType
              /\ CursorWrite(by, c, ownedSubmissions).owned = ownedSubmissions
          BY <1>0, WritesTyped
        <5> QED
          BY <1>2, <5>1, <5>2
      <4>5. ASSUME NEW t \in 1..made, NEW by \in {"own", "late"}, t \in Turns, Persist(OwnWrite(by, t))
            PROVE  \E w \in WriteType : Persist(w) /\ w.owned \subseteq 1..made
        <5>1. OwnWrite(by, t) \in WriteType /\ OwnWrite(by, t).owned = {t}
          BY <1>0, <4>5, WritesTyped
        <5>2. OwnWrite(by, t).owned \subseteq 1..made
          BY <5>1
        <5> QED
          BY <4>5, <5>1, <5>2
      <4> QED
        BY <4>3, <4>4, <4>5
    <3>2. /\ DOMAIN writes' = DOMAIN writes \cup {Len(writes) + 1}
          /\ \A i \in DOMAIN writes : writes'[i] = writes[i]
          /\ writes'[Len(writes) + 1] = w
      BY <1>0, <3>1, QueueGrown
    <3> QED
      BY <1>0, <1>2, <2>0, <2>4, <3>1, <3>2
  <2> QED
    BY <2>1, <2>2, <2>3, <2>4, QueueMove DEF QueueMoves
<1>10. (\A t \in Turns : sinks[t].live => t <= made)'
  <2>0. \A t \in Turns : sinks[t].live => t <= made
    BY <1>0 DEF Made
  <2>1. \A t \in Turns : sinks'[t].live => t <= made
    <3>1. CASE UNCHANGED sinks
      BY <2>0, <3>1
    <3>2. CASE Resets
      BY <3>2, SinkValues DEF Resets
    <3>3. ASSUME NEW u \in Turns, NEW x, sinks' = [sinks EXCEPT ![u] = x], u <= made \/ ~x.live
          PROVE  \A t \in Turns : sinks'[t].live => t <= made
      <4>1. \A t \in Turns : sinks'[t] = IF t = u THEN x ELSE sinks[t]
        BY <1>0, <3>3
      <4> QED
        BY <2>0, <3>3, <4>1
    <3>4. CASE Opens
      <4>1. request.id \in Turns /\ request.id <= made
        BY <1>0, <1>3, <3>4 DEF Opens, Known
      <4>2. PICK x : x = [NewSink(FALSE) EXCEPT !.left = request.aborted]
        OBVIOUS
      <4>3. sinks' = [sinks EXCEPT ![request.id] = x]
        BY <3>4, <4>2 DEF Opens
      <4> QED
        BY <3>3, <4>1, <4>3
    <3>5. CASE Abandons
      <4>1. \A t \in Turns : sinks'[t].live = sinks[t].live
        BY <1>0, <3>5 DEF Abandons, SinkType
      <4> QED
        BY <2>0, <4>1
    <3>6. CASE Completes(obs.at, log[obs.at].turn)
      BY <3>3, <3>6, SinkValues DEF Completes, NativeTerminal
    <3>7. CASE Shows(obs.at, log[obs.at].turn)
      <4>1. PICK u : u = log[obs.at].turn
        OBVIOUS
      <4>2. u \in Turns /\ u <= made
        BY <1>0, <1>2, <2>0, <3>7, <4>1 DEF Shows
      <4> QED
        BY <3>3, <3>7, <4>1, <4>2 DEF Shows
    <3>8. CASE CloseSink
      <4>1. PICK t \in Turns : sinks' = [sinks EXCEPT ![t] = NoSink]
        BY <3>8, Closes DEF CloseSink
      <4> QED
        BY <3>3, <4>1, SinkValues
    <3> QED
      BY <3>1, <3>2, <3>4, <3>5, <3>6, <3>7, <3>8, SinksMove DEF SinkMoves
  <2>2. \A t \in Turns : t <= made => t <= made'
    BY <1>0
  <2> QED
    BY <2>1, <2>2
<1> QED
  BY <1>1, <1>4, <1>5, <1>6, <1>7, <1>8, <1>9, <1>10 DEF Made, Known

LEMMA AdoptedMove ==
  ASSUME [Next]_vars
  PROVE  \/ UNCHANGED adoptedTerminalTurnIds
         \/ CloseSink /\ adoptedTerminalTurnIds' = adoptedTerminalTurnIds \cup {Head(obs.todo).t}
         \/ (CloseCommit \/ Crash \/ Restart) /\ adoptedTerminalTurnIds' = {}
<1> USE DEF projection
<1>1. CASE UNCHANGED vars
  BY <1>1 DEF vars
<1>2. CASE (\E p \in Prompts : Stream(p)) \/ StreamStep \/ Abort \/ Consume
  BY <1>2 DEF Stream, StreamStep, Submit, Receipt, Rejected, Abort, Consume
<1>3. CASE LateStep \/ Observe \/ StoreMessage \/ Commit \/ Woken \/ WriteStep
  BY <1>3 DEF LateStep, LateReceipt, LateRejected, Observe, StoreMessage, Commit,
       Woken, ObserveUnchanged, WriteStep, WrittenObserved, WrittenHeld, WrittenOwn, WrittenLate
<1>4. CASE CloseSink
  BY <1>4 DEF CloseSink
<1>5. CASE ObserverLost \/ BeginClose \/ CloseInterrupt \/ CloseCommit \/ WrittenClose \/ Crash \/ Restart
  BY <1>5 DEF ObserverLost, BeginClose, CloseInterrupt, CloseCommit, WrittenClose, Crash, Restart, Forgotten
<1>6. CASE Admit \/ EmitForeign \/ \E t \in Turns, k \in Kinds : Emit(t, k)
  BY <1>6 DEF Admit, EmitForeign, Emit
<1> QED
  BY <1>1, <1>2, <1>3, <1>4, <1>5, <1>6 DEF Next, ObserveStep

LEMMA RecoveringMove ==
  ASSUME [Next]_vars
  PROVE  \/ UNCHANGED recoveringAfterAbort
         \/ /\ pc = "submit" /\ Interrupted /\ (Abort \/ CloseInterrupt)
            /\ recoveringAfterAbort' = recoveringAfterAbort \cup {call.id}
         \/ /\ late = "wait" /\ late' = "none" /\ \E b \in BOOLEAN : LateRejected(b)
            /\ recoveringAfterAbort' = recoveringAfterAbort \ {call.id}
         \/ Crash \/ Restart
<1> USE DEF submission
<1>1. CASE UNCHANGED vars
  BY <1>1 DEF vars
<1>2. CASE (\E p \in Prompts : Stream(p)) \/ StreamStep \/ Consume
  BY <1>2 DEF Stream, StreamStep, Submit, Receipt, Rejected, Consume
<1>3. CASE Abort \/ CloseInterrupt
  BY <1>3 DEF Abort, CloseInterrupt, Interrupted
<1>4. CASE LateReceipt \/ ObserveStep \/ Woken \/ WriteStep
  BY <1>4 DEF LateReceipt, ObserveStep, Observe, StoreMessage, Commit, CloseSink, ApplyUnchanged,
       Woken, ObserveUnchanged, WriteStep, WrittenObserved, WrittenHeld, WrittenOwn, WrittenLate
<1>5. ASSUME NEW b \in BOOLEAN, LateRejected(b)
      PROVE  /\ late = "wait" /\ late' = "none" /\ \E c \in BOOLEAN : LateRejected(c)
             /\ recoveringAfterAbort' = recoveringAfterAbort \ {call.id}
  BY <1>5 DEF LateRejected
<1>6. CASE ObserverLost \/ BeginClose \/ CloseCommit \/ WrittenClose \/ Crash \/ Restart
  BY <1>6 DEF ObserverLost, BeginClose, CloseCommit, WrittenClose
<1>7. CASE Admit \/ EmitForeign \/ \E t \in Turns, k \in Kinds : Emit(t, k)
  BY <1>7 DEF Admit, EmitForeign, Emit
<1> QED
  BY <1>1, <1>2, <1>3, <1>4, <1>5, <1>6, <1>7 DEF Next, LateStep

(* Who wakes the observer.                                                 *)
Ends == request'.pc \in {"idle", "ended"}
WokenMoves ==
  \/ UNCHANGED obs
  \/ ~obs'.woken
  \/ ~obs.woken /\ obs' = SubmissionEnded(obs) /\ Ends
  \/ ~obs.woken /\ obs' = Notified(obs) /\ Installed(request.id) /\ (Receipt \/ WrittenOwn)
                /\ pc \in {"submit", "own"} /\ request'.pc \in {"idle", "ended", "streaming"}
  \/ ~obs.woken /\ obs' = Notified(obs) /\ WrittenLate /\ late = "own"
  \/ ~obs.woken /\ obs' = Notified(obs) /\ late = "wait" /\ (\E b \in BOOLEAN : LateRejected(b))
                /\ pendingSubmit' = NoAttempt

LEMMA WokenMove ==
  ASSUME Inv, [Next]_vars
  PROVE  WokenMoves
<1>0. TypeOK /\ ObsOK(obs)
  BY DEF Inv, ObsShape
<1>r. Refused => Ends
  BY <1>0, RequestForms DEF Is, Ends
<1>i. Idle.pc = "idle"
  BY DEF Idle
<1>h. ~Halted.woken
  <2>1. Working => ~obs.woken
    BY <1>0 DEF ObsOK, Working
  <2> QED
    BY <2>1 DEF Halted, Stopped, Observer
<1>a. obs.todo # <<>> => \A u \in BOOLEAN : ~Advanced(u).woken
  BY <1>0, AdvancedOK
<1>w. Working => obs.todo # <<>>
  BY <1>0 DEF ObsOK, Working
<1>b. (life = "up" /\ ~failed) \in BOOLEAN
  OBVIOUS
<1>e. Installed(request.id) /\ request.id \in Turns => request'.pc \in {"idle", "ended", "streaming"}
  <2>1. ASSUME Installed(request.id)
        PROVE  Refused \/ request' = Idle \/ request' = [Idle EXCEPT !.pc = "streaming", !.id = request.id]
    BY <2>1 DEF Installed
  <2>2. [Idle EXCEPT !.pc = "streaming", !.id = request.id].pc = "streaming"
    BY DEF Idle
  <2> QED
    BY <1>i, <1>r, <2>1, <2>2 DEF Ends
<1>1. CASE UNCHANGED vars
  BY <1>1 DEF vars, WokenMoves
<1>2. CASE \E p \in Prompts : Stream(p)
  BY <1>h, <1>2 DEF Stream, WokenMoves
<1>3. CASE Consume \/ LateReceipt
  BY <1>3 DEF Consume, LateReceipt, WokenMoves
<1>g. Next => \/ ~obs.woken \/ Admit \/ EmitForeign \/ (\E t \in Turns, k \in Kinds : Emit(t, k))
              \/ Woken \/ ObserverLost \/ Crash
  BY DEF Next
<1>4. ASSUME ~obs.woken, Submit PROVE WokenMoves
  BY <1>r, <1>4 DEF Submit, WokenMoves
<1>5. ASSUME ~obs.woken, Receipt PROVE WokenMoves
  <2>1. pc = "submit" /\ call.id = request.id /\ request.id \in Turns
    BY <1>5, CallTyped DEF Receipt
  <2>2. \/ Refused /\ obs' = SubmissionEnded(obs)
        \/ Installed(request.id)
        \/ UNCHANGED obs
    BY <1>5, <2>1 DEF Receipt
  <2>3. Installed(request.id) => obs' = Notified(obs)
    BY DEF Installed
  <2> QED
    BY <1>r, <1>e, <1>5, <2>1, <2>2, <2>3 DEF WokenMoves
<1>6. ASSUME ~obs.woken, NEW b \in BOOLEAN, Rejected(b) PROVE WokenMoves
  BY <1>r, <1>6 DEF Rejected, WokenMoves
<1>7. ASSUME ~obs.woken, Abort PROVE WokenMoves
  BY <1>i, <1>7 DEF Abort, Interrupted, WokenMoves, Ends
<1>8. ASSUME ~obs.woken, CloseInterrupt PROVE WokenMoves
  BY <1>r, <1>8 DEF CloseInterrupt, Interrupted, WokenMoves
<1>9. ASSUME ~obs.woken, NEW b \in BOOLEAN, LateRejected(b) PROVE WokenMoves
  <2>1. late = "wait" /\ (UNCHANGED obs \/ (Cleared(call) /\ pendingSubmit.id = call.id /\ obs' = Notified(obs)))
    BY <1>9 DEF LateRejected
  <2>2. Cleared(call) /\ pendingSubmit.id = call.id => pendingSubmit' = NoAttempt
    BY DEF Cleared
  <2> QED
    BY <1>9, <2>1, <2>2 DEF WokenMoves
<1>10. CASE Observe \/ Woken
  <2>1. Waits \/ Takes(obs.at, log[obs.at].turn)
    BY <1>10, ObserverMoves
  <2>2. CASE Waits
    <3>1. obs \in ObsType
      BY <1>0 DEF ObsOK
    <3>2. ~obs'.woken
      BY <2>2, <3>1 DEF Waits, Waiting, ObsType
    <3> QED
      BY <3>2 DEF WokenMoves
  <2>3. CASE Takes(obs.at, log[obs.at].turn)
    <3>1. ~obs'.woken
      BY <2>3 DEF Takes, Passes, Apply1, Completes, Shows, Observer
    <3> QED
      BY <3>1 DEF WokenMoves
  <2> QED
    BY <2>1, <2>2, <2>3
<1>11. CASE StoreMessage \/ Commit \/ CloseSink
  <2>1. Working /\ obs.todo # <<>> /\ ~obs.woken
    BY <1>0, <1>11 DEF StoreMessage, Commit, CloseSink, Working, ObsOK
  <2>2. obs' = Advanced(life = "up" /\ ~failed) \/ obs' = [obs EXCEPT !.pc = "write"]
    BY <1>11 DEF StoreMessage, Commit, CloseSink
  <2>3. [obs EXCEPT !.pc = "write"].woken = obs.woken
    BY <1>0 DEF ObsOK, ObsType
  <2> QED
    BY <1>a, <1>b, <2>1, <2>2, <2>3 DEF WokenMoves
<1>12. CASE WrittenObserved
  <2>1. obs.pc = "write"
    BY <1>12, QueueHead DEF WrittenObserved
  <2>2. Working
    BY <2>1 DEF Working
  <2> QED
    BY <1>a, <1>b, <1>w, <1>12, <2>2 DEF WrittenObserved, WokenMoves
<1>13. CASE WrittenHeld \/ WrittenClose \/ CloseCommit
  BY <1>13 DEF WrittenHeld, WrittenClose, CloseCommit, WokenMoves
<1>14. ASSUME ~obs.woken, WrittenOwn PROVE WokenMoves
  <2>1. pc = "own" /\ Installed(request.id) /\ request.id \in Turns
    BY <1>14, QueueHead DEF WrittenOwn
  <2>2. obs' = Notified(obs)
    BY <2>1 DEF Installed
  <2> QED
    BY <1>e, <1>14, <2>1, <2>2 DEF WokenMoves
<1>15. ASSUME ~obs.woken, WrittenLate PROVE WokenMoves
  <2>1. late = "own"
    BY <1>15, QueueHead DEF WrittenLate
  <2> QED
    BY <1>15, <2>1 DEF WrittenLate, WokenMoves
<1>16. CASE ObserverLost \/ BeginClose
  BY <1>h, <1>16 DEF ObserverLost, BeginClose, WokenMoves
<1>17. CASE Crash \/ Restart
  BY <1>17 DEF Crash, Restart, Stopped, Observer, WokenMoves
<1>18. CASE Admit \/ EmitForeign \/ \E t \in Turns, k \in Kinds : Emit(t, k)
  BY <1>18 DEF Admit, EmitForeign, Emit, WokenMoves
<1> QED
  BY <1>1, <1>2, <1>3, <1>g, <1>4, <1>5, <1>6, <1>7, <1>8, <1>9, <1>10, <1>11, <1>12, <1>13, <1>14, <1>15,
     <1>16, <1>17, <1>18 DEF Next, StreamStep, LateStep, ObserveStep, WriteStep

--------------------------------------------------------------------------------
(* What was seen of a turn.                                                *)

(* How far the observer has come: it only goes forward.                    *)
Onward ==
  \/ obs'.pc = "stopped"
  \/ /\ obs.pc # "stopped" /\ obs'.at >= obs.at
     /\ obs'.at = obs.at \/ (obs.at \in Events /\ obs'.at = obs.at + 1)
     /\ \A i \in Events : Taken(i)' => Taken(i) \/ (i = obs.at /\ (Observe \/ Woken) /\ Takes(i, log[i].turn))

LEMMA OnwardMove ==
  ASSUME Inv, [Next]_vars, ~Restart
  PROVE  Onward
<1> USE DEF Working
<1>0. /\ ObsMoves /\ obs \in ObsType /\ ObsOK(obs) /\ obs.at \in Nat /\ Len(log) \in Nat
  BY ObsMove DEF Inv, ObsShape, TypeOK, ObsOK, ObsType
<1>n. (\A i \in Events : i \in Nat) /\ (Working => obs.at \in Events)
  BY <1>0 DEF Events, ObsOK
<1>1. CASE obs'.pc = obs.pc /\ obs'.at = obs.at
  BY <1>0, <1>1 DEF Onward, Taken
<1>2. CASE Quiet
  BY <1>0, <1>1, <1>2, NotifiedOK DEF Quiet
<1>3. CASE Halts
  BY <1>0, <1>1, <1>3, HaltedOK DEF Halts, Onward, Stopped, Observer
<1>a. ASSUME obs'.pc = "read", obs'.at = obs.at + 1, Working PROVE Onward
  <2>1. obs'.at \in Nat /\ obs'.at >= obs.at
    BY <1>0, <1>a
  <2>3. obs.at \in Events
    BY <1>n, <1>a
  <2>2. \A i \in Events : i < obs.at + 1 => i < obs.at \/ i = obs.at
    BY <1>0, <1>n
  <2> QED
    BY <1>a, <2>1, <2>2, <2>3 DEF Onward, Taken
<1>b. ASSUME obs'.pc \in {"apply", "write"}, obs'.at = obs.at, Working PROVE Onward
  BY <1>0, <1>b DEF Onward, Taken
<1>4. CASE Advances
  <2> DEFINE up == life = "up" /\ ~failed
  <2>0. obs.todo # <<>> /\ up \in BOOLEAN
    BY <1>0, <1>4 DEF Advances, ObsOK
  <2>1. \/ obs'.pc = "apply" /\ obs'.at = obs.at
        \/ obs' = Observer("read", obs.at + 1)
        \/ obs' = Stopped
    BY <1>0, <1>4, <2>0, AdvancedOK DEF Advances
  <2>2. /\ Observer("read", obs.at + 1).pc = "read" /\ Observer("read", obs.at + 1).at = obs.at + 1
        /\ Stopped.pc = "stopped"
    BY DEF Observer, Stopped
  <2>3. Working
    BY <1>4 DEF Advances
  <2>4. CASE obs' = Stopped
    BY <2>2, <2>4 DEF Onward
  <2> QED
    BY <1>a, <1>b, <2>1, <2>2, <2>3, <2>4
<1>5. CASE Flushes
  <2>1. obs'.pc = "write" /\ obs'.at = obs.at
    BY <1>0, <1>5 DEF Flushes, ObsType
  <2> QED
    BY <1>5, <1>b, <2>1 DEF Flushes
<1>6. CASE obs' = obs
  BY <1>1, <1>6
<1>7. CASE Crash
  BY <1>7 DEF Crash, Stopped, Observer, Onward
<1>8. CASE Observe \/ Woken
  <2>1. /\ obs.pc \in Reading /\ obs.at \in Events /\ UNCHANGED log
        /\ Waits \/ Takes(obs.at, log[obs.at].turn)
    BY <1>8, ObserverMoves DEF ObserveUnchanged, engine
  <2>2. CASE Waits
    <3>1. obs'.at = obs.at /\ obs'.pc \in Reading
      BY <1>0, <2>2 DEF Waits, Waiting, ObsType, Reading
    <3> QED
      BY <2>1, <3>1, <1>0 DEF Onward, Taken, Reading
  <2>3. CASE Takes(obs.at, log[obs.at].turn)
    <3>1. \/ obs'.pc = "read" /\ obs'.at = obs.at + 1
          \/ obs'.pc = "apply" /\ obs'.at = obs.at
      BY <2>3 DEF Takes, Passes, Apply1, Completes, Shows, Observer
    <3>2. obs'.at >= obs.at
      BY <1>0, <3>1
    <3>3. ASSUME NEW i \in Events, Taken(i)' PROVE i < obs.at \/ i = obs.at
      <4>1. i < obs'.at \/ i = obs'.at
        BY <3>3 DEF Taken
      <4>2. i \in Nat
        BY <1>n
      <4>3. CASE obs'.pc = "read" /\ obs'.at = obs.at + 1
        <5>1. i < obs'.at
          BY <3>3, <4>3 DEF Taken
        <5> QED
          BY <1>0, <4>2, <4>3, <5>1
      <4> QED
        BY <3>1, <4>1, <4>3
    <3> QED
      BY <1>8, <2>1, <2>3, <3>1, <3>2, <3>3 DEF Onward, Taken, Reading
  <2> QED
    BY <2>1, <2>2, <2>3
<1> QED
  BY <1>0, <1>2, <1>3, <1>4, <1>5, <1>6, <1>7, <1>8 DEF ObsMoves

LEMMA ClosingMove ==
  ASSUME Inv, [Next]_vars, NEW t, Closing(t)'
  PROVE  \/ Closing(t)
         \/ (Observe \/ Woken) /\ t = log[obs.at].turn /\ obs.at \in Events /\ Takes(obs.at, t)
<1>0. /\ ObsMoves /\ obs \in ObsType /\ ObsOK(obs) /\ DOMAIN <<>> = {} /\ obs.todo \in Seq(OpType)
  BY ObsMove DEF Inv, ObsShape, TypeOK, ObsOK, ObsType
<1>1. CASE obs'.todo = obs.todo
  BY <1>1 DEF Closing
<1>2. CASE obs'.todo = <<>>
  BY <1>0, <1>2 DEF Closing
<1>3. Stopped.todo = <<>> /\ \A p, n : Observer(p, n).todo = <<>>
  BY DEF Stopped, Observer
<1>4. CASE Quiet
  BY <1>0, <1>1, <1>4, NotifiedOK DEF Quiet
<1>5. CASE Halts
  BY <1>0, <1>1, <1>2, <1>3, <1>5, HaltedOK DEF Halts
<1>6. CASE Advances
  <2> DEFINE up == life = "up" /\ ~failed
  <2>0. obs.todo # <<>> /\ up \in BOOLEAN
    BY <1>0, <1>6 DEF Advances, ObsOK, Working
  <2>1. \/ obs'.todo = Tail(obs.todo)
        \/ obs' = Observer("read", obs.at + 1)
        \/ obs' = Stopped
    BY <1>0, <1>6, <2>0, AdvancedOK DEF Advances
  <2>2. CASE obs'.todo = Tail(obs.todo)
    <3>1. \A i \in DOMAIN Tail(obs.todo) : i + 1 \in DOMAIN obs.todo /\ Tail(obs.todo)[i] = obs.todo[i + 1]
      BY <1>0, <2>0, SeqFacts
    <3> QED
      BY <2>2, <3>1 DEF Closing
  <2> QED
    BY <1>2, <1>3, <2>1, <2>2
<1>7. CASE Flushes
  BY <1>0, <1>1, <1>7 DEF Flushes, ObsType
<1>8. CASE obs' = obs
  BY <1>1, <1>8
<1>9. CASE Crash \/ Restart
  BY <1>2, <1>3, <1>9 DEF Crash, Restart
<1>10. CASE Observe \/ Woken
  <2>1. /\ obs.at \in Events /\ UNCHANGED log
        /\ Waits \/ Takes(obs.at, log[obs.at].turn)
    BY <1>10, ObserverMoves DEF ObserveUnchanged, engine
  <2>2. CASE Waits
    BY <1>0, <1>1, <2>2 DEF Waits, Waiting, ObsType
  <2>3. CASE Takes(obs.at, log[obs.at].turn)
    <3>1. CASE Passes(obs.at)
      <4>1. obs'.todo = <<Op("commit", obs.at)>>
        BY <3>1 DEF Passes, Apply1
      <4>2. \A i \in DOMAIN obs'.todo : obs'.todo[i].op = "commit"
        BY <4>1 DEF Op
      <4> QED
        BY <4>2 DEF Closing
    <3>2. CASE obs' = Observer("read", obs.at + 1)
      BY <1>2, <1>3, <3>2
    <3>3. CASE ObsOK(obs') /\ obs'.at = obs.at
      <4>1. PICK i \in DOMAIN obs'.todo : obs'.todo[i].op = "close" /\ obs'.todo[i].t = t
        BY DEF Closing
      <4>2. t = log[obs.at].turn
        BY <3>3, <4>1 DEF ObsOK, Planned
      <4> QED
        BY <1>10, <2>1, <2>3, <4>2
    <3> QED
      BY <2>3, <3>1, <3>2, <3>3 DEF Takes, Completes, Shows
  <2> QED
    BY <2>1, <2>2, <2>3
<1> QED
  BY <1>0, <1>4, <1>5, <1>6, <1>7, <1>8, <1>9, <1>10 DEF ObsMoves

LEMMA LogKeeps ==
  ASSUME TypeOK, [Next]_vars
  PROVE  /\ \A i \in Events : i \in Events' /\ log'[i] = log[i] /\ i \in Nat /\ i <= Len(log)
         /\ Len(log) \in Nat /\ Len(log)' \in Nat /\ Len(log)' >= Len(log)
         /\ \A i \in Events' : i \in Events \/ \E x \in EventType : Emits(x) /\ i = Len(log) + 1 /\ log'[i] = x
<1>0. Len(log) \in Nat /\ \A i \in Events : i \in Nat /\ i <= Len(log)
  BY DEF TypeOK, Events
<1>1. CASE log' = log
  <2>1. Events' = Events
    BY <1>1 DEF Events
  <2> QED
    BY <1>0, <1>1, <2>1
<1>2. ASSUME NEW x \in EventType, Emits(x)
      PROVE  /\ \A i \in Events : i \in Events' /\ log'[i] = log[i]
             /\ Len(log)' \in Nat /\ Len(log)' >= Len(log)
             /\ \A i \in Events' : i \in Events \/ (i = Len(log) + 1 /\ log'[i] = x)
  <2>1. /\ Events' = Events \cup {Len(log) + 1} /\ \A i \in Events : log'[i] = log[i]
        /\ log'[Len(log) + 1] = x /\ Len(log)' = Len(log) + 1
    BY <1>2, Grown DEF Emits
  <2> QED
    BY <1>0, <2>1
<1> QED
  BY <1>0, <1>1, <1>2, LogMoves

LEMMA OverGrows ==
  ASSUME TypeOK, [Next]_vars, NEW t, Over(t)
  PROVE  Over(t)'
BY LogKeeps DEF Over

LEMMA OpensInstalls ==
  ASSUME Inv, Opens
  PROVE  Installed(request.id) /\ request.id \in Turns /\ pc \in {"submit", "own"}
<1>0. sinks \in [Turns -> SinkType] /\ TypeOK /\ request.id \in Turns
  BY DEF Inv, TypeOK, Opens
<1>1. CASE WrittenOwn
  BY <1>1, QueueHead DEF WrittenOwn, Opens
<1>2. CASE Receipt
  <2>1. pc = "submit" /\ call.id = request.id
    BY <1>2, CallTyped DEF Receipt
  <2>2. \/ call.id \in adoptedTerminalTurnIds /\ UNCHANGED sinks
        \/ sinks[call.id].adopted /\ UNCHANGED sinks
        \/ Installed(call.id)
        \/ request' = [request EXCEPT !.pc = "own"]
    BY <1>2 DEF Receipt
  <2>3. PICK x : x = [NewSink(FALSE) EXCEPT !.left = request.aborted]
    OBVIOUS
  <2>4. x.live /\ ~x.adopted
    BY <2>3, SinkValues
  <2>5. sinks'[request.id] = x
    BY <1>0, <2>3 DEF Opens
  <2>6. ~sinks[request.id].live \/ request.id \notin adoptedTerminalTurnIds
    BY <1>0 DEF Inv, Attempts, Past
  <2>7. request' # [request EXCEPT !.pc = "own"]
    <3>1. [request EXCEPT !.pc = "own"].pc = "own"
      BY <1>0, RequestForms DEF Is
    <3>2. Idle.pc = "idle" /\ [Idle EXCEPT !.pc = "streaming", !.id = request.id].pc = "streaming"
      BY <1>0, RequestForms DEF Is
    <3> QED
      BY <3>1, <3>2 DEF Opens
  <2> QED
    BY <1>0, <2>1, <2>2, <2>4, <2>5, <2>6, <2>7
<1> QED
  BY <1>1, <1>2 DEF Opens

(* What makes a turn one that was seen.                                    *)
Touches(t) ==
  \/ t = request.id /\ Installed(t) /\ pc \in {"submit", "own"} /\ (Receipt \/ WrittenOwn)
  \/ t = pendingSubmit.id /\ late = "own" /\ WrittenLate
  \/ (Observe \/ Woken) /\ obs.at \in Events /\ t = log[obs.at].turn /\ Takes(obs.at, t)

LEMMA LiveMoves ==
  ASSUME Inv, [Next]_vars, NEW t \in Turns, sinks'[t].live
  PROVE  \/ sinks[t].live /\ sinks'[t].adopted = sinks[t].adopted
         \/ Opens /\ t = request.id
         \/ /\ (Observe \/ Woken) /\ obs.at \in Events /\ t = log[obs.at].turn /\ obs.pc \in Reading
            /\ Takes(obs.at, t) /\ ~sinks[t].live /\ sinks'[t].adopted
<1>0. /\ TypeOK /\ SinkMoves /\ sinks \in [Turns -> SinkType]
  BY SinksMove DEF Inv, TypeOK
<1>1. CASE UNCHANGED sinks
  BY <1>1
<1>2. CASE Opens
  BY <1>0, <1>2 DEF Opens
<1>3. CASE Abandons
  BY <1>0, <1>3 DEF Abandons, SinkType
<1>4. CASE Resets
  BY <1>4, SinkValues DEF Resets
<1>5. CASE CloseSink
  <2>1. \E u : sinks' = [sinks EXCEPT ![u] = NoSink]
    BY <1>5 DEF CloseSink
  <2> QED
    BY <1>0, <2>1, SinkValues
<1>6. CASE Observe \/ Woken
  <2>1. /\ obs.pc \in Reading /\ obs.at \in Events
        /\ Waits \/ Takes(obs.at, log[obs.at].turn)
    BY <1>6, ObserverMoves
  <2>2. PICK u : u = log[obs.at].turn
    OBVIOUS
  <2>3. CASE Waits
    BY <1>1, <2>3 DEF Waits, Waiting
  <2>4. CASE Takes(obs.at, u)
    <3>1. CASE Passes(obs.at)
      BY <1>1, <3>1 DEF Passes, Still
    <3>2. CASE Completes(obs.at, u)
      <4>1. sinks' = [sinks EXCEPT ![u] = NoSink]
        BY <3>2 DEF Completes, NativeTerminal
      <4> QED
        BY <1>0, <4>1, SinkValues
    <3>3. CASE Shows(obs.at, u)
      <4>1. PICK x \in SinkType : sinks' = [sinks EXCEPT ![u] = x] /\ x.adopted = SinkFor(u).adopted
        BY <3>3 DEF Shows
      <4>2. t # u => sinks'[t] = sinks[t]
        BY <1>0, <4>1
      <4>3. t = u => sinks'[t].adopted = SinkFor(t).adopted
        BY <1>0, <4>1
      <4>4. sinks[t].live => SinkFor(t) = sinks[t]
        BY DEF SinkFor
      <4>5. ~sinks[t].live => SinkFor(t).adopted
        BY SinkValues DEF SinkFor
      <4> QED
        BY <1>6, <2>1, <2>2, <2>4, <4>2, <4>3, <4>4, <4>5
    <3> QED
      BY <2>4, <3>1, <3>2, <3>3 DEF Takes
  <2> QED
    BY <2>1, <2>2, <2>3, <2>4
<1> QED
  BY <1>0, <1>1, <1>2, <1>3, <1>4, <1>5, <1>6 DEF SinkMoves

LEMMA UnseenKept ==
  ASSUME Inv, [Next]_vars, ~Crash, ~Restart, NEW t \in Turns, Unseen(t), ~Touches(t)
  PROVE  Unseen(t)'
<1>0. TypeOK /\ Reach
  BY DEF Inv
<1>n. ASSUME (Observe \/ Woken), obs.at \in Events, t = log[obs.at].turn, Takes(obs.at, t) PROVE FALSE
  BY <1>n DEF Touches
<1>1. t \notin ownedSubmissions'
  <2>1. t \notin ownedSubmissions
    BY DEF Unseen
  <2>2. \/ ownedSubmissions' \subseteq ownedSubmissions
        \/ /\ pc \in {"submit", "own"} /\ ownedSubmissions' = ownedSubmissions \cup {request.id}
           /\ Installed(request.id) /\ (Receipt \/ WrittenOwn)
        \/ WrittenLate /\ ownedSubmissions' = ownedSubmissions \cup {pendingSubmit.id} /\ late = "own"
    BY OwnedMove DEF OwnedMoves
  <2> QED
    BY <2>1, <2>2 DEF Touches
<1>2. ~sinks'[t].live
  <2>1. ~sinks[t].live
    BY DEF Unseen
  <2>2. ~(Opens /\ t = request.id)
    BY OpensInstalls DEF Touches, Opens
  <2> QED
    BY <1>n, <2>1, <2>2, LiveMoves
<1>3. t \notin adoptedTerminalTurnIds'
  <2>1. t \notin adoptedTerminalTurnIds /\ ~Closing(t)
    BY DEF Unseen
  <2>2. CloseSink => Closing(Head(obs.todo).t)
    BY Closes
  <2> QED
    BY <2>1, <2>2, AdoptedMove
<1>4. ~Closing(t)'
  <2>1. ~Closing(t)
    BY DEF Unseen
  <2> QED
    BY <1>n, <2>1, ClosingMove
<1>5. ASSUME NEW i \in Events', log'[i].turn = t, Taken(i)'
      PROVE  FALSE
  <2>1. CASE i \in Events
    <3>1. log[i].turn = t
      BY <1>0, <1>5, <2>1, LogKeeps
    <3>2. ~Taken(i)
      BY <2>1, <3>1 DEF Unseen
    <3>3. obs'.pc # "stopped"
      BY <1>5 DEF Taken
    <3>4. i = obs.at /\ (Observe \/ Woken) /\ Takes(i, log[i].turn)
      BY <1>5, <2>1, <3>2, <3>3, OnwardMove DEF Onward
    <3> QED
      BY <1>n, <2>1, <3>1, <3>4
  <2>2. ASSUME NEW x \in EventType, Emits(x), i = Len(log) + 1
        PROVE  FALSE
    <3>1. obs' = obs /\ obs.pc # "stopped" /\ (i < obs.at \/ (i = obs.at /\ Working))
      BY <1>5, <2>2 DEF Emits, Taken, Working
    <3>2. obs.at <= Len(log) + 1 /\ obs.at \in Nat /\ Len(log) \in Nat
      BY <1>0, <3>1 DEF Reach, TypeOK, ObsType
    <3>3. Working => obs.at \in Events
      BY DEF Inv, ObsShape, ObsOK, Working
    <3>4. obs.at \in Events => obs.at <= Len(log)
      BY <1>0, LogKeeps
    <3> QED
      BY <2>2, <3>1, <3>2, <3>3, <3>4
  <2> QED
    BY <1>0, <1>5, <2>1, <2>2, LogKeeps
<1> QED
  BY <1>1, <1>2, <1>3, <1>4, <1>5 DEF Unseen

LEMMA PastKept ==
  ASSUME Inv, [Next]_vars, ~Crash, ~Restart, NEW t \in Turns, Past(t), t \in adoptedTerminalTurnIds
  PROVE  Past(t)'
<1>0. TypeOK /\ Reach
  BY DEF Inv
<1>1. Over(t)'
  BY <1>0, OverGrows DEF Past
<1>2. ~sinks'[t].live
  <2>1. ~sinks[t].live /\ (obs.pc = "stopped" \/ \A i \in Events : log[i].turn = t => i < obs.at)
    BY DEF Past
  <2>2. obs.at \in Events /\ obs.pc \in Reading => t # log[obs.at].turn
    <3>1. obs.at \in Events => ~(obs.at < obs.at)
      BY <1>0, LogKeeps
    <3> QED
      BY <2>1, <3>1 DEF Reading
  <2>3. ~(Opens /\ t = request.id)
    <3>1. ASSUME Opens, t = request.id PROVE FALSE
      <4>1. Installed(request.id) /\ pc \in {"submit", "own"} /\ (Receipt \/ WrittenOwn)
        BY <3>1, OpensInstalls DEF Opens
      <4>2. pc = "own" => Unseen(request.id)
        BY DEF Inv, Attempts
      <4>3. pc = "submit"
        BY <3>1, <4>1, <4>2 DEF Unseen
      <4>4. ~WrittenOwn
        BY <4>3, QueueHead DEF WrittenOwn
      <4>5. call.id = request.id
        BY <4>3, CallTyped
      <4>6. UNCHANGED sinks
        BY <3>1, <4>1, <4>4, <4>5 DEF Receipt
      <4>7. sinks'[t].live
        BY <1>0, <3>1, SinkValues DEF Opens, TypeOK
      <4> QED
        BY <2>1, <4>6, <4>7
    <3> QED
      BY <3>1
  <2> QED
    BY <2>1, <2>2, <2>3, LiveMoves
<1>3. ASSUME obs'.pc # "stopped", NEW i \in Events', log'[i].turn = t
      PROVE  i < obs'.at
  <2>1. i \in Events /\ log[i].turn = t
    <3>1. ASSUME NEW x \in EventType, Emits(x), log'[i] = x PROVE FALSE
      BY <1>3, <3>1 DEF Past, Emits
    <3> QED
      BY <1>0, <1>3, <3>1, LogKeeps
  <2>2. obs.pc # "stopped" /\ obs'.at >= obs.at
    BY <1>3, OnwardMove DEF Onward
  <2>3. i < obs.at
    BY <2>1, <2>2 DEF Past
  <2>4. i \in Nat /\ obs.at \in Nat /\ obs'.at \in Nat
    BY <1>0, <2>1, LogKeeps, TypeKept DEF TypeOK, ObsType
  <2> QED
    BY <2>2, <2>3, <2>4
<1> QED
  BY <1>1, <1>2, <1>3 DEF Past

LEMMA ReachKept ==
  ASSUME Inv, [Next]_vars
  PROVE  Reach'
<1>0. TypeOK /\ Reach /\ TypeOK' /\ obs.at \in Nat /\ obs'.at \in Nat
  <2>1. TypeOK /\ TypeOK' /\ Reach
    BY TypeKept DEF Inv
  <2> QED
    BY <2>1 DEF TypeOK, ObsType
<1>1. ASSUME obs'.pc # "stopped" PROVE obs'.at <= Len(log)' + 1
  <2>1. Len(log) \in Nat /\ Len(log)' \in Nat /\ Len(log)' >= Len(log)
    BY <1>0, LogKeeps
  <2>2. CASE Restart
    <3>1. PICK over \in BOOLEAN : obs' = Observer("read", RecoveredCursor(over) + 1)
      BY <2>2 DEF Restart
    <3>2. RecoveredCursor(over) \in Nat /\ RecoveredCursor(over) <= Len(log)
      BY <1>0, <2>1 DEF RecoveredCursor, TypeOK, BindingType
    <3>3. obs'.at = RecoveredCursor(over) + 1
      BY <3>1 DEF Observer
    <3> HIDE <3>1
    <3> QED
      BY <2>1, <3>2, <3>3
  <2>3. CASE ~Restart
    <3>1. obs.pc # "stopped" /\ (obs'.at = obs.at \/ (obs.at \in Events /\ obs'.at = obs.at + 1))
      BY <1>1, <2>3, OnwardMove DEF Onward
    <3>2. obs.at <= Len(log) + 1 /\ (obs.at \in Events => obs.at <= Len(log))
      BY <1>0, <3>1, LogKeeps DEF Reach
    <3> QED
      BY <1>0, <2>1, <3>1, <3>2
  <2> QED
    BY <2>2, <2>3
<1>2. ASSUME NEW i \in Events', NEW j \in Events', log'[i].kind \in Terminal, log'[i].turn \in Turns,
             log'[j].turn = log'[i].turn
      PROVE  j <= i
  <2>0. \A n \in Events : n \in Nat /\ n <= Len(log) /\ log'[n] = log[n]
    BY <1>0, LogKeeps
  <2>1. CASE i \in Events /\ j \in Events
    BY <1>0, <1>2, <2>0, <2>1 DEF Reach
  <2>2. ASSUME NEW x \in EventType, Emits(x), j = Len(log) + 1, log'[j] = x, i \in Events
        PROVE  FALSE
    <3>1. Over(x.turn)
      BY <1>2, <2>0, <2>2 DEF Over
    <3> QED
      BY <1>2, <2>0, <2>2, <3>1 DEF Emits
  <2>3. CASE i = Len(log) + 1 /\ j \in Events
    <3>1. j \in Nat /\ j <= Len(log) /\ Len(log) \in Nat
      BY <1>0, <2>0, <2>3, LogKeeps
    <3> QED
      BY <2>3, <3>1
  <2>4. CASE i = Len(log) + 1 /\ j = Len(log) + 1
    <3>1. Len(log) \in Nat
      BY <1>0, LogKeeps
    <3> QED
      BY <2>4, <3>1
  <2> QED
    BY <1>0, <2>1, <2>2, <2>3, <2>4, LogKeeps
<1> QED
  BY <1>1, <1>2 DEF Reach

(* A turn whose sink is closed is over, and the observer is past it.       *)
LEMMA ClosedPast ==
  ASSUME Inv, [Next]_vars, CloseSink, NEW t, t = Head(obs.todo).t
  PROVE  Past(t)'
<1>0. /\ TypeOK /\ Reach /\ ObsOK(obs) /\ sinks \in [Turns -> SinkType]
      /\ obs \in ObsType /\ obs.at \in Nat
  BY DEF Inv, ObsShape, TypeOK, ObsType
<1>1. /\ t \in Turns /\ t = log[obs.at].turn /\ log[obs.at].kind \in Terminal /\ obs.at \in Events
      /\ Len(obs.todo) = 1 /\ obs.pc = "apply"
  BY Closes
<1>2. sinks' = [sinks EXCEPT ![t] = NoSink] /\ UNCHANGED log /\ obs' = Advanced(life = "up" /\ ~failed)
  BY DEF CloseSink, ApplyUnchanged, engine
<1>3. Over(t)'
  <2>1. Over(t)
    BY <1>1 DEF Over
  <2> QED
    BY <1>0, <2>1, OverGrows
<1>4. ~sinks'[t].live
  BY <1>0, <1>1, <1>2, SinkValues
<1>5. obs'.pc = "stopped" \/ obs'.at = obs.at + 1
  BY <1>1, <1>2 DEF Advanced, Observer, Stopped
<1>6. \A i \in Events : log[i].turn = t => i < obs.at + 1
  <2>1. \A i \in Events : i \in Nat /\ (log[i].turn = t => i <= obs.at)
    BY <1>0, <1>1, LogKeeps DEF Reach
  <2> QED
    BY <1>0, <2>1
<1>7. Events' = Events
  BY <1>2 DEF Events
<1> QED
  BY <1>2, <1>3, <1>4, <1>5, <1>6, <1>7 DEF Past

LEMMA FreshKept ==
  ASSUME Inv, [Next]_vars, ~Crash, ~Restart, ~CloseCommit, NEW t \in Turns, Fresh(t), ~Touches(t),
         t \in correlated' => t \in correlated
  PROVE  Fresh(t)'
<1>1. CASE t \in adoptedTerminalTurnIds
  <2>1. t \in adoptedTerminalTurnIds'
    BY <1>1, AdoptedMove
  <2> QED
    BY <2>1 DEF Fresh
<1>2. CASE Unseen(t) /\ t \notin correlated
  BY <1>2, UnseenKept DEF Fresh
<1> QED
  BY <1>1, <1>2 DEF Fresh

(* A turn that is asked for, or fresh, is not the one the observer takes.  *)
LEMMA FreshNotTaken ==
  ASSUME Inv, NEW t \in Turns, t = log[obs.at].turn, obs.at \in Events, Observe \/ Woken, Takes(obs.at, t)
  PROVE  /\ t \notin adoptedTerminalTurnIds
         /\ Asked => ~Fresh(t) /\ ~Unseen(t)
         /\ pendingSubmit.id = t => ~Fresh(t)
<1>0. TypeOK /\ obs.pc \in Reading
  BY ObserverMoves DEF Inv
<1>1. t \notin adoptedTerminalTurnIds
  <2>1. ASSUME t \in adoptedTerminalTurnIds PROVE FALSE
    <3>1. Past(t)
      BY <2>1 DEF Inv, Attempts
    <3>2. obs.at < obs.at
      BY <1>0, <3>1 DEF Past, Reading
    <3>3. obs.at \in Nat
      BY <1>0, LogKeeps DEF TypeOK, ObsType
    <3> QED
      BY <3>2, <3>3
  <2> QED
    BY <2>1
<1>2. Asked => sinks[t].live
  BY DEF Takes
<1>3. pendingSubmit.id = t => ~(Unseen(t) /\ t \notin correlated)
  BY DEF Takes
<1> QED
  BY <1>1, <1>2, <1>3 DEF Fresh, Unseen

(* How a submission comes to be under way, and stays so.                   *)
AskedMoves ==
  \/ /\ Submit /\ pc = "ready" /\ ~Unresolved /\ Attempt \in AttemptType /\ Attempt.id \in Turns
     /\ Attempt.id <= made' /\ call' = Attempt /\ pc' = "submit" /\ request'.id = Attempt.id
     /\ UNCHANGED <<pendingSubmit, recoveringAfterAbort, obs, late>>
  \/ /\ Receipt /\ pc = "submit" /\ pc' = "own" /\ call.id = request.id /\ request'.id = request.id
     /\ call.id \notin adoptedTerminalTurnIds /\ call.id \notin ownedSubmissions
     /\ UNCHANGED <<pendingSubmit, recoveringAfterAbort, obs, late>>
  \/ Asked /\ pc' = pc /\ request'.id = request.id

LEMMA AskedMove ==
  ASSUME Inv, [Next]_vars, Asked'
  PROVE  AskedMoves
<1> USE DEF pc
<1>0. TypeOK /\ pc' \in {"submit", "own"}
  BY DEF Inv, Asked
<1>r. Refused => pc' \in {"idle", "ended"}
  BY <1>0, RequestForms DEF Is
<1>f. /\ Idle.pc = "idle" /\ \A e : Ended(e).pc = "ended"
      /\ \A p : [Idle EXCEPT !.pc = "ready", !.digest = p].pc = "ready"
      /\ \A p : [Idle EXCEPT !.pc = "commit", !.digest = p].pc = "commit"
      /\ \A i : [Idle EXCEPT !.pc = "streaming", !.id = i].pc = "streaming"
      /\ [request EXCEPT !.pc = "ready"].pc = "ready"
      /\ [request EXCEPT !.pc = "own"].pc = "own" /\ [request EXCEPT !.pc = "own"].id = request.id
      /\ [request EXCEPT !.aborted = TRUE].pc = pc /\ [request EXCEPT !.aborted = TRUE].id = request.id
  BY <1>0, RequestForms DEF Is
<1>i. ASSUME Installed(request.id) PROVE FALSE
  <2>1. Refused \/ request' = Idle \/ request' = [Idle EXCEPT !.pc = "streaming", !.id = request.id]
    BY <1>i DEF Installed
  <2> QED
    BY <1>0, <1>f, <1>r, <2>1
<1>1. CASE UNCHANGED request
  BY <1>1 DEF AskedMoves, Asked
<1>2. CASE \E p \in Prompts : Stream(p)
  <2>1. PICK p \in Prompts : Stream(p)
    BY <1>2
  <2>2. \/ request' = [Idle EXCEPT !.pc = "ready", !.digest = p]
        \/ request' = [Idle EXCEPT !.pc = "commit", !.digest = p]
        \/ request' = Ended(0)
    BY <2>1 DEF Stream
  <2>3. /\ [Idle EXCEPT !.pc = "ready", !.digest = p].pc = "ready"
        /\ [Idle EXCEPT !.pc = "commit", !.digest = p].pc = "commit"
        /\ Ended(0).pc = "ended"
    BY <1>f
  <2>4. request'.pc \in {"ready", "commit", "ended"}
    BY <2>2, <2>3
  <2> QED
    BY <1>0, <2>4
<1>3. CASE Submit
  <2>1. UNCHANGED <<pendingSubmit, recoveringAfterAbort, late>>
    BY <1>3 DEF Submit, submission
  <2>2. Leaves => FALSE
    BY <1>0 DEF Leaves, Is
  <2>3. /\ pc = "ready" /\ Attempt.id \in Turns /\ Attempt.id <= made' /\ ~Unresolved /\ ~request.aborted
        /\ Attempt \in AttemptType /\ call' = Attempt
        /\ Is(request', "submit", request.digest, Attempt.id, message)
    BY <1>3, <2>2, SubmitMoves
  <2>4. UNCHANGED obs
    BY <1>3, <2>3 DEF Submit
  <2> QED
    BY <1>3, <2>1, <2>3, <2>4 DEF Is, AskedMoves
<1>4. CASE Receipt
  <2>1. pc = "submit" /\ call.id = request.id /\ UNCHANGED <<recoveringAfterAbort, late>>
    BY <1>4, CallTyped DEF Receipt
  <2>2. \/ Refused \/ Installed(request.id)
        \/ /\ request' = [request EXCEPT !.pc = "own"] /\ UNCHANGED <<pendingSubmit, obs>>
           /\ call.id \notin adoptedTerminalTurnIds /\ call.id \notin ownedSubmissions
    BY <1>4, <2>1 DEF Receipt
  <2> QED
    BY <1>0, <1>f, <1>i, <1>r, <1>4, <2>1, <2>2 DEF AskedMoves
<1>5. CASE (\E b \in BOOLEAN : Rejected(b)) \/ CloseInterrupt \/ Consume
  BY <1>0, <1>f, <1>r, <1>5 DEF Rejected, CloseInterrupt, Consume
<1>6. CASE Abort
  BY <1>0, <1>f, <1>6 DEF Abort, AskedMoves, Asked
<1>7. CASE WrittenOwn
  BY <1>i, <1>7 DEF WrittenOwn
<1>8. CASE WrittenHeld
  BY <1>0, <1>f, <1>8 DEF WrittenHeld
<1>9. CASE /\ Next /\ ~StreamStep /\ ~Abort /\ ~Consume /\ ~WrittenOwn /\ ~WrittenHeld /\ ~CloseInterrupt
           /\ ~\E p \in Prompts : Stream(p)
  <2>1. UNCHANGED request \/ Leaves \/ request' = Idle \/ request' = Ended(obs.at)
    BY <1>9, OtherMoves
  <2> QED
    BY <1>0, <1>1, <1>f, <2>1 DEF Leaves, Is
<1> QED
  BY <1>1, <1>2, <1>3, <1>4, <1>5, <1>6, <1>7, <1>8, <1>9 DEF StreamStep, vars

LEMMA PendingTo ==
  ASSUME Inv, [Next]_vars, ~Crash, ~Restart
  PROVE  \/ pendingSubmit' \in {pendingSubmit, NoAttempt}
         \/ /\ pc = "submit" /\ pendingSubmit = NoAttempt /\ pendingSubmit' = call /\ Ends
            /\ Abort \/ CloseInterrupt \/ \E b \in BOOLEAN : Rejected(b)
<1>1. CASE Completes(obs.at, log[obs.at].turn)
  BY <1>1, CompletedKept
<1>2. \A a : Settled(a) \/ Cleared(a) => pendingSubmit' \in {pendingSubmit, NoAttempt}
  BY DEF Settled, Cleared
<1>3. \A t : SettleSink(t) => pendingSubmit' \in {pendingSubmit, NoAttempt}
  BY <1>2 DEF SettleSink
<1> QED
  BY <1>1, <1>2, <1>3, PendingMove DEF PendingMoves, Pending, Ends

LEMMA CallMove ==
  ASSUME [Next]_vars
  PROVE  \/ UNCHANGED call
         \/ Submit \/ Receipt \/ (\E b \in BOOLEAN : Rejected(b))
         \/ LateReceipt \/ (\E b \in BOOLEAN : LateRejected(b)) \/ Crash \/ Restart
<1> USE DEF wire
<1>1. CASE UNCHANGED vars
  BY <1>1 DEF vars
<1>2. CASE (\E p \in Prompts : Stream(p)) \/ Abort \/ Consume \/ CloseInterrupt
  BY <1>2 DEF Stream, Abort, Consume, CloseInterrupt
<1>3. CASE ObserveStep \/ Woken \/ WriteStep
  BY <1>3 DEF ObserveStep, Observe, StoreMessage, Commit, CloseSink, ApplyUnchanged,
       Woken, ObserveUnchanged, WriteStep, WrittenObserved, WrittenHeld, WrittenOwn, WrittenLate
<1>4. CASE ObserverLost \/ BeginClose \/ CloseCommit \/ WrittenClose \/ Admit \/ EmitForeign
             \/ \E t \in Turns, k \in Kinds : Emit(t, k)
  BY <1>4 DEF ObserverLost, BeginClose, CloseCommit, WrittenClose, Admit, EmitForeign, Emit
<1> QED
  BY <1>1, <1>2, <1>3, <1>4 DEF Next, StreamStep, LateStep

(* The recovery of a submission keeps what is pending.                     *)
LEMMA LateHolds ==
  ASSUME Inv, [Next]_vars, late # "none", late' # "none", ~Crash, ~Restart
  PROVE  /\ UNCHANGED <<pendingSubmit, recoveringAfterAbort>> /\ ~Asked'
         /\ late' = "wait" => UNCHANGED call /\ late = "wait"
<1>0. /\ TypeOK /\ pendingSubmit # NoAttempt /\ pendingSubmit.id \in recoveringAfterAbort /\ ~Asked
      /\ pc # "submit" /\ Unresolved /\ late \in {"wait", "own"}
  BY DEF Inv, Attempts, Asked, Unresolved, TypeOK
<1>1. ~WrittenLate
  BY DEF WrittenLate
<1>2. UNCHANGED recoveringAfterAbort
  BY <1>0, RecoveringMove
<1>3. ~Asked'
  BY <1>0, AskedMove DEF AskedMoves, Asked
<1>4. UNCHANGED pendingSubmit
  <2>1. CASE late = "own"
    BY <1>1, <2>1, LateKeeps
  <2>2. CASE late = "wait"
    <3>1. CloseSink => pendingSubmit.id # Head(obs.todo).t
      <4>1. ASSUME CloseSink PROVE Fresh(pendingSubmit.id)
        <5>1. obs.pc = "apply"
          BY <4>1 DEF CloseSink
        <5>2. life \in {"up", "closing"}
          BY <5>1 DEF Inv, ObsShape, TypeOK
        <5>3. pc # "own"
          BY <1>0 DEF Asked
        <5> QED
          BY <1>0, <2>2, <5>2, <5>3 DEF Inv, Attempts
      <4> QED
        BY <4>1, ClosedNotFresh
    <3>2. CloseSink => \A t : (t = Head(obs.todo).t /\ SettleSink(t)) => UNCHANGED pendingSubmit
      BY <3>1 DEF SettleSink
    <3> QED
      BY <1>0, <2>2, <3>2, CompletedKept, PendingMove DEF PendingMoves, Asked
  <2> QED
    BY <1>0, <2>1, <2>2
<1>5. ASSUME late' = "wait" PROVE UNCHANGED call /\ late = "wait"
  <2>1. late = "wait"
    BY <1>0, <1>5, LateMoves
  <2>2. Submit => UNCHANGED call
    BY <1>0, SubmitMoves
  <2>3. ~Receipt /\ ~\E b \in BOOLEAN : Rejected(b)
    BY <1>0 DEF Receipt, Rejected
  <2>4. LateReceipt => late' \in {"none", "own"}
    <3>1. LateReceipt => late' = "none" \/ late' = "own"
      BY DEF LateReceipt
    <3> QED
      BY <3>1
  <2>5. ~\E b \in BOOLEAN : LateRejected(b)
    BY DEF LateRejected
  <2> QED
    BY <1>5, <2>1, <2>2, <2>3, <2>4, <2>5, CallMove
<1> QED
  BY <1>2, <1>3, <1>4, <1>5

LEMMA InterruptedMoves ==
  ASSUME Inv, pc = "submit", Interrupted, Abort \/ CloseInterrupt
  PROVE  /\ pendingSubmit' = call /\ call' = call /\ call.id \in recoveringAfterAbort'
         /\ call # NoAttempt /\ ~Asked' /\ UNCHANGED <<ownedSubmissions, correlated>>
<1> USE DEF pc
<1>0. TypeOK /\ call \in AttemptType /\ pendingSubmit \in {NoAttempt, call}
  BY CallTyped DEF Inv, Attempts
<1>1. call # NoAttempt
  BY <1>0 DEF AttemptType, NoAttempt
<1>2. pendingSubmit' = call /\ call.id \in recoveringAfterAbort'
  BY <1>0 DEF Interrupted, Pending
<1>3. CASE Abort
  <2>1. request' = Idle /\ UNCHANGED <<call, ownedSubmissions, correlated>>
    BY <1>3 DEF Abort, wire, submission
  <2>2. Idle.pc = "idle"
    BY DEF Idle
  <2> QED
    BY <1>1, <1>2, <2>1, <2>2 DEF Asked
<1>4. CASE CloseInterrupt
  <2>1. Refused /\ UNCHANGED <<call, ownedSubmissions, correlated>>
    BY <1>4 DEF CloseInterrupt, wire
  <2>2. request'.pc \in {"idle", "ended"}
    BY <1>0, <2>1, RequestForms DEF Is
  <2> QED
    BY <1>1, <1>2, <2>1, <2>2 DEF Asked
<1> QED
  BY <1>3, <1>4

(* The attempt that is submitted is one whose turn was never seen, or was  *)
(* seen to end.                                                            *)
LEMMA AttemptFresh ==
  ASSUME Inv, pc = "ready", ~Unresolved, Attempt \in AttemptType
  PROVE  Fresh(Attempt.id)
<1>0. /\ TypeOK /\ Made /\ Attempts /\ ObsOK(obs) /\ made \in Nat
  BY DEF Inv, ObsShape, TypeOK
<1>1. CASE pendingSubmit # NoAttempt
  <2>1. Attempt = pendingSubmit /\ pendingSubmit.id \notin recoveringAfterAbort
    BY <1>1 DEF Attempt, Unresolved
  <2>2. life \in {"up", "closing"}
    BY <1>0 DEF Inv, CallShape, inFlight, TypeOK
  <2> QED
    BY <1>0, <1>1, <2>1, <2>2 DEF Attempts
<1>2. CASE pendingSubmit = NoAttempt /\ {a \in observedSubmitAttempts : a.digest = request.digest} # {}
  <2>1. Attempt \in observedSubmitAttempts
    BY <1>2 DEF Attempt
  <2> QED
    BY <1>0, <2>1 DEF Attempts, Fresh
<1>3. CASE pendingSubmit = NoAttempt /\ {a \in observedSubmitAttempts : a.digest = request.digest} = {}
  <2>1. Attempt.id = made + 1
    BY <1>3 DEF Attempt
  <2>2. PICK t : t = made + 1
    OBVIOUS
  <2>3. t \in Turns /\ t \notin 1..made /\ t # Foreign
    BY <1>0, <2>1, <2>2 DEF AttemptType
  <2>4. \A i \in Events : log[i].turn # t
    BY <1>0, <2>3 DEF Made
  <2>5. t \notin ownedSubmissions /\ t \notin correlated
    BY <1>0, <2>3 DEF Made
  <2>6. ~sinks[t].live
    BY <1>0, <2>2, <2>3 DEF Made
  <2>7. t \notin adoptedTerminalTurnIds
    BY <1>0, <2>4 DEF Attempts, Past, Over
  <2>8. ~Closing(t)
    <3>1. \A i \in DOMAIN obs.todo : obs.todo[i] \in OpType /\ obs.todo[i].t = log[obs.todo[i].e].turn
      BY <1>0 DEF ObsOK, Planned, ObsType
    <3>2. \A i \in DOMAIN obs.todo : obs.todo[i].e \in Events
      BY <3>1 DEF OpType
    <3> QED
      BY <2>4, <3>1, <3>2 DEF Closing
  <2> QED
    BY <2>1, <2>2, <2>4, <2>5, <2>6, <2>7, <2>8 DEF Fresh, Unseen
<1> QED
  BY <1>1, <1>2, <1>3

(* While a submission waits for its answer, its turn stays unseen.         *)
LEMMA AskedUntouched ==
  ASSUME Inv, [Next]_vars, Asked, Asked'
  PROVE  /\ ~Touches(request.id) /\ ~CloseCommit /\ ~Crash /\ ~Restart /\ late = "none"
         /\ pc = "submit" /\ pc' = pc => (request.id \in correlated' => request.id \in correlated)
<1> USE DEF pc
<1>0. TypeOK /\ request.id \in Turns /\ late = "none" /\ Attempts
  BY CallTyped DEF Inv, Attempts, Asked, TypeOK
<1>1. ~Crash /\ ~Restart
  <2>1. Idle.pc = "idle"
    BY DEF Idle
  <2> QED
    BY <2>1 DEF Crash, Restart, Forgotten, Asked
<1>2. ~CloseCommit
  BY DEF CloseCommit, inFlight, Asked
<1>3. ASSUME Installed(request.id) PROVE FALSE
  <2>1. Refused \/ request' = Idle \/ request' = [Idle EXCEPT !.pc = "streaming", !.id = request.id]
    BY <1>3 DEF Installed
  <2>2. /\ Idle.pc = "idle" /\ [Idle EXCEPT !.pc = "streaming", !.id = request.id].pc = "streaming"
        /\ Refused => request'.pc \in {"idle", "ended"}
    BY <1>0, RequestForms DEF Is
  <2> QED
    BY <2>1, <2>2 DEF Asked
<1>4. ASSUME Observe \/ Woken, obs.at \in Events, request.id = log[obs.at].turn, Takes(obs.at, request.id)
      PROVE  FALSE
  <2>1. ~Fresh(request.id) /\ ~Unseen(request.id)
    BY <1>0, <1>4, FreshNotTaken
  <2> QED
    BY <1>0, <2>1 DEF Attempts, Asked
<1>5. ~Touches(request.id)
  BY <1>0, <1>3, <1>4 DEF Touches
<1>6. ASSUME pc = "submit", pc' = pc PROVE ~Receipt
  <2>1. ASSUME Receipt PROVE FALSE
    <3>1. call.id = request.id
      BY <1>6, CallTyped
    <3>2. Refused \/ Installed(request.id) \/ request' = [request EXCEPT !.pc = "own"]
      BY <2>1, <3>1 DEF Receipt
    <3>3. /\ Refused => request'.pc \in {"idle", "ended"}
          /\ [request EXCEPT !.pc = "own"].pc = "own"
      BY <1>0, RequestForms DEF Is
    <3> QED
      BY <1>3, <1>6, <3>2, <3>3
  <2> QED
    BY <2>1
<1>7. ASSUME pc = "submit", pc' = pc, request.id \in correlated' PROVE request.id \in correlated
  BY <1>0, <1>1, <1>6, <1>7, CorrelatedMove DEF CorrelatedMoves
<1> QED
  BY <1>0, <1>1, <1>2, <1>5, <1>7

LEMMA LateKept ==
  ASSUME Inv, [Next]_vars
  PROVE  /\ late' # "none" => /\ pendingSubmit' # NoAttempt /\ pendingSubmit'.id \in recoveringAfterAbort'
                              /\ ~Asked'
         /\ late' = "wait" => call' = pendingSubmit'
<1>0. TypeOK /\ Attempts
  BY DEF Inv
<1>1. CASE Crash \/ Restart
  <2>1. late' = "none"
    BY <1>1 DEF Crash, Restart, Forgotten
  <2> QED
    BY <2>1
<1>2. CASE pc = "submit" /\ Interrupted /\ (Abort \/ CloseInterrupt)
  BY <1>2, InterruptedMoves
<1>3. CASE late # "none" /\ late' # "none" /\ ~Crash /\ ~Restart
  BY <1>0, <1>3, LateHolds DEF Attempts
<1>4. CASE late' = "none"
  BY <1>4
<1> QED
  BY <1>1, <1>2, <1>3, <1>4, LateMoves

LEMMA SubmitAlone ==
  ASSUME Inv, [Next]_vars, Submit, pc = "ready", pc' = "submit"
  PROVE  ~obs.woken /\ ~Observe /\ ~Woken /\ ~Crash /\ ~Restart /\ ~CloseCommit
<1> USE DEF pc
<1>0. TypeOK
  BY DEF Inv
<1>1. request' # request /\ Idle.pc = "idle" /\ \A e : Ended(e).pc = "ended"
  BY DEF Idle, Ended
<1>2. ~Crash /\ ~Restart
  BY <1>1 DEF Crash, Restart, Forgotten
<1>3. ~CloseCommit
  BY <1>1 DEF CloseCommit
<1>4. ASSUME Observe \/ Woken PROVE FALSE
  <2>1. Waits \/ Takes(obs.at, log[obs.at].turn)
    BY <1>4, ObserverMoves
  <2>2. UNCHANGED request \/ request' = Ended(obs.at)
    BY <2>1 DEF Waits, Waiting, Takes, Passes, Still, Completes, NativeTerminal, Shows
  <2> QED
    BY <1>1, <2>2
<1>5. ~Admit /\ ~EmitForeign /\ ~\E t \in Turns, k \in Kinds : Emit(t, k)
  BY <1>1 DEF Admit, EmitForeign, Emit
<1>6. ~UNCHANGED vars
  BY <1>1 DEF vars
<1>7. ~ObserverLost
  BY <1>1 DEF ObserverLost, FailedSinks
<1> QED
  BY <1>2, <1>3, <1>4, <1>5, <1>6, <1>7 DEF Next

LEMMA AskedKept ==
  ASSUME Inv, [Next]_vars, Asked'
  PROVE  /\ pendingSubmit'.id \in {0, request'.id}
         /\ pendingSubmit'.id \notin recoveringAfterAbort'
         /\ ~obs'.woken
<1> USE DEF pc
<1>0. /\ TypeOK /\ Attempts /\ NoAttempt.id = 0 /\ 0 \notin Turns /\ recoveringAfterAbort \subseteq Turns
      /\ AskedMoves
  <2>1. TypeOK /\ Attempts /\ AskedMoves
    BY AskedMove DEF Inv
  <2>2. recoveringAfterAbort \subseteq Turns /\ NoAttempt.id = 0
    BY <2>1 DEF TypeOK, NoAttempt
  <2> QED
    BY <2>1, <2>2
<1>1. CASE /\ Submit /\ pc = "ready" /\ ~Unresolved /\ pc' = "submit" /\ request'.id = Attempt.id
           /\ UNCHANGED <<pendingSubmit, recoveringAfterAbort, obs, late>>
  <2>1. ~obs.woken
    BY <1>1, SubmitAlone
  <2>2. pendingSubmit # NoAttempt => Attempt = pendingSubmit /\ pendingSubmit.id \notin recoveringAfterAbort
    BY <1>1 DEF Attempt, Unresolved
  <2> QED
    BY <1>0, <1>1, <2>1, <2>2
<1>2. CASE /\ pc = "submit" /\ request'.id = request.id
           /\ UNCHANGED <<pendingSubmit, recoveringAfterAbort, obs, late>>
  BY <1>0, <1>2 DEF Attempts, Asked
<1>3. CASE Asked /\ pc' = pc /\ request'.id = request.id
  <2>1. ~CloseCommit /\ ~Crash /\ ~Restart /\ late = "none"
    BY <1>3, AskedUntouched
  <2>2. ~Ends /\ request'.pc # "streaming"
    BY DEF Ends, Asked
  <2>3. pendingSubmit' \in {pendingSubmit, NoAttempt}
    BY <2>1, <2>2, PendingTo
  <2>4. recoveringAfterAbort' = recoveringAfterAbort
    BY <2>1, RecoveringMove, InterruptedMoves
  <2>5. ~obs'.woken
    <3>1. ~obs.woken
      BY <1>0, <1>3 DEF Attempts
    <3> QED
      BY <2>1, <2>2, <3>1, WokenMove DEF WokenMoves, Ends
  <2>6. pendingSubmit.id \in {0, request.id} /\ pendingSubmit.id \notin recoveringAfterAbort
    BY <1>0, <1>3 DEF Attempts
  <2> QED
    BY <1>0, <1>3, <2>3, <2>4, <2>5, <2>6
<1> QED
  BY <1>0, <1>1, <1>2, <1>3 DEF AskedMoves

LEMMA Primed ==
  ASSUME NEW t
  PROVE  /\ t = request'.id => (Fresh(t)' <=> Fresh(request.id)') /\ (Unseen(t)' <=> Unseen(request.id)')
         /\ t = pendingSubmit'.id =>
              (Fresh(t)' <=> Fresh(pendingSubmit.id)') /\ (Unseen(t)' <=> Unseen(pendingSubmit.id)')
BY DEF Fresh, Unseen, Closing, Taken

LEMMA SubmitKept ==
  ASSUME Inv, [Next]_vars, pc' = "submit"
  PROVE  pendingSubmit' \in {NoAttempt, call'} /\ Fresh(request.id)'
<1> USE DEF pc
<1>0. /\ TypeOK /\ Attempts /\ Asked' /\ AskedMoves /\ 0 \notin Turns
  BY AskedMove DEF Inv, Asked
<1>1. CASE /\ Submit /\ pc = "ready" /\ ~Unresolved /\ Attempt \in AttemptType /\ Attempt.id \in Turns
           /\ call' = Attempt /\ pc' = "submit" /\ request'.id = Attempt.id
           /\ UNCHANGED <<pendingSubmit, recoveringAfterAbort, obs, late>>
  <2>1. PICK t : t = Attempt.id
    OBVIOUS
  <2>2. t \in Turns /\ Fresh(t) /\ t = request'.id
    BY <1>1, <2>1, AttemptFresh
  <2>3. ~Observe /\ ~Woken /\ ~Crash /\ ~Restart /\ ~CloseCommit
    BY <1>1, SubmitAlone
  <2>4. late = "none"
    BY <1>0, <1>1 DEF Attempts, Unresolved
  <2>5. ~Touches(t)
    BY <1>1, <2>3, <2>4 DEF Touches
  <2>6. t \in correlated' => t \in correlated
    BY <1>1, <2>3, <2>4, CorrelatedMove DEF CorrelatedMoves
  <2>7. Fresh(t)'
    BY <2>2, <2>3, <2>5, <2>6, FreshKept
  <2>8. pendingSubmit' \in {NoAttempt, call'}
    BY <1>1 DEF Attempt
  <2> QED
    BY <2>2, <2>7, <2>8, Primed
<1>2. CASE Asked /\ pc' = pc /\ request'.id = request.id
  <2>1. ~Touches(request.id) /\ ~CloseCommit /\ ~Crash /\ ~Restart /\ late = "none"
        /\ (request.id \in correlated' => request.id \in correlated)
    BY <1>0, <1>2, AskedUntouched
  <2>2. PICK t : t = request.id
    OBVIOUS
  <2>3. t \in Turns /\ Fresh(t) /\ t = request'.id
    BY <1>0, <1>2, <2>2, CallTyped DEF Attempts
  <2>4. Fresh(t)'
    BY <2>1, <2>2, <2>3, FreshKept
  <2>5. ~Ends
    BY <1>0 DEF Ends
  <2>6. pendingSubmit' \in {pendingSubmit, NoAttempt}
    BY <2>1, <2>5, PendingTo
  <2>7. call' = call
    <3>1. ~Submit
      BY <1>0, <1>2 DEF Submit
    <3>2. ~Receipt
      <4>1. ASSUME Receipt PROVE FALSE
        <5>1. call.id = request.id
          BY <1>0, <1>2, CallTyped
        <5>2. Refused \/ Installed(request.id) \/ request' = [request EXCEPT !.pc = "own"]
          BY <4>1, <5>1 DEF Receipt
        <5>3. Refused => Ends
          BY <1>0, RequestForms DEF Is, Ends
        <5>4. [request EXCEPT !.pc = "own"].pc = "own"
          BY <1>0, RequestForms DEF Is
        <5>5. ~Installed(request.id)
          BY <1>0, <1>2, <2>1, <4>1 DEF Touches
        <5> QED
          BY <1>0, <2>5, <5>2, <5>3, <5>4, <5>5
      <4> QED
        BY <4>1
    <3>3. ~\E b \in BOOLEAN : Rejected(b)
      <4>1. Refused => Ends
        BY <1>0, RequestForms DEF Is, Ends
      <4> QED
        BY <2>5, <4>1 DEF Rejected
    <3>4. ~LateReceipt /\ ~\E b \in BOOLEAN : LateRejected(b)
      BY <2>1 DEF LateReceipt, LateRejected
    <3> QED
      BY <2>1, <3>1, <3>2, <3>3, <3>4, CallMove
  <2>8. pendingSubmit \in {NoAttempt, call}
    BY <1>0, <1>2 DEF Attempts
  <2> QED
    BY <2>3, <2>4, <2>6, <2>7, <2>8, Primed
<1> QED
  BY <1>0, <1>1, <1>2 DEF AskedMoves

LEMMA OwnKept ==
  ASSUME Inv, [Next]_vars, pc' = "own"
  PROVE  Unseen(request.id)'
<1> USE DEF pc
<1>0. /\ TypeOK /\ Attempts /\ Asked' /\ AskedMoves
  BY AskedMove DEF Inv, Asked
<1>1. Asked /\ request'.id = request.id /\ Unseen(request.id)
  <2>1. CASE /\ pc = "submit" /\ call.id = request.id /\ request'.id = request.id
             /\ call.id \notin adoptedTerminalTurnIds
    BY <1>0, <2>1 DEF Attempts, Fresh, Asked
  <2>2. CASE Asked /\ pc' = pc /\ request'.id = request.id
    BY <1>0, <2>2 DEF Attempts
  <2> QED
    BY <1>0, <2>1, <2>2 DEF AskedMoves
<1>2. PICK t : t = request.id
  OBVIOUS
<1>3. t \in Turns /\ Unseen(t) /\ t = request'.id
  BY <1>1, <1>2, CallTyped DEF Asked
<1>4. ~Touches(t) /\ ~Crash /\ ~Restart
  BY <1>0, <1>1, <1>2, AskedUntouched
<1>5. Unseen(t)'
  BY <1>3, <1>4, UnseenKept
<1> QED
  BY <1>3, <1>5, Primed

(* The attempt in doubt is one whose turn was not seen yet, or was seen to *)
(* end, unless its recovery is over without an answer.                     *)
InDoubtFresh ==
  pendingSubmit # NoAttempt /\ life \in {"up", "closing"} /\ pc # "own" =>
    Fresh(pendingSubmit.id) \/ (late = "none" /\ pendingSubmit.id \in recoveringAfterAbort)

LEMMA InstalledClears ==
  ASSUME Inv, Installed(request.id), pc \in {"submit", "own"}
  PROVE  pendingSubmit' = NoAttempt
<1>0. /\ TypeOK /\ pendingSubmit.id \in {0, request.id} /\ (pendingSubmit # NoAttempt => pendingSubmit.id \in Turns)
      /\ 0 \notin Turns
  BY CallTyped DEF Inv, Attempts, Asked
<1>1. Cleared([id |-> request.id])
  BY DEF Installed
<1> QED
  BY <1>0, <1>1 DEF Cleared

(* A call whose turn is being written as its own waits for the write, as   *)
(* long as a submission is in doubt.                                       *)
LEMMA OwnWaits ==
  ASSUME Inv, [Next]_vars, ~Crash, ~Restart, pc = "own", pendingSubmit' # NoAttempt
  PROVE  pc' = "own"
<1> USE DEF pc
<1>0. TypeOK
  BY DEF Inv
<1>1. ~WrittenOwn
  BY InstalledClears DEF WrittenOwn
<1>2. ~StreamStep /\ ~Consume /\ ~CloseInterrupt /\ ~\E p \in Prompts : Stream(p)
  BY DEF StreamStep, Submit, Receipt, Rejected, Consume, CloseInterrupt, Stream
<1>3. ~WrittenHeld
  BY QueueHead DEF WrittenHeld
<1>4. CASE Abort
  <2>1. [request EXCEPT !.aborted = TRUE].pc = pc
    BY <1>0, RequestForms DEF Is
  <2> QED
    BY <1>4, <2>1 DEF Abort
<1>5. CASE Next /\ ~Abort
  <2>1. ~Completes(obs.at, log[obs.at].turn) \/ sinks[log[obs.at].turn].left
    BY DEF Completes, Inv, CallShape
  <2>2. UNCHANGED request
    BY <1>1, <1>2, <1>3, <1>5, <2>1, OtherMoves
  <2> QED
    BY <2>2
<1> QED
  BY <1>4, <1>5 DEF vars

LEMMA InDoubtKept ==
  ASSUME Inv, [Next]_vars
  PROVE  InDoubtFresh'
<1> USE DEF pc
<1>0. /\ TypeOK /\ Attempts /\ InDoubtFresh /\ TypeOK'
  <2>1. TypeOK /\ Attempts /\ TypeOK'
    BY TypeKept DEF Inv
  <2> QED
    BY <2>1 DEF Attempts, InDoubtFresh
<1> SUFFICES ASSUME pendingSubmit' # NoAttempt, life' \in {"up", "closing"}, pc' # "own"
             PROVE  \/ Fresh(pendingSubmit.id)'
                    \/ late' = "none" /\ pendingSubmit'.id \in recoveringAfterAbort'
  BY DEF InDoubtFresh
<1>1. ~Crash /\ ~Restart /\ ~CloseCommit
  <2>1. ~Crash /\ ~Restart
    BY DEF Crash, Restart, Forgotten
  <2>2. ~CloseCommit
    BY DEF CloseCommit
  <2> QED
    BY <2>1, <2>2
<1>2. life \in {"up", "closing"}
  BY <1>0, <1>1, LifeMoves
<1>3. PICK t : t = pendingSubmit'.id
  OBVIOUS
<1>4. CASE pc = "submit" /\ pendingSubmit' = call /\ (Abort \/ CloseInterrupt \/ \E b \in BOOLEAN : Rejected(b))
  <2>1. t = request.id /\ t \in Turns /\ Fresh(t)
    BY <1>0, <1>3, <1>4, CallTyped DEF Attempts
  <2>2. UNCHANGED correlated
    BY <1>4 DEF Abort, CloseInterrupt, Rejected, submission
  <2>3. ~Touches(t)
    <3>1. ~Installed(request.id)
      BY <1>4, InstalledClears
    <3>2. late = "none"
      BY <1>0, <1>4 DEF Attempts, Asked, TypeOK
    <3>3. ASSUME Observe \/ Woken, obs.at \in Events, t = log[obs.at].turn, Takes(obs.at, t) PROVE FALSE
      BY <1>4, <2>1, <3>3, FreshNotTaken DEF Asked
    <3> QED
      BY <2>1, <3>1, <3>2, <3>3 DEF Touches
  <2>4. Fresh(t)'
    BY <1>1, <2>1, <2>2, <2>3, FreshKept
  <2> QED
    BY <1>3, <2>4, Primed
<1>5. CASE pendingSubmit' = pendingSubmit
  <2>0. t \in Turns /\ t = pendingSubmit.id /\ pendingSubmit # NoAttempt
    BY <1>3, <1>5, CallTyped
  <2>1. pc # "own"
    BY <1>1, OwnWaits
  <2>2. CASE late = "none" /\ t \in recoveringAfterAbort
    <3>1. pc # "submit"
      BY <1>0, <2>0, <2>2 DEF Attempts, Asked
    <3>2. late' = "none" /\ UNCHANGED recoveringAfterAbort
      BY <1>1, <2>2, <3>1, LateMoves, RecoveringMove DEF WrittenLate, Written
    <3> QED
      BY <1>3, <2>2, <3>2
  <2>3. CASE Fresh(t)
    <3>1. ASSUME ~Touches(t), t \in correlated' => t \in correlated PROVE Fresh(pendingSubmit.id)'
      <4>1. Fresh(t)'
        BY <1>1, <2>0, <2>3, <3>1, FreshKept
      <4> QED
        BY <1>3, <4>1, Primed
    <3>2. ASSUME LateReceipt \/ WrittenLate, late' = "none", late # "none"
          PROVE  late' = "none" /\ pendingSubmit'.id \in recoveringAfterAbort'
      <4>1. pendingSubmit.id \in recoveringAfterAbort
        BY <1>0, <3>2 DEF Attempts
      <4>2. UNCHANGED recoveringAfterAbort
        BY <3>2 DEF LateReceipt, WrittenLate, submission
      <4> QED
        BY <1>5, <3>2, <4>1, <4>2
    <3>3. CASE t = request.id /\ Installed(t) /\ pc \in {"submit", "own"}
      BY <3>3, InstalledClears
    <3>4. CASE late = "own" /\ WrittenLate
      BY <3>2, <3>4 DEF WrittenLate
    <3>5. CASE (Observe \/ Woken) /\ obs.at \in Events /\ t = log[obs.at].turn /\ Takes(obs.at, t)
      BY <2>0, <2>3, <3>5, FreshNotTaken
    <3>6. CASE Receipt /\ pc = "submit" /\ call.id = request.id
      <4>1. pendingSubmit = call
        BY <1>0, <2>0, <3>6 DEF Attempts
      <4>2. ~Settled(call)
        BY <4>1 DEF Settled, Cleared
      <4>3. ~Installed(request.id)
        BY <3>6, InstalledClears
      <4>4. request' = [request EXCEPT !.pc = "own"]
        BY <3>6, <4>2, <4>3 DEF Receipt
      <4>5. [request EXCEPT !.pc = "own"].pc = "own"
        BY <1>0, RequestForms DEF Is
      <4> QED
        BY <4>4, <4>5
    <3>7. CASE LateReceipt /\ late = "wait" /\ late' = "none"
      BY <3>2, <3>7
    <3>8. CASE t \in correlated' => t \in correlated
      BY <3>1, <3>3, <3>4, <3>5, <3>8 DEF Touches
    <3> QED
      BY <1>1, <3>4, <3>6, <3>7, <3>8, CorrelatedMove DEF CorrelatedMoves
  <2> QED
    BY <1>0, <1>2, <2>0, <2>1, <2>2, <2>3 DEF InDoubtFresh
<1> QED
  BY <1>1, <1>4, <1>5, PendingTo

LEMMA ObservedNotWoken ==
  ASSUME Inv, Observe \/ Woken
  PROVE  ~obs'.woken
<1>0. obs \in ObsType
  BY DEF Inv, TypeOK
<1>1. Waits \/ Takes(obs.at, log[obs.at].turn)
  BY ObserverMoves
<1>2. CASE Waits
  BY <1>0, <1>2 DEF Waits, Waiting, ObsType
<1>3. CASE Takes(obs.at, log[obs.at].turn)
  BY <1>3 DEF Takes, Passes, Apply1, Completes, Shows, Observer
<1> QED
  BY <1>1, <1>2, <1>3

LEMMA SeenKept ==
  ASSUME TypeOK, [Next]_vars, NEW t, Unseen(t)',
         UNCHANGED <<ownedSubmissions, sinks, adoptedTerminalTurnIds, obs>>
  PROVE  Unseen(t)
<1>1. \A i \in Events : i \in Events' /\ log'[i] = log[i]
  BY LogKeeps
<1> QED
  BY <1>1 DEF Unseen, Closing, Taken, Working

(* Whoever waits for an owner is woken only once the attempt is settled or *)
(* has one.                                                                *)
LEMMA WokenKept ==
  ASSUME Inv, [Next]_vars, obs'.woken, obs'.pc = "waitOwner", pendingSubmit' # NoAttempt
  PROVE  ~Unseen(pendingSubmit.id)'
<1>0. TypeOK /\ Attempts /\ ObsOK(obs)
  BY DEF Inv, ObsShape
<1>1. PICK t : t = pendingSubmit'.id
  OBVIOUS
<1>2. CASE obs' = SubmissionEnded(obs) /\ ~obs.woken
  BY <1>0, <1>2, NotifiedOK
<1>3. CASE Installed(request.id) /\ pc \in {"submit", "own"}
  BY <1>3, InstalledClears
<1>4. CASE WrittenLate /\ late = "own"
  <2>1. Head(writes).owned = {pendingSubmit.id} /\ UNCHANGED pendingSubmit
    BY <1>4, QueueHead DEF WrittenLate, submission
  <2>2. pendingSubmit.id \in ownedSubmissions'
    BY <1>4, <2>1 DEF WrittenLate
  <2>3. ~Unseen(t)'
    BY <1>1, <2>1, <2>2 DEF Unseen
  <2> QED
    BY <1>1, <2>3, Primed
<1>5. CASE UNCHANGED obs
  <2>1. obs.woken /\ ~Observe /\ ~Woken
    BY <1>5, ObservedNotWoken
  <2>2. ~Crash /\ ~Restart
    BY DEF Crash, Restart, Forgotten
  <2>0. ~ObserverLost
    <3>1. ~Halted.woken
      BY <1>0, HaltedOK, <2>1 DEF Halted, Stopped, Observer, Working, ObsOK
    <3> QED
      BY <1>5, <2>1, <3>1 DEF ObserverLost
  <2>3. Admit \/ EmitForeign \/ (\E u \in Turns, k \in Kinds : Emit(u, k)) \/ UNCHANGED vars
    BY <2>0, <2>1, <2>2 DEF Next
  <2>4. UNCHANGED <<ownedSubmissions, sinks, adoptedTerminalTurnIds, obs, pendingSubmit>>
    BY <2>3 DEF Admit, EmitForeign, Emit, vars, submission, projection
  <2>5. ~Unseen(t)
    BY <1>0, <1>1, <2>1, <2>4 DEF Attempts
  <2>6. ~Unseen(t)'
    BY <1>0, <2>4, <2>5, SeenKept
  <2> QED
    BY <1>1, <2>6, Primed
<1> QED
  BY <1>2, <1>3, <1>4, <1>5, WokenMove DEF WokenMoves

LEMMA AdoptedKept ==
  ASSUME Inv, [Next]_vars, NEW t \in adoptedTerminalTurnIds'
  PROVE  Past(t)'
<1>1. TypeOK /\ Attempts
  BY DEF Inv
<1>2. ~Crash /\ ~Restart
  BY DEF Crash, Restart, Forgotten
<1>3. CASE t \in adoptedTerminalTurnIds
  BY <1>1, <1>2, <1>3, PastKept DEF Attempts, TypeOK
<1>4. CASE CloseSink /\ t = Head(obs.todo).t
  BY <1>4, ClosedPast
<1> QED
  BY <1>2, <1>3, <1>4, AdoptedMove

LEMMA ObservedKept ==
  ASSUME Inv, [Next]_vars, NEW a \in observedSubmitAttempts'
  PROVE  a.id \in adoptedTerminalTurnIds'
<1>0. TypeOK /\ Attempts /\ sinks \in [Turns -> SinkType]
  BY DEF Inv, TypeOK
<1>1. ~Crash /\ ~Restart
  BY DEF Crash, Restart, Forgotten
<1>2. CASE CloseCommit
  BY <1>2 DEF CloseCommit
<1>3. CASE ~CloseCommit /\ a \in observedSubmitAttempts
  <2>1. a.id \in adoptedTerminalTurnIds
    BY <1>0, <1>3 DEF Attempts
  <2> QED
    BY <1>1, <1>3, <2>1, AdoptedMove
<1>4. CASE ~CloseCommit /\ a \notin observedSubmitAttempts
  <2>1. CASE pc = "submit" /\ Receipt /\ Settled(call) /\ (call.id \in adoptedTerminalTurnIds \/ sinks[call.id].adopted)
    <3>1. a = call /\ call.id = request.id /\ request.id \in Turns
      BY <1>4, <2>1, CallTyped DEF Settled
    <3>2. Fresh(request.id)
      BY <1>0, <2>1 DEF Attempts
    <3>3. sinks[request.id].adopted => sinks[request.id].live
      BY <3>1 DEF Inv, CallShape
    <3>4. call.id \in adoptedTerminalTurnIds
      BY <2>1, <3>1, <3>2, <3>3 DEF Fresh, Unseen
    <3>5. UNCHANGED adoptedTerminalTurnIds
      BY <2>1 DEF Receipt
    <3> QED
      BY <3>1, <3>4, <3>5
  <2>2. CASE LateReceipt /\ Settled(call) /\ call.id \in adoptedTerminalTurnIds
    <3>1. a = call
      BY <1>4, <2>2 DEF Settled
    <3>2. UNCHANGED adoptedTerminalTurnIds
      BY <2>2 DEF LateReceipt, projection
    <3> QED
      BY <2>2, <3>1, <3>2
  <2>3. CASE CloseSink /\ SettleSink(Head(obs.todo).t)
    <3>1. a = pendingSubmit /\ pendingSubmit.id = Head(obs.todo).t
      BY <1>4, <2>3 DEF SettleSink, Settled
    <3>2. Head(obs.todo).t \in adoptedTerminalTurnIds'
      BY <2>3 DEF CloseSink
    <3> QED
      BY <3>1, <3>2
  <2>4. CASE Completes(obs.at, log[obs.at].turn)
    BY <1>4, <2>4, CompletedKept
  <2> QED
    BY <1>1, <1>4, <2>1, <2>2, <2>3, <2>4, PendingMove DEF PendingMoves
<1> QED
  BY <1>2, <1>3, <1>4

(* A turn with a stream is not in doubt.                                   *)
LEMMA NativeKept ==
  ASSUME Inv, [Next]_vars, NEW t \in Turns, sinks'[t].live, ~sinks'[t].adopted
  PROVE  pendingSubmit'.id # t
<1>0. TypeOK /\ Attempts /\ NoAttempt.id # t
  BY DEF Inv, NoAttempt
<1>1. ~Crash /\ ~Restart
  <2>1. Crash \/ Restart => sinks' = [u \in Turns |-> NoSink]
    BY DEF Crash, Restart, Forgotten
  <2> QED
    BY <2>1, SinkValues
<1>2. CASE sinks[t].live /\ ~sinks[t].adopted
  <2>1. pendingSubmit.id # t
    BY <1>0, <1>2 DEF Attempts
  <2>2. CASE pc = "submit" /\ pendingSubmit' = call
    <3>1. call.id = request.id /\ Fresh(request.id)
      BY <1>0, <2>2, CallTyped DEF Attempts
    <3>2. t # request.id
      BY <1>0, <1>2, <3>1 DEF Fresh, Unseen, Attempts, Past
    <3> QED
      BY <2>2, <3>1, <3>2
  <2> QED
    BY <1>0, <1>1, <2>1, <2>2, PendingTo
<1>3. CASE Opens /\ t = request.id
  <2>1. pendingSubmit' = NoAttempt
    BY <1>3, OpensInstalls, InstalledClears
  <2> QED
    BY <1>0, <2>1
<1> QED
  BY <1>2, <1>3, LiveMoves

LEMMA AttemptsKept ==
  ASSUME Inv, [Next]_vars
  PROVE  Attempts'
<1>1. (late # "none" => /\ pendingSubmit # NoAttempt /\ pendingSubmit.id \in recoveringAfterAbort
                        /\ ~Asked)'
  BY LateKept
<1>2. (late = "wait" => call = pendingSubmit)'
  BY LateKept
<1>3. (Asked => /\ pendingSubmit.id \in {0, request.id}
                /\ pendingSubmit.id \notin recoveringAfterAbort
                /\ ~obs.woken)'
  BY AskedKept
<1>4. (pc = "submit" => pendingSubmit \in {NoAttempt, call} /\ Fresh(request.id))'
  <2>1. NoAttempt' = NoAttempt
    BY DEF NoAttempt
  <2> QED
    BY <2>1, SubmitKept
<1>5. (pc = "own" => Unseen(request.id))'
  BY OwnKept
<1>6. (pendingSubmit # NoAttempt /\ life \in {"up", "closing"} /\ pc # "own" =>
         Fresh(pendingSubmit.id) \/ (late = "none" /\ pendingSubmit.id \in recoveringAfterAbort))'
  BY InDoubtKept DEF InDoubtFresh
<1>7. (obs.woken /\ obs.pc = "waitOwner" /\ pendingSubmit # NoAttempt => ~Unseen(pendingSubmit.id))'
  BY WokenKept
<1>8. (\A t \in adoptedTerminalTurnIds : Past(t))'
  BY AdoptedKept
<1>9. (\A a \in observedSubmitAttempts : a.id \in adoptedTerminalTurnIds)'
  BY ObservedKept
<1>10. (\A t \in Turns : sinks[t].live /\ ~sinks[t].adopted => pendingSubmit.id # t)'
  BY NativeKept
<1> QED
  BY <1>1, <1>2, <1>3, <1>4, <1>5, <1>6, <1>7, <1>8, <1>9, <1>10 DEF Attempts

LEMMA InvKept ==
  ASSUME Inv, [Next]_vars
  PROVE  Inv'
BY TypeKept, ObsShapeKept, CallShapeKept, MadeKept, QueueKept, ReachKept, AttemptsKept DEF Inv

--------------------------------------------------------------------------------
(* The invariant holds.                                                    *)

LEMMA InitInv ==
  ASSUME Init
  PROVE  Inv
<1> USE DEF Init
<1>1. Len(log) = 0 /\ Events = {}
  BY DEF Events
<1>2. /\ Idle = [pc |-> "idle", digest |-> 0, id |-> 0, aborted |-> FALSE, message |-> 0]
      /\ pc = "idle" /\ message = 0 /\ request.id = 0
  BY DEF Idle, pc, message
<1>3. /\ obs.pc = "read" /\ obs.at = 1 /\ ~obs.woken /\ obs.todo = <<>> /\ obs \in ObsType
  <2>1. <<>> \in Seq(OpType)
    OBVIOUS
  <2> QED
    BY <2>1 DEF Observer, ObsType
<1>4. \A t \in Turns : sinks[t] = NoSink /\ ~sinks[t].live /\ ~sinks[t].adopted /\ sinks[t].text = 0
  BY SinkValues
<1>5. /\ DOMAIN writes = {} /\ Range(admitted) = {} /\ DOMAIN obs.todo = {}
  BY <1>3 DEF Range
<1>6. TypeOK
  <2>1. NoSink \in SinkType
    BY <1>1 DEF NoSink, SinkType
  <2>2. binding \in BindingType
    BY <1>1 DEF BindingType
  <2>3. request \in RequestType
    BY <1>1, <1>2 DEF RequestType
  <2>4. log \in Seq(EventType) /\ admitted \in Seq(Turns) /\ writes \in Seq(WriteType)
    OBVIOUS
  <2>5. sinks \in [Turns -> SinkType]
    BY <2>1
  <2> HIDE DEF Init
  <2>6. /\ cancelled = {} /\ transcript = {} /\ made = 0 /\ sent = {} /\ call = NoAttempt /\ late = "none"
        /\ pendingSubmit = NoAttempt /\ recoveringAfterAbort = {}
        /\ correlated = {} /\ observedSubmitAttempts = {}
        /\ ownedSubmissions = {} /\ undurableSinks = {} /\ adoptedTerminalTurnIds = {}
        /\ terminalCursor = 0 /\ receipts = {} /\ life = "up" /\ failed = FALSE /\ troubles = 0
        /\ twice = {} /\ skipped = {} /\ discarded = {} /\ dropped = {}
    BY DEF Init
  <2>7. 0 \in 0..MaxTurns /\ 0 \in 0..Len(log)
    BY <1>1
  <2> QED
    BY <1>3, <2>2, <2>3, <2>4, <2>5, <2>6, <2>7 DEF TypeOK
<1>7. ObsShape
  BY <1>1, <1>3, <1>4 DEF ObsShape, ObsOK, Planned, Reading, Working
<1>8. CallShape
  BY <1>2, <1>4 DEF CallShape
<1>9. Made
  <2>1. pendingSubmit.id = 0 /\ call.id = 0
    BY DEF NoAttempt
  <2> QED
    BY <1>1, <1>2, <1>4, <1>5, <2>1 DEF Made
<1>10. Queue
  BY <1>5 DEF Queue
<1>11. Reach
  BY <1>1, <1>3 DEF Reach
<1>12. Attempts
  BY <1>2, <1>3, <1>4 DEF Attempts, Asked
<1> QED
  BY <1>6, <1>7, <1>8, <1>9, <1>10, <1>11, <1>12 DEF Inv

\* The parts of the invariant hold of every state of e4-agent-stream.ts.
THEOREM InvCorrect == Spec => []Inv
<1>1. Init => Inv
  BY InitInv
<1>2. Inv /\ [Next]_vars => Inv'
  BY InvKept
<1> QED
  BY <1>1, <1>2, PTL DEF Spec

\* The observer, the stream call, the sinks and the queue of writes of
\* e4-agent-stream.ts keep their types, for any number of turns and prompts.
THEOREM TypeCorrect == Spec => []TypeOK
<1>1. Inv => TypeOK
  BY DEF Inv
<1> QED
  BY <1>1, InvCorrect, PTL

--------------------------------------------------------------------------------
(* A turn that runs is followed.                                           *)

(* An attempt whose turn this process knows of is streamed, or is over, or *)
(* the engine was asked to cancel it.                                      *)
Follows(t) ==
  \/ Over(t) \/ t \in cancelled
  \/ sinks[t].live /\ ~sinks[t].left /\ ~sinks[t].adopted
  \/ pc = "own" /\ request.id = t

LEMMA CancelCancels ==
  ASSUME NEW S, Cancel(S), NEW t \in S
  PROVE  Over(t) \/ t \in cancelled'
BY DEF Cancel

LEMMA CancelKept ==
  ASSUME TypeOK, [Next]_vars, NEW t \in cancelled
  PROVE  Over(t)' \/ t \in cancelled'
<1>1. CASE UNCHANGED vars
  BY <1>1 DEF vars
<1>2. CASE (\E p \in Prompts : Stream(p)) \/ StreamStep \/ Abort \/ Consume
  BY <1>2 DEF Stream, Invalidated, Cancel, StreamStep, Submit, Receipt, Installed, Rejected, Abort, Consume
<1>3. CASE LateStep \/ ObserveStep \/ Woken \/ WriteStep
  BY <1>3 DEF LateStep, LateReceipt, LateRejected, ObserveStep, Observe, StoreMessage, Commit, CloseSink,
       Woken, ObserveUnchanged, ApplyUnchanged, WriteStep, WrittenObserved, WrittenHeld, WrittenOwn, WrittenLate,
       Installed, Cancel
<1>4. CASE ObserverLost \/ BeginClose \/ CloseInterrupt \/ CloseCommit \/ WrittenClose \/ Crash \/ Restart
  BY <1>4 DEF ObserverLost, BeginClose, FailedSinks, Cancel, CloseInterrupt, CloseCommit, WrittenClose, Crash, Restart
<1>5. CASE Admit
  BY <1>5 DEF Admit
<1>6. CASE EmitForeign \/ \E u \in Turns, k \in Kinds : Emit(u, k)
  <2>1. PICK x \in EventType : Emits(x)
    BY <1>6, LogSteps
  <2>2. CASE x.turn = t /\ x.kind \in Terminal
    <3>1. Len(log) + 1 \in Events' /\ log'[Len(log) + 1] = x
      BY <2>1, Grown DEF Emits
    <3> QED
      BY <2>2, <3>1 DEF Over
  <2> QED
    BY <2>1, <2>2 DEF Emits
<1> QED
  BY <1>1, <1>2, <1>3, <1>4, <1>5, <1>6 DEF Next

LEMMA InstalledFollows ==
  ASSUME Inv, NEW t \in Turns, Installed(t)
  PROVE  \/ Over(t) \/ t \in cancelled'
         \/ sinks'[t].live /\ ~sinks'[t].left /\ ~sinks'[t].adopted
<1>0. sinks \in [Turns -> SinkType]
  BY DEF Inv, TypeOK
<1>1. CASE Unwanted
  BY <1>1, CancelCancels DEF Installed
<1>2. CASE ~Unwanted
  <2>1. PICK x : x = [NewSink(FALSE) EXCEPT !.left = request.aborted]
    OBVIOUS
  <2>2. x.live /\ ~x.adopted /\ x.left = request.aborted
    BY <2>1, SinkValues
  <2>3. sinks' = [sinks EXCEPT ![t] = x] /\ ~request.aborted
    BY <1>2, <2>1 DEF Installed, Unwanted
  <2> QED
    BY <1>0, <2>2, <2>3
<1> QED
  BY <1>1, <1>2

LEMMA OwnLeaves ==
  ASSUME Inv, [Next]_vars, pc = "own", ~Crash, ~Restart
  PROVE  (pc' = "own" /\ request'.id = request.id) \/ (WrittenOwn /\ Installed(request.id))
<1> USE DEF pc
<1>0. TypeOK
  BY DEF Inv
<1>1. CASE WrittenOwn
  BY <1>1 DEF WrittenOwn
<1>2. ~StreamStep /\ ~Consume /\ ~CloseInterrupt /\ ~\E p \in Prompts : Stream(p)
  BY DEF StreamStep, Submit, Receipt, Rejected, Consume, CloseInterrupt, Stream
<1>3. ~WrittenHeld
  BY QueueHead DEF WrittenHeld
<1>4. CASE Abort
  <2>1. [request EXCEPT !.aborted = TRUE].pc = pc /\ [request EXCEPT !.aborted = TRUE].id = request.id
    BY <1>0, RequestForms DEF Is
  <2> QED
    BY <1>4, <2>1 DEF Abort
<1>5. CASE ~WrittenOwn /\ ~Abort /\ Next
  <2>1. ~Completes(obs.at, log[obs.at].turn) \/ sinks[log[obs.at].turn].left
    BY DEF Completes, Inv, CallShape
  <2>2. UNCHANGED request
    BY <1>2, <1>3, <1>5, <2>1, OtherMoves
  <2> QED
    BY <2>2
<1> QED
  BY <1>1, <1>4, <1>5 DEF vars

(* A stream that ends was followed to its end, or its turn is cancelled.   *)
LEMMA StreamKept ==
  ASSUME Inv, [Next]_vars, ~Crash, ~Restart, NEW t \in Turns,
         sinks[t].live, ~sinks[t].left, ~sinks[t].adopted
  PROVE  \/ Over(t)' \/ t \in cancelled'
         \/ sinks'[t].live /\ ~sinks'[t].left /\ ~sinks'[t].adopted
<1>0. TypeOK /\ sinks \in [Turns -> SinkType] /\ Attempts
  BY DEF Inv, TypeOK
<1>o. Over(t) => Over(t)'
  BY <1>0, OverGrows
<1>1. CASE UNCHANGED sinks
  BY <1>1
<1>2. CASE Opens
  <2>1. PICK x : sinks' = [sinks EXCEPT ![request.id] = x]
    BY <1>2 DEF Opens
  <2>2. request.id # t
    <3>1. pc = "submit" => Fresh(request.id)
      BY <1>0 DEF Attempts
    <3>2. pc = "own" => Unseen(request.id)
      BY <1>0 DEF Attempts
    <3>3. ~sinks[request.id].live
      BY <1>0, <1>2, <3>1, <3>2 DEF Opens, Fresh, Unseen, Attempts, Past
    <3> QED
      BY <3>3
  <2> QED
    BY <1>0, <2>1, <2>2
<1>3. CASE Abandons
  <2>1. sinks' = [sinks EXCEPT ![request.id].left = TRUE]
    BY <1>3 DEF Abandons
  <2>2. Cancel({request.id})
    BY <1>3 DEF Abandons, Abort
  <2>3. CASE t = request.id
    BY <1>o, <2>2, <2>3, CancelCancels
  <2>4. CASE t # request.id
    BY <1>0, <2>1, <2>4
  <2> QED
    BY <2>3, <2>4
<1>4. CASE Resets
  <2>1. Cancel(Natives)
    BY <1>4 DEF Resets, Invalidated, ObserverLost, BeginClose, FailedSinks
  <2>2. t \in Natives
    BY DEF Natives
  <2> QED
    BY <1>o, <2>1, <2>2, CancelCancels
<1>5. CASE CloseSink
  <2>1. PICK u : u = Head(obs.todo).t
    OBVIOUS
  <2>2. sinks' = [sinks EXCEPT ![u] = NoSink]
    BY <1>5, <2>1 DEF CloseSink
  <2>3. CASE u = t
    <3>1. Over(t)
      BY <1>5, <2>1, <2>3, Closes DEF Over
    <3> QED
      BY <1>o, <3>1
  <2>4. CASE u # t
    BY <1>0, <2>2, <2>4
  <2> QED
    BY <2>3, <2>4
<1>6. CASE Observe \/ Woken
  <2>1. obs.at \in Events
    BY <1>6, ObserverMoves
  <2>2. PICK u : u = log[obs.at].turn
    OBVIOUS
  <2>3. CASE Completes(obs.at, u)
    <3>1. sinks' = [sinks EXCEPT ![u] = NoSink] /\ log[obs.at].kind \in Terminal
      BY <2>3 DEF Completes, NativeTerminal
    <3>2. u = t => Over(t)
      BY <2>1, <2>2, <3>1 DEF Over
    <3> QED
      BY <1>0, <1>o, <3>1, <3>2
  <2>4. CASE Shows(obs.at, u)
    <3>1. PICK x \in SinkType : /\ sinks' = [sinks EXCEPT ![u] = x] /\ x.live
                                /\ x.adopted = SinkFor(u).adopted /\ x.left = SinkFor(u).left
      BY <2>4 DEF Shows
    <3>2. t # u => sinks'[t] = sinks[t]
      BY <1>0, <3>1
    <3>3. t = u => sinks'[t] = x
      BY <1>0, <3>1
    <3>4. SinkFor(t) = sinks[t]
      BY DEF SinkFor
    <3> QED
      BY <3>1, <3>2, <3>3, <3>4
  <2>5. CASE UNCHANGED sinks
    BY <1>1, <2>5
  <2> QED
    BY <1>6, <2>2, <2>3, <2>4, <2>5, ObserverMoves DEF Waits, Waiting, Takes, Passes, Still
<1> QED
  BY <1>0, <1>1, <1>2, <1>3, <1>4, <1>5, <1>6, SinksMove DEF SinkMoves

LEMMA FollowsKept ==
  ASSUME Inv, [Next]_vars, ~Crash, ~Restart, NEW t \in Turns, Follows(t)
  PROVE  Follows(t)'
<1>0. TypeOK
  BY DEF Inv
<1>1. CASE Over(t)
  BY <1>0, <1>1, OverGrows DEF Follows
<1>2. CASE t \in cancelled
  BY <1>0, <1>2, CancelKept DEF Follows
<1>3. CASE sinks[t].live /\ ~sinks[t].left /\ ~sinks[t].adopted
  BY <1>3, StreamKept DEF Follows
<1>4. CASE pc = "own" /\ request.id = t
  <2>1. CASE pc' = "own" /\ request'.id = request.id
    BY <1>4, <2>1 DEF Follows
  <2>2. CASE Installed(request.id)
    <3>1. \/ Over(t) \/ t \in cancelled'
          \/ sinks'[t].live /\ ~sinks'[t].left /\ ~sinks'[t].adopted
      BY <1>4, <2>2, InstalledFollows
    <3> QED
      BY <1>0, <3>1, OverGrows DEF Follows
  <2> QED
    BY <1>4, <2>1, <2>2, OwnLeaves
<1> QED
  BY <1>1, <1>2, <1>3, <1>4 DEF Follows

LEMMA NewFollowed ==
  ASSUME Inv, [Next]_vars, NEW t \in Turns, t \in correlated', t \notin correlated
  PROVE  Follows(t)'
<1> USE DEF pc
<1>0. TypeOK /\ Attempts
  BY DEF Inv
<1>o. Over(t) \/ t \in cancelled' => Follows(t)'
  BY <1>0, OverGrows DEF Follows
<1>a. t \in adoptedTerminalTurnIds => Over(t)
  BY <1>0 DEF Attempts, Past
<1>1. CASE Receipt /\ pc = "submit" /\ call.id = request.id /\ t = request.id
  <2>1. \/ t \in adoptedTerminalTurnIds \/ sinks[t].adopted
        \/ Installed(t)
        \/ request' = [request EXCEPT !.pc = "own"]
    BY <1>1 DEF Receipt
  <2>2. CASE t \in adoptedTerminalTurnIds \/ sinks[t].adopted
    <3>1. Fresh(t)
      BY <1>0, <1>1 DEF Attempts
    <3>2. sinks[t].adopted => sinks[t].live
      BY DEF Inv, CallShape
    <3> QED
      BY <1>o, <1>a, <2>2, <3>1, <3>2 DEF Fresh, Unseen
  <2>3. CASE Installed(t)
    BY <1>o, <2>3, InstalledFollows DEF Follows
  <2>4. CASE request' = [request EXCEPT !.pc = "own"]
    <3>1. [request EXCEPT !.pc = "own"].pc = "own" /\ [request EXCEPT !.pc = "own"].id = request.id
      BY <1>0, RequestForms DEF Is
    <3> QED
      BY <1>1, <2>4, <3>1 DEF Follows
  <2> QED
    BY <2>1, <2>2, <2>3, <2>4
<1>2. CASE Cancel({t}) \/ t \in adoptedTerminalTurnIds
  BY <1>o, <1>a, <1>2, CancelCancels
<1> QED
  BY <1>1, <1>2, CorrelatedMove DEF CorrelatedMoves

LEMMA FollowedKept ==
  ASSUME Inv, Followed, [Next]_vars
  PROVE  Followed'
<1>1. correlated \subseteq Turns /\ correlated' \subseteq Turns
  BY TypeKept DEF Inv, TypeOK
<1>2. ASSUME NEW t \in correlated' PROVE Follows(t)'
  <2>1. ~Crash /\ ~Restart
    BY DEF Crash, Restart, Forgotten
  <2>2. CASE t \in correlated
    <3>1. Follows(t)
      BY <2>2 DEF Followed, Follows
    <3> QED
      BY <1>1, <2>1, <2>2, <3>1, FollowsKept
  <2> QED
    BY <1>1, <2>2, NewFollowed
<1> QED
  BY <1>2 DEF Followed, Follows

\* A turn whose submission the stream function of e4-agent-stream.ts took for
\* its own is followed by a sink until its end, or was cancelled at the engine:
\* neither an abort, nor a late answer, nor the loss of the observer leaves one
\* running unseen.
THEOREM RunsAreFollowed == Spec => []NoneRunsUnseen
<1>1. Init => Followed
  BY DEF Init, Followed
<1>2. Inv /\ Inv' /\ Followed /\ [Next]_vars => Followed'
  BY FollowedKept
<1>3. Followed => NoneRunsUnseen
  BY DEF Followed, NoneRunsUnseen
<1> QED
  BY <1>1, <1>2, <1>3, InvCorrect, PTL DEF Spec

--------------------------------------------------------------------------------
(* The message is stored before the cursor passes it.                      *)

(* What a step does to the cursor that is held back, and to the durable    *)
(* one.                                                                    *)
TerminalMoves ==
  \/ UNCHANGED terminalCursor
  \/ /\ Commit /\ terminalCursor # 0 /\ terminalCursor' = Head(obs.todo).e /\ obs.pc = "apply"
     /\ UNCHANGED <<writes, binding>> /\ obs' = Advanced(life = "up" /\ ~failed)
  \/ /\ (Observe \/ Woken) /\ obs.at \in Events /\ obs.pc \in Reading /\ terminalCursor' = obs.at
     /\ Completes(obs.at, log[obs.at].turn)
  \/ WrittenHeld \/ WrittenClose \/ ((Crash \/ Restart) /\ terminalCursor' = 0)

LEMMA TerminalMove ==
  ASSUME Inv, [Next]_vars
  PROVE  TerminalMoves
<1> USE DEF projection, TerminalMoves
<1>1. CASE UNCHANGED vars
  BY <1>1 DEF vars
<1>2. CASE (\E p \in Prompts : Stream(p)) \/ StreamStep \/ Abort \/ Consume
  BY <1>2 DEF Stream, StreamStep, Submit, Receipt, Rejected, Abort, Consume
<1>3. CASE LateStep \/ StoreMessage \/ CloseSink
  BY <1>3 DEF LateStep, LateReceipt, LateRejected, StoreMessage, CloseSink
<1>4. CASE Commit
  BY <1>4 DEF Commit, ApplyUnchanged, Held
<1>5. CASE Observe \/ Woken
  <2>1. /\ obs.pc \in Reading /\ obs.at \in Events
        /\ Waits \/ Takes(obs.at, log[obs.at].turn)
    BY <1>5, ObserverMoves
  <2>2. CASE Waits \/ Passes(obs.at) \/ Shows(obs.at, log[obs.at].turn)
    BY <2>2 DEF Waits, Waiting, Passes, Still, Shows
  <2>3. CASE Completes(obs.at, log[obs.at].turn)
    <3>1. \A e, t : Completes(e, t) => terminalCursor' = e
      <4> USE DEF Completes, NativeTerminal
      <4> QED
        OBVIOUS
    <3>2. terminalCursor' = obs.at
      BY <2>3, <3>1
    <3>3. (Observe \/ Woken) /\ obs.at \in Events /\ obs.pc \in Reading
      BY <1>5, <2>1
    <3> QED
      BY <2>3, <3>2, <3>3
  <2> QED
    BY <2>1, <2>2, <2>3 DEF Takes
<1>6. CASE WriteStep
  BY <1>6 DEF WriteStep, WrittenObserved, WrittenHeld, WrittenOwn, WrittenLate
<1>7. CASE ObserverLost \/ BeginClose \/ CloseInterrupt \/ CloseCommit \/ WrittenClose \/ Crash \/ Restart
  BY <1>7 DEF ObserverLost, BeginClose, CloseInterrupt, CloseCommit, Crash, Restart, Forgotten
<1>8. CASE Admit \/ EmitForeign \/ \E t \in Turns, k \in Kinds : Emit(t, k)
  BY <1>8 DEF Admit, EmitForeign, Emit
<1> QED
  BY <1>1, <1>2, <1>3, <1>4, <1>5, <1>6, <1>7, <1>8 DEF Next, ObserveStep

LEMMA CursorsTyped ==
  ASSUME TypeOK
  PROVE  /\ binding.cursor \in Nat /\ terminalCursor \in Nat /\ Len(log) \in Nat /\ obs.at \in Nat /\ message \in Nat
         /\ \A i \in DOMAIN writes : writes[i].cursor \in Nat
         /\ \A e \in Events : e \in Nat /\ e >= 1
<1>1. Len(log) \in Nat
  BY DEF TypeOK
<1>2. binding.cursor \in Nat /\ terminalCursor \in Nat /\ obs.at \in Nat /\ message \in Nat
  BY <1>1 DEF TypeOK, BindingType, ObsType, RequestType, message
<1>3. \A i \in DOMAIN writes : writes[i] \in WriteType
  BY DEF TypeOK
<1>4. \A i \in DOMAIN writes : writes[i].cursor \in Nat
  BY <1>1, <1>3 DEF WriteType
<1> QED
  BY <1>1, <1>2, <1>4 DEF Events

(* The queue and the durable cursor, as far as cursors go.                 *)
CursorMoves ==
  \/ UNCHANGED <<writes, binding>>
  \/ (Crash \/ Restart) /\ writes' = <<>>
  \/ /\ WriteDone /\ binding'.cursor \in {binding.cursor, writes[1].cursor} /\ 1 \in DOMAIN writes
     /\ \A i \in DOMAIN writes' : i + 1 \in DOMAIN writes /\ writes'[i] = writes[i + 1]
  \/ /\ UNCHANGED binding
     /\ \E w \in WriteType :
          /\ DOMAIN writes' = DOMAIN writes \cup {Len(writes) + 1}
          /\ \A i \in DOMAIN writes : writes'[i] = writes[i] /\ i # Len(writes) + 1 /\ i < Len(writes) + 1
          /\ writes'[Len(writes) + 1] = w
          /\ \/ w.cursor = 0
             \/ w.cursor = terminalCursor /\ terminalCursor # 0 /\ pc = "idle" /\ UNCHANGED obs
             \/ w.cursor = terminalCursor /\ life' = "committing" /\ UNCHANGED obs
             \/ /\ Commit /\ w.cursor = Head(obs.todo).e /\ obs.pc = "apply" /\ terminalCursor = 0
                /\ obs' = [obs EXCEPT !.pc = "write"] /\ UNCHANGED terminalCursor

LEMMA CursorMove ==
  ASSUME Inv, [Next]_vars
  PROVE  CursorMoves
<1>0. TypeOK
  BY DEF Inv
<1>1. CASE UNCHANGED <<writes, binding>>
  BY <1>1 DEF CursorMoves
<1>2. CASE writes' = <<>> /\ (Crash \/ Restart)
  BY <1>2 DEF CursorMoves
<1>3. CASE WriteDone
  <2>1. PICK by \in {"own", "late", "held", "obs", "close"} : Written(by)
    BY <1>3 DEF WriteDone
  <2>2. /\ \A i \in DOMAIN writes' : i + 1 \in DOMAIN writes /\ writes'[i] = writes[i + 1]
        /\ 1 \in DOMAIN writes /\ Head(writes) = writes[1]
    BY <1>0, <2>1, QueueTail
  <2>3. binding \in BindingType
    BY <1>0 DEF TypeOK
  <2>4. binding'.cursor \in {binding.cursor, Head(writes).cursor}
    BY <2>1, <2>3 DEF Written, BindingType
  <2> QED
    BY <1>3, <2>2, <2>4 DEF CursorMoves
<1>4. CASE Persists /\ UNCHANGED binding
  <2>1. ASSUME NEW w \in WriteType, Persist(w),
               \/ w.cursor = 0
               \/ w.cursor = terminalCursor /\ terminalCursor # 0 /\ pc = "idle" /\ UNCHANGED obs
               \/ w.cursor = terminalCursor /\ life' = "committing" /\ UNCHANGED obs
               \/ /\ Commit /\ w.cursor = Head(obs.todo).e /\ obs.pc = "apply" /\ terminalCursor = 0
                  /\ obs' = [obs EXCEPT !.pc = "write"] /\ UNCHANGED terminalCursor
        PROVE  CursorMoves
    <3>1. /\ DOMAIN writes' = DOMAIN writes \cup {Len(writes) + 1}
          /\ \A i \in DOMAIN writes : writes'[i] = writes[i] /\ i # Len(writes) + 1 /\ i < Len(writes) + 1
          /\ writes'[Len(writes) + 1] = w
      BY <1>0, <2>1, QueueGrown
    <3> QED
      BY <1>4, <2>1, <3>1 DEF CursorMoves
  <2>2. terminalCursor \in 0..Len(log) /\ (obs.pc = "apply" => Head(obs.todo).e \in 0..Len(log))
    BY <1>0, OpNow DEF TypeOK, Events
  <2>3. CASE \E p \in Prompts : Stream(p) /\ Persist(CursorWrite("held", terminalCursor, ownedSubmissions))
                                 /\ terminalCursor # 0 /\ undurableSinks = {}
    <3>1. PICK w : w = CursorWrite("held", terminalCursor, ownedSubmissions)
      OBVIOUS
    <3>2. w \in WriteType /\ w.cursor = terminalCursor
      BY <1>0, <2>2, <3>1, WritesTyped
    <3>3. pc = "idle" /\ UNCHANGED obs
      BY <2>3 DEF Stream
    <3> QED
      BY <2>1, <2>3, <3>1, <3>2, <3>3
  <2>4. ASSUME NEW t \in Turns, NEW by \in {"own", "late"}, Persist(OwnWrite(by, t))
        PROVE  CursorMoves
    <3>1. PICK w : w = OwnWrite(by, t)
      OBVIOUS
    <3>2. w \in WriteType /\ w.cursor = 0
      BY <1>0, <3>1, WritesTyped
    <3> QED
      BY <2>1, <2>4, <3>1, <3>2
  <2>5. CASE Commit /\ Persist(CursorWrite("obs", Head(obs.todo).e, ownedSubmissions)) /\ obs.pc = "apply"
             /\ terminalCursor = 0
    <3>1. PICK w : w = CursorWrite("obs", Head(obs.todo).e, ownedSubmissions)
      OBVIOUS
    <3>2. w \in WriteType /\ w.cursor = Head(obs.todo).e
      BY <1>0, <2>2, <2>5, <3>1, WritesTyped
    <3>3. writes' # writes
      BY <1>0, <2>5, <3>1, <3>2, QueueGrown
    <3>4. obs' = [obs EXCEPT !.pc = "write"] /\ UNCHANGED terminalCursor
      BY <2>5, <3>3 DEF Commit
    <3> QED
      BY <2>1, <2>5, <3>1, <3>2, <3>4
  <2>6. CASE CloseCommit /\ Persist(CursorWrite("close", terminalCursor, ownedSubmissions)) /\ life' = "committing"
    <3>1. PICK w : w = CursorWrite("close", terminalCursor, ownedSubmissions)
      OBVIOUS
    <3>2. w \in WriteType /\ w.cursor = terminalCursor
      BY <1>0, <2>2, <3>1, WritesTyped
    <3>3. UNCHANGED obs
      BY <2>6 DEF CloseCommit
    <3> QED
      BY <2>1, <2>6, <3>1, <3>2, <3>3
  <2> QED
    BY <1>4, <2>3, <2>4, <2>5, <2>6 DEF Persists
<1> QED
  BY <1>1, <1>2, <1>3, <1>4, QueueMove DEF QueueMoves

LEMMA ReachedKept ==
  ASSUME Inv, [Next]_vars, ~Restart, NEW x \in Nat, Reached(x),
         obs.pc = "apply" /\ Commit => Head(obs.todo).e <= x,
         (Observe \/ Woken) /\ Completes(obs.at, log[obs.at].turn) => obs.at <= x
  PROVE  Reached(x)'
<1>0. TypeOK
  BY DEF Inv
<1>1. /\ binding.cursor <= x /\ terminalCursor <= x /\ \A i \in DOMAIN writes : writes[i].cursor <= x
      /\ 0 <= x
  BY DEF Reached
<1>2. terminalCursor' <= x
  <2>1. CASE WrittenHeld \/ WrittenClose
    BY <1>1, <2>1 DEF WrittenHeld, WrittenClose
  <2> QED
    BY <1>1, <2>1, TerminalMove DEF TerminalMoves
<1>3. binding'.cursor <= x
  <2>1. Crash => UNCHANGED binding
    BY DEF Crash
  <2> QED
    BY <1>1, <2>1, CursorMove DEF CursorMoves
<1>4. \A i \in DOMAIN writes' : writes'[i].cursor <= x
  <2>1. CASE UNCHANGED writes
    BY <1>1, <2>1
  <2>2. CASE writes' = <<>>
    BY <2>2
  <2>3. CASE \A i \in DOMAIN writes' : i + 1 \in DOMAIN writes /\ writes'[i] = writes[i + 1]
    BY <1>1, <2>3
  <2>4. ASSUME NEW w \in WriteType, w.cursor <= x,
               DOMAIN writes' = DOMAIN writes \cup {Len(writes) + 1},
               \A i \in DOMAIN writes : writes'[i] = writes[i],
               writes'[Len(writes) + 1] = w
        PROVE  \A i \in DOMAIN writes' : writes'[i].cursor <= x
    BY <1>1, <2>4
  <2> QED
    BY <1>1, <2>1, <2>2, <2>3, <2>4, CursorMove DEF CursorMoves
<1> QED
  BY <1>2, <1>3, <1>4 DEF Reached

LEMMA ReachedAt ==
  ASSUME NEW x
  PROVE  /\ x = obs.at => (Reached(x) <=> Reached(obs.at))
         /\ x = obs.at - 1 => (Reached(x) <=> Reached(obs.at - 1))
         /\ x = obs'.at => (Reached(x)' <=> Reached(obs.at)')
         /\ x = obs'.at - 1 => (Reached(x)' <=> Reached(obs.at - 1)')
BY DEF Reached

LEMMA BoundKept ==
  ASSUME Inv, Bound, [Next]_vars
  PROVE  Bound'
<1> USE DEF Working
<1>0. /\ TypeOK /\ obs \in ObsType /\ ObsOK(obs) /\ obs.at \in Nat /\ ObsMoves
      /\ (obs.pc # "stopped" => obs.at >= 1) /\ (obs.pc # "stopped" => obs.at - 1 \in Nat)
  <2>1. /\ TypeOK /\ obs \in ObsType /\ ObsOK(obs) /\ obs.at \in Nat /\ ObsMoves
    BY ObsMove DEF Inv, ObsShape, TypeOK, ObsType
  <2>2. obs.pc # "stopped" => obs.at >= 1
    BY <2>1 DEF ObsOK
  <2> QED
    BY <2>1, <2>2
<1>a. obs.pc = "apply" /\ Commit => Head(obs.todo).e <= obs.at
  BY OpNow
<1>f. /\ \A n : Observer("read", n).pc = "read" /\ Observer("read", n).at = n
      /\ Stopped.pc = "stopped"
  BY DEF Observer, Stopped
<1>g. ASSUME NEW x \in Nat, Reached(x)',
             \/ obs'.pc \in Reading /\ x = obs'.at - 1
             \/ obs'.pc \in {"apply", "write"} /\ x = obs'.at
             \/ obs'.pc = "stopped"
      PROVE  Bound'
  BY <1>g, ReachedAt DEF Bound, Reading
<1>1. CASE Restart
  <2>1. PICK over \in BOOLEAN : /\ obs' = Observer("read", RecoveredCursor(over) + 1)
                                /\ binding' = [binding EXCEPT !.cursor = RecoveredCursor(over)]
    BY <1>1 DEF Restart
  <2>2. PICK x : x = RecoveredCursor(over)
    OBVIOUS
  <2>3. x \in Nat
    BY <1>0, <2>2, CursorsTyped DEF RecoveredCursor
  <2>4. writes' = <<>> /\ terminalCursor' = 0
    BY <1>1 DEF Restart, Forgotten
  <2>5. binding'.cursor = x
    BY <1>0, <2>1, <2>2 DEF TypeOK, BindingType
  <2>6. Reached(x)'
    BY <2>3, <2>4, <2>5 DEF Reached
  <2>7. obs'.pc = "read" /\ x = obs'.at - 1
    BY <1>f, <2>1, <2>2, <2>3
  <2> QED
    BY <1>g, <2>3, <2>6, <2>7 DEF Reading
<1>2. CASE ~Restart /\ obs.pc = "stopped"
  <2>1. obs'.pc = "stopped"
    BY <1>2, OnwardMove DEF Onward
  <2> QED
    BY <2>1 DEF Bound, Reading
<1>3. CASE ~Restart /\ obs.pc \in {"apply", "write"}
  <2>1. ~(Observe \/ Woken)
    BY <1>3, ObserverMoves DEF Reading
  <2>2. PICK x : x = obs.at
    OBVIOUS
  <2>3. Reached(x) /\ x \in Nat
    BY <1>0, <1>3, <2>2, ReachedAt DEF Bound
  <2>4. Reached(x)'
    BY <1>0, <1>a, <1>3, <2>1, <2>2, <2>3, ReachedKept
  <2>5. \/ obs'.pc \in {"apply", "write"} /\ obs'.at = obs.at
        \/ obs' = Observer("read", obs.at + 1)
        \/ obs'.pc = "stopped"
    <3>1. CASE Quiet
      BY <1>0, <1>3, <3>1, NotifiedOK DEF Quiet
    <3>2. CASE Halts
      BY <1>0, <1>3, <3>2 DEF Halts, Halted
    <3>3. CASE Advances
      <4> DEFINE up == life = "up" /\ ~failed
      <4>0. obs.todo # <<>> /\ up \in BOOLEAN
        BY <1>0, <1>3 DEF ObsOK
      <4> QED
        BY <1>0, <1>f, <3>3, <4>0, AdvancedOK DEF Advances
    <3>4. CASE Flushes
      BY <1>0, <3>4 DEF Flushes, ObsType
    <3>5. CASE Crash
      BY <1>f, <3>5 DEF Crash
    <3> QED
      BY <1>0, <1>3, <2>1, <3>1, <3>2, <3>3, <3>4, <3>5 DEF ObsMoves
  <2>6. CASE obs' = Observer("read", obs.at + 1)
    <3>1. obs'.pc = "read" /\ obs'.at = obs.at + 1
      BY <1>f, <2>6
    <3>2. x = obs'.at - 1
      BY <2>2, <2>3, <3>1
    <3> QED
      BY <1>g, <2>3, <2>4, <3>1, <3>2 DEF Reading
  <2> QED
    BY <1>g, <2>2, <2>3, <2>4, <2>5, <2>6
<1>4. CASE ~Restart /\ obs.pc \in Reading
  <2>0. obs.pc # "stopped" /\ obs.pc # "apply" /\ obs.pc # "write"
    BY <1>4 DEF Reading
  <2>1. PICK x : x = obs.at - 1
    OBVIOUS
  <2>2. Reached(x) /\ x \in Nat
    BY <1>0, <1>4, <2>0, <2>1, ReachedAt DEF Bound
  <2>3. CASE ~(Observe \/ Woken)
    <3>1. Reached(x)'
      BY <1>4, <2>0, <2>2, <2>3, ReachedKept
    <3>2. (obs'.pc \in Reading /\ obs'.at = obs.at) \/ obs'.pc = "stopped"
      <4>1. CASE Quiet
        BY <1>0, <1>4, <4>1, NotifiedOK DEF Quiet
      <4>2. CASE Halts
        BY <1>f, <2>0, <4>2 DEF Halts, Halted
      <4>3. CASE Crash
        BY <1>f, <4>3 DEF Crash
      <4> QED
        BY <1>0, <1>4, <2>0, <2>3, <4>1, <4>2, <4>3 DEF ObsMoves, Advances, Flushes
    <3> QED
      BY <1>g, <2>1, <2>2, <3>1, <3>2
  <2>4. CASE Observe \/ Woken
    <3>1. /\ obs.at \in Events
          /\ Waits \/ Takes(obs.at, log[obs.at].turn)
      BY <2>4, ObserverMoves
    <3>2. CASE Waits
      <4>1. obs'.pc \in {"wait", "waitOwner"} /\ obs'.at = obs.at
        BY <1>0, <3>2 DEF Waits, Waiting, ObsType
      <4>2. ~Completes(obs.at, log[obs.at].turn)
        BY <1>f, <4>1 DEF Completes
      <4>3. Reached(x)'
        BY <1>4, <2>0, <2>2, <4>2, ReachedKept
      <4> QED
        BY <1>g, <2>1, <2>2, <4>1, <4>3 DEF Reading
    <3>3. CASE Takes(obs.at, log[obs.at].turn)
      <4>1. PICK y : y = obs.at
        OBVIOUS
      <4>2. Reached(y) /\ y \in Nat
        <5>1. y \in Nat /\ x <= y /\ x \in Nat
          BY <1>0, <2>1, <2>2, <4>1
        <5>2. binding.cursor <= x /\ terminalCursor <= x /\ \A i \in DOMAIN writes : writes[i].cursor <= x
          BY <2>2 DEF Reached
        <5>3. /\ binding.cursor \in Nat /\ terminalCursor \in Nat
              /\ \A i \in DOMAIN writes : writes[i].cursor \in Nat
          BY <1>0, CursorsTyped
        <5>4. binding.cursor <= y /\ terminalCursor <= y /\ \A i \in DOMAIN writes : writes[i].cursor <= y
          BY <5>1, <5>2, <5>3
        <5> QED
          BY <5>1, <5>4 DEF Reached
      <4>3. obs.at <= y
        BY <4>1, <4>2
      <4>4. Reached(y)'
        BY <1>4, <2>0, <4>2, <4>3, ReachedKept
      <4>5. \/ obs' = Observer("read", obs.at + 1)
            \/ obs'.pc = "apply" /\ obs'.at = obs.at
        BY <3>3 DEF Takes, Passes, Apply1, Completes, Shows
      <4>6. CASE obs' = Observer("read", obs.at + 1)
        <5>1. obs'.pc = "read" /\ obs'.at = obs.at + 1
          BY <1>f, <4>6
        <5>2. y = obs'.at - 1
          BY <4>1, <4>2, <5>1
        <5> QED
          BY <1>g, <4>2, <4>4, <5>1, <5>2 DEF Reading
      <4> QED
        BY <1>g, <4>1, <4>2, <4>4, <4>5, <4>6
    <3> QED
      BY <3>1, <3>2, <3>3
  <2> QED
    BY <2>3, <2>4
<1> QED
  BY <1>0, <1>1, <1>2, <1>3, <1>4 DEF ObsType, Reading

(* The message a stream ended with is the one of the turn that completed.  *)
LEMMA MessageMoves ==
  ASSUME Inv, [Next]_vars, message' # 0
  PROVE  \/ UNCHANGED request /\ message # 0 /\ pc = "ended" /\ ~Crash /\ ~Restart
         \/ /\ (Observe \/ Woken) /\ message' = obs.at /\ obs.at \in Events /\ obs.pc \in Reading
            /\ Completes(obs.at, log[obs.at].turn) /\ ObserveUnchanged
<1> USE DEF pc, message
<1>0. TypeOK /\ (message # 0 => pc = "ended")
  BY DEF Inv, CallShape
<1>f. /\ Idle.message = 0 /\ Ended(0).message = 0
      /\ \A p : [Idle EXCEPT !.pc = "ready", !.digest = p].message = 0
      /\ \A p : [Idle EXCEPT !.pc = "commit", !.digest = p].message = 0
      /\ \A i : [request EXCEPT !.pc = "submit", !.id = i].message = message
      /\ \A i : [Idle EXCEPT !.pc = "streaming", !.id = i].message = 0
      /\ [request EXCEPT !.pc = "ready"].message = message
      /\ [request EXCEPT !.pc = "own"].message = message
      /\ [request EXCEPT !.aborted = TRUE].message = message
      /\ Refused => request'.message = 0
  BY <1>0, RequestForms DEF Is
<1>i. ASSUME Installed(request.id) PROVE FALSE
  <2>1. Refused \/ request' = Idle \/ request' = [Idle EXCEPT !.pc = "streaming", !.id = request.id]
    BY <1>i DEF Installed
  <2> QED
    BY <1>f, <2>1
<1>1. ~\E p \in Prompts : Stream(p)
  <2>1. ASSUME NEW p \in Prompts, Stream(p) PROVE FALSE
    <3>1. \/ request' = [Idle EXCEPT !.pc = "ready", !.digest = p]
          \/ request' = [Idle EXCEPT !.pc = "commit", !.digest = p]
          \/ request' = Ended(0)
      BY <2>1 DEF Stream
    <3> QED
      BY <1>f, <3>1
  <2> QED
    BY <2>1
<1>2. ~Submit
  BY <1>0, <1>f DEF Submit
<1>3. ~Receipt
  <2>1. ASSUME Receipt PROVE FALSE
    <3>1. pc = "submit" /\ call.id = request.id
      BY <2>1, CallTyped DEF Receipt
    <3>2. Refused \/ Installed(request.id) \/ request' = [request EXCEPT !.pc = "own"]
      BY <2>1, <3>1 DEF Receipt
    <3> QED
      BY <1>0, <1>f, <1>i, <3>1, <3>2
  <2> QED
    BY <2>1
<1>4. ~(\E b \in BOOLEAN : Rejected(b)) /\ ~Consume /\ ~CloseInterrupt
  BY <1>f DEF Rejected, Consume, CloseInterrupt
<1>5. ~Abort
  BY <1>0, <1>f DEF Abort
<1>6. ~WrittenOwn
  BY <1>i DEF WrittenOwn
<1>7. ~WrittenHeld
  <2>1. WrittenHeld => pc = "commit"
    BY QueueHead DEF WrittenHeld
  <2> QED
    BY <1>0, <1>f, <2>1 DEF WrittenHeld
<1>8. ~Crash /\ ~Restart
  BY <1>f DEF Crash, Restart, Forgotten
<1>9. CASE UNCHANGED request
  BY <1>0, <1>8, <1>9
<1>10. CASE Next /\ request' # request
  <2>1. \/ Leaves
        \/ (Observe \/ Woken) /\ request' = Ended(obs.at) /\ Completes(obs.at, log[obs.at].turn)
    BY <1>1, <1>2, <1>3, <1>4, <1>5, <1>6, <1>7, <1>8, <1>10, OtherMoves DEF StreamStep
  <2>2. ~Leaves
    BY DEF Leaves, Is
  <2>3. Ended(obs.at).message = obs.at
    BY <1>0, RequestForms DEF Is
  <2> QED
    BY <2>1, <2>2, <2>3, ObserverMoves
<1> QED
  BY <1>9, <1>10 DEF vars

LEMMA HeldKept ==
  ASSUME Inv, Bound, HeldInv, [Next]_vars
  PROVE  HeldInv'
<1>0. /\ TypeOK /\ binding.cursor \in Nat /\ obs.at \in Nat /\ message \in Nat
      /\ \A i \in DOMAIN writes : writes[i].cursor \in Nat
  BY CursorsTyped DEF Inv
<1> SUFFICES ASSUME message' # 0, life' = "up"
             PROVE  /\ terminalCursor' # 0 /\ binding'.cursor < message'
                    /\ \A i \in DOMAIN writes' : writes'[i].cursor < message'
  BY DEF HeldInv
<1>1. CASE UNCHANGED request /\ message # 0 /\ pc = "ended" /\ ~Crash /\ ~Restart
  <2>0. message' = message /\ ~WrittenClose
    <3>1. ~WrittenClose
      BY DEF WrittenClose
    <3> QED
      BY <1>1, <3>1 DEF message
  <2>1. life = "up"
    BY <1>1, <2>0, LifeMoves
  <2>2. /\ terminalCursor # 0 /\ binding.cursor < message
        /\ \A i \in DOMAIN writes : writes[i].cursor < message
    BY <1>1, <2>1 DEF HeldInv
  <2>3. terminalCursor' # 0
    <3>1. ~WrittenHeld
      BY <1>1, QueueHead DEF WrittenHeld
    <3>2. obs.pc = "apply" => Head(obs.todo).e # 0
      BY <1>0, OpNow, CursorsTyped
    <3>3. obs.at \in Events => obs.at # 0
      BY <1>0, CursorsTyped
    <3> QED
      BY <1>1, <2>0, <2>2, <3>1, <3>2, <3>3, TerminalMove DEF TerminalMoves
  <2>4. binding'.cursor < message
    BY <1>1, <2>2, CursorMove DEF CursorMoves
  <2>5. \A i \in DOMAIN writes' : writes'[i].cursor < message
    <3>1. CASE UNCHANGED writes
      BY <2>2, <3>1
    <3>2. CASE \A i \in DOMAIN writes' : i + 1 \in DOMAIN writes /\ writes'[i] = writes[i + 1]
      BY <2>2, <3>2
    <3>3. ASSUME NEW w \in WriteType, w.cursor = 0,
                 DOMAIN writes' = DOMAIN writes \cup {Len(writes) + 1},
                 \A i \in DOMAIN writes : writes'[i] = writes[i],
                 writes'[Len(writes) + 1] = w
          PROVE  \A i \in DOMAIN writes' : writes'[i].cursor < message
      <4>1. 0 < message
        BY <1>0, <1>1
      <4> QED
        BY <2>2, <3>3, <4>1
    <3> QED
      BY <1>1, <2>2, <3>1, <3>2, <3>3, CursorMove DEF CursorMoves
  <2> QED
    BY <2>0, <2>3, <2>4, <2>5
<1>2. CASE /\ (Observe \/ Woken) /\ message' = obs.at /\ obs.at \in Events /\ obs.pc \in Reading
           /\ Completes(obs.at, log[obs.at].turn) /\ ObserveUnchanged
  <2>1. terminalCursor' = obs.at /\ UNCHANGED <<binding, writes>>
    BY <1>2 DEF Completes, NativeTerminal, ObserveUnchanged
  <2>2. PICK x : x = obs.at - 1
    OBVIOUS
  <2>3. Reached(x) /\ obs.at >= 1
    BY <1>0, <1>2, <2>2, ReachedAt, CursorsTyped DEF Bound
  <2>4. binding.cursor <= x /\ \A i \in DOMAIN writes : writes[i].cursor <= x
    BY <2>3 DEF Reached
  <2>5. \A n \in Nat : n <= x => n < obs.at
    BY <1>0, <2>2
  <2> QED
    BY <1>0, <1>2, <2>1, <2>3, <2>4, <2>5
<1> QED
  BY <1>1, <1>2, MessageMoves

\* While the assistant message of a turn is not stored in the transcript, the
\* durable cursor is before the event that ended it, so that a restart replays
\* it: #completeSink and #terminalFailure of e4-agent-stream.ts hold the cursor
\* back in #terminalCursor for that.
THEOREM MessageIsStored == Spec => []HeldUntilStored
<1>1. Init => Bound /\ HeldInv
  <2>1. ASSUME Init PROVE Bound
    BY <2>1 DEF Init, Bound, Reached, Observer, Working, Reading
  <2>2. ASSUME Init PROVE HeldInv
    BY <2>2 DEF Init, HeldInv, Idle, message
  <2> QED
    BY <2>1, <2>2
<1>2. Inv /\ Bound /\ HeldInv /\ [Next]_vars => Bound' /\ HeldInv'
  BY BoundKept, HeldKept
<1>3. HeldInv => HeldUntilStored
  BY DEF HeldInv, HeldUntilStored
<1> QED
  BY <1>1, <1>2, <1>3, InvCorrect, PTL DEF Spec

--------------------------------------------------------------------------------
(* No message is stored twice.                                             *)

(* The observer waits, passes the event, or projects it.                   *)
Projects(e, t) ==
  t \in Turns /\ (sinks[t].live \/ t \in ownedSubmissions) /\ Project(e, t, SinkFor(t))

LEMMA ApplyDoes ==
  ASSUME TypeOK, NEW e \in Events, NEW t, t = log[e].turn, Apply(e, t)
  PROVE  \/ Passes(e) /\ (t \in Turns => ~sinks[t].live)
         \/ Projects(e, t)
<1>1. t \in Turns \cup {Foreign}
  BY EventTyped
<1>2. CASE ~SinkOf(t).live /\ t \notin ownedSubmissions
  <2>1. Applying(e, <<Op("commit", e)>>) /\ Still
    BY <1>2 DEF Apply, Still
  <2>2. t \in Turns => ~sinks[t].live
    BY <1>2 DEF SinkOf
  <2> QED
    BY <2>1, <2>2, AppliedNext DEF Passes
<1>3. CASE ~(~SinkOf(t).live /\ t \notin ownedSubmissions)
  <2>1. t \in Turns
    BY <1>1, <1>3 DEF SinkOf, NoSink, TypeOK
  <2>2. SinkOf(t) = sinks[t]
    BY <2>1 DEF SinkOf
  <2>3. Project(e, t, SinkFor(t))
    BY <1>3, <2>2 DEF Apply, SinkFor
  <2> QED
    BY <1>3, <2>1, <2>2, <2>3 DEF Projects
<1> QED
  BY <1>2, <1>3

LEMMA ObserverDoes ==
  ASSUME Inv, Observe \/ Woken
  PROVE  \/ Waits
         \/ Passes(obs.at) /\ (log[obs.at].turn \in Turns => ~sinks[log[obs.at].turn].live)
         \/ Projects(obs.at, log[obs.at].turn)
<1> DEFINE e == obs.at  t == log[e].turn
<1>0. TypeOK /\ Made /\ e \in Events
  BY ObserverMoves DEF Inv
<1>a. ASSUME Correlate(e, t), obs.pc \in {"read", "wait"} PROVE Waits \/ Apply(e, t)
  BY <1>a DEF Correlate, Waits
<1>1. CASE Observe
  <2>1. obs.pc = "read"
    BY <1>1 DEF Observe
  <2>2. CASE log[e].kind = "session"
    <3>1. Applying(e, <<Op("commit", e)>>) /\ Still
      BY <1>1, <2>2 DEF Observe, Still
    <3>2. t \notin Turns
      BY <1>0, <2>2, OwnKinds
    <3> QED
      BY <3>1, <3>2, AppliedNext DEF Passes
  <2>3. CASE log[e].kind # "session"
    <3>1. Waiting("wait") \/ Correlate(e, t)
      BY <1>1, <2>3 DEF Observe
    <3>2. CASE Waiting("wait")
      BY <2>1, <3>2 DEF Waits
    <3>3. CASE Correlate(e, t)
      BY <1>0, <1>a, <2>1, <3>3, ApplyDoes
    <3> QED
      BY <3>1, <3>2, <3>3
  <2> QED
    BY <2>2, <2>3
<1>2. CASE Woken
  <2>1. (obs.pc = "wait" /\ Correlate(e, t)) \/ Apply(e, t)
    BY <1>2 DEF Woken
  <2> QED
    BY <1>0, <1>a, <2>1, ApplyDoes
<1> QED
  BY <1>1, <1>2

(* What the projection of the event at e stores: the text that is open at  *)
(* x, or what e itself is about, and neither twice.                        *)
Stores(op) == op.op \in {"store", "call"}
StoreOf(op, e, x) ==
  \/ op.op = "store" /\ op.e \notin receipts /\ op.e = x /\ x # 0 /\ log[e].kind \in {"start", "call"}
  \/ op.op = "store" /\ op.e \notin receipts /\ op.e = e /\ log[e].kind \in {"result"} \cup Terminal
  \/ op.op = "call" /\ op.e = e /\ log[e].kind = "call"
OpsOnce(q, e, x) ==
  /\ \A i \in DOMAIN q : Stores(q[i]) => StoreOf(q[i], e, x)
  /\ \A i, j \in DOMAIN q : Stores(q[i]) /\ Stores(q[j]) /\ q[i].e = q[j].e => i = j

LEMMA FewOps ==
  ASSUME NEW e, NEW x, NEW a, NEW b, NEW c, ~Stores(b)
  PROVE  /\ (Stores(a) => StoreOf(a, e, x)) => OpsOnce(<<a>>, e, x)
         /\ (Stores(a) => StoreOf(a, e, x)) => OpsOnce(<<a, b>>, e, x)
         /\ (Stores(a) => StoreOf(a, e, x)) => OpsOnce(<<b, a>>, e, x)
         /\ /\ Stores(a) => StoreOf(a, e, x)
            /\ Stores(c) => StoreOf(c, e, x)
            /\ ~(Stores(a) /\ Stores(c) /\ a.e = c.e)
            => OpsOnce(<<a, b, c>>, e, x)
<1>1. /\ DOMAIN <<a>> = {1} /\ <<a>>[1] = a
      /\ DOMAIN <<a, b>> = {1, 2} /\ <<a, b>>[1] = a /\ <<a, b>>[2] = b
      /\ DOMAIN <<b, a>> = {1, 2} /\ <<b, a>>[1] = b /\ <<b, a>>[2] = a
      /\ DOMAIN <<a, b, c>> = {1, 2, 3}
      /\ <<a, b, c>>[1] = a /\ <<a, b, c>>[2] = b /\ <<a, b, c>>[3] = c
  OBVIOUS
<1>2. ASSUME Stores(a) => StoreOf(a, e, x)
      PROVE  OpsOnce(<<a>>, e, x) /\ OpsOnce(<<a, b>>, e, x) /\ OpsOnce(<<b, a>>, e, x)
  <2> HIDE DEF Stores, StoreOf
  <2> QED
    BY <1>1, <1>2 DEF OpsOnce
<1>3. ASSUME Stores(a) => StoreOf(a, e, x), Stores(c) => StoreOf(c, e, x),
             ~(Stores(a) /\ Stores(c) /\ a.e = c.e)
      PROVE  OpsOnce(<<a, b, c>>, e, x)
  <2> HIDE DEF Stores, StoreOf
  <2> QED
    BY <1>1, <1>3 DEF OpsOnce
<1> QED
  BY <1>2, <1>3

(* The projection of an event, as far as the transcript is concerned.      *)
Opened(e, t) == log[e].kind = "text" /\ sinks' = [sinks EXCEPT ![t] = [SinkFor(t) EXCEPT !.text = e]]
                /\ obs' = Observer("read", e + 1)
Projected(e, t) ==
  /\ obs'.pc = "apply" /\ obs'.at = e /\ log[e].kind # "text"
  /\ OpsOnce(obs'.todo, e, SinkFor(t).text)
  /\ \E y : /\ sinks' = [sinks EXCEPT ![t] = y]
            /\ y.text \in {0, SinkFor(t).text}
            /\ log[e].kind \in {"start", "call"} => y.text = 0

LEMMA FlushOnce ==
  ASSUME NEW e, NEW s, s.text # e, NEW k \in {"commit", "call"},
         log[e].kind = IF k = "call" THEN "call" ELSE "start"
  PROVE  OpsOnce(Flush(s) \o <<Op(k, e)>>, e, s.text)
<1>0. PICK x : x = s.text
  OBVIOUS
<1>1. /\ Op("commit", x).op = "commit" /\ Op("store", x).op = "store" /\ Op(k, e).op = k
      /\ Op("store", x).e = x /\ Op(k, e).e = e
  BY DEF Op
<1>2. /\ ~Stores(Op("commit", x))
      /\ Stores(Op(k, e)) => StoreOf(Op(k, e), e, x)
      /\ (x # 0 /\ x \notin receipts) => StoreOf(Op("store", x), e, x)
  BY <1>1 DEF Stores, StoreOf
<1>3. ~(Op("store", x).e = Op(k, e).e)
  BY <1>0, <1>1
<1>f. /\ OpsOnce(<<Op(k, e)>>, e, x)
      /\ OpsOnce(<<Op("commit", x), Op(k, e)>>, e, x)
      /\ (x # 0 /\ x \notin receipts) => OpsOnce(<<Op("store", x), Op("commit", x), Op(k, e)>>, e, x)
  <2>1. PICK a, b, c : a = Op(k, e) /\ b = Op("commit", x) /\ c = Op("store", x)
    OBVIOUS
  <2>2. ~Stores(b) /\ (Stores(a) => StoreOf(a, e, x))
    BY <1>2, <2>1
  <2>3. (x # 0 /\ x \notin receipts) => (StoreOf(c, e, x) /\ ~(c.e = a.e))
    BY <1>2, <1>3, <2>1
  <2>4. OpsOnce(<<a>>, e, x) /\ OpsOnce(<<b, a>>, e, x)
    BY <2>2, FewOps
  <2>5. (x # 0 /\ x \notin receipts) => OpsOnce(<<c, b, a>>, e, x)
    BY <2>2, <2>3, FewOps
  <2> QED
    BY <2>1, <2>4, <2>5
<1>4. CASE x = 0
  <2>1. Flush(s) \o <<Op(k, e)>> = <<Op(k, e)>>
    BY <1>0, <1>4, Joined DEF Flush
  <2>2. OpsOnce(<<Op(k, e)>>, e, x)
    BY <1>f
  <2> QED
    BY <1>0, <2>1, <2>2
<1>5. CASE x # 0 /\ x \in receipts
  <2>1. Flush(s) = <<Op("commit", x)>>
    BY <1>0, <1>5, Joined DEF Flush, StoreUnlessReceipt
  <2>2. <<Op("commit", x)>> \o <<Op(k, e)>> = <<Op("commit", x), Op(k, e)>>
    BY Joined
  <2>3. OpsOnce(<<Op("commit", x), Op(k, e)>>, e, x)
    BY <1>f
  <2> QED
    BY <1>0, <2>1, <2>2, <2>3
<1>6. CASE x # 0 /\ x \notin receipts
  <2>1. Flush(s) = <<Op("store", x), Op("commit", x)>>
    <3>1. Flush(s) = <<Op("store", x)>> \o <<Op("commit", x)>>
      BY <1>0, <1>6 DEF Flush, StoreUnlessReceipt
    <3>2. <<Op("store", x)>> \o <<Op("commit", x)>> = <<Op("store", x), Op("commit", x)>>
      BY Joined
    <3> QED
      BY <3>1, <3>2
  <2>2. <<Op("store", x), Op("commit", x)>> \o <<Op(k, e)>> = <<Op("store", x), Op("commit", x), Op(k, e)>>
    BY JoinedTwo
  <2>3. OpsOnce(<<Op("store", x), Op("commit", x), Op(k, e)>>, e, x)
    BY <1>6, <1>f
  <2> QED
    BY <1>0, <2>1, <2>2, <2>3
<1> QED
  BY <1>0, <1>4, <1>5, <1>6

LEMMA StoreOnce ==
  ASSUME NEW e, NEW x, log[e].kind \in {"result"} \cup Terminal
  PROVE  /\ OpsOnce(StoreUnlessReceipt(e) \o <<Op("commit", e)>>, e, x)
         /\ OpsOnce(StoreUnlessReceipt(e) \o <<Op("commit", e), Op("close", e)>>, e, x)
<1>1. /\ Op("commit", e).op = "commit" /\ Op("store", e).op = "store" /\ Op("close", e).op = "close"
      /\ Op("store", e).e = e
  BY DEF Op
<1>2. /\ ~Stores(Op("commit", e)) /\ ~Stores(Op("close", e))
      /\ e \notin receipts => StoreOf(Op("store", e), e, x)
  BY <1>1 DEF Stores, StoreOf
<1>3. CASE e \in receipts
  <2>1. StoreUnlessReceipt(e) = <<>>
    BY <1>3 DEF StoreUnlessReceipt
  <2>2. /\ <<>> \o <<Op("commit", e)>> = <<Op("commit", e)>>
        /\ <<>> \o <<Op("commit", e), Op("close", e)>> = <<Op("commit", e), Op("close", e)>>
    <3>1. <<>> \o <<Op("commit", e)>> = <<Op("commit", e)>>
      BY Joined
    <3>2. <<>> \o <<Op("commit", e), Op("close", e)>> = <<Op("commit", e), Op("close", e)>>
      BY Joined
    <3> QED
      BY <3>1, <3>2
  <2>3. OpsOnce(<<Op("commit", e)>>, e, x) /\ OpsOnce(<<Op("commit", e), Op("close", e)>>, e, x)
    BY <1>2, FewOps
  <2> QED
    BY <2>1, <2>2, <2>3
<1>4. CASE e \notin receipts
  <2>1. StoreUnlessReceipt(e) = <<Op("store", e)>>
    BY <1>4 DEF StoreUnlessReceipt
  <2>2. <<Op("store", e)>> \o <<Op("commit", e)>> = <<Op("store", e), Op("commit", e)>>
    BY Joined
  <2>3. <<Op("store", e)>> \o <<Op("commit", e), Op("close", e)>>
          = <<Op("store", e), Op("commit", e), Op("close", e)>>
    BY JoinedThree
  <2>4. /\ OpsOnce(<<Op("store", e), Op("commit", e)>>, e, x)
        /\ OpsOnce(<<Op("store", e), Op("commit", e), Op("close", e)>>, e, x)
    BY <1>2, <1>4, FewOps
  <2> QED
    BY <2>1, <2>2, <2>3, <2>4
<1> QED
  BY <1>3, <1>4

LEMMA AppliedIs ==
  ASSUME NEW e, NEW ops, Applying(e, ops), ops # <<>>
  PROVE  obs'.pc = "apply" /\ obs'.at = e /\ obs'.todo = ops
<1>1. obs' = Apply1(e, ops)
  BY AppliedNext
<1> QED
  BY <1>1 DEF Apply1

(* A repeated call or result: the sink has seen its call ID.               *)
Ignores(e, t) == sinks[t].live /\ Ignored(e, sinks[t]) /\ sinks' = sinks /\ obs' = Observer("read", e + 1)

LEMMA ProjectShown ==
  ASSUME TypeOK, ObsShape, Made, CallShape, NEW e \in Events, obs.pc \in Reading, e = obs.at,
         NEW t \in Turns, t = log[e].turn, Projects(e, t)
  PROVE  Completes(e, t) \/ Opened(e, t) \/ Projected(e, t) \/ Ignores(e, t)
<1> DEFINE s == SinkFor(t)  k == log[e].kind  id == log[e].callId
           Keep(x) == sinks' = [sinks EXCEPT ![t] = x]
<1>1. s \in SinkType /\ s.text # e /\ s.text \in 0..Len(log) /\ e \in Nat /\ s.text < e
  <2>1. sinks[t] \in SinkType /\ sinks[t].text < e
    BY DEF TypeOK, ObsShape
  <2>2. NewSink(TRUE) \in SinkType /\ NewSink(TRUE).text = 0
    BY TypedValues, SinkValues
  <2>3. e \in Nat /\ e >= 1
    BY DEF Events
  <2>4. s \in {sinks[t], NewSink(TRUE)}
    BY DEF SinkFor
  <2>a. NewSink(TRUE).text < e
    <3>1. 0 < e
      BY <2>3
    <3> QED
      BY <2>2, <3>1
  <2> HIDE DEF s
  <2>5. s \in SinkType /\ s.text < e
    BY <2>1, <2>2, <2>a, <2>4
  <2>6. s.text \in 0..Len(log) /\ s.text \in Nat
    BY <2>5, TypedValues DEF SinkType
  <2> QED
    BY <2>3, <2>5, <2>6
<1>2. CASE k \in Terminal /\ ~s.adopted
  <2>1. NativeTerminal(e, t) /\ ownedSubmissions' \subseteq ownedSubmissions
    BY <1>2 DEF Projects, Project
  <2>2. sinks[t].live /\ ~sinks[t].adopted
    BY <1>2 DEF SinkFor, NewSink, NoSink
  <2>3. obs' = Observer("read", e + 1)
    BY <2>1, AppliedNext DEF NativeTerminal
  <2> QED
    BY <1>2, <2>1, <2>2, <2>3 DEF Completes
<1>3. CASE ~(k \in Terminal /\ ~s.adopted)
  <2>1. /\ IF Ignored(e, s) THEN Keep(s) /\ Applying(e, <<>>)
           ELSE CASE k = "start"  -> Keep([s EXCEPT !.text = 0])
                                     /\ Applying(e, Flush(s) \o <<Op("commit", e)>>)
                  [] k = "text"   -> Keep([s EXCEPT !.text = e]) /\ Applying(e, <<>>)
                  [] k = "call"   -> Keep([s EXCEPT !.text = 0, !.called = @ \cup {id}])
                                     /\ Applying(e, Flush(s) \o <<Op("call", e)>>)
                  [] k = "result" -> Keep([s EXCEPT !.answered = @ \cup {id}])
                                     /\ Applying(e, StoreUnlessReceipt(e) \o <<Op("commit", e)>>)
                  [] OTHER        -> Keep(s)
                                     /\ Applying(e, StoreUnlessReceipt(e)
                                                    \o <<Op("commit", e), Op("close", e)>>)
    BY <1>3 DEF Projects, Project
  <2>2. k \in {"start", "text", "call", "result"} \cup Terminal
    <3>1. k \in Kinds
      BY EventTyped
    <3>2. k \notin {"session", "foreign"}
      <4>1. log[e].kind \in {"session", "foreign"} => log[e].turn = 0
        BY OwnKinds
      <4>2. log[e].turn # 0
        BY DEF Turns
      <4> QED
        BY <4>1, <4>2
    <3> QED
      BY <3>1, <3>2 DEF Kinds, Projecting, Terminal
  <2>3. /\ [s EXCEPT !.text = 0].text = 0 /\ [s EXCEPT !.text = 0, !.called = @ \cup {id}].text = 0
        /\ [s EXCEPT !.answered = @ \cup {id}].text = s.text
    BY <1>1 DEF SinkType
  <2>i. CASE Ignored(e, s)
    <3>1. sinks[t].live /\ s = sinks[t]
      BY <2>i DEF Ignored, SinkFor, NewSink, NoSink
    <3>2. Keep(s) /\ Applying(e, <<>>)
      <4> HIDE DEF s, Keep, k, id
      <4> QED
        BY <2>1, <2>i
    <3>3. sinks' = sinks
      BY <3>1, <3>2 DEF TypeOK
    <3>4. obs' = Observer("read", e + 1)
      BY <3>2, AppliedNext
    <3>5. Ignored(e, sinks[t])
      BY <2>i, <3>1
    <3> QED
      BY <3>1, <3>3, <3>4, <3>5 DEF Ignores
  <2> SUFFICES ASSUME ~Ignored(e, s)
               PROVE  Completes(e, t) \/ Opened(e, t) \/ Projected(e, t) \/ Ignores(e, t)
    <3> HIDE DEF s
    <3> QED
      BY <2>i
  <2>a. Events \subseteq Nat
    BY DEF Events
  <2>4. \A y, ops : (Keep(y) /\ Applying(e, ops) /\ ops # <<>> /\ k # "text" /\ OpsOnce(ops, e, s.text)
                     /\ y.text \in {0, s.text} /\ (k \in {"start", "call"} => y.text = 0))
                      => Projected(e, t)
    <3> HIDE DEF s
    <3>1. TAKE y, ops
    <3>2. HAVE Keep(y) /\ Applying(e, ops) /\ ops # <<>> /\ k # "text" /\ OpsOnce(ops, e, s.text)
               /\ y.text \in {0, s.text} /\ (k \in {"start", "call"} => y.text = 0)
    <3>3. obs'.pc = "apply" /\ obs'.at = e /\ obs'.todo = ops
      BY <3>2, AppliedIs
    <3> QED
      BY <3>2, <3>3 DEF Projected, s
  <2>5. CASE k = "text"
    <3>1. Keep([s EXCEPT !.text = e]) /\ Applying(e, <<>>)
      <4> HIDE DEF s, Keep, k, id
      <4> QED
        BY <2>1, <2>5
    <3>2. obs' = Observer("read", e + 1)
      BY <3>1, AppliedNext
    <3> QED
      BY <2>5, <3>1, <3>2 DEF Opened
  <2>6. CASE k = "start"
    <3>1. Keep([s EXCEPT !.text = 0]) /\ Applying(e, Flush(s) \o <<Op("commit", e)>>)
      <4> HIDE DEF s, Keep, k, id
      <4> QED
        BY <2>1, <2>6
    <3>2. OpsOnce(Flush(s) \o <<Op("commit", e)>>, e, s.text)
      <4> HIDE DEF s
      <4> QED
        BY <1>1, <2>6, FlushOnce
    <3>3. Flush(s) \o <<Op("commit", e)>> # <<>>
      <4> HIDE DEF s
      <4> QED
        BY <1>1, AppliedOK
    <3> HIDE DEF s, Keep, id
    <3> QED
      BY <2>3, <2>4, <2>6, <3>1, <3>2, <3>3
  <2>7. CASE k = "call"
    <3>1. Keep([s EXCEPT !.text = 0, !.called = @ \cup {id}]) /\ Applying(e, Flush(s) \o <<Op("call", e)>>)
      <4> HIDE DEF s, Keep, k, id
      <4> QED
        BY <2>1, <2>7
    <3>2. OpsOnce(Flush(s) \o <<Op("call", e)>>, e, s.text)
      <4> HIDE DEF s
      <4> QED
        BY <1>1, <2>7, FlushOnce
    <3>3. Flush(s) \o <<Op("call", e)>> # <<>>
      <4> HIDE DEF s
      <4> QED
        BY <1>1, AppliedOK
    <3> HIDE DEF s, Keep, id
    <3> QED
      BY <2>3, <2>4, <2>7, <3>1, <3>2, <3>3
  <2>8. CASE k = "result"
    <3>1. Keep([s EXCEPT !.answered = @ \cup {id}]) /\ Applying(e, StoreUnlessReceipt(e) \o <<Op("commit", e)>>)
      <4> HIDE DEF s, Keep, k, id
      <4> QED
        BY <2>1, <2>8
    <3>2. OpsOnce(StoreUnlessReceipt(e) \o <<Op("commit", e)>>, e, s.text)
      BY <2>8, StoreOnce
    <3>3. StoreUnlessReceipt(e) \o <<Op("commit", e)>> # <<>>
      <4> HIDE DEF s
      <4> QED
        BY <1>1, AppliedOK
    <3> HIDE DEF s, Keep, id
    <3> QED
      BY <2>3, <2>4, <2>8, <3>1, <3>2, <3>3
  <2>9. CASE k \in Terminal
    <3>0. k \notin {"start", "text", "call", "result"}
      BY <2>9 DEF Terminal
    <3>1. Keep(s) /\ Applying(e, StoreUnlessReceipt(e) \o <<Op("commit", e), Op("close", e)>>)
      <4> HIDE DEF s, Keep, k, id
      <4> QED
        BY <2>1, <3>0
    <3>2. OpsOnce(StoreUnlessReceipt(e) \o <<Op("commit", e), Op("close", e)>>, e, s.text)
      BY <2>9, StoreOnce
    <3>3. StoreUnlessReceipt(e) \o <<Op("commit", e), Op("close", e)>> # <<>>
      <4> HIDE DEF s
      <4> QED
        BY <1>1, <2>9, AppliedOK
    <3> HIDE DEF s, Keep, id
    <3> QED
      BY <2>3, <2>4, <3>0, <3>1, <3>2, <3>3
  <2> QED
    BY <2>2, <2>5, <2>6, <2>7, <2>8, <2>9
<1> QED
  BY <1>2, <1>3

(* What the observer shows when it takes an event.                         *)
LEMMA ObserverShows ==
  ASSUME Inv, Observe \/ Woken
  PROVE  LET t == log[obs.at].turn
         IN  \/ Waits
             \/ Passes(obs.at)
             \/ t \in Turns /\ \/ Completes(obs.at, t) \/ Opened(obs.at, t)
                               \/ Projected(obs.at, t) \/ Ignores(obs.at, t)
<1>1. /\ TypeOK /\ ObsShape /\ Made /\ CallShape /\ obs.pc \in Reading /\ obs.at \in Events
  BY ObserverMoves DEF Inv
<1>2. PICK t : t = log[obs.at].turn
  OBVIOUS
<1>3. Projects(obs.at, t) => t \in Turns
  BY DEF Projects
<1>4. Projects(obs.at, t) => \/ Completes(obs.at, t) \/ Opened(obs.at, t)
                             \/ Projected(obs.at, t) \/ Ignores(obs.at, t)
  BY <1>1, <1>2, <1>3, ProjectShown
<1>5. Waits \/ Passes(obs.at) \/ Projects(obs.at, t)
  BY <1>2, ObserverDoes
<1> QED
  BY <1>2, <1>3, <1>4, <1>5

(* An op that stores a message.                                            *)
Storing(op) == op.op = "store" \/ (op.op = "call" /\ op.e \notin receipts)

\* What is left to store is in nobody's hands but the observer's, and only once:
\* a text no sink has, or what the event itself is about.
TodoOnce(o) ==
  /\ \A i \in DOMAIN o.todo : Storing(o.todo[i]) =>
       LET e == o.todo[i].e
       IN  /\ e \notin transcript
           /\ \/ e = o.at /\ log[e].kind # "text"
              \/ e < o.at /\ log[e].kind = "text" /\ \A t \in Turns : sinks[t].text # e
  /\ \A i, j \in DOMAIN o.todo :
       Storing(o.todo[i]) /\ Storing(o.todo[j]) /\ o.todo[i].e = o.todo[j].e => i = j

\* What this process stored, the observer has taken.
StoredTaken == \A e \in transcript \ receipts : obs.pc # "stopped" => Taken(e)

\* The text of a sink is that of an event of the turn, and not stored unless it
\* was before this process began.
TextsOnce ==
  \A t \in Turns : sinks[t].text # 0 =>
    /\ log[sinks[t].text].kind = "text" /\ log[sinks[t].text].turn = t
    /\ sinks[t].text \in transcript => sinks[t].text \in receipts
MessageOnce ==
  message # 0 => /\ message \notin transcript /\ log[message].kind \in Terminal
                 /\ obs.pc # "stopped" => message < obs.at

\* A turn that this process streams, or may come to stream, stored nothing
\* before it began.
NotOurs(t) == \A e \in receipts : log[e].turn # t
Ours ==
  /\ \A t \in Turns : sinks[t].live /\ ~sinks[t].adopted => NotOurs(t)
  /\ Asked => NotOurs(request.id) \/ request.id \in adoptedTerminalTurnIds
  /\ life \in {"up", "closing"} /\ pendingSubmit # NoAttempt =>
       NotOurs(pendingSubmit.id) \/ pendingSubmit.id \in adoptedTerminalTurnIds
Once == twice = {} /\ TodoOnce(obs) /\ StoredTaken /\ TextsOnce /\ MessageOnce /\ Ours

(* What a step does to the transcript, and to the receipts.                *)
StoreMoves ==
  \/ UNCHANGED <<transcript, twice>>
  \/ Consume /\ message # 0 /\ Store(message) /\ UNCHANGED <<obs, sinks>> /\ request' = Idle
  \/ /\ StoreMessage /\ obs.pc = "apply" /\ Storing(Head(obs.todo)) /\ Store(Head(obs.todo).e)
     /\ UNCHANGED <<sinks, request>> /\ obs' = Advanced(life = "up" /\ ~failed)

LEMMA StoreMove ==
  ASSUME [Next]_vars
  PROVE  StoreMoves
<1> USE DEF history, StoreMoves
<1>1. CASE UNCHANGED vars
  BY <1>1 DEF vars
<1>2. CASE (\E p \in Prompts : Stream(p)) \/ StreamStep \/ Abort
  BY <1>2 DEF Stream, StreamStep, Submit, Receipt, Rejected, Abort
<1>3. CASE LateStep \/ CloseSink \/ Commit
  BY <1>3 DEF LateStep, LateReceipt, LateRejected, CloseSink, Commit
<1>4. CASE Consume
  BY <1>4 DEF Consume, projection
<1>5. CASE Observe \/ Woken
  BY <1>5 DEF Observe, Woken, ObserveUnchanged
<1>6. CASE WriteStep
  BY <1>6 DEF WriteStep, WrittenObserved, WrittenHeld, WrittenOwn, WrittenLate
<1>7. CASE ObserverLost \/ BeginClose \/ CloseInterrupt \/ CloseCommit \/ WrittenClose \/ Crash \/ Restart
  BY <1>7 DEF ObserverLost, BeginClose, CloseInterrupt, CloseCommit, WrittenClose, Crash, Restart
<1>8. CASE Admit \/ EmitForeign \/ \E t \in Turns, k \in Kinds : Emit(t, k)
  BY <1>8 DEF Admit, EmitForeign, Emit
<1>9. CASE StoreMessage
  <2>1. CASE Head(obs.todo).op = "call" /\ Head(obs.todo).e \in receipts
    BY <1>9, <2>1 DEF StoreMessage
  <2>2. CASE ~(Head(obs.todo).op = "call" /\ Head(obs.todo).e \in receipts)
    <3>1. Storing(Head(obs.todo)) /\ Store(Head(obs.todo).e)
      BY <1>9, <2>2 DEF StoreMessage, Storing
    <3> QED
      BY <1>9, <3>1 DEF StoreMessage, ApplyUnchanged
  <2> QED
    BY <2>1, <2>2
<1> QED
  BY <1>1, <1>2, <1>3, <1>4, <1>5, <1>6, <1>7, <1>8, <1>9 DEF Next, ObserveStep

LEMMA ReceiptsMove ==
  ASSUME [Next]_vars
  PROVE  \/ UNCHANGED receipts
         \/ Crash /\ receipts' = {}
         \/ Restart /\ receipts' = transcript /\ UNCHANGED transcript
<1> USE DEF runtime
<1>1. CASE UNCHANGED vars
  BY <1>1 DEF vars
<1>2. CASE (\E p \in Prompts : Stream(p)) \/ StreamStep \/ Abort \/ Consume
  BY <1>2 DEF Stream, StreamStep, Submit, Receipt, Rejected, Abort, Consume
<1>3. CASE LateStep \/ StoreMessage \/ CloseSink \/ Commit
  BY <1>3 DEF LateStep, LateReceipt, LateRejected, StoreMessage, CloseSink, Commit, ApplyUnchanged
<1>5. CASE Observe \/ Woken
  BY <1>5 DEF Observe, Woken, ObserveUnchanged
<1>6. CASE WriteStep
  BY <1>6 DEF WriteStep, WrittenObserved, WrittenHeld, WrittenOwn, WrittenLate
<1>7. CASE ObserverLost \/ BeginClose \/ CloseInterrupt \/ CloseCommit \/ WrittenClose \/ Crash \/ Restart
  BY <1>7 DEF ObserverLost, BeginClose, CloseInterrupt, CloseCommit, WrittenClose, Crash, Restart
<1>8. CASE Admit \/ EmitForeign \/ \E t \in Turns, k \in Kinds : Emit(t, k)
  BY <1>8 DEF Admit, EmitForeign, Emit
<1> QED
  BY <1>1, <1>2, <1>3, <1>5, <1>6, <1>7, <1>8 DEF Next, ObserveStep

(* An event that is being applied stays so until it is behind the observer. *)
LEMMA WorkMoves ==
  ASSUME Inv, [Next]_vars, ~Crash, ~Restart, Working
  PROVE  \/ obs'.pc = "stopped"
         \/ obs'.pc \in {"apply", "write"} /\ obs'.at = obs.at
         \/ obs'.at = obs.at + 1
<1> USE DEF Working
<1>0. /\ ObsMoves /\ obs \in ObsType /\ ObsOK(obs)
  BY ObsMove DEF Inv, ObsShape, ObsOK
<1>f. /\ Observer("read", obs.at + 1).at = obs.at + 1 /\ Stopped.pc = "stopped"
  BY DEF Observer, Stopped
<1>1. CASE Quiet
  BY <1>0, <1>1, NotifiedOK DEF Quiet
<1>2. CASE Halts
  BY <1>2 DEF Halts, Halted
<1>3. CASE Advances
  <2> DEFINE up == life = "up" /\ ~failed
  <2>0. obs.todo # <<>> /\ up \in BOOLEAN
    BY <1>0, <1>3 DEF Advances, ObsOK
  <2>1. \/ obs'.pc = "apply" /\ obs'.at = obs.at
        \/ obs' = Observer("read", obs.at + 1)
        \/ obs' = Stopped
    BY <1>0, <1>3, <2>0, AdvancedOK DEF Advances
  <2> QED
    BY <1>f, <2>1
<1>4. CASE Flushes
  BY <1>0, <1>4 DEF Flushes, ObsType
<1>5. CASE Observe \/ Woken
  <2>1. obs.pc \in Reading
    BY <1>5, ObserverMoves
  <2> QED
    BY <2>1 DEF Reading
<1> QED
  BY <1>0, <1>1, <1>2, <1>3, <1>4, <1>5 DEF ObsMoves

LEMMA TakenKept ==
  ASSUME Inv, [Next]_vars, ~Crash, ~Restart, NEW e \in Nat, Taken(e)
  PROVE  obs'.pc # "stopped" => Taken(e)'
<1>0. Onward /\ obs.at \in Nat
  BY OnwardMove DEF Inv, TypeOK, ObsType
<1>1. SUFFICES ASSUME obs'.pc # "stopped" PROVE Taken(e)'
  OBVIOUS
<1>2. obs'.at \in Nat /\ obs'.at >= obs.at
  BY <1>0, <1>1 DEF Onward
<1>3. CASE e < obs.at
  <2>1. e < obs'.at
    BY <1>0, <1>2, <1>3
  <2> QED
    BY <1>1, <2>1 DEF Taken
<1>4. CASE e = obs.at /\ Working
  <2>1. (obs'.pc \in {"apply", "write"} /\ obs'.at = obs.at) \/ obs'.at = obs.at + 1
    BY <1>1, <1>4, WorkMoves
  <2>2. CASE obs'.pc \in {"apply", "write"} /\ obs'.at = obs.at
    BY <1>1, <1>4, <2>2 DEF Taken, Working
  <2>3. CASE obs'.at = obs.at + 1
    <3>1. e < obs'.at
      BY <1>0, <1>4, <2>3
    <3> QED
      BY <1>1, <3>1 DEF Taken
  <2> QED
    BY <2>1, <2>2, <2>3
<1> QED
  BY <1>3, <1>4 DEF Taken

LEMMA NoNewMessage ==
  ASSUME Inv, [Next]_vars,
         \/ (\E p \in Prompts : Stream(p)) \/ StreamStep \/ Abort \/ Consume
         \/ WrittenOwn \/ WrittenHeld \/ CloseInterrupt
  PROVE  message' \in {0, message}
<1>0. TypeOK
  BY DEF Inv
<1>1. Refused => message' = 0
  BY <1>0, RequestForms DEF Is, message
<1>m. \A q, d, i, m : Is(request', q, d, i, m) => message' = m
  BY DEF Is, message
<1>i. ASSUME NEW a, Installed(a) PROVE message' = 0
  <2>1. Refused \/ request' = Idle \/ request' = [Idle EXCEPT !.pc = "streaming", !.id = a]
    BY <1>i DEF Installed
  <2>2. Is(Idle, "idle", 0, 0, 0) /\ Is([Idle EXCEPT !.pc = "streaming", !.id = a], "streaming", 0, a, 0)
    BY <1>0, RequestForms
  <2> QED
    BY <1>1, <1>m, <2>1, <2>2
<1>2. CASE \E p \in Prompts : Stream(p)
  <2>1. PICK p \in Prompts : Stream(p)
    BY <1>2
  <2>2. request' \in {[Idle EXCEPT !.pc = "ready", !.digest = p], Ended(0),
                      [Idle EXCEPT !.pc = "commit", !.digest = p]}
    BY <2>1 DEF Stream
  <2>3. /\ Is([Idle EXCEPT !.pc = "ready", !.digest = p], "ready", p, 0, 0)
        /\ Is([Idle EXCEPT !.pc = "commit", !.digest = p], "commit", p, 0, 0)
        /\ Is(Ended(0), "ended", 0, 0, 0)
    BY <1>0, RequestForms
  <2> QED
    BY <1>m, <2>2, <2>3
<1>3. CASE Submit
  <2>1. PICK i : i = Attempt.id
    OBVIOUS
  <2>2. Refused \/ request' = [request EXCEPT !.pc = "submit", !.id = i]
    BY <1>3, <2>1 DEF Submit
  <2>3. Is([request EXCEPT !.pc = "submit", !.id = i], "submit", request.digest, i, message)
    BY <1>0, RequestForms
  <2> QED
    BY <1>1, <1>m, <2>2, <2>3
<1>4. CASE Receipt
  <2>1. Refused \/ Installed(call.id) \/ request' = [request EXCEPT !.pc = "own"]
    BY <1>4 DEF Receipt
  <2> QED
    BY <1>0, <1>1, <1>i, <2>1, RequestForms DEF Is, message
<1>5. CASE (\E b \in BOOLEAN : Rejected(b)) \/ CloseInterrupt
  BY <1>1, <1>5 DEF Rejected, CloseInterrupt
<1>6. CASE Abort
  BY <1>0, <1>6, RequestForms DEF Abort, Is, message
<1>7. CASE Consume
  BY <1>0, <1>7, RequestForms DEF Consume, Is, message
<1>8. CASE WrittenOwn
  BY <1>8, <1>i DEF WrittenOwn
<1>9. CASE WrittenHeld
  BY <1>0, <1>9, RequestForms DEF WrittenHeld, Is, message
<1> QED
  BY <1>2, <1>3, <1>4, <1>5, <1>6, <1>7, <1>8, <1>9 DEF StreamStep

(* The message that is stored is not in the transcript yet.                *)
LEMMA StoresNew ==
  ASSUME Inv, Once, obs.pc = "apply", Storing(Head(obs.todo)), NEW e, e = Head(obs.todo).e
  PROVE  /\ e \in Events /\ e \in Nat /\ e <= obs.at /\ Working /\ e \notin transcript
         /\ \/ e = obs.at /\ log[e].kind # "text"
            \/ e < obs.at /\ log[e].kind = "text" /\ \A t \in Turns : sinks[t].text # e
<1>1. obs.todo \in Seq(OpType) /\ obs.todo # <<>>
  BY DEF Inv, ObsShape, ObsOK, ObsType
<1>2. Head(obs.todo) = obs.todo[1] /\ 1 \in DOMAIN obs.todo
  BY <1>1, SeqFacts
<1>3. e \in Events /\ e <= obs.at /\ e \in Nat
  <2>1. Head(obs.todo).e \in Events /\ Head(obs.todo).e <= obs.at
    BY OpNow
  <2> QED
    BY <2>1 DEF Events
<1>4. TodoOnce(obs)
  BY DEF Once
<1>5. /\ e \notin transcript
      /\ \/ e = obs.at /\ log[e].kind # "text"
         \/ e < obs.at /\ log[e].kind = "text" /\ \A t \in Turns : sinks[t].text # e
  BY <1>2, <1>4 DEF TodoOnce
<1> QED
  BY <1>3, <1>5 DEF Working

LEMMA MessageIs ==
  ASSUME Inv, Once, message # 0
  PROVE  /\ message \in Events /\ message \in Nat /\ message \notin transcript
         /\ log[message].kind \in Terminal /\ log[message].kind # "text" /\ pc = "ended"
         /\ obs.pc # "stopped" => Taken(message)
<1>1. message \in 0..Len(log)
  BY TypedValues DEF Inv
<1>2. message \in Events /\ message \in Nat
  BY <1>1 DEF Events
<1> QED
  BY <1>2 DEF Once, MessageOnce, Terminal, Taken, Inv, CallShape

LEMMA TwiceKept ==
  ASSUME Inv, Once, [Next]_vars
  PROVE  twice' = {}
<1>1. twice = {}
  BY DEF Once
<1>2. CASE UNCHANGED <<transcript, twice>>
  BY <1>1, <1>2
<1>3. CASE message # 0 /\ Store(message)
  BY <1>1, <1>3, MessageIs DEF Store
<1>4. CASE obs.pc = "apply" /\ Storing(Head(obs.todo)) /\ Store(Head(obs.todo).e)
  BY <1>1, <1>4, StoresNew DEF Store
<1> QED
  BY <1>2, <1>3, <1>4, StoreMove DEF StoreMoves

LEMMA StoredTakenKept ==
  ASSUME Inv, Once, [Next]_vars
  PROVE  StoredTaken'
<1>1. CASE Crash
  BY <1>1 DEF Crash, Stopped, Observer, StoredTaken
<1>2. CASE Restart
  BY <1>2, ReceiptsMove DEF Restart, StoredTaken
<1>3. CASE ~Crash /\ ~Restart
  <2>1. receipts' = receipts
    BY <1>3, ReceiptsMove
  <2>2. ASSUME NEW e \in transcript', e \notin receipts, obs'.pc # "stopped" PROVE Taken(e)'
    <3>0. obs.pc # "stopped"
      BY <1>3, <2>2, OnwardMove DEF Onward
    <3>1. CASE e \in transcript
      <4>1. Taken(e)
        BY <2>2, <3>0, <3>1 DEF Once, StoredTaken
      <4>2. e \in Nat
        BY <3>1 DEF Inv, TypeOK, Events
      <4> QED
        BY <1>3, <2>2, <4>1, <4>2, TakenKept
    <3>2. CASE e \notin transcript
      <4>1. \/ message # 0 /\ e = message
            \/ obs.pc = "apply" /\ Storing(Head(obs.todo)) /\ e = Head(obs.todo).e
        BY <2>2, <3>2, StoreMove DEF StoreMoves, Store
      <4>2. CASE message # 0 /\ e = message
        <5>1. e \in Nat /\ Taken(e)
          BY <3>0, <4>2, MessageIs
        <5> QED
          BY <1>3, <2>2, <5>1, TakenKept
      <4>3. CASE obs.pc = "apply" /\ Storing(Head(obs.todo)) /\ e = Head(obs.todo).e
        <5>1. e \in Nat /\ e <= obs.at /\ Working
          BY <4>3, StoresNew
        <5>2. obs.at \in Nat
          BY DEF Inv, TypeOK, ObsType
        <5>3. e < obs.at \/ e = obs.at
          BY <5>1, <5>2
        <5>4. Taken(e)
          BY <3>0, <5>1, <5>3 DEF Taken
        <5> QED
          BY <1>3, <2>2, <5>1, <5>4, TakenKept
      <4> QED
        BY <4>1, <4>2, <4>3
    <3> QED
      BY <3>1, <3>2
  <2> QED
    BY <2>1, <2>2 DEF StoredTaken
<1> QED
  BY <1>1, <1>2, <1>3

(* What is not taken yet was at most stored before this process began.     *)
LEMMA UntakenStored ==
  ASSUME Inv, Once, obs.pc \in Reading, NEW e, e = obs.at, e \in transcript
  PROVE  e \in receipts
<1>1. obs.at \in Nat /\ obs.pc # "stopped" /\ ~Working
  BY DEF Inv, TypeOK, ObsType, Reading, Working
<1>2. ~(e < obs.at)
  BY <1>1
<1> QED
  BY <1>1, <1>2 DEF Once, StoredTaken, Taken

LEMMA MessageOnceKept ==
  ASSUME Inv, Once, [Next]_vars
  PROVE  MessageOnce'
<1>1. SUFFICES ASSUME message' # 0
               PROVE  /\ message' \notin transcript' /\ log'[message'].kind \in Terminal
                      /\ obs'.pc # "stopped" => message' < obs'.at
  BY DEF MessageOnce, message
<1>0. /\ TypeOK /\ Len(log) \in Nat /\ obs.at \in Nat
      /\ \A i \in Events : log'[i] = log[i]
  BY LogKeeps DEF Inv, TypeOK, ObsType
<1>2. CASE message' = message
  <2>0. PICK e : e = message
    OBVIOUS
  <2>1. /\ e \in Events /\ e \in Nat /\ e \notin transcript /\ log[e].kind \in Terminal
        /\ log[e].kind # "text" /\ pc = "ended" /\ (obs.pc # "stopped" => e < obs.at)
    BY <1>1, <1>2, <2>0, MessageIs DEF Once, MessageOnce
  <2>2. ~Restart /\ ~Consume /\ ~Crash
    BY <1>1, <1>2 DEF Restart, Consume, Crash, Forgotten, Idle, message
  <2>3. e \notin transcript'
    <3>1. CASE UNCHANGED transcript
      BY <2>1, <3>1
    <3>2. CASE obs.pc = "apply" /\ Storing(Head(obs.todo)) /\ Store(Head(obs.todo).e)
      <4>1. PICK f : f = Head(obs.todo).e
        OBVIOUS
      <4>2. \/ f = obs.at
            \/ log[f].kind = "text"
        BY <3>2, <4>1, StoresNew
      <4>3. e # obs.at
        BY <1>0, <2>1, <3>2
      <4>4. e # f
        BY <2>1, <4>2, <4>3
      <4> QED
        BY <2>1, <3>2, <4>1, <4>4 DEF Store
    <3> QED
      BY <2>2, <3>1, <3>2, StoreMove DEF StoreMoves
  <2>4. obs'.pc # "stopped" => e < obs'.at
    <3>1. ASSUME obs'.pc # "stopped" PROVE obs.pc # "stopped" /\ obs'.at >= obs.at /\ obs'.at \in Nat
      BY <1>0, <2>2, <3>1, OnwardMove DEF Onward
    <3> QED
      BY <1>0, <2>1, <3>1
  <2>5. log'[e].kind \in Terminal
    BY <1>0, <2>1
  <2> QED
    BY <1>2, <2>0, <2>3, <2>4, <2>5
<1>3. CASE message' # message
  <2>1. /\ Observe \/ Woken
        /\ request' = Ended(obs.at) /\ Completes(obs.at, log[obs.at].turn)
    <3>1. CASE \/ (\E p \in Prompts : Stream(p)) \/ StreamStep \/ Abort \/ Consume
               \/ WrittenOwn \/ WrittenHeld \/ CloseInterrupt
      <4>1. message' \in {0, message}
        BY <3>1, NoNewMessage
      <4> QED
        BY <1>1, <1>3, <4>1
    <3>2. CASE UNCHANGED vars
      BY <1>3, <3>2 DEF vars, message
    <3>3. CASE ~(\/ (\E p \in Prompts : Stream(p)) \/ StreamStep \/ Abort \/ Consume
                 \/ WrittenOwn \/ WrittenHeld \/ CloseInterrupt) /\ Next
      <4>1. \/ UNCHANGED request
            \/ Leaves
            \/ request' = Idle
            \/ (Observe \/ Woken) /\ request' = Ended(obs.at) /\ Completes(obs.at, log[obs.at].turn)
        BY <3>3, OtherMoves
      <4>2. Leaves \/ request' = Idle => message' = 0
        BY DEF Leaves, Is, message, Idle
      <4> QED
        BY <1>1, <1>3, <4>1, <4>2 DEF message
    <3> QED
      BY <3>1, <3>2, <3>3
  <2>2. PICK e, t : e = obs.at /\ t = log[e].turn
    OBVIOUS
  <2>3. /\ message' = e /\ e \in Events /\ e \in Nat /\ obs.pc \in Reading
        /\ UNCHANGED transcript
    BY <1>0, <2>1, <2>2, ObserverMoves, RequestForms DEF Is, message, ObserveUnchanged
  <2>4. /\ t \in Turns /\ sinks[t].live /\ ~sinks[t].adopted /\ log[e].kind \in Terminal
        /\ obs' = Observer("read", e + 1)
    BY <2>1, <2>2 DEF Completes
  <2>5. e \notin receipts
    BY <2>2, <2>4 DEF Once, Ours, NotOurs
  <2>6. e \notin transcript
    BY <2>2, <2>3, <2>5, UntakenStored
  <2>7. obs'.at = e + 1 /\ e < e + 1
    BY <2>3, <2>4 DEF Observer
  <2> QED
    BY <1>0, <2>3, <2>4, <2>6, <2>7
<1> QED
  BY <1>2, <1>3

(* What the observer does to the texts of the sinks.                       *)
LEMMA ObserverTexts ==
  ASSUME Inv, Observe \/ Woken, NEW u \in Turns
  PROVE  \/ sinks'[u].text \in {0, sinks[u].text}
         \/ /\ sinks'[u].text = obs.at /\ u = log[obs.at].turn /\ log[obs.at].kind = "text"
            /\ obs.at \in Events /\ obs.pc \in Reading
<1>0. /\ TypeOK /\ sinks \in [Turns -> SinkType] /\ obs.at \in Events /\ obs.pc \in Reading
  BY ObserverMoves DEF Inv, TypeOK
<1>1. PICK e, t : e = obs.at /\ t = log[e].turn
  OBVIOUS
<1>2. SinkFor(t).text \in {0, sinks[t].text}
  BY SinkValues DEF SinkFor
<1>3. CASE Waits \/ Passes(e) \/ Ignores(e, t)
  BY <1>3 DEF Waits, Waiting, Passes, Still, Ignores
<1>4. CASE t \in Turns /\ Completes(e, t)
  <2>1. sinks' = [sinks EXCEPT ![t] = NoSink] /\ NoSink.text = 0
    BY <1>4, SinkValues DEF Completes, NativeTerminal
  <2> QED
    BY <1>0, <2>1
<1>5. CASE t \in Turns /\ Opened(e, t)
  <2>1. SinkFor(t) \in SinkType
    BY <1>0, <1>5, TypedValues DEF SinkFor
  <2>2. [SinkFor(t) EXCEPT !.text = e].text = e
    BY <2>1 DEF SinkType
  <2>3. /\ sinks' = [sinks EXCEPT ![t] = [SinkFor(t) EXCEPT !.text = e]]
        /\ log[e].kind = "text"
    BY <1>5 DEF Opened
  <2>4. u = t => sinks'[u].text = e
    BY <1>0, <2>2, <2>3
  <2>5. u # t => sinks'[u] = sinks[u]
    BY <1>0, <2>3
  <2> QED
    BY <1>0, <1>1, <2>3, <2>4, <2>5
<1>6. CASE t \in Turns /\ Projected(e, t)
  <2>1. PICK y : sinks' = [sinks EXCEPT ![t] = y] /\ y.text \in {0, SinkFor(t).text}
    BY <1>6 DEF Projected
  <2>2. u = t => sinks'[u].text = y.text
    BY <1>0, <2>1
  <2>3. u # t => sinks'[u] = sinks[u]
    BY <1>0, <2>1
  <2> QED
    BY <1>2, <2>1, <2>2, <2>3
<1> QED
  BY <1>1, <1>3, <1>4, <1>5, <1>6, ObserverShows

(* An event that is stored is no text a sink holds.                        *)
LEMMA TextsOnceKept ==
  ASSUME Inv, Once, [Next]_vars
  PROVE  TextsOnce'
<1>0. /\ TypeOK /\ TextsOnce
      /\ \A i \in Events : log'[i] = log[i]
  BY LogKeeps DEF Inv, Once
<1>1. CASE Crash \/ Restart
  <2>1. sinks' = [t \in Turns |-> NoSink] /\ NoSink.text = 0
    BY <1>1, SinkValues DEF Crash, Restart, Forgotten
  <2> QED
    BY <2>1 DEF TextsOnce
<1>2. CASE ~Crash /\ ~Restart
  <2>1. SUFFICES ASSUME NEW t \in Turns, NEW x, x = sinks'[t].text, x # 0
                 PROVE  /\ log'[x].kind = "text" /\ log'[x].turn = t
                        /\ x \in transcript' => x \in receipts'
    BY DEF TextsOnce
  <2>2. receipts' = receipts
    BY <1>2, ReceiptsMove
  <2>3. CASE x = sinks[t].text
    <3>1. /\ log[x].kind = "text" /\ log[x].turn = t /\ (x \in transcript => x \in receipts)
      BY <1>0, <2>1, <2>3 DEF TextsOnce
    <3>2. x \in Events
      <4>1. x \in 0..Len(log)
        BY <1>0, <2>3 DEF TypeOK, SinkType
      <4> QED
        BY <2>1, <4>1, TypedValues, <1>0 DEF Events
    <3>3. x \in transcript' => x \in transcript
      <4>1. CASE UNCHANGED transcript
        BY <4>1
      <4>2. CASE message # 0 /\ Store(message)
        BY <3>1, <4>2, MessageIs DEF Store
      <4>3. CASE obs.pc = "apply" /\ Storing(Head(obs.todo)) /\ Store(Head(obs.todo).e)
        <5>1. PICK f : f = Head(obs.todo).e
          OBVIOUS
        <5>2. log[f].kind # "text" \/ sinks[t].text # f
          BY <4>3, <5>1, StoresNew
        <5>3. x # f
          BY <2>3, <3>1, <5>2
        <5> QED
          BY <4>3, <5>1, <5>3 DEF Store
      <4> QED
        BY <4>1, <4>2, <4>3, StoreMove DEF StoreMoves
    <3> QED
      BY <1>0, <2>2, <3>1, <3>2, <3>3
  <2>4. CASE x # sinks[t].text
    <3>1. Observe \/ Woken
      <4>1. ~Observe /\ ~Woken => sinks'[t].text \in {0, sinks[t].text}
        BY TextsMove DEF TextsKept
      <4> QED
        BY <2>1, <2>4, <4>1
    <3>2. /\ x = obs.at /\ t = log[x].turn /\ log[x].kind = "text" /\ x \in Events /\ obs.pc \in Reading
      BY <2>1, <2>4, <3>1, ObserverTexts
    <3>3. transcript' = transcript
      BY <3>1, ObserverMoves DEF ObserveUnchanged
    <3>4. x \in transcript => x \in receipts
      BY <3>2, UntakenStored
    <3> QED
      BY <1>0, <2>2, <3>2, <3>3, <3>4
  <2> QED
    BY <2>3, <2>4
<1> QED
  BY <1>1, <1>2

(* What was left to store before a step, and is left after it, is still in *)
(* nobody else's hands.                                                    *)
LEMMA TodoShift ==
  ASSUME Inv, Once, [Next]_vars, ~Crash, ~Restart, ~Observe, ~Woken, NEW n \in Nat,
         obs'.at = obs.at,
         \A i \in DOMAIN obs'.todo : /\ i \in Nat /\ i >= 1 /\ i + n \in DOMAIN obs.todo
                                     /\ obs'.todo[i] = obs.todo[i + n],
         StoreMessage => n = 1
  PROVE  TodoOnce(obs)'
<1>0. /\ TodoOnce(obs) /\ TextsKept /\ receipts' = receipts
      /\ \A op : Storing(op)' <=> Storing(op)
  BY TextsMove, ReceiptsMove DEF Once, Storing
<1>1. ASSUME NEW i \in DOMAIN obs'.todo, Storing(obs'.todo[i]), NEW e, e = obs'.todo[i].e
      PROVE  /\ e \notin transcript'
             /\ \/ e = obs'.at /\ log'[e].kind # "text"
                \/ e < obs'.at /\ log'[e].kind = "text" /\ \A t \in Turns : sinks'[t].text # e
  <2>0. PICK j : j = i + n
    OBVIOUS
  <2>1. j \in DOMAIN obs.todo /\ obs'.todo[i] = obs.todo[j] /\ i \in Nat /\ i >= 1
    BY <2>0
  <2>2. /\ e \notin transcript
        /\ \/ e = obs.at /\ log[e].kind # "text"
           \/ e < obs.at /\ log[e].kind = "text" /\ \A t \in Turns : sinks[t].text # e
    BY <1>0, <1>1, <2>1 DEF TodoOnce
  <2>3. e \in Events /\ e \in Nat /\ e # 0
    <3>1. obs.todo \in Seq(OpType)
      BY DEF Inv, TypeOK, ObsType
    <3>2. obs.todo[j] \in OpType
      BY <2>1, <3>1
    <3> QED
      BY <1>1, <2>1, <3>2 DEF OpType, Events
  <2>4. log'[e] = log[e]
    BY <2>3, LogKeeps DEF Inv
  <2>5. \A t \in Turns : sinks[t].text # e => sinks'[t].text # e
    BY <1>0, <2>3 DEF TextsKept
  <2>6. e \notin transcript'
    <3>1. CASE UNCHANGED transcript
      BY <2>2, <3>1
    <3>2. CASE message # 0 /\ Store(message) /\ UNCHANGED obs
      <4>1. e # message
        <5>1. log[message].kind # "text" /\ message \in Nat
          BY <3>2, MessageIs
        <5>2. obs.pc # "stopped" => message < obs.at
          BY <3>2 DEF Once, MessageOnce
        <5>3. obs.pc # "stopped" /\ obs.at \in Nat
          <6>1. obs.todo # <<>>
            BY <2>1
          <6>2. ObsOK(obs)
            BY DEF Inv, ObsShape
          <6> QED
            BY <6>1, <6>2 DEF ObsOK, ObsType
        <5> QED
          BY <2>2, <5>1, <5>2, <5>3
      <4> QED
        BY <2>2, <3>2, <4>1 DEF Store
    <3>3. CASE StoreMessage /\ obs.pc = "apply" /\ Storing(Head(obs.todo)) /\ Store(Head(obs.todo).e)
      <4>1. obs.todo \in Seq(OpType) /\ obs.todo # <<>>
        BY <2>1 DEF Inv, TypeOK, ObsType
      <4>2. Head(obs.todo) = obs.todo[1] /\ 1 \in DOMAIN obs.todo
        BY <4>1, SeqFacts
      <4>3. j # 1
        BY <2>0, <2>1, <3>3
      <4>4. Storing(obs.todo[j]) /\ obs.todo[j].e = e
        BY <1>0, <1>1, <2>1
      <4>5. e # Head(obs.todo).e
        BY <1>0, <2>1, <3>3, <4>2, <4>3, <4>4 DEF TodoOnce
      <4> QED
        BY <2>2, <3>3, <4>5 DEF Store
    <3> QED
      BY <3>1, <3>2, <3>3, StoreMove DEF StoreMoves
  <2> QED
    BY <2>2, <2>4, <2>5, <2>6
<1>2. ASSUME NEW i \in DOMAIN obs'.todo, NEW j \in DOMAIN obs'.todo, Storing(obs'.todo[i]),
             Storing(obs'.todo[j]), obs'.todo[i].e = obs'.todo[j].e
      PROVE  i = j
  <2>1. PICK k, l : k = i + n /\ l = j + n
    OBVIOUS
  <2>2. /\ k \in DOMAIN obs.todo /\ obs'.todo[i] = obs.todo[k] /\ i \in Nat
        /\ l \in DOMAIN obs.todo /\ obs'.todo[j] = obs.todo[l] /\ j \in Nat
    BY <2>1
  <2>3. k = l
    BY <1>0, <1>2, <2>2 DEF TodoOnce
  <2> QED
    BY <2>1, <2>2, <2>3
<1> QED
  BY <1>0, <1>1, <1>2 DEF TodoOnce

LEMMA NothingTodo ==
  ASSUME obs'.todo = <<>>
  PROVE  TodoOnce(obs)'
<1>1. DOMAIN obs'.todo = {}
  OBVIOUS
<1> QED
  BY <1>1 DEF TodoOnce

(* What the observer is about to store is new.                             *)
LEMMA ShownOnce ==
  ASSUME Inv, Once, Observe \/ Woken
  PROVE  TodoOnce(obs)'
<1>0. /\ TypeOK /\ sinks \in [Turns -> SinkType] /\ obs.at \in Events /\ obs.pc \in Reading
      /\ ObserveUnchanged /\ obs \in ObsType
  BY ObserverMoves DEF Inv, TypeOK
<1>1. PICK e, t : e = obs.at /\ t = log[e].turn
  OBVIOUS
<1>u. /\ transcript' = transcript /\ receipts' = receipts /\ log' = log
      /\ \A op : Storing(op)' <=> Storing(op)
  BY <1>0 DEF ObserveUnchanged, engine, runtime, Storing
<1>2. CASE Waits
  <2>1. obs.todo = <<>>
    BY <1>0 DEF Inv, ObsShape, ObsOK, Reading
  <2>2. obs'.todo = obs.todo
    BY <1>0, <1>2 DEF Waits, Waiting, ObsType
  <2> QED
    BY <2>1, <2>2, NothingTodo
<1>3. CASE Passes(e)
  <2>1. obs'.todo = <<Op("commit", e)>>
    BY <1>3 DEF Passes, Apply1
  <2>2. DOMAIN obs'.todo = {1} /\ obs'.todo[1] = Op("commit", e)
    BY <2>1
  <2>3. \A i \in DOMAIN obs'.todo : ~Storing(obs'.todo[i])
    <3>1. Op("commit", e).op = "commit"
      BY DEF Op
    <3> QED
      BY <2>2, <3>1 DEF Storing
  <2> QED
    BY <1>u, <2>3 DEF TodoOnce
<1>4. CASE t \in Turns /\ (Completes(e, t) \/ Opened(e, t) \/ Ignores(e, t))
  <2>1. obs' = Observer("read", e + 1)
    BY <1>4 DEF Completes, Opened, Ignores
  <2>2. obs'.todo = <<>>
    BY <2>1 DEF Observer
  <2> QED
    BY <2>2, NothingTodo
<1>5. CASE t \in Turns /\ Projected(e, t)
  <2>0. PICK s : s = SinkFor(t)
    OBVIOUS
  <2>1. obs'.at = e /\ OpsOnce(obs'.todo, e, s.text) /\ log[e].kind # "text"
    BY <1>5, <2>0 DEF Projected
  <2>2. PICK y : /\ sinks' = [sinks EXCEPT ![t] = y]
                 /\ log[e].kind \in {"start", "call"} => y.text = 0
    BY <1>5 DEF Projected
  <2>3. s.text \in {0, sinks[t].text}
    BY <2>0, SinkValues DEF SinkFor
  <2>4. e \notin receipts => e \notin transcript
    BY <1>0, <1>1, UntakenStored
  <2>5. ASSUME NEW i \in DOMAIN obs'.todo, Storing(obs'.todo[i]), NEW f, f = obs'.todo[i].e
        PROVE  /\ f \notin transcript
               /\ \/ f = e /\ log[f].kind # "text"
                  \/ f < e /\ log[f].kind = "text" /\ \A u \in Turns : sinks'[u].text # f
    <3>1. PICK op : op = obs'.todo[i]
      OBVIOUS
    <3>2. StoreOf(op, e, s.text) /\ Storing(op)
      BY <2>1, <2>5, <3>1 DEF OpsOnce, Storing, Stores
    <3>3. CASE f = e
      <4>1. e \notin receipts
        BY <2>5, <3>1, <3>2, <3>3 DEF StoreOf, Storing
      <4> QED
        BY <2>1, <2>4, <3>3, <4>1
    <3>4. CASE f # e
      <4>1. /\ f \notin receipts /\ f = s.text /\ f # 0 /\ log[e].kind \in {"start", "call"}
        BY <2>5, <3>1, <3>2, <3>4 DEF StoreOf
      <4>2. f = sinks[t].text
        BY <2>3, <4>1
      <4>3. log[f].kind = "text" /\ log[f].turn = t /\ f \notin transcript
        BY <1>5, <4>1, <4>2 DEF Once, TextsOnce
      <4>4. f < e
        BY <1>0, <1>1, <1>5, <4>2 DEF Inv, ObsShape
      <4>5. ASSUME NEW u \in Turns, sinks'[u].text = f PROVE FALSE
        <5>1. CASE u = t
          <6>1. sinks'[u].text = 0
            BY <1>0, <1>5, <2>2, <4>1, <5>1
          <6> QED
            BY <4>1, <4>5, <6>1
        <5>2. CASE u # t
          <6>1. sinks[u].text = f
            BY <1>0, <2>2, <4>5, <5>2
          <6>2. log[f].turn = u
            BY <4>1, <6>1 DEF Once, TextsOnce
          <6> QED
            BY <4>3, <5>2, <6>2
        <5> QED
          BY <5>1, <5>2
      <4> QED
        BY <4>3, <4>4, <4>5
    <3> QED
      BY <3>3, <3>4
  <2>6. \A i, j \in DOMAIN obs'.todo : Storing(obs'.todo[i]) /\ Storing(obs'.todo[j])
          /\ obs'.todo[i].e = obs'.todo[j].e => i = j
    BY <2>1 DEF OpsOnce, Storing, Stores
  <2> QED
    BY <1>u, <2>1, <2>5, <2>6 DEF TodoOnce
<1> QED
  BY <1>1, <1>2, <1>3, <1>4, <1>5, ObserverShows

LEMMA TodoOnceKept ==
  ASSUME Inv, Once, [Next]_vars
  PROVE  TodoOnce(obs)'
<1>0. ObsMoves /\ ObsOK(obs) /\ obs \in ObsType
  BY ObsMove DEF Inv, ObsShape, ObsOK
<1>1. CASE Crash \/ Restart
  <2>1. obs'.todo = <<>>
    BY <1>1 DEF Crash, Restart, Stopped, Observer
  <2> QED
    BY <2>1, NothingTodo
<1>2. CASE Observe \/ Woken
  BY <1>2, ShownOnce
<1>d. \A i \in DOMAIN obs.todo : i \in Nat /\ i >= 1
  <2>1. DOMAIN obs.todo = 1..Len(obs.todo)
    BY <1>0 DEF ObsType
  <2> QED
    BY <2>1
<1>3. ASSUME ~Crash, ~Restart, ~Observe, ~Woken, ~StoreMessage, obs'.at = obs.at, obs'.todo = obs.todo
      PROVE  TodoOnce(obs)'
  <2>1. \A i \in DOMAIN obs'.todo : /\ i \in Nat /\ i >= 1 /\ i + 0 \in DOMAIN obs.todo
                                    /\ obs'.todo[i] = obs.todo[i + 0]
    <3>1. \A i \in Nat : i + 0 = i
      OBVIOUS
    <3> QED
      BY <1>3, <1>d, <3>1
  <2>2. 0 \in Nat
    OBVIOUS
  <2> QED
    BY <1>3, <2>1, <2>2, TodoShift
<1>4. ASSUME ~Crash, ~Restart, ~Observe, ~Woken, Working, obs' = Advanced(life = "up" /\ ~failed)
      PROVE  TodoOnce(obs)'
  <2>1. obs.todo # <<>> /\ (life = "up" /\ ~failed) \in BOOLEAN
    BY <1>0, <1>4 DEF ObsOK, Working
  <2>2. \/ obs'.at = obs.at /\ obs'.todo = Tail(obs.todo)
        \/ obs' = Observer("read", obs.at + 1)
        \/ obs' = Stopped
    BY <1>0, <1>4, <2>1, AdvancedOK
  <2>3. CASE obs'.at = obs.at /\ obs'.todo = Tail(obs.todo)
    <3>1. \A i \in DOMAIN Tail(obs.todo) : i + 1 \in DOMAIN obs.todo /\ Tail(obs.todo)[i] = obs.todo[i + 1]
      BY <1>0, <2>1, SeqFacts DEF ObsType
    <3>2. \A i \in DOMAIN Tail(obs.todo) : i \in Nat /\ i >= 1
      <4>1. Tail(obs.todo) \in Seq(OpType)
        BY <1>0, <2>1, SeqFacts DEF ObsType
      <4>2. PICK q : q = Tail(obs.todo)
        OBVIOUS
      <4>3. DOMAIN q = 1..Len(q)
        BY <4>1, <4>2
      <4> QED
        BY <4>2, <4>3
    <3>3. 1 \in Nat
      OBVIOUS
    <3> QED
      BY <1>4, <2>3, <3>1, <3>2, <3>3, TodoShift
  <2>4. CASE obs' = Observer("read", obs.at + 1) \/ obs' = Stopped
    <3>1. obs'.todo = <<>>
      BY <2>4 DEF Observer, Stopped
    <3> QED
      BY <3>1, NothingTodo
  <2> QED
    BY <2>2, <2>3, <2>4
<1>s. CASE ~Crash /\ ~Restart /\ ~Observe /\ ~Woken /\ StoreMessage
  BY <1>4, <1>s DEF StoreMessage, Working
<1>5. CASE ~Crash /\ ~Restart /\ ~Observe /\ ~Woken /\ ~StoreMessage
  <2>1. CASE Quiet
    <3>1. obs'.at = obs.at /\ obs'.todo = obs.todo
      BY <1>0, <2>1, NotifiedOK DEF Quiet
    <3> QED
      BY <1>3, <1>5, <3>1
  <2>2. CASE Halts
    <3>1. obs' = obs \/ obs' = Stopped
      BY <2>2 DEF Halts, Halted
    <3>2. CASE obs' = obs
      BY <1>3, <1>5, <3>2
    <3>3. CASE obs' = Stopped
      BY <3>3, NothingTodo DEF Stopped, Observer
    <3> QED
      BY <3>1, <3>2, <3>3
  <2>3. CASE Advances
    BY <1>4, <1>5, <2>3 DEF Advances
  <2>4. CASE Flushes
    <3>1. obs'.at = obs.at /\ obs'.todo = obs.todo
      BY <1>0, <2>4 DEF Flushes, ObsType
    <3> QED
      BY <1>3, <1>5, <3>1
  <2>5. CASE obs' = obs
    BY <1>3, <1>5, <2>5
  <2> QED
    BY <1>0, <1>5, <2>1, <2>2, <2>3, <2>4, <2>5 DEF ObsMoves
<1> QED
  BY <1>1, <1>2, <1>5, <1>s

(* What a turn stored before this process began does not change.           *)
LEMMA NotOursKept ==
  ASSUME Inv, [Next]_vars, ~Crash, ~Restart, NEW t, NotOurs(t)
  PROVE  \A e \in receipts' : log'[e].turn # t
<1>1. receipts' = receipts /\ receipts \subseteq Events
  BY ReceiptsMove DEF Inv, TypeOK
<1>2. \A i \in Events : log'[i] = log[i]
  BY LogKeeps DEF Inv
<1> QED
  BY <1>1, <1>2 DEF NotOurs

(* A turn that was not submitted yet stored nothing, and a turn that is    *)
(* submitted again was not stored before this process began, or has ended. *)
LEMMA AttemptOurs ==
  ASSUME Inv, Once, pc = "ready", NEW a, a = Attempt
  PROVE  NotOurs(a.id) \/ a.id \in adoptedTerminalTurnIds
<1>1. CASE pendingSubmit # NoAttempt
  <2>1. life \in {"up", "closing"}
    <3>1. life \in {"up", "closing", "committing", "down"} /\ (life \in {"committing", "down"} => ~inFlight)
      BY DEF Inv, TypeOK, CallShape
    <3> QED
      BY <3>1 DEF inFlight
  <2>2. a = pendingSubmit
    BY <1>1 DEF Attempt
  <2> QED
    BY <1>1, <2>1, <2>2 DEF Once, Ours
<1>2. CASE pendingSubmit = NoAttempt
  <2>1. PICK same : same = {b \in observedSubmitAttempts : b.digest = request.digest}
    OBVIOUS
  <2>2. CASE same # {}
    <3>1. a \in observedSubmitAttempts
      BY <1>2, <2>1, <2>2 DEF Attempt
    <3> QED
      BY <3>1 DEF Inv, Attempts
  <2>3. CASE same = {}
    <3>1. a.id = made + 1
      BY <1>2, <2>1, <2>3 DEF Attempt
    <3>2. \A e \in receipts : log[e].turn \in {0} \cup 1..made
      BY DEF Inv, TypeOK, Made
    <3>3. made + 1 \notin {0} \cup 1..made
      BY DEF Inv, TypeOK
    <3> QED
      BY <3>1, <3>2, <3>3 DEF NotOurs
  <2> QED
    BY <2>2, <2>3
<1> QED
  BY <1>1, <1>2

(* A stream is not opened for a turn that this process saw to end.         *)
LEMMA OpensUnended ==
  ASSUME Inv, Opens
  PROVE  request.id \notin adoptedTerminalTurnIds
<1>1. SUFFICES ASSUME request.id \in adoptedTerminalTurnIds PROVE FALSE
  OBVIOUS
<1>2. pc \in {"submit", "own"} /\ request.id \in Turns
  BY DEF Opens
<1>3. Past(request.id)
  BY <1>1 DEF Inv, Attempts
<1>4. CASE pc = "own"
  BY <1>1, <1>4 DEF Inv, Attempts, Unseen
<1>5. CASE pc = "submit"
  <2>1. Receipt
    <3>1. WrittenOwn => pc = "own"
      <4>1. WrittenOwn => Written("own")
        BY DEF WrittenOwn
      <4> QED
        BY <4>1, QueueHead
    <3> QED
      BY <1>5, <3>1 DEF Opens
  <2>2. call.id = request.id
    BY <1>5, CallTyped
  <2>3. sinks' = sinks
    BY <1>1, <2>1, <2>2 DEF Receipt
  <2>4. sinks'[request.id].live
    <3>1. sinks' = [sinks EXCEPT ![request.id] = [NewSink(FALSE) EXCEPT !.left = request.aborted]]
      BY DEF Opens
    <3>2. [NewSink(FALSE) EXCEPT !.left = request.aborted].live
      BY SinkValues
    <3> QED
      BY <1>2, <3>1, <3>2 DEF Inv, TypeOK
  <2> QED
    BY <1>3, <2>3, <2>4 DEF Past
<1> QED
  BY <1>2, <1>4, <1>5

LEMMA OursKept ==
  ASSUME Inv, Once, [Next]_vars
  PROVE  Ours'
<1>1. CASE Crash \/ Restart
  <2>1. /\ sinks' = [t \in Turns |-> NoSink] /\ request' = Idle /\ pendingSubmit' = NoAttempt
        /\ ~NoSink.live
    BY <1>1, SinkValues DEF Crash, Restart, Forgotten
  <2> QED
    BY <2>1 DEF Ours, Asked, Idle, pc
<1>2. CASE ~Crash /\ ~Restart
  <2>1. ASSUME NEW t \in Turns, sinks'[t].live, ~sinks'[t].adopted PROVE NotOurs(t)'
    <3>1. \/ sinks[t].live /\ ~sinks[t].adopted
          \/ Opens /\ t = request.id
      BY <2>1, LiveMoves
    <3>2. NotOurs(t)
      <4>1. CASE sinks[t].live /\ ~sinks[t].adopted
        BY <4>1 DEF Once, Ours
      <4>2. CASE Opens /\ t = request.id
        <5>1. Asked
          BY <4>2 DEF Opens, Asked
        <5> QED
          BY <4>2, <5>1, OpensUnended DEF Once, Ours
      <4> QED
        BY <3>1, <4>1, <4>2
    <3> QED
      BY <1>2, <3>2, NotOursKept DEF NotOurs
  <2>2. ASSUME Asked' PROVE NotOurs(request.id)' \/ request'.id \in adoptedTerminalTurnIds'
    <3>0. PICK i : i = request'.id
      OBVIOUS
    <3>1. NotOurs(i) \/ i \in adoptedTerminalTurnIds
      <4>1. CASE Submit /\ pc = "ready" /\ request'.id = Attempt.id
        BY <3>0, <4>1, AttemptOurs
      <4>2. CASE Asked /\ request'.id = request.id
        BY <3>0, <4>2 DEF Once, Ours
      <4> QED
        BY <2>2, <4>1, <4>2, AskedMove DEF AskedMoves, Asked
    <3>2. ~CloseCommit
      BY <2>2 DEF CloseCommit, Asked, inFlight, pc
    <3>3. i \in adoptedTerminalTurnIds => i \in adoptedTerminalTurnIds'
      BY <1>2, <3>2, AdoptedMove
    <3>4. NotOurs(i) => NotOurs(request.id)'
      BY <1>2, <3>0, NotOursKept DEF NotOurs
    <3> QED
      BY <3>0, <3>1, <3>3, <3>4
  <2>3. ASSUME life' \in {"up", "closing"}, pendingSubmit' # NoAttempt
        PROVE  NotOurs(pendingSubmit.id)' \/ pendingSubmit'.id \in adoptedTerminalTurnIds'
    <3>0. PICK i : i = pendingSubmit'.id
      OBVIOUS
    <3>1. NotOurs(i) \/ i \in adoptedTerminalTurnIds
      <4>1. CASE pendingSubmit' = pendingSubmit
        <5>1. life \in {"up", "closing"}
          BY <1>2, <2>3, LifeMoves DEF WrittenClose
        <5> QED
          BY <2>3, <3>0, <4>1, <5>1 DEF Once, Ours
      <4>2. CASE pc = "submit" /\ pendingSubmit' = call
        <5>1. Asked /\ i = request.id
          BY <3>0, <4>2, CallTyped DEF Asked
        <5> QED
          BY <5>1 DEF Once, Ours
      <4> QED
        BY <1>2, <2>3, <4>1, <4>2, PendingTo
    <3>2. ~CloseCommit
      BY <2>3 DEF CloseCommit
    <3>3. i \in adoptedTerminalTurnIds => i \in adoptedTerminalTurnIds'
      BY <1>2, <3>2, AdoptedMove
    <3>4. NotOurs(i) => NotOurs(pendingSubmit.id)'
      BY <1>2, <3>0, NotOursKept DEF NotOurs
    <3> QED
      BY <3>0, <3>1, <3>3, <3>4
  <2> QED
    BY <2>1, <2>2, <2>3 DEF Ours
<1> QED
  BY <1>1, <1>2

LEMMA InitOnce ==
  ASSUME Init
  PROVE  Once
<1>1. /\ twice = {} /\ transcript = {} /\ receipts = {} /\ sinks = [t \in Turns |-> NoSink]
      /\ obs.todo = <<>> /\ message = 0 /\ pc = "idle" /\ pendingSubmit = NoAttempt
  BY DEF Init, Observer, Idle, message, pc
<1>2. DOMAIN obs.todo = {}
  BY <1>1
<1>3. TodoOnce(obs)
  BY <1>2 DEF TodoOnce
<1>4. StoredTaken /\ MessageOnce
  BY <1>1 DEF StoredTaken, MessageOnce
<1>5. TextsOnce /\ Ours
  BY <1>1, SinkValues DEF TextsOnce, Ours, Asked
<1> QED
  BY <1>1, <1>3, <1>4, <1>5 DEF Once

\* No message is stored a second time in the transcript, whatever the observer of
\* e4-agent-stream.ts replays after a restart, and whichever of the stream and
\* the observer stored it first: the receipts answer for the earlier processes,
\* the place of the observer and the texts of the sinks for this one.
THEOREM StoredOnce == Spec => []ProjectedOnce
<1>1. Init => Once
  BY InitOnce
<1>2. Inv /\ Once /\ [Next]_vars => Once'
  BY TwiceKept, TodoOnceKept, StoredTakenKept, TextsOnceKept, MessageOnceKept, OursKept DEF Once
<1>3. Once => ProjectedOnce
  BY DEF Once, ProjectedOnce
<1> QED
  BY <1>1, <1>2, <1>3, InvCorrect, PTL DEF Spec
================================================================================
