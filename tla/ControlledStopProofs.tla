------------------------ MODULE ControlledStopProofs ------------------------
(***************************************************************************)
(* Proofs about ControlledStop, for any controllers and any bounds: also   *)
(* for several controllers at once whose replies are lost and whose leases *)
(* lapse, all together.                                                    *)
(*                                                                         *)
(* The argument speaks of the world, which is what controllers share: the  *)
(* durable attempt, the engine, and which requesters can never register    *)
(* again.  What a controller believes (View) and what a request on its way *)
(* can still do (Sent) are predicates of the world, and every step of the  *)
(* program changes the world in one of a few ways (WorldStep), each of     *)
(* which keeps them.  All of it is about a living engine: once it is dead, *)
(* it stays dead and has no drain.                                         *)
(*                                                                         *)
(* The last part (InTurn, CommitStands) is about controllers that follow   *)
(* one another: none undoes a durable hard commit that may still be used.  *)
(***************************************************************************)
EXTENDS ControlledStop, TLAPS

(***************************************************************************)
(* The world.                                                              *)
(***************************************************************************)
World == [attempt : ControlAttempt \cup {None}, engine : Engine, requests : Nat,
          decider : Nat, excluded : SUBSET Controllers, started : SUBSET Controllers]

\* A controller is excluded once its registration is gone: it registers only
\* when it starts.
TheWorld ==
  [attempt |-> attempt, engine |-> engine, requests |-> requests, decider |-> decider,
   excluded |-> {q \in Controllers : ctl[q].pc # "new" /\ q \notin registered},
   started |-> {q \in Controllers : ctl[q].pc # "new"}]

\* The durable attempt is that of request n.
Current(n, w) == w.attempt # None /\ w.attempt.request = n

InDrain(w) == w.engine.drain.phase # "rolled-back"

\* The engine will never begin a drain for a (an attempt or a request): its
\* epoch is over or its requester excluded.
Spent(a, w) == w.engine.epoch > a.epoch \/ a.requester \in w.excluded

\* What is known of every attempt and request that was ever made.  One drain is
\* begun per request, in the epoch the request names.
Known(a, w) ==
  /\ a.request \in 1 .. w.requests
  /\ a.requester \in w.started
  /\ a.epoch <= w.engine.epoch
  /\ Current(a.request, w) => w.attempt.requester = a.requester /\ w.attempt.epoch = a.epoch
  /\ w.engine.drain.request = a.request =>
       IF InDrain(w) THEN w.engine.epoch = a.epoch ELSE w.engine.epoch > a.epoch

\* d is the number of the drain that was begun for a.
Numbered(d, a, w) ==
  /\ d \in 1 .. w.engine.drain.number
  /\ IF d = w.engine.drain.number
     THEN w.engine.drain.request = a.request
     ELSE w.engine.epoch > a.epoch

\* What is known of an attempt that was ever durable.  A later phase is never
\* taken back, and the last one not changed at all.
KnownAttempt(a, w) ==
  /\ Known(a, w)
  /\ a.generation <= w.engine.owner
  /\ IF a.phase = "begin-pending" THEN a.drain = 0 ELSE Numbered(a.drain, a, w)
  /\ Current(a.request, w) =>
       /\ w.attempt.generation = a.generation
       /\ a.phase \in HardPhase => w.attempt.phase \in HardPhase
       /\ a.phase = "hard-signal-commit-pending" => w.attempt = a

WorldOK(w) ==
  /\ w.attempt # None => KnownAttempt(w.attempt, w)
  /\ w.engine.drain.request <= w.requests
  /\ w.engine.drain.request # 0 => w.engine.drain.number # 0
  /\ InDrain(w) => /\ Current(w.engine.drain.request, w)
                   /\ w.attempt.epoch = w.engine.epoch
  /\ w.engine.drain.phase = "committed" =>
       /\ w.attempt.phase = "hard-signal-commit-pending"
       /\ w.attempt.drain = w.engine.drain.number
  /\ w.decider <= w.engine.owner
  /\ w.attempt # None /\ w.attempt.phase \in HardPhase =>
       w.attempt.generation <= w.decider

\* The places at which a controller works on an attempt, and the phases that
\* attempt may have there.
WithoutAttempt == {"new", "ready", "prepare", "stopped", "gone"}
Beginning == {"load", "begin", "replace", "denied", "mark"}
Deciding == {"authorize", "advance-commit", "commit", "signal"}

PhaseAt(pc) ==
  CASE pc \in Beginning -> {"begin-pending"}
    [] pc = "drained" -> AttemptPhase \ {"begin-pending"}
    [] pc \in {"accepted", "advance-accepted"} -> {"draining"}
    [] pc \in {"wait", "timeout", "advance-hard"} -> {"graceful-accepted"}
    [] pc = "authorize" -> HardPhase
    [] pc = "advance-commit" -> {"hard-signal-pending"}
    [] pc \in {"commit", "signal"} -> {"hard-signal-commit-pending"}
    [] OTHER -> AttemptPhase

\* What a controller knows while it works on an attempt, wherever it is, and
\* what it knows at its place.
Knows(c, w) ==
  LET a == c.attempt IN
  /\ KnownAttempt(a, w)
  /\ a.generation <= c.generation
  /\ a.phase # "begin-pending" => c.drain = a.drain
  /\ c.drain # 0 => Numbered(c.drain, a, w)

Stands(c, w) ==
  LET a == c.attempt IN
  /\ a.phase \in PhaseAt(c.pc)
  /\ c.pc \in {"mark", "rollback", "clear"} => c.drain # 0
  /\ c.pc = "begin" => Current(a.request, w) \/ Spent(a, w)
  /\ c.pc = "replace" /\ Current(a.request, w) =>
       a.requester \in w.excluded /\ w.engine.drain.request # a.request
  /\ c.pc \in {"denied", "clear"} /\ Current(a.request, w) => w.engine.epoch > a.epoch
  /\ c.pc \in Deciding /\ Current(a.request, w) => w.decider = c.generation
  /\ c.pc = "drained" /\ a.phase \in HardPhase /\ Current(a.request, w) =>
       w.decider <= c.generation

View(c, w) == Knows(c, w) /\ Stands(c, w)

\* What every controller knows.
Bounded(c, w) == c.generation <= w.engine.owner /\ c.epoch <= w.engine.epoch

\* What a request can still do.
Sent(m, w) ==
  /\ Known(m, w)
  /\ m.kind = "begin" => Current(m.request, w) \/ Spent(m, w)
  /\ m.kind = "commit" =>
       /\ Numbered(m.drain, m, w)
       /\ Current(m.request, w) =>
            w.attempt.phase = "hard-signal-commit-pending" /\ w.attempt.drain = m.drain

(***************************************************************************)
(* The invariant.                                                          *)
(***************************************************************************)
CtlShape == \A p \in Controllers : ctl[p].pc \notin WithoutAttempt => ctl[p].attempt # None

\* From a permit to the signal the controller keeps the lock, so no one else
\* acquires the engine or retires its record.
SignalHeld ==
  \A p \in Controllers : ctl[p].pc = "signal" =>
    /\ lock = p
    /\ engine.alive => /\ engine.drain.phase = "committed"
                       /\ engine.drain.number = ctl[p].drain
                       /\ ctl[p].generation = engine.owner

LiveInv ==
  /\ record = engine.owner
  /\ WorldOK(TheWorld)
  /\ \A p \in Controllers : Bounded(ctl[p], TheWorld)
  /\ \A p \in Controllers : ctl[p].pc \notin WithoutAttempt => View(ctl[p], TheWorld)
  /\ \A m \in late : Sent(m, TheWorld)

Inv == TypeOK /\ CtlShape /\ SignalHeld /\ (engine.alive => LiveInv)

(***************************************************************************)
(* The ways in which the world changes.                                    *)
(***************************************************************************)
Grown(v, w) == v.excluded \subseteq w.excluded /\ v.started \subseteq w.started

FilesKept(v, w) ==
  w.attempt = v.attempt /\ w.requests = v.requests /\ w.decider = v.decider

\* The drain goes on, the engine changes owner or lease, or nothing happens.
DrainMoves(v, w) ==
  /\ FilesKept(v, w)
  /\ w.engine.epoch = v.engine.epoch /\ v.engine.owner <= w.engine.owner
  /\ w.engine.drain.number = v.engine.drain.number
  /\ w.engine.drain.request = v.engine.drain.request
  /\ InDrain(v) <=> InDrain(w)
  /\ w.engine.drain.phase = "committed" =>
       \/ v.engine.drain.phase = "committed"
       \/ /\ v.attempt.phase = "hard-signal-commit-pending"
          /\ v.attempt.drain = v.engine.drain.number

DrainBegun(v, w) ==
  /\ FilesKept(v, w)
  /\ w.engine.epoch = v.engine.epoch /\ w.engine.owner = v.engine.owner
  /\ w.engine.drain.number = v.engine.drain.number + 1
  /\ w.engine.drain.phase = "draining"
  /\ ~InDrain(v)
  /\ Current(w.engine.drain.request, v) /\ v.attempt.epoch = v.engine.epoch
  /\ v.attempt.requester \notin v.excluded

DrainRolledBack(v, w) ==
  /\ FilesKept(v, w)
  /\ w.engine.epoch = v.engine.epoch + 1 /\ w.engine.owner = v.engine.owner
  /\ w.engine.drain.number = v.engine.drain.number
  /\ w.engine.drain.request = v.engine.drain.request
  /\ InDrain(v) /\ w.engine.drain.phase = "rolled-back"

\* A new attempt takes the place of none, or of one that cannot begin.
AttemptMade(v, w) ==
  /\ w.engine = v.engine /\ w.decider = v.decider
  /\ w.requests = v.requests + 1
  /\ w.attempt # None /\ w.attempt.request = w.requests
  /\ w.attempt.requester \in w.started
  /\ w.attempt.epoch <= w.engine.epoch /\ w.attempt.generation <= w.engine.owner
  /\ w.attempt.phase = "begin-pending" /\ w.attempt.drain = 0
  /\ ~InDrain(v)
  /\ v.attempt # None => v.attempt.requester \in v.excluded

AttemptAdvanced(v, w) ==
  /\ w.engine = v.engine /\ w.requests = v.requests
  /\ v.attempt # None /\ v.attempt.phase # "hard-signal-commit-pending"
  /\ w.attempt # None
  /\ w.attempt = [v.attempt EXCEPT !.phase = w.attempt.phase, !.drain = w.attempt.drain]
  /\ w.attempt.phase # "begin-pending" /\ Numbered(w.attempt.drain, v.attempt, v)
  /\ v.attempt.phase \in HardPhase =>
       w.attempt.phase \in HardPhase /\ w.decider = v.decider
  /\ w.attempt.phase \in HardPhase => v.attempt.generation <= w.decider
  /\ w.decider <= w.engine.owner

AttemptCleared(v, w) ==
  /\ w.engine = v.engine /\ w.requests = v.requests /\ w.decider = v.decider
  /\ w.attempt = None
  /\ v.attempt # None => v.engine.epoch > v.attempt.epoch

WorldStep(v, w) ==
  /\ Grown(v, w)
  /\ \/ DrainMoves(v, w) \/ DrainBegun(v, w) \/ DrainRolledBack(v, w)
     \/ AttemptMade(v, w) \/ AttemptAdvanced(v, w) \/ AttemptCleared(v, w)

(***************************************************************************)
(* What is known stays known.                                              *)
(***************************************************************************)
LEMMA WorldTypes ==
  ASSUME NEW w \in World
  PROVE  /\ w.engine.epoch \in Nat /\ w.engine.owner \in Nat
         /\ w.engine.drain.number \in Nat /\ w.engine.drain.request \in Nat
         /\ w.requests \in Nat /\ w.decider \in Nat
         /\ w.attempt # None =>
              /\ w.attempt \in ControlAttempt
              /\ w.attempt.request \in Nat /\ w.attempt.epoch \in Nat
              /\ w.attempt.generation \in Nat /\ w.attempt.drain \in Nat
BY DEF World, Engine, Drain, ControlAttempt

\* An advance changes the phase and the drain.
LEMMA AdvancedFields ==
  ASSUME NEW v \in World, NEW w \in World, AttemptAdvanced(v, w)
  PROVE  /\ v.attempt # None /\ w.attempt # None
         /\ w.attempt.request = v.attempt.request
         /\ w.attempt.requester = v.attempt.requester
         /\ w.attempt.epoch = v.attempt.epoch
         /\ w.attempt.generation = v.attempt.generation
BY WorldTypes DEF AttemptAdvanced, ControlAttempt

\* An attempt and a request name a request, its requester and an epoch.
Naming(a) == a.request \in Nat /\ a.epoch \in Nat

LEMMA KnownKept ==
  ASSUME NEW v \in World, NEW w \in World, WorldOK(v), WorldStep(v, w),
         NEW a, Naming(a), Known(a, v)
  PROVE  Known(a, w)
<1> USE WorldTypes DEF Known, Naming, WorldStep, Grown
<1>1. CASE DrainMoves(v, w)
  BY <1>1 DEF DrainMoves, FilesKept, Current
<1>2. CASE DrainBegun(v, w)
  BY <1>2 DEF DrainBegun, FilesKept, Current, InDrain
<1>3. CASE DrainRolledBack(v, w)
  BY <1>3 DEF DrainRolledBack, FilesKept, Current, InDrain
<1>4. CASE AttemptMade(v, w)
  BY <1>4 DEF AttemptMade, Current, InDrain
<1>5. CASE AttemptAdvanced(v, w)
  <2>1. /\ w.attempt.request = v.attempt.request /\ w.attempt.requester = v.attempt.requester
        /\ w.attempt.epoch = v.attempt.epoch
    BY <1>5 DEF AttemptAdvanced, ControlAttempt
  <2> QED
    BY <1>5, <2>1 DEF AttemptAdvanced, Current, InDrain
<1>6. CASE AttemptCleared(v, w)
  BY <1>6 DEF AttemptCleared, Current, InDrain
<1> QED
  BY <1>1, <1>2, <1>3, <1>4, <1>5, <1>6

LEMMA NumberedKept ==
  ASSUME NEW v \in World, NEW w \in World, WorldOK(v), WorldStep(v, w),
         NEW a, Naming(a), Known(a, v), NEW d, Numbered(d, a, v)
  PROVE  Numbered(d, a, w)
<1> USE WorldTypes DEF Numbered, Naming, WorldStep
<1>1. CASE DrainMoves(v, w)
  BY <1>1 DEF DrainMoves
<1>2. CASE DrainBegun(v, w)
  BY <1>2 DEF DrainBegun, Known
<1>3. CASE DrainRolledBack(v, w)
  BY <1>3 DEF DrainRolledBack
<1>4. CASE AttemptMade(v, w) \/ AttemptAdvanced(v, w) \/ AttemptCleared(v, w)
  BY <1>4 DEF AttemptMade, AttemptAdvanced, AttemptCleared
<1> QED
  BY <1>1, <1>2, <1>3, <1>4

\* What happens to the durable attempt in a step.
LEMMA AttemptFate ==
  ASSUME NEW v \in World, NEW w \in World, WorldOK(v), WorldStep(v, w),
         NEW n \in 1 .. v.requests, Current(n, w)
  PROVE  /\ Current(n, v)
         /\ w.attempt.requester = v.attempt.requester /\ w.attempt.epoch = v.attempt.epoch
         /\ w.attempt.generation = v.attempt.generation
         /\ v.attempt.phase \in HardPhase =>
              w.attempt.phase \in HardPhase /\ w.decider = v.decider
         /\ v.attempt.phase = "hard-signal-commit-pending" => w.attempt = v.attempt
<1> USE WorldTypes DEF WorldStep, Current
<1>1. CASE DrainMoves(v, w) \/ DrainBegun(v, w) \/ DrainRolledBack(v, w)
  BY <1>1 DEF DrainMoves, DrainBegun, DrainRolledBack, FilesKept
<1>2. CASE AttemptMade(v, w)
  BY <1>2 DEF AttemptMade
<1>3. CASE AttemptAdvanced(v, w)
  BY <1>3 DEF AttemptAdvanced, ControlAttempt
<1>4. CASE AttemptCleared(v, w)
  BY <1>4 DEF AttemptCleared
<1> QED
  BY <1>1, <1>2, <1>3, <1>4

LEMMA KnownAttemptKept ==
  ASSUME NEW v \in World, NEW w \in World, WorldOK(v), WorldStep(v, w),
         NEW a \in ControlAttempt, KnownAttempt(a, v)
  PROVE  KnownAttempt(a, w)
<1>1. Naming(a) /\ Known(a, v) /\ a.request \in 1 .. v.requests
      /\ a.generation \in Nat
  BY DEF ControlAttempt, Naming, KnownAttempt, Known
<1>2. Known(a, w)
  BY <1>1, KnownKept
<1>3. a.generation <= w.engine.owner
  BY <1>1, WorldTypes DEF KnownAttempt, WorldStep, DrainMoves, DrainBegun, DrainRolledBack,
     AttemptMade, AttemptAdvanced, AttemptCleared
<1>4. a.phase # "begin-pending" => Numbered(a.drain, a, w)
  BY <1>1, NumberedKept DEF KnownAttempt
<1> QED
  BY <1>1, <1>2, <1>3, <1>4, AttemptFate DEF KnownAttempt

LEMMA WorldOKKept ==
  ASSUME NEW v \in World, NEW w \in World, WorldOK(v), WorldStep(v, w)
  PROVE  WorldOK(w)
<1> USE WorldTypes
<1>1. w.attempt # None => KnownAttempt(w.attempt, w)
  <2>1. CASE w.attempt = v.attempt
    BY <2>1, KnownAttemptKept DEF WorldOK
  <2>2. CASE AttemptMade(v, w)
    BY <2>2 DEF AttemptMade, KnownAttempt, Known, Current, WorldOK, WorldStep, HardPhase
  <2>3. CASE AttemptAdvanced(v, w)
    <3> DEFINE a == w.attempt
    <3>1. /\ a.request = v.attempt.request /\ a.requester = v.attempt.requester
          /\ a.epoch = v.attempt.epoch /\ a.generation = v.attempt.generation
          /\ v.attempt # None /\ a.phase # "begin-pending"
          /\ Numbered(a.drain, v.attempt, v) /\ w.engine = v.engine
      BY <2>3 DEF AttemptAdvanced, ControlAttempt
    <3>2. Known(v.attempt, w)
      BY <3>1, KnownKept DEF WorldOK, KnownAttempt, Naming
    <3>3. Known(a, w)
      BY <3>1, <3>2 DEF Known
    <3>4. Numbered(a.drain, a, w)
      BY <3>1 DEF Numbered
    <3> QED
      BY <3>1, <3>3, <3>4 DEF KnownAttempt, WorldOK
  <2>4. CASE AttemptCleared(v, w)
    BY <2>4 DEF AttemptCleared
  <2> QED
    BY <2>1, <2>2, <2>3, <2>4 DEF WorldStep, DrainMoves, DrainBegun, DrainRolledBack, FilesKept
<1>2. /\ w.engine.drain.request <= w.requests
      /\ w.engine.drain.request # 0 => w.engine.drain.number # 0
  BY DEF WorldOK, WorldStep, DrainMoves, DrainBegun, DrainRolledBack, FilesKept,
     AttemptMade, AttemptAdvanced, AttemptCleared, Current, KnownAttempt, Known
<1>3. InDrain(w) => Current(w.engine.drain.request, w) /\ w.attempt.epoch = w.engine.epoch
  <2>1. CASE AttemptAdvanced(v, w)
    BY <2>1, AdvancedFields DEF AttemptAdvanced, WorldOK, Current, InDrain
  <2>2. CASE ~AttemptAdvanced(v, w)
    BY <2>2 DEF WorldOK, WorldStep, DrainMoves, DrainBegun, DrainRolledBack, FilesKept,
       AttemptMade, AttemptCleared, Current, InDrain
  <2> QED
    BY <2>1, <2>2
<1>4. w.engine.drain.phase = "committed" =>
        /\ w.attempt.phase = "hard-signal-commit-pending"
        /\ w.attempt.drain = w.engine.drain.number
  BY DEF WorldOK, WorldStep, DrainMoves, DrainBegun, DrainRolledBack, FilesKept,
     AttemptMade, AttemptAdvanced, AttemptCleared, Current, InDrain
<1>5. w.decider <= w.engine.owner
  BY DEF WorldOK, WorldStep, DrainMoves, DrainBegun, DrainRolledBack, FilesKept,
     AttemptMade, AttemptAdvanced, AttemptCleared
<1>6. w.attempt # None /\ w.attempt.phase \in HardPhase => w.attempt.generation <= w.decider
  <2>1. CASE AttemptAdvanced(v, w)
    BY <2>1 DEF AttemptAdvanced, ControlAttempt
  <2>2. CASE ~AttemptAdvanced(v, w)
    BY <2>2 DEF WorldOK, WorldStep, DrainMoves, DrainBegun, DrainRolledBack, FilesKept,
       AttemptMade, AttemptCleared, HardPhase
  <2> QED
    BY <2>1, <2>2
<1> QED
  BY <1>1, <1>2, <1>3, <1>4, <1>5, <1>6 DEF WorldOK

\* Whatever can no longer begin a drain cannot later, and what is replaced
\* or cleared could not either.
LEMMA SpentKept ==
  ASSUME NEW v \in World, NEW w \in World, WorldOK(v), WorldStep(v, w),
         NEW a, Naming(a), Known(a, v), Current(a.request, v) \/ Spent(a, v)
  PROVE  Current(a.request, w) \/ Spent(a, w)
<1> USE WorldTypes DEF Spent, Naming, WorldStep, Grown
<1>1. CASE DrainMoves(v, w) \/ DrainBegun(v, w) \/ DrainRolledBack(v, w)
  BY <1>1 DEF DrainMoves, DrainBegun, DrainRolledBack, FilesKept, Current
<1>2. CASE AttemptMade(v, w)
  BY <1>2 DEF AttemptMade, Current, Known
<1>3. CASE AttemptAdvanced(v, w)
  BY <1>3, AdvancedFields DEF AttemptAdvanced, Current
<1>4. CASE AttemptCleared(v, w)
  BY <1>4 DEF AttemptCleared, Current, Known
<1> QED
  BY <1>1, <1>2, <1>3, <1>4

LEMMA SentKept ==
  ASSUME NEW v \in World, NEW w \in World, WorldOK(v), WorldStep(v, w),
         NEW m \in Request, Sent(m, v)
  PROVE  Sent(m, w)
<1>1. Naming(m) /\ Known(m, v) /\ m.request \in 1 .. v.requests
  BY DEF Request, Naming, Sent, Known
<1>2. Known(m, w)
  BY <1>1, KnownKept
<1>3. m.kind = "begin" => Current(m.request, w) \/ Spent(m, w)
  BY <1>1, SpentKept DEF Sent
<1>4. m.kind = "commit" => Numbered(m.drain, m, w)
  BY <1>1, NumberedKept DEF Sent
<1>5. m.kind = "commit" /\ Current(m.request, w) =>
        w.attempt.phase = "hard-signal-commit-pending" /\ w.attempt.drain = m.drain
  BY <1>1, AttemptFate DEF Sent
<1> QED
  BY <1>2, <1>3, <1>4, <1>5 DEF Sent

LEMMA EngineGrows ==
  ASSUME NEW v \in World, NEW w \in World, WorldStep(v, w)
  PROVE  v.engine.epoch <= w.engine.epoch /\ v.engine.owner <= w.engine.owner
BY WorldTypes DEF WorldStep, DrainMoves, DrainBegun, DrainRolledBack, AttemptMade,
   AttemptAdvanced, AttemptCleared

LEMMA ViewKept ==
  ASSUME NEW v \in World, NEW w \in World, WorldOK(v), WorldStep(v, w),
         NEW c \in Controller, c.attempt # None, View(c, v)
  PROVE  View(c, w)
<1> DEFINE a == c.attempt
<1>1. a \in ControlAttempt /\ KnownAttempt(a, v) /\ Known(a, v) /\ Naming(a)
      /\ a.request \in 1 .. v.requests
  BY DEF Controller, View, Knows, Stands, KnownAttempt, Known, Naming, ControlAttempt
<1>2. KnownAttempt(a, w)
  BY <1>1, KnownAttemptKept
<1>3. c.drain # 0 => Numbered(c.drain, a, w)
  BY <1>1, NumberedKept DEF View, Knows, Stands
<1>4. c.pc = "begin" => Current(a.request, w) \/ Spent(a, w)
  BY <1>1, SpentKept DEF View, Knows, Stands
<1>5. c.pc = "replace" /\ Current(a.request, w) =>
        a.requester \in w.excluded /\ w.engine.drain.request # a.request
  <2> SUFFICES ASSUME c.pc = "replace", Current(a.request, w)
               PROVE  a.requester \in w.excluded /\ w.engine.drain.request # a.request
    OBVIOUS
  <2>1. Current(a.request, v)
    BY <1>1, AttemptFate
  <2>2. a.requester \in v.excluded /\ v.engine.drain.request # a.request
    BY <2>1 DEF View, Knows, Stands
  <2> QED
    BY <1>1, <2>1, <2>2 DEF WorldStep, Grown, DrainMoves, DrainBegun, DrainRolledBack,
       AttemptMade, AttemptAdvanced, AttemptCleared, Known, Current
<1>6. c.pc \in {"denied", "clear"} /\ Current(a.request, w) => w.engine.epoch > a.epoch
  BY <1>1, AttemptFate, EngineGrows, WorldTypes DEF View, Knows, Stands, Naming
<1>7. c.pc \in Deciding /\ Current(a.request, w) => w.decider = c.generation
  <2> SUFFICES ASSUME c.pc \in Deciding, Current(a.request, w)
               PROVE  w.decider = c.generation
    OBVIOUS
  <2>1. Current(a.request, v) /\ v.decider = c.generation
    BY <1>1, AttemptFate DEF View, Knows, Stands
  <2>2. a.phase \in HardPhase
    BY DEF View, Knows, Stands, PhaseAt, Deciding, Beginning, HardPhase
  <2>3. v.attempt.phase \in HardPhase
    BY <1>1, <2>1, <2>2 DEF KnownAttempt
  <2> QED
    BY <1>1, <2>1, <2>3, AttemptFate
<1>8. c.pc = "drained" /\ a.phase \in HardPhase /\ Current(a.request, w) =>
        w.decider <= c.generation
  <2> SUFFICES ASSUME c.pc = "drained", a.phase \in HardPhase, Current(a.request, w)
               PROVE  w.decider <= c.generation
    OBVIOUS
  <2>1. Current(a.request, v) /\ v.decider <= c.generation
    BY <1>1, AttemptFate DEF View, Knows, Stands
  <2>2. v.attempt.phase \in HardPhase
    BY <1>1, <2>1 DEF KnownAttempt
  <2> QED
    BY <1>1, <2>1, <2>2, AttemptFate
<1> QED
  BY <1>2, <1>3, <1>4, <1>5, <1>6, <1>7, <1>8 DEF View, Knows, Stands

(***************************************************************************)
(* What a controller becomes.                                              *)
(***************************************************************************)
\* c leaves #controlledStop, or is about to roll its drain back.
Leaves(c, d) ==
  /\ d.pc \in {"ready", "gone"}
  /\ d.generation \in {0, c.generation} /\ d.epoch = 0

\* d works on the same attempt as c, perhaps at another place.
Carries(c, d) ==
  /\ d.attempt = c.attempt /\ d.drain = c.drain
  /\ d.generation = c.generation /\ d.epoch = c.epoch

RollsBack(c, d) == Carries(c, d) /\ d.pc = "rollback" /\ d.drain # 0

LEMMA ContextTyped ==
  /\ NoContext \in Controller /\ NoContext.generation = 0 /\ NoContext.epoch = 0
  /\ [NoContext EXCEPT !.pc = "gone"] \in Controller
  /\ [NoContext EXCEPT !.pc = "stopped"] \in Controller
BY DEF NoContext, Controller, Label, LifecycleState, Operation

LEMMA AtTyped ==
  ASSUME NEW c \in Controller, NEW l \in Label
  PROVE  /\ At(c, l) \in Controller /\ Carries(c, At(c, l)) /\ At(c, l).pc = l
         /\ At(c, l).hard = c.hard /\ At(c, l).state = c.state
BY DEF At, Controller, Carries

LEMMA ReturnedLeaves ==
  ASSUME NEW c \in Controller
  PROVE  Returned(c) \in Controller /\ Leaves(c, Returned(c))
BY DEF Returned, NoContext, Controller, Label, LifecycleState, Operation, Leaves

LEMMA ReadyAgainLeaves ==
  ASSUME NEW c \in Controller
  PROVE  ReadyAgain(c) \in Controller /\ Leaves(c, ReadyAgain(c))
<1> DEFINE d == [c EXCEPT !.state = "ready"]
<1>1. d \in Controller /\ d.generation = c.generation
  BY DEF Controller, LifecycleState
<1> HIDE DEF d
<1>2. Returned(d) \in Controller /\ Leaves(c, Returned(d))
  BY <1>1, ReturnedLeaves DEF Leaves
<1> QED
  BY <1>2, ReturnedLeaves DEF ReadyAgain, d

LEMMA GiveUpCarries ==
  ASSUME NEW c \in Controller
  PROVE  GiveUp(c) \in Controller /\ Carries(c, GiveUp(c)) /\ GiveUp(c).pc = "rollback"
BY DEF GiveUp, At, Controller, Carries, Label, Requesting

LEMMA CaughtLeaves ==
  ASSUME NEW c \in Controller, NEW e \in BOOLEAN
  PROVE  /\ Caught(c, e) \in Controller
         /\ Leaves(c, Caught(c, e)) \/ RollsBack(c, Caught(c, e))
<1> DEFINE d == [At(c, "rollback") EXCEPT !.why = IF e THEN "expired" ELSE "error"]
<1>1. d \in Controller /\ Carries(c, d) /\ d.pc = "rollback" /\ d.drain = c.drain
  BY DEF At, Controller, Carries, Label, Requesting
<1> HIDE DEF d
<1>2. (Caught(c, e) = d /\ c.drain # 0) \/ Caught(c, e) = Returned(c)
  BY DEF Caught, d
<1> QED
  BY <1>1, <1>2, ReturnedLeaves DEF RollsBack

\* The abort check either gives up or goes on.
LEMMA CheckedMoves ==
  ASSUME NEW p, NEW c \in Controller, NEW l \in Label
  PROVE  /\ Checked(p, c, l) \in Controller /\ Carries(c, Checked(p, c, l))
         /\ Checked(p, c, l).pc \in {l, "rollback"}
BY GiveUpCarries, AtTyped DEF Checked

(***************************************************************************)
(* Who fits the world.                                                     *)
(***************************************************************************)
Fits(c, w) == Bounded(c, w) /\ (c.pc \notin WithoutAttempt => View(c, w))

LEMMA LeavesFits ==
  ASSUME NEW w \in World, NEW c \in Controller, Bounded(c, w),
         NEW d \in Controller, Leaves(c, d)
  PROVE  Fits(d, w) /\ d.pc \in WithoutAttempt
BY WorldTypes DEF Leaves, Fits, Bounded, WithoutAttempt

\* Whoever rolls back knows no more of the world than before.
LEMMA RollsBackFits ==
  ASSUME NEW w \in World, NEW c \in Controller, c.attempt # None, Bounded(c, w), View(c, w),
         NEW d \in Controller, RollsBack(c, d)
  PROVE  Fits(d, w)
<1>1. c.attempt.phase \in AttemptPhase
  BY DEF Controller, ControlAttempt
<1> QED
  BY <1>1 DEF RollsBack, Carries, Fits, Bounded, View, Knows, Stands, PhaseAt, Beginning, Deciding

(***************************************************************************)
(* Replies of the engine.                                                  *)
(***************************************************************************)
WithEngine(w, e) ==
  [attempt |-> w.attempt, engine |-> e, requests |-> w.requests, decider |-> w.decider,
   excluded |-> w.excluded, started |-> w.started]

\* A committed permit stands.
PermitStands(e, f) ==
  e.drain.phase = "committed" =>
    f.drain.phase = "committed" /\ f.drain.number = e.drain.number /\ f.owner = e.owner

LEMMA WorldTyped ==
  ASSUME TypeOK
  PROVE  /\ TheWorld \in World
         /\ TheWorld.attempt = attempt /\ TheWorld.engine = engine
         /\ TheWorld.requests = requests /\ TheWorld.decider = decider
         /\ TheWorld.excluded = {q \in Controllers : ctl[q].pc # "new" /\ q \notin registered}
         /\ TheWorld.started = {q \in Controllers : ctl[q].pc # "new"}
BY DEF TypeOK, TheWorld, World

LEMMA WorldTypedNext ==
  ASSUME TypeOK'
  PROVE  /\ TheWorld' \in World
         /\ TheWorld'.attempt = attempt' /\ TheWorld'.engine = engine'
         /\ TheWorld'.requests = requests' /\ TheWorld'.decider = decider'
         /\ TheWorld'.excluded =
              {q \in Controllers : ctl'[q].pc # "new" /\ q \notin registered'}
         /\ TheWorld'.started = {q \in Controllers : ctl'[q].pc # "new"}
BY DEF TypeOK, TheWorld, World

\* What a reply does to the engine: nothing, begin a drain, move it on, or
\* roll it back.
LEMMA ReplyEngine ==
  ASSUME TypeOK, NEW m \in Request, NEW r \in Replies(m)
  PROVE  \/ r.engine = engine
         \/ /\ m.kind = "begin" /\ m.requester \in registered
            /\ ~Draining /\ engine.epoch = m.epoch
            /\ r.engine = With([number |-> engine.drain.number + 1, request |-> m.request,
                                requester |-> m.requester, phase |-> "draining",
                                expired |-> FALSE])
         \/ /\ Draining /\ engine.drain.phase # "committed"
            /\ \E ph \in {"accepted", "decision", "prepared"} : r.engine = Moved(ph)
         \/ /\ m.kind = "commit" /\ m.drain = engine.drain.number
            /\ engine.drain.phase = "prepared" /\ r.engine = Moved("committed")
         \/ /\ Draining /\ engine.drain.phase # "committed"
            /\ r.engine = RolledBack
<1> USE DEF Reply
<1>1. CASE r = Reply("owner-refused", engine) \/ r = Reply("refused", engine)
  BY <1>1
<1>2. CASE m.kind = "begin" /\ r \in BeginReplies(m)
  BY <1>2 DEF BeginReplies
<1>3. CASE r \in GracefulReplies(m)
  BY <1>3 DEF GracefulReplies, Draining
<1>4. CASE r \in AuthorizeReplies
  BY <1>4 DEF AuthorizeReplies, Draining
<1>5. CASE m.kind = "commit" /\ m.drain = engine.drain.number /\ r \in CommitReplies
  BY <1>5 DEF CommitReplies
<1>6. CASE r \in RollbackReplies
  BY <1>6 DEF RollbackReplies, Draining
<1>7. CASE r = Reply("recorded", engine)
  BY <1>7
<1> QED
  BY <1>1, <1>2, <1>3, <1>4, <1>5, <1>6, <1>7 DEF Replies, Request, Requesting

LEMMA EngineTyped ==
  ASSUME TypeOK, NEW m \in Request
  PROVE  /\ engine \in Engine /\ RolledBack \in Engine
         /\ \A ph \in DrainPhase : Moved(ph) \in Engine
         /\ With([number |-> engine.drain.number + 1, request |-> m.request,
                  requester |-> m.requester, phase |-> "draining", expired |-> FALSE])
            \in Engine
<1>1. engine \in Engine /\ engine.drain \in Drain /\ engine.epoch \in Nat
  BY DEF TypeOK, Engine
<1>2. ASSUME NEW d \in Drain PROVE With(d) \in Engine
  BY <1>1 DEF With, Engine
<1>3. ASSUME NEW ph \in DrainPhase PROVE Moved(ph) \in Engine
  <2>1. [engine.drain EXCEPT !.phase = ph] \in Drain
    BY <1>1 DEF Drain
  <2> QED
    BY <1>2, <2>1 DEF Moved
<1>4. RolledBack \in Engine
  <2>1. RolledBack = [engine EXCEPT !.drain = [engine.drain EXCEPT !.phase = "rolled-back"],
                                    !.epoch = engine.epoch + 1]
    BY <1>1 DEF RolledBack, Engine
  <2>2. [engine.drain EXCEPT !.phase = "rolled-back"] \in Drain
    BY <1>1 DEF Drain, DrainPhase
  <2>3. engine.epoch + 1 \in Nat
    BY <1>1
  <2> QED
    BY <1>1, <2>1, <2>2, <2>3 DEF Engine
<1>5. [number |-> engine.drain.number + 1, request |-> m.request,
       requester |-> m.requester, phase |-> "draining", expired |-> FALSE] \in Drain
  BY <1>1 DEF Drain, DrainPhase, Request
<1> QED
  BY <1>1, <1>2, <1>3, <1>4, <1>5

LEMMA ReplyStep ==
  ASSUME TypeOK, LiveInv, NEW m \in Request, Sent(m, TheWorld), NEW r \in Replies(m)
  PROVE  /\ r.engine \in Engine
         /\ r.engine.alive = engine.alive /\ r.engine.owner = engine.owner
         /\ PermitStands(engine, r.engine)
         /\ WithEngine(TheWorld, r.engine) \in World
         /\ WorldStep(TheWorld, WithEngine(TheWorld, r.engine))
<1> DEFINE v == TheWorld
           w == WithEngine(TheWorld, r.engine)
<1>1. r.engine \in Engine
  BY ReplyEngine, EngineTyped DEF DrainPhase
<1>2. v \in World /\ v.engine = engine /\ v.attempt = attempt /\ WorldOK(v)
  BY WorldTyped DEF LiveInv
<1>3. /\ w \in World /\ w.engine = r.engine /\ w.attempt = v.attempt
      /\ FilesKept(v, w) /\ Grown(v, w)
  BY <1>1, <1>2 DEF World, WithEngine, FilesKept, Grown
<1>t. engine \in [alive : BOOLEAN, owner : Nat, leased : BOOLEAN, epoch : Nat, drain : Drain]
      /\ engine.drain \in [number : Nat, request : Nat, requester : Controllers \cup {None},
                           phase : DrainPhase, expired : BOOLEAN]
  BY DEF TypeOK, Engine, Drain
<1>e. Known(m, v) /\ (m.kind = "begin" /\ ~Spent(m, v) => Current(m.request, v))
  BY DEF Sent
<1> HIDE DEF w, v
<1> SUFFICES /\ r.engine.alive = engine.alive /\ r.engine.owner = engine.owner
             /\ PermitStands(engine, r.engine)
             /\ DrainMoves(v, w) \/ DrainBegun(v, w) \/ DrainRolledBack(v, w)
  BY <1>1, <1>3 DEF WorldStep, w, v
<1>4. CASE r.engine = engine
  BY <1>2, <1>3, <1>4, <1>t DEF PermitStands, DrainMoves, InDrain
<1>5. CASE /\ m.kind = "begin" /\ m.requester \in registered
           /\ ~Draining /\ engine.epoch = m.epoch
           /\ r.engine = With([number |-> engine.drain.number + 1, request |-> m.request,
                               requester |-> m.requester, phase |-> "draining",
                               expired |-> FALSE])
  <2>1. /\ r.engine.alive = engine.alive /\ r.engine.owner = engine.owner
        /\ r.engine.epoch = engine.epoch
        /\ r.engine.drain.number = engine.drain.number + 1
        /\ r.engine.drain.request = m.request /\ r.engine.drain.phase = "draining"
    BY <1>5, <1>t DEF With
  <2>2. m.requester \notin v.excluded /\ ~Spent(m, v)
    BY <1>2, <1>5, <1>t, WorldTyped DEF Spent, v
  <2>3. Current(m.request, v) /\ v.attempt.requester = m.requester /\ v.attempt.epoch = m.epoch
    BY <1>e, <1>5, <2>2 DEF Known
  <2> QED
    BY <1>2, <1>3, <1>5, <2>1, <2>2, <2>3 DEF DrainBegun, PermitStands, Draining, InDrain
<1>6. CASE /\ Draining /\ engine.drain.phase # "committed"
           /\ \E ph \in {"accepted", "decision", "prepared"} : r.engine = Moved(ph)
  BY <1>2, <1>3, <1>6, <1>t DEF Moved, With, DrainMoves, InDrain, PermitStands, Draining
<1>7. CASE /\ m.kind = "commit" /\ m.drain = engine.drain.number
           /\ engine.drain.phase = "prepared" /\ r.engine = Moved("committed")
  <2>1. /\ r.engine.alive = engine.alive /\ r.engine.owner = engine.owner
        /\ r.engine.epoch = engine.epoch
        /\ r.engine.drain.number = engine.drain.number
        /\ r.engine.drain.request = engine.drain.request
        /\ r.engine.drain.phase = "committed"
    BY <1>7, <1>t DEF Moved, With
  <2>2. engine.drain.request = m.request
    BY <1>2, <1>7 DEF Sent, Numbered, v
  <2>3. Current(m.request, v)
    BY <1>2, <1>7, <2>2 DEF WorldOK, InDrain
  <2>4. v.attempt.phase = "hard-signal-commit-pending" /\ v.attempt.drain = m.drain
    BY <1>7, <2>3 DEF Sent, v
  <2> QED
    BY <1>2, <1>3, <1>7, <1>t, <2>1, <2>4 DEF DrainMoves, InDrain, PermitStands
<1>8. CASE /\ Draining /\ engine.drain.phase # "committed"
           /\ r.engine = RolledBack
  BY <1>2, <1>3, <1>8, <1>t DEF RolledBack, DrainRolledBack, InDrain, PermitStands, Draining
<1> QED
  BY <1>4, <1>5, <1>6, <1>7, <1>8, ReplyEngine

(***************************************************************************)
(* The frame of a step: what is left to show of the one who moves.         *)
(***************************************************************************)
\* Nobody but p is at its signal while the lock is free or with p.
LEMMA NobodyElseAtSignal ==
  ASSUME SignalHeld, NEW p \in Controllers, lock \in {None, p},
         NEW q \in Controllers, ctl[q].pc = "signal"
  PROVE  q = p
BY StopAssumption DEF SignalHeld

LEMMA LiveInvKept ==
  ASSUME TypeOK, TypeOK', engine.alive => LiveInv, engine'.alive => engine.alive,
         engine'.alive => record' = engine'.owner,
         engine'.alive => WorldStep(TheWorld, TheWorld'),
         CtlShape,
         \A q \in Controllers :
           ctl'[q] = ctl[q] \/ (engine'.alive => Fits(ctl'[q], TheWorld')),
         \A m \in late' : m \in late \/ (engine'.alive => Sent(m, TheWorld'))
  PROVE  engine'.alive => LiveInv'
<1> SUFFICES ASSUME engine'.alive PROVE LiveInv'
  OBVIOUS
<1> DEFINE v == TheWorld
           w == TheWorld'
<1>1. v \in World /\ w \in World /\ WorldOK(v) /\ WorldStep(v, w)
  BY WorldTyped, WorldTypedNext DEF LiveInv
<1>2. WorldOK(w)
  BY <1>1, WorldOKKept
<1>3. \A q \in Controllers : Fits(ctl[q], v)
  BY DEF LiveInv, Fits
<1>t. \A q \in Controllers : ctl[q] \in Controller
  BY DEF TypeOK
<1>4. ASSUME NEW q \in Controllers PROVE Fits(ctl'[q], w)
  <2>1. CASE ctl'[q] = ctl[q]
    <3>1. Bounded(ctl[q], w)
      BY <1>1, <1>3, <1>t, EngineGrows, WorldTypes DEF Fits, Bounded, Controller
    <3>2. ctl[q].pc \notin WithoutAttempt => View(ctl[q], w)
      BY <1>1, <1>3, <1>t, ViewKept DEF Fits, CtlShape
    <3> QED
      BY <2>1, <3>1, <3>2 DEF Fits
  <2> QED
    BY <2>1
<1>5. ASSUME NEW m \in late' PROVE Sent(m, w)
  <2>1. CASE m \in late
    <3>1. m \in Request /\ Sent(m, v)
      BY <2>1 DEF TypeOK, LiveInv
    <3> QED
      BY <3>1, <1>1, SentKept
  <2> QED
    BY <2>1
<1> QED
  BY <1>2, <1>4, <1>5 DEF LiveInv, Fits

\* The moved controller takes its place among the others.
LEMMA BecomeShape ==
  ASSUME TypeOK, CtlShape, NEW p \in Controllers, NEW d \in Controller, Become(p, d),
         d.pc \notin WithoutAttempt => d.attempt # None
  PROVE  /\ ctl' \in [Controllers -> Controller] /\ CtlShape'
         /\ ctl'[p] = d /\ \A q \in Controllers \ {p} : ctl'[q] = ctl[q]
BY DEF TypeOK, CtlShape, Become

\* p moves and the world stays.
LEMMA LocalStep ==
  ASSUME Inv, TypeOK', NEW p \in Controllers, NEW d \in Controller, Become(p, d),
         UNCHANGED <<record, attempt, engine, registered, late, decider, requests>>,
         ctl[p].pc # "new", d.pc # "new",
         d.pc \notin WithoutAttempt => d.attempt # None,
         lock' = lock \/ lock = p,
         d.pc # "signal" \/
           (ctl[p].pc = "signal" /\ Carries(ctl[p], d) /\ lock' = lock),
         engine.alive /\ LiveInv => Fits(d, TheWorld)
  PROVE  Inv'
<1>1. /\ ctl' \in [Controllers -> Controller] /\ CtlShape'
      /\ ctl'[p] = d /\ \A q \in Controllers \ {p} : ctl'[q] = ctl[q]
  BY BecomeShape DEF Inv
<1>2. TheWorld' = TheWorld
  BY <1>1 DEF TheWorld
<1>3. WorldStep(TheWorld, TheWorld)
  BY WorldTyped, WorldTypes DEF Inv, WorldStep, Grown, DrainMoves, FilesKept, InDrain
<1>4. SignalHeld'
  <2> SUFFICES ASSUME NEW q \in Controllers, ctl'[q].pc = "signal"
               PROVE  /\ lock' = q
                      /\ engine'.alive => /\ engine'.drain.phase = "committed"
                                          /\ engine'.drain.number = ctl'[q].drain
                                          /\ ctl'[q].generation = engine'.owner
    BY DEF SignalHeld
  <2>1. /\ ctl[q].pc = "signal" /\ ctl'[q].drain = ctl[q].drain
        /\ ctl'[q].generation = ctl[q].generation
        /\ lock' = lock \/ q # p
    BY <1>1 DEF Carries
  <2>2. /\ lock = q
        /\ engine.alive => /\ engine.drain.phase = "committed"
                           /\ engine.drain.number = ctl[q].drain
                           /\ ctl[q].generation = engine.owner
    BY <2>1 DEF Inv, SignalHeld
  <2>3. lock' = q
    BY <2>1, <2>2
  <2> QED
    BY <2>1, <2>2, <2>3
<1>5. engine'.alive => LiveInv'
  BY <1>1, <1>2, <1>3, LiveInvKept DEF Inv, LiveInv
<1> QED
  BY <1>1, <1>4, <1>5 DEF Inv

\* p moves with the lock free or its own, so that no other is at its signal.
LEMMA FreeStep ==
  ASSUME Inv, TypeOK', NEW p \in Controllers, NEW d \in Controller, Become(p, d),
         lock \in {None, p},
         d.pc \notin WithoutAttempt => d.attempt # None,
         d.pc = "signal" =>
           /\ lock' = p
           /\ engine'.alive => /\ engine'.drain.phase = "committed"
                               /\ engine'.drain.number = d.drain
                               /\ d.generation = engine'.owner,
         engine'.alive => /\ engine.alive /\ record' = engine'.owner
                          /\ WorldStep(TheWorld, TheWorld') /\ Fits(d, TheWorld'),
         \A m \in late' : m \in late \/ (engine'.alive => Sent(m, TheWorld'))
  PROVE  Inv'
<1>1. /\ ctl' \in [Controllers -> Controller] /\ CtlShape'
      /\ ctl'[p] = d /\ \A q \in Controllers \ {p} : ctl'[q] = ctl[q]
  BY BecomeShape DEF Inv
<1>2. SignalHeld'
  BY <1>1, NobodyElseAtSignal DEF Inv, SignalHeld
<1>3. engine'.alive => LiveInv'
  BY <1>1, LiveInvKept DEF Inv
<1> QED
  BY <1>1, <1>2, <1>3 DEF Inv

\* Nobody moves.
LEMMA NobodyMoves ==
  ASSUME Inv, TypeOK', ctl' = ctl, lock' = lock, late' \subseteq late,
         engine'.alive => /\ engine.alive /\ record' = engine'.owner
                          /\ PermitStands(engine, engine') /\ engine'.owner = engine.owner
                          /\ WorldStep(TheWorld, TheWorld')
  PROVE  Inv'
<1>1. CtlShape'
  BY DEF Inv, CtlShape
<1>2. SignalHeld'
  BY DEF Inv, SignalHeld, PermitStands
<1>3. engine'.alive => LiveInv'
  BY LiveInvKept DEF Inv
<1> QED
  BY <1>1, <1>2, <1>3 DEF Inv

\* What p asks for is what it knows.
LEMMA RequestFits ==
  ASSUME Inv, NEW p \in Controllers, ctl[p].pc \in Requesting \cup {"outcome"},
         engine.alive
  PROVE  /\ ctl[p].attempt # None
         /\ RequestOf(ctl[p]) \in Request /\ Sent(RequestOf(ctl[p]), TheWorld)
<1> DEFINE c == ctl[p]
           a == c.attempt
           m == RequestOf(c)
           w == TheWorld
<1>1. c \in Controller /\ c.attempt # None /\ View(c, w)
  BY DEF Inv, TypeOK, LiveInv, CtlShape, WithoutAttempt, Requesting
<1>2. a \in ControlAttempt /\ c.generation \in Nat /\ c.drain \in Nat /\ c.pc \in Label
  BY <1>1 DEF Controller
<1>3. /\ m.kind = c.pc /\ m.drain = c.drain /\ m.request = a.request
      /\ m.requester = a.requester /\ m.epoch = a.epoch
  BY DEF RequestOf
<1>4. m \in Request
  BY <1>2 DEF RequestOf, Request, ControlAttempt
<1>5. Known(a, w) /\ Known(m, w)
  BY <1>1, <1>3 DEF View, Knows, Stands, KnownAttempt, Known
<1>6. m.kind = "begin" => Current(m.request, w) \/ Spent(m, w)
  BY <1>1, <1>3 DEF View, Knows, Stands, Spent
<1>7. m.kind = "commit" =>
        /\ Numbered(m.drain, m, w)
        /\ Current(m.request, w) =>
             w.attempt.phase = "hard-signal-commit-pending" /\ w.attempt.drain = m.drain
  <2> SUFFICES ASSUME c.pc = "commit"
               PROVE  /\ Numbered(m.drain, m, w)
                      /\ Current(m.request, w) =>
                           /\ w.attempt.phase = "hard-signal-commit-pending"
                           /\ w.attempt.drain = m.drain
    BY <1>3
  <2>1. a.phase = "hard-signal-commit-pending"
    BY <1>1 DEF View, Knows, Stands, PhaseAt, Beginning
  <2>2. c.drain = a.drain /\ Numbered(a.drain, a, w)
    BY <1>1, <2>1 DEF View, Knows, Stands, KnownAttempt
  <2>3. Numbered(m.drain, m, w)
    BY <1>3, <2>2 DEF Numbered
  <2>4. Current(a.request, w) => w.attempt = a
    BY <1>1, <2>1 DEF View, Knows, Stands, KnownAttempt
  <2> QED
    BY <1>3, <2>1, <2>2, <2>3, <2>4
<1> QED
  BY <1>1, <1>4, <1>5, <1>6, <1>7 DEF Sent

\* The world after p has got the reply r, and p in it.
LEMMA ReplyWorld ==
  ASSUME Inv, NEW p \in Controllers, NEW l \in Requesting \cup {"outcome"}, Reaches(p, l),
         NEW r \in Replies(RequestOf(ctl[p])), engine' = r.engine, UNCHANGED outside,
         lock' \in Controllers \cup {None},
         NEW d \in Controller, Become(p, d), d.pc # "new"
  PROVE  /\ TypeOK' /\ WorldStep(TheWorld, TheWorld') /\ WorldOK(TheWorld')
         /\ LiveInv /\ record' = engine'.owner /\ engine'.owner = engine.owner
         /\ ctl[p] \in Controller /\ ctl[p].attempt # None
         /\ Bounded(ctl[p], TheWorld') /\ View(ctl[p], TheWorld')
<1> DEFINE m == RequestOf(ctl[p])
<1>1. engine.alive /\ ctl[p].pc = l /\ LiveInv
  BY DEF Reaches, Valid, Inv
<1>2. ctl[p].attempt # None /\ m \in Request /\ Sent(m, TheWorld)
  BY <1>1, RequestFits
<1>3. /\ r.engine \in Engine /\ r.engine.owner = engine.owner
      /\ WithEngine(TheWorld, r.engine) \in World
      /\ WorldStep(TheWorld, WithEngine(TheWorld, r.engine))
  BY <1>1, <1>2, ReplyStep DEF Inv
<1>4. /\ ctl' \in [Controllers -> Controller]
      /\ ctl'[p] = d /\ \A q \in Controllers \ {p} : ctl'[q] = ctl[q]
  BY DEF Inv, TypeOK, Become
<1>5. TypeOK'
  BY <1>3, <1>4 DEF Inv, TypeOK, outside
<1>6. TheWorld' = WithEngine(TheWorld, r.engine)
  BY <1>1, <1>4 DEF TheWorld, WithEngine, outside, Requesting
<1>7. TheWorld \in World /\ WorldOK(TheWorld) /\ ctl[p] \in Controller
      /\ Bounded(ctl[p], TheWorld) /\ View(ctl[p], TheWorld)
  BY <1>1, WorldTyped DEF Inv, TypeOK, LiveInv, WithoutAttempt, Requesting
<1>8. WorldOK(TheWorld') /\ View(ctl[p], TheWorld')
  BY <1>2, <1>3, <1>6, <1>7, WorldOKKept, ViewKept
<1>9. Bounded(ctl[p], TheWorld')
  BY <1>3, <1>6, <1>7, EngineGrows, WorldTypes DEF Bounded, Controller
<1> QED
  BY <1>1, <1>2, <1>3, <1>5, <1>6, <1>7, <1>8, <1>9 DEF LiveInv, outside

(***************************************************************************)
(* The steps at which the engine answers.                                  *)
(***************************************************************************)
LEMMA CarriesKnows ==
  ASSUME NEW w \in World, NEW c, NEW d, Knows(c, w), Carries(c, d)
  PROVE  Knows(d, w) /\ (Bounded(c, w) => Bounded(d, w))
BY DEF Knows, Carries, Bounded

\* An attempt past its begin has a drain.
LEMMA HasDrain ==
  ASSUME NEW w \in World, NEW c \in Controller, c.attempt # None, Knows(c, w),
         c.attempt.phase # "begin-pending"
  PROVE  c.drain # 0
BY WorldTypes DEF Knows, KnownAttempt, Numbered

\* Where p may go with the answer r.
LEMMA Answered ==
  ASSUME Inv, NEW p \in Controllers, NEW l \in Requesting \cup {"outcome"}, Reaches(p, l),
         NEW r \in Replies(RequestOf(ctl[p])), engine' = r.engine, UNCHANGED outside,
         lock' \in Controllers \cup {None},
         NEW d \in Controller, Become(p, d),
         \/ Leaves(ctl[p], d)
         \/ RollsBack(ctl[p], d)
         \/ /\ Carries(ctl[p], d)
            /\ d.pc \notin WithoutAttempt \cup {"signal"} /\ Stands(d, TheWorld')
  PROVE  Inv'
<1> DEFINE c == ctl[p]
<1>1. d.pc # "new" /\ d.pc # "signal"
  BY DEF Leaves, RollsBack, Carries, WithoutAttempt
<1>2. /\ TypeOK' /\ WorldStep(TheWorld, TheWorld')
      /\ record' = engine'.owner /\ c \in Controller /\ c.attempt # None
      /\ Bounded(c, TheWorld') /\ View(c, TheWorld') /\ TheWorld' \in World
  BY <1>1, ReplyWorld, WorldTypedNext
<1>3. Fits(d, TheWorld') /\ (d.pc \notin WithoutAttempt => d.attempt # None)
  <2>1. CASE Leaves(c, d)
    BY <2>1, <1>2, LeavesFits
  <2>2. CASE RollsBack(c, d)
    BY <2>2, <1>2, RollsBackFits DEF RollsBack, Carries
  <2>3. CASE /\ Carries(c, d)
             /\ d.pc \notin WithoutAttempt \cup {"signal"} /\ Stands(d, TheWorld')
    BY <2>3, <1>2, CarriesKnows DEF Fits, View, Carries
  <2> QED
    BY <2>1, <2>2, <2>3
<1>4. engine.alive /\ lock \in {None, p} /\ late' = late
  BY DEF Reaches, Valid, outside
<1> QED
  BY <1>1, <1>2, <1>3, <1>4, FreeStep

LEMMA RecordAcceptedKeeps ==
  ASSUME Inv, NEW p \in Controllers, RecordAccepted(p)
  PROVE  Inv'
<1> DEFINE c == ctl[p]
           Next1(r) ==
             CASE r.answer = "rollback-permitted" -> GiveUp(c)
               [] r.answer \in {"recorded", "rolled-back"} -> At(c, "advance-accepted")
               [] OTHER -> Caught(c, FALSE)
<1>1. PICK r \in Replies(RequestOf(c)) : engine' = r.engine /\ Become(p, Next1(r))
  BY DEF RecordAccepted
<1> DEFINE d == Next1(r)
<1>2. Reaches(p, "accepted") /\ UNCHANGED outside /\ lock' \in Controllers \cup {None}
      /\ c \in Controller /\ c.pc = "accepted" /\ Become(p, d)
  BY <1>1 DEF RecordAccepted, Inv, TypeOK, Reaches
<1>3. /\ d \in Controller
      /\ \/ Leaves(c, d) \/ RollsBack(c, d)
         \/ Carries(c, d) /\ d.pc \in {"advance-accepted", "rollback"}
  BY <1>2, GiveUpCarries, AtTyped, CaughtLeaves DEF Label
<1> HIDE DEF d, Next1
<1>4. c.attempt # None /\ View(c, TheWorld') /\ TheWorld' \in World
  BY <1>1, <1>2, <1>3, ReplyWorld, WorldTypedNext
     DEF Leaves, RollsBack, Carries, Requesting
<1>5. c.attempt.phase = "draining"
  BY <1>2, <1>4 DEF View, Stands, PhaseAt, Beginning
<1>6. Carries(c, d) /\ d.pc \in {"advance-accepted", "rollback"} => Stands(d, TheWorld')
  BY <1>2, <1>4, <1>5, HasDrain
     DEF View, Stands, Carries, PhaseAt, Beginning, Deciding, AttemptPhase
<1> QED
  BY <1>1, <1>2, <1>3, <1>6, Answered DEF WithoutAttempt, Requesting

LEMMA RecordTimeoutKeeps ==
  ASSUME Inv, NEW p \in Controllers, RecordTimeout(p)
  PROVE  Inv'
<1> DEFINE c == ctl[p]
           Answer(r) ==
             CASE r.answer = "rollback-permitted" -> GiveUp(c)
               [] r.answer = "recorded" -> At(c, "advance-hard")
               [] OTHER -> Caught(c, FALSE)
<1>1. PICK r \in Replies(RequestOf(c)) : engine' = r.engine /\ Become(p, Answer(r))
  BY DEF RecordTimeout
<1> DEFINE d == Answer(r)
<1>2. Reaches(p, "timeout") /\ UNCHANGED outside /\ lock' \in Controllers \cup {None}
      /\ c \in Controller /\ c.pc = "timeout" /\ Become(p, d)
  BY <1>1 DEF RecordTimeout, Inv, TypeOK, Reaches
<1>3. /\ d \in Controller
      /\ \/ Leaves(c, d) \/ RollsBack(c, d)
         \/ Carries(c, d) /\ d.pc \in {"advance-hard", "rollback"}
  BY <1>2, GiveUpCarries, AtTyped, CaughtLeaves DEF Label
<1> HIDE DEF d, Answer
<1>4. c.attempt # None /\ View(c, TheWorld') /\ TheWorld' \in World
  BY <1>1, <1>2, <1>3, ReplyWorld, WorldTypedNext
     DEF Leaves, RollsBack, Carries, Requesting
<1>5. c.attempt.phase = "graceful-accepted"
  BY <1>2, <1>4 DEF View, Stands, PhaseAt, Beginning
<1>6. Carries(c, d) /\ d.pc \in {"advance-hard", "rollback"} => Stands(d, TheWorld')
  BY <1>2, <1>4, <1>5, HasDrain
     DEF View, Stands, Carries, PhaseAt, Beginning, Deciding, AttemptPhase
<1> QED
  BY <1>1, <1>2, <1>3, <1>6, Answered DEF WithoutAttempt, Requesting

LEMMA RecordOutcomeKeeps ==
  ASSUME Inv, NEW p \in Controllers, RecordOutcome(p)
  PROVE  Inv'
<1> DEFINE c == ctl[p]
           Answer(r) == IF r.answer = "recorded" THEN At(c, "exit") ELSE Caught(c, FALSE)
<1>1. PICK r \in Replies(RequestOf(c)) : engine' = r.engine /\ Become(p, Answer(r))
  BY DEF RecordOutcome
<1> DEFINE d == Answer(r)
<1>2. Reaches(p, "outcome") /\ UNCHANGED outside /\ lock' \in Controllers \cup {None}
      /\ c \in Controller /\ c.pc = "outcome" /\ Become(p, d)
  BY <1>1 DEF RecordOutcome, Inv, TypeOK, Reaches
<1>3. /\ d \in Controller
      /\ \/ Leaves(c, d) \/ RollsBack(c, d)
         \/ Carries(c, d) /\ d.pc = "exit"
  BY <1>2, AtTyped, CaughtLeaves DEF Label
<1> HIDE DEF d, Answer
<1>4. c.attempt # None /\ View(c, TheWorld') /\ TheWorld' \in World
  BY <1>1, <1>2, <1>3, ReplyWorld, WorldTypedNext
     DEF Leaves, RollsBack, Carries, Requesting
<1>5. Carries(c, d) /\ d.pc = "exit" => Stands(d, TheWorld')
  BY <1>2, <1>4 DEF View, Stands, Carries, PhaseAt, Beginning, Deciding
<1> QED
  BY <1>1, <1>2, <1>3, <1>5, Answered DEF WithoutAttempt, Requesting

LEMMA PrepareHardSignalKeeps ==
  ASSUME Inv, NEW p \in Controllers, PrepareHardSignal(p)
  PROVE  Inv'
<1> DEFINE c == ctl[p]
           Answer(r) ==
             CASE r.answer = "prepared" /\ c.attempt.phase = "hard-signal-pending" ->
                    Checked(p, c, "advance-commit")
               [] r.answer = "prepared" /\ c.attempt.phase # "hard-signal-pending" ->
                    [At(c, "commit") EXCEPT !.hard = TRUE]
               [] OTHER -> Caught(c, r.answer = "authorization-expired")
<1>1. PICK r \in Replies(RequestOf(c)) : engine' = r.engine /\ Become(p, Answer(r))
  BY DEF PrepareHardSignal
<1> DEFINE d == Answer(r)
<1>2. Reaches(p, "authorize") /\ UNCHANGED outside /\ lock' \in Controllers \cup {None}
      /\ c \in Controller /\ c.pc = "authorize" /\ Become(p, d)
  BY <1>1 DEF PrepareHardSignal, Inv, TypeOK, Reaches
<1>3. /\ d \in Controller
      /\ \/ Leaves(c, d) \/ RollsBack(c, d)
         \/ /\ Carries(c, d) /\ c.attempt.phase = "hard-signal-pending"
            /\ d.pc \in {"advance-commit", "rollback"}
         \/ Carries(c, d) /\ c.attempt.phase # "hard-signal-pending" /\ d.pc = "commit"
  <2>1. CASE r.answer = "prepared" /\ c.attempt.phase = "hard-signal-pending"
    BY <1>2, <2>1, CheckedMoves DEF Label
  <2>2. CASE r.answer = "prepared" /\ c.attempt.phase # "hard-signal-pending"
    BY <1>2, <2>2 DEF At, Carries, Controller, Label, Requesting
  <2>3. CASE r.answer # "prepared"
    BY <1>2, <2>3, CaughtLeaves
  <2> QED
    BY <2>1, <2>2, <2>3
<1> HIDE DEF d, Answer
<1>4. c.attempt # None /\ View(c, TheWorld') /\ TheWorld' \in World
  BY <1>1, <1>2, <1>3, ReplyWorld, WorldTypedNext
     DEF Leaves, RollsBack, Carries, Requesting
<1>5. c.attempt.phase \in HardPhase
  BY <1>2, <1>4 DEF View, Stands, PhaseAt, Beginning
<1>6. c.drain # 0
  BY <1>2, <1>4, <1>5, HasDrain DEF View, HardPhase
<1>7. Leaves(c, d) \/ RollsBack(c, d)
      \/ /\ Carries(c, d)
         /\ d.pc \notin WithoutAttempt \cup {"signal"} /\ Stands(d, TheWorld')
  BY <1>2, <1>3, <1>4, <1>5, <1>6
     DEF View, Stands, Carries, PhaseAt, Beginning, Deciding, AttemptPhase, HardPhase,
         WithoutAttempt
<1> QED
  BY <1>1, <1>2, <1>3, <1>7, Answered DEF Requesting

\* A drain that is rolled back leaves its epoch behind.
LEMMA RollbackDrainKeeps ==
  ASSUME Inv, NEW p \in Controllers, RollbackDrain(p)
  PROVE  Inv'
<1> DEFINE c == ctl[p]
           m == RequestOf(c)
           w == TheWorld'
           Answer(r) == IF r.answer = "rolled-back" THEN At(c, "clear") ELSE Returned(c)
<1>1. PICK r \in Replies(RequestOf(c)) : engine' = r.engine /\ Become(p, Answer(r))
  BY DEF RollbackDrain
<1> DEFINE d == Answer(r)
<1>2. Reaches(p, "rollback") /\ UNCHANGED outside /\ lock' \in Controllers \cup {None}
      /\ c \in Controller /\ c.pc = "rollback" /\ Become(p, d)
  BY <1>1 DEF RollbackDrain, Inv, TypeOK, Reaches
<1>3. /\ d \in Controller
      /\ Leaves(c, d) \/ (Carries(c, d) /\ d.pc = "clear" /\ r.answer = "rolled-back")
  BY <1>2, AtTyped, ReturnedLeaves DEF Label
<1>4. m.kind = "rollback" /\ m.drain = c.drain
  BY <1>2 DEF RequestOf
<1> HIDE DEF d, Answer, m
<1>5. /\ c.attempt # None /\ View(c, w) /\ w \in World /\ w.engine = r.engine /\ TypeOK'
  BY <1>1, <1>2, <1>3, ReplyWorld, WorldTypedNext DEF Leaves, Carries, Requesting
<1>6. r.answer = "rolled-back" =>
        r.engine.drain.phase = "rolled-back" /\ r.engine.drain.number = c.drain
  <2> SUFFICES ASSUME r.answer = "rolled-back"
               PROVE  r.engine.drain.phase = "rolled-back" /\ r.engine.drain.number = c.drain
    OBVIOUS
  <2>1. m.drain = engine.drain.number /\ r \in RollbackReplies
    BY <1>4 DEF Replies, Reply, m
  <2>2. /\ RolledBack.drain.phase = "rolled-back"
        /\ RolledBack.drain.number = engine.drain.number
    BY DEF RolledBack, Inv, TypeOK, Engine, Drain
  <2> QED
    BY <1>4, <2>1, <2>2 DEF RollbackReplies, Reply
<1>7. Carries(c, d) /\ d.pc = "clear" /\ r.answer = "rolled-back" => Stands(d, w)
  <2> SUFFICES ASSUME Carries(c, d), d.pc = "clear", r.answer = "rolled-back"
               PROVE  Stands(d, w)
    OBVIOUS
  <2>1. c.drain # 0 /\ Numbered(c.drain, c.attempt, w) /\ Known(c.attempt, w)
        /\ c.attempt.phase \in AttemptPhase
    BY <1>2, <1>5 DEF View, Knows, Stands, KnownAttempt, PhaseAt, Beginning, Deciding
  <2>2. w.engine.epoch > c.attempt.epoch
    BY <1>5, <1>6, <2>1 DEF Numbered, Known, InDrain
  <2> QED
    BY <2>1, <2>2 DEF Stands, Carries, PhaseAt, Beginning, Deciding
<1> QED
  BY <1>1, <1>2, <1>3, <1>7, Answered DEF WithoutAttempt, Requesting

\* The answers to a begin, and what they tell.
LEMMA BeginAnswers ==
  ASSUME TypeOK, LiveInv, NEW m \in Request, m.kind = "begin", Known(m, TheWorld),
         NEW r \in Replies(m)
  PROVE  /\ r.answer = "draining" => r.engine.drain.request = m.request
         /\ r.answer = "registration-expired" =>
              /\ r.engine = engine /\ m.requester \notin registered
              /\ engine.drain.request # m.request
         /\ r.answer = "drain-conflict" =>
              /\ r.engine = engine
              /\ Current(m.request, TheWorld) => engine.epoch > m.epoch
<1>0. r = Reply("owner-refused", engine) \/ r \in BeginReplies(m)
  BY DEF Replies
<1>1. engine \in Engine /\ engine.drain \in Drain
  BY DEF TypeOK, Engine
<1>2. With([number |-> engine.drain.number + 1, request |-> m.request,
            requester |-> m.requester, phase |-> "draining", expired |-> FALSE]).drain.request
      = m.request
  BY <1>1 DEF With, Engine
<1>3. TheWorld \in World /\ TheWorld.engine = engine /\ TheWorld.attempt = attempt
      /\ WorldOK(TheWorld)
  BY WorldTyped DEF LiveInv
<1>4. m.epoch \in Nat /\ engine.epoch \in Nat
  BY <1>1 DEF Request, Engine
<1>5. r.answer = "drain-conflict" => r.engine = engine
      /\ \/ engine.drain.request = m.request /\ ~Draining
         \/ engine.drain.request # m.request /\ (Draining \/ engine.epoch # m.epoch)
  BY <1>0 DEF BeginReplies, Reply
<1>6. ASSUME r.answer = "drain-conflict", Current(m.request, TheWorld)
      PROVE  engine.epoch > m.epoch
  <2>1. CASE engine.drain.request = m.request /\ ~Draining
    BY <1>3, <2>1 DEF Known, InDrain, Draining
  <2>2. CASE engine.drain.request # m.request /\ Draining
    BY <1>3, <1>6, <2>2 DEF WorldOK, InDrain, Draining, Current
  <2>3. CASE engine.epoch # m.epoch
    BY <1>3, <1>4, <2>3 DEF Known
  <2> QED
    BY <1>5, <1>6, <2>1, <2>2, <2>3
<1> QED
  BY <1>0, <1>2, <1>5, <1>6 DEF BeginReplies, Reply

LEMMA BeginControlDrainKeeps ==
  ASSUME Inv, NEW p \in Controllers, BeginControlDrain(p)
  PROVE  Inv'
<1> DEFINE c == ctl[p]
           a == c.attempt
           m == RequestOf(c)
           w == TheWorld'
           Begun(r) == [At(c, "mark") EXCEPT !.drain = r.engine.drain.number]
           Answer(r) ==
             CASE r.answer = "draining" -> Begun(r)
               [] r.answer = "registration-expired" /\ ~c.again -> At(c, "replace")
               [] r.answer = "drain-conflict" -> At(c, "denied")
               [] OTHER -> Caught(c, FALSE)
<1>1. PICK r \in Replies(m) : engine' = r.engine /\ Become(p, Answer(r))
  BY DEF BeginControlDrain
<1> DEFINE d == Answer(r)
<1>2. /\ Reaches(p, "begin") /\ UNCHANGED outside /\ lock' \in Controllers \cup {None}
      /\ c \in Controller /\ c.pc = "begin" /\ Become(p, d) /\ engine.alive
      /\ TypeOK /\ LiveInv
  BY <1>1 DEF BeginControlDrain, Inv, TypeOK, Reaches, Valid
<1>3. /\ a # None /\ m \in Request /\ Sent(m, TheWorld) /\ m.kind = "begin"
      /\ m.request = a.request /\ m.requester = a.requester /\ m.epoch = a.epoch
  BY <1>2, RequestFits DEF RequestOf, Requesting
<1>4. r.engine \in Engine
  BY <1>2, <1>3, ReplyStep
<1>5. Begun(r) \in Controller /\ Begun(r).pc = "mark" /\ Begun(r).attempt = a
      /\ Begun(r).generation = c.generation /\ Begun(r).epoch = c.epoch
      /\ Begun(r).drain = r.engine.drain.number
  BY <1>2, <1>4 DEF At, Controller, Engine, Drain, Label
<1> HIDE DEF m, Begun
<1>6. /\ d \in Controller
      /\ \/ Leaves(c, d) \/ RollsBack(c, d)
         \/ r.answer = "draining" /\ d = Begun(r)
         \/ r.answer = "registration-expired" /\ Carries(c, d) /\ d.pc = "replace"
         \/ r.answer = "drain-conflict" /\ Carries(c, d) /\ d.pc = "denied"
  BY <1>2, <1>5, AtTyped, CaughtLeaves DEF Label
<1> HIDE DEF d, Answer
<1>7. /\ View(c, w) /\ w \in World /\ w.engine = r.engine /\ w.attempt = attempt
      /\ w.excluded = {q \in Controllers : ctl'[q].pc # "new" /\ q \notin registered}
      /\ Bounded(c, w) /\ WorldStep(TheWorld, w) /\ WorldOK(w)
      /\ TypeOK' /\ record' = engine'.owner
  <2>1. d.pc # "new"
    BY <1>5, <1>6 DEF Leaves, RollsBack
  <2> QED
    BY <1>1, <1>2, <1>6, <2>1, ReplyWorld, WorldTypedNext DEF Requesting, outside, m
<1>8. Known(m, TheWorld)
  BY <1>3 DEF Sent
<1>9. a.phase = "begin-pending"
  BY <1>2, <1>7 DEF View, Stands, PhaseAt, Beginning
<1>10. CASE Leaves(c, d) \/ RollsBack(c, d)
  BY <1>1, <1>2, <1>6, <1>10, Answered DEF Requesting, m
<1>11. CASE r.answer = "registration-expired" /\ Carries(c, d) /\ d.pc = "replace"
  <2>1. a.requester \notin registered /\ r.engine.drain.request # a.request
    BY <1>2, <1>3, <1>8, <1>11, BeginAnswers
  <2>2. a.requester \in w.excluded
    <3>1. a.requester \in TheWorld.started
      BY <1>3, <1>8 DEF Known
    <3>2. a.requester \in Controllers /\ ctl'[a.requester].pc # "new"
      BY <1>2, <3>1, <1>11, WorldTyped DEF Become, TypeOK
    <3> QED
      BY <1>7, <2>1, <3>2
  <2>3. Stands(d, w)
    BY <1>7, <1>9, <1>11, <2>1, <2>2 DEF Stands, Carries, PhaseAt, Beginning, Deciding
  <2> QED
    BY <1>1, <1>2, <1>6, <1>11, <2>3, Answered DEF Requesting, WithoutAttempt, m
<1>12. CASE r.answer = "drain-conflict" /\ Carries(c, d) /\ d.pc = "denied"
  <2>1. Current(a.request, TheWorld) => w.engine.epoch > a.epoch
    BY <1>2, <1>3, <1>7, <1>8, <1>12, BeginAnswers
  <2>2. Current(a.request, w) => Current(a.request, TheWorld)
    BY <1>2, <1>7, WorldTyped DEF Current
  <2>3. Stands(d, w)
    BY <1>7, <1>9, <1>12, <2>1, <2>2 DEF Stands, Carries, PhaseAt, Beginning, Deciding
  <2> QED
    BY <1>1, <1>2, <1>6, <1>12, <2>3, Answered DEF Requesting, WithoutAttempt, m
<1>13. CASE r.answer = "draining" /\ d = Begun(r)
  <2>1. r.engine.drain.request = a.request
    BY <1>2, <1>3, <1>8, <1>13, BeginAnswers
  <2>2. a.request # 0 /\ KnownAttempt(a, w)
    BY <1>7 DEF View, Knows, KnownAttempt, Known
  <2>3. Numbered(d.drain, a, w) /\ d.drain # 0
    BY <1>5, <1>7, <1>13, <2>1, <2>2, WorldTypes DEF Numbered, WorldOK
  <2>4. View(d, w) /\ Bounded(d, w)
    BY <1>5, <1>7, <1>9, <1>13, <2>2, <2>3
       DEF View, Knows, Stands, Bounded, PhaseAt, Beginning, Deciding
  <2> QED
    BY <1>1, <1>2, <1>3, <1>5, <1>6, <1>7, <1>13, <2>4, FreeStep DEF Fits, Reaches, outside
<1> QED
  BY <1>6, <1>10, <1>11, <1>12, <1>13

\* The permit: p keeps the lock, and is of the generation that owns the engine.
LEMMA CommitHardSignalKeeps ==
  ASSUME Inv, NEW p \in Controllers, CommitHardSignal(p)
  PROVE  Inv'
<1> DEFINE c == ctl[p]
           a == c.attempt
           m == RequestOf(c)
           w == TheWorld'
           Answer(r) ==
             CASE r.answer = "permitted" -> At(c, "signal")
               [] r.answer = "authorization-expired" -> Caught([c EXCEPT !.hard = FALSE], TRUE)
               [] OTHER -> Caught(c, FALSE)
<1>1. PICK r \in Replies(m) :
        /\ engine' = r.engine /\ lock' = (IF r.answer = "permitted" THEN p ELSE None)
        /\ Become(p, Answer(r))
  BY DEF CommitHardSignal
<1> DEFINE d == Answer(r)
<1>2. /\ Reaches(p, "commit") /\ UNCHANGED outside /\ lock' \in Controllers \cup {None}
      /\ c \in Controller /\ c.pc = "commit" /\ Become(p, d)
  BY <1>1 DEF CommitHardSignal, Inv, TypeOK, Reaches
<1>3. /\ d \in Controller
      /\ Leaves(c, d) \/ RollsBack(c, d)
         \/ (r.answer = "permitted" /\ Carries(c, d) /\ d.pc = "signal")
  <2>1. CASE r.answer = "permitted"
    BY <1>2, <2>1, AtTyped DEF Label
  <2>2. CASE r.answer = "authorization-expired"
    <3> DEFINE e == [c EXCEPT !.hard = FALSE]
    <3>1. e \in Controller /\ Carries(c, e)
      BY <1>2 DEF Controller, Carries
    <3> HIDE DEF e
    <3>2. /\ Caught(e, TRUE) \in Controller
          /\ Leaves(e, Caught(e, TRUE)) \/ RollsBack(e, Caught(e, TRUE))
      BY <3>1, CaughtLeaves
    <3>3. d = Caught(e, TRUE)
      BY <2>2 DEF e
    <3> HIDE DEF d
    <3> QED
      BY <3>1, <3>2, <3>3 DEF Leaves, RollsBack, Carries
  <2>3. CASE r.answer \notin {"permitted", "authorization-expired"}
    BY <1>2, <2>3, CaughtLeaves
  <2> QED
    BY <2>1, <2>2, <2>3
<1> HIDE DEF d, Answer
<1>4. CASE Leaves(c, d) \/ RollsBack(c, d)
  BY <1>1, <1>2, <1>3, <1>4, Answered DEF Requesting
<1>5. CASE r.answer = "permitted" /\ Carries(c, d) /\ d.pc = "signal"
  <2>1. /\ TypeOK' /\ WorldStep(TheWorld, w) /\ record' = engine'.owner
        /\ engine'.owner = engine.owner /\ a # None /\ Bounded(c, w) /\ View(c, w)
        /\ w \in World
    BY <1>1, <1>2, <1>3, <1>5, ReplyWorld, WorldTypedNext DEF Requesting
  <2>2. m.kind = "commit" /\ m.drain = c.drain /\ m.owner = c.generation
    BY <1>2 DEF RequestOf
  <2> HIDE DEF m
  <2>3. /\ engine.owner = c.generation /\ m.drain = engine.drain.number
        /\ r \in CommitReplies
    BY <1>5, <2>2 DEF Replies, Reply
  <2>4. /\ Moved("committed").drain.phase = "committed"
        /\ Moved("committed").drain.number = engine.drain.number
    BY DEF Moved, With, Inv, TypeOK, Engine, Drain
  <2>5. r.engine.drain.phase = "committed" /\ r.engine.drain.number = c.drain
    BY <1>5, <2>2, <2>3, <2>4 DEF CommitReplies, Reply
  <2>6. Stands(d, w)
    BY <1>2, <1>5, <2>1 DEF View, Stands, Carries, PhaseAt, Beginning, Deciding
  <2>7. Fits(d, w)
    BY <1>5, <2>1, <2>6, CarriesKnows DEF Fits, View
  <2>8. lock \in {None, p} /\ engine.alive /\ late' = late /\ d.attempt # None
        /\ d.drain = c.drain /\ d.generation = c.generation /\ lock' = p
    BY <1>1, <1>2, <1>5, <2>1 DEF Reaches, Valid, outside, Carries
  <2> QED
    BY <1>1, <1>2, <1>3, <2>1, <2>3, <2>5, <2>7, <2>8, FreeStep
<1> QED
  BY <1>3, <1>4, <1>5

\* A request whose reply is lost is on its way.
LEMMA LoseReplyKeeps ==
  ASSUME Inv, NEW p \in Controllers, LoseReply(p)
  PROVE  Inv'
<1> DEFINE c == ctl[p]
           m == RequestOf(c)
<1>1. /\ c.pc \in Requesting \cup {"outcome"} /\ lock \in {None, p} /\ engine.alive
      /\ TypeOK /\ LiveInv /\ c \in Controller
  BY DEF LoseReply, Reaches, Valid, Inv, TypeOK
<1>2. c.attempt # None /\ m \in Request /\ Sent(m, TheWorld)
  BY <1>1, RequestFits
<1>3. PICK d : /\ Become(p, d)
               /\ \/ d = [c EXCEPT !.tries = @ + 1]
                  \/ d = Returned(c) \/ d = Caught(c, FALSE)
  BY DEF LoseReply
<1>4. /\ d \in Controller
      /\ Leaves(c, d) \/ RollsBack(c, d) \/ (Carries(c, d) /\ d.pc = c.pc)
  <2>1. CASE d = [c EXCEPT !.tries = @ + 1]
    BY <1>1, <2>1 DEF Controller, Carries
  <2> QED
    BY <1>1, <1>3, <2>1, ReturnedLeaves, CaughtLeaves
<1>5. /\ UNCHANGED <<record, attempt, engine, registered, decider, requests>>
      /\ late' = late \cup {m} /\ lock' \in {None, p} /\ losses' = losses + 1
      /\ UNCHANGED <<aborted, killed>>
  BY DEF LoseReply
<1>6. d.pc \notin {"new", "signal"} /\ (d.pc \notin WithoutAttempt => d.attempt # None)
  BY <1>1, <1>2, <1>4 DEF Leaves, RollsBack, Carries, Requesting, WithoutAttempt
<1>7. /\ ctl' \in [Controllers -> Controller]
      /\ ctl'[p] = d /\ \A q \in Controllers \ {p} : ctl'[q] = ctl[q]
  BY <1>1, <1>3, <1>4 DEF Become, TypeOK
<1>8. TypeOK'
  BY <1>1, <1>2, <1>5, <1>7 DEF TypeOK
<1>9. TheWorld' = TheWorld
  BY <1>1, <1>5, <1>6, <1>7 DEF TheWorld, Requesting
<1>10. TheWorld \in World /\ WorldStep(TheWorld, TheWorld)
  BY <1>1, WorldTyped, WorldTypes DEF WorldStep, Grown, DrainMoves, FilesKept, InDrain
<1>11. Bounded(c, TheWorld) /\ View(c, TheWorld)
  BY <1>1 DEF LiveInv, WithoutAttempt, Requesting
<1>12. Fits(d, TheWorld)
  <2>1. CASE Leaves(c, d)
    BY <1>1, <1>4, <1>10, <1>11, <2>1, LeavesFits
  <2>2. CASE RollsBack(c, d)
    BY <1>1, <1>2, <1>4, <1>10, <1>11, <2>2, RollsBackFits
  <2>3. CASE Carries(c, d) /\ d.pc = c.pc
    BY <1>10, <1>11, <2>3, CarriesKnows DEF Fits, View, Stands, Carries
  <2> QED
    BY <1>4, <2>1, <2>2, <2>3
<1>13. record' = engine'.owner
  BY <1>1, <1>5 DEF LiveInv
<1> QED
  BY <1>1, <1>2, <1>3, <1>4, <1>5, <1>6, <1>8, <1>9, <1>10, <1>12, <1>13, FreeStep

(***************************************************************************)
(* The steps that only p sees.                                             *)
(***************************************************************************)
\* p leaves its stop, or is about to roll its drain back.
LEMMA LocalLeave ==
  ASSUME Inv, NEW p \in Controllers, ctl[p].pc # "new", NEW d \in Controller, Become(p, d),
         Leaves(ctl[p], d) \/ (ctl[p].attempt # None /\ ctl[p].pc \notin WithoutAttempt
                               /\ RollsBack(ctl[p], d)),
         UNCHANGED <<record, attempt, engine, registered, late, decider, requests, losses>>,
         lock' \in {lock, None}, lock' = lock \/ lock = p,
         aborted' \subseteq aborted, killed' = killed
  PROVE  Inv'
<1>1. TypeOK'
  BY DEF Inv, TypeOK, Become
<1>2. d.pc \notin {"new", "signal"} /\ (d.pc \notin WithoutAttempt => d.attempt # None)
  BY DEF Leaves, RollsBack, Carries, WithoutAttempt
<1>3. ASSUME LiveInv PROVE Fits(d, TheWorld)
  BY <1>3, WorldTyped, LeavesFits, RollsBackFits DEF LiveInv, Inv, TypeOK
<1> QED
  BY <1>1, <1>2, <1>3, LocalStep

\* p goes on with its stop.
LEMMA LocalGo ==
  ASSUME Inv, NEW p \in Controllers, ctl[p].pc \notin WithoutAttempt,
         NEW d \in Controller, Become(p, d), Carries(ctl[p], d),
         d.pc \notin WithoutAttempt \cup {"signal"},
         engine.alive /\ LiveInv /\ View(ctl[p], TheWorld) => Stands(d, TheWorld),
         UNCHANGED <<record, attempt, engine, registered, aborted, late, decider, requests,
                     losses>>,
         lock' \in Controllers \cup {None}, lock' = lock \/ lock = p, killed' \in BOOLEAN
  PROVE  Inv'
<1>1. TypeOK'
  BY DEF Inv, TypeOK, Become
<1>2. d.pc \notin {"new", "signal"} /\ d.attempt # None
  BY DEF Carries, WithoutAttempt, Inv, CtlShape
<1>3. ASSUME engine.alive, LiveInv PROVE Fits(d, TheWorld)
  <2>1. View(ctl[p], TheWorld) /\ Bounded(ctl[p], TheWorld) /\ TheWorld \in World
    BY <1>3, WorldTyped DEF LiveInv, Inv
  <2> QED
    BY <1>3, <2>1, CarriesKnows DEF Fits, View
<1> QED
  BY <1>1, <1>2, <1>3, LocalStep DEF WithoutAttempt

LEMMA LoadSecretKeeps ==
  ASSUME Inv, NEW p \in Controllers, LoadSecret(p)
  PROVE  Inv'
<1> DEFINE c == ctl[p]
<1>1. c \in Controller /\ c.pc = "load" /\ c.attempt # None /\ c.pc \notin WithoutAttempt
  BY DEF LoadSecret, Inv, TypeOK, CtlShape, WithoutAttempt
<1>2. lock' = lock /\ lock \in Controllers \cup {None}
      /\ UNCHANGED <<record, attempt, engine, registered, aborted, late, killed, decider,
                     requests, losses>>
  BY DEF LoadSecret, outside, Inv, TypeOK
<1>3. CASE attempt # None /\ attempt.request = c.attempt.request
  <2> DEFINE d == At(c, "begin")
  <2>1. d \in Controller /\ Carries(c, d) /\ d.pc = "begin" /\ Become(p, d)
    BY <1>1, <1>3, AtTyped DEF LoadSecret, Label, Requesting
  <2> HIDE DEF d
  <2>2. View(c, TheWorld) => Stands(d, TheWorld)
    BY <1>1, <1>3, <2>1, WorldTyped
       DEF Inv, View, Stands, Carries, Current, PhaseAt, Beginning, Deciding
  <2> QED
    BY <1>1, <1>2, <2>1, <2>2, LocalGo DEF WithoutAttempt, Inv, TypeOK
<1>4. CASE ~(attempt # None /\ attempt.request = c.attempt.request)
  <2>1. Become(p, Caught(c, FALSE))
    BY <1>4 DEF LoadSecret
  <2> QED
    BY <1>1, <1>2, <2>1, CaughtLeaves, LocalLeave DEF WithoutAttempt
<1> QED
  BY <1>3, <1>4

\* A later owner does not go on with the hard phase of an earlier one.
LEMMA DrainedKeeps ==
  ASSUME Inv, NEW p \in Controllers, Drained(p)
  PROVE  Inv'
<1> DEFINE b == ctl[p]
           c == [b EXCEPT !.state = "stopping"]
           ph == b.attempt.phase
           foreign == b.attempt.generation # b.generation
           On == At(c, CASE ph = "draining" -> "accepted"
                         [] ph = "graceful-accepted" -> "wait"
                         [] OTHER -> "authorize")
<1>1. b \in Controller /\ b.pc = "drained" /\ b.attempt # None /\ b.pc \notin WithoutAttempt
  BY DEF Drained, Inv, TypeOK, CtlShape, WithoutAttempt
<1>2. lock' = lock /\ lock \in Controllers \cup {None}
      /\ UNCHANGED <<record, attempt, engine, registered, aborted, late, killed, decider,
                     requests, losses>>
  BY DEF Drained, outside, Inv, TypeOK
<1>3. c \in Controller /\ Carries(b, c) /\ c.pc = b.pc
  BY <1>1 DEF Controller, LifecycleState, Carries
<1>4. PICK d : /\ Become(p, d)
               /\ \/ d = Caught(b, FALSE) \/ d = GiveUp(c) \/ d = Returned(c)
                  \/ d = On /\ ~(foreign /\ ph \in HardPhase)
  <2>1. c.attempt = b.attempt /\ c.generation = b.generation
    BY <1>3 DEF Carries
  <2> QED
    BY <2>1 DEF Drained, HardPhase
<1>5. /\ On \in Controller /\ Carries(c, On)
      /\ On.pc = (CASE ph = "draining" -> "accepted"
                    [] ph = "graceful-accepted" -> "wait"
                    [] OTHER -> "authorize")
  <2>1. (CASE ph = "draining" -> "accepted"
           [] ph = "graceful-accepted" -> "wait"
           [] OTHER -> "authorize") \in Label
    BY DEF Label, Requesting
  <2> HIDE DEF c
  <2> QED
    BY <1>3, <2>1, AtTyped
<1> HIDE DEF c, On
<1>6. CASE d = Caught(b, FALSE) \/ d = Returned(c)
  BY <1>1, <1>2, <1>3, <1>4, <1>6, CaughtLeaves, ReturnedLeaves, LocalLeave
     DEF Leaves, Carries, WithoutAttempt
<1>7. CASE d = GiveUp(c)
  <2>1. d \in Controller /\ Carries(b, d) /\ d.pc = "rollback"
    BY <1>3, <1>7, GiveUpCarries DEF Carries
  <2>2. ASSUME LiveInv, View(b, TheWorld) PROVE Stands(d, TheWorld)
    <3>1. b.attempt.phase \in AttemptPhase \ {"begin-pending"} /\ b.drain # 0
      BY <1>1, <2>2, WorldTyped, HasDrain DEF Inv, View, Stands, PhaseAt, Beginning
    <3> QED
      BY <2>1, <3>1 DEF Stands, Carries, PhaseAt, Beginning, Deciding
  <2> QED
    BY <1>1, <1>2, <1>4, <2>1, <2>2, LocalGo DEF WithoutAttempt, Inv, TypeOK
<1>8. CASE d = On /\ ~(foreign /\ ph \in HardPhase)
  <2>1. d \in Controller /\ Carries(b, d) /\ d.pc \in {"accepted", "wait", "authorize"}
        /\ d.pc = (CASE ph = "draining" -> "accepted"
                     [] ph = "graceful-accepted" -> "wait"
                     [] OTHER -> "authorize")
    BY <1>3, <1>5, <1>8 DEF Carries
  <2>2. ASSUME LiveInv, View(b, TheWorld) PROVE Stands(d, TheWorld)
    <3>1. /\ ph \in AttemptPhase \ {"begin-pending"} /\ TheWorld \in World
          /\ TheWorld.attempt = attempt
      BY <1>1, <2>2, WorldTyped DEF Inv, View, Stands, PhaseAt, Beginning
    <3>2. ASSUME ph \in HardPhase, Current(b.attempt.request, TheWorld)
          PROVE  TheWorld.decider = b.generation
      <4>1. /\ TheWorld.attempt.generation = b.attempt.generation
            /\ TheWorld.attempt.phase \in HardPhase /\ TheWorld.attempt # None
            /\ TheWorld.decider <= b.generation
        BY <1>1, <2>2, <3>2 DEF View, Knows, Stands, KnownAttempt, Current
      <4>2. TheWorld.attempt.generation <= TheWorld.decider
        BY <2>2, <4>1 DEF LiveInv, WorldOK
      <4>3. b.attempt.generation = b.generation /\ b.generation \in Nat
        BY <1>1, <1>8, <3>2 DEF Controller
      <4> QED
        BY <3>1, <4>1, <4>2, <4>3, WorldTypes
    <3> QED
      BY <2>1, <3>1, <3>2 DEF Stands, Carries, PhaseAt, Beginning, Deciding, AttemptPhase,
         HardPhase
  <2> QED
    BY <1>1, <1>2, <1>4, <1>8, <2>1, <2>2, LocalGo DEF WithoutAttempt, Inv, TypeOK
<1> QED
  BY <1>4, <1>6, <1>7, <1>8

LEMMA WaitForExitKeeps ==
  ASSUME Inv, NEW p \in Controllers, WaitForExit(p)
  PROVE  Inv'
<1> DEFINE c == ctl[p]
           d == IF engine.alive THEN Checked(p, c, "timeout") ELSE At(c, "retire")
<1>1. c \in Controller /\ c.pc = "wait" /\ c.attempt # None /\ c.pc \notin WithoutAttempt
  BY DEF WaitForExit, Inv, TypeOK, CtlShape, WithoutAttempt
<1>2. lock' = lock /\ lock \in Controllers \cup {None} /\ killed' \in BOOLEAN
      /\ UNCHANGED <<record, attempt, engine, registered, aborted, late, decider, requests,
                     losses>>
      /\ Become(p, d)
  BY DEF WaitForExit, outside, Inv, TypeOK
<1>3. d \in Controller /\ Carries(c, d) /\ d.pc \in {"timeout", "rollback", "retire"}
      /\ (engine.alive => d.pc # "retire")
  BY <1>1, CheckedMoves, AtTyped DEF Label, Requesting
<1> HIDE DEF d
<1>4. ASSUME LiveInv, engine.alive, View(c, TheWorld) PROVE Stands(d, TheWorld)
  <2>1. c.attempt.phase = "graceful-accepted" /\ c.drain # 0
    BY <1>1, <1>4, WorldTyped, HasDrain DEF Inv, View, Stands, PhaseAt, Beginning
  <2> QED
    BY <1>3, <1>4, <2>1 DEF Stands, Carries, PhaseAt, Beginning, Deciding, AttemptPhase
<1> QED
  BY <1>1, <1>2, <1>3, <1>4, LocalGo DEF WithoutAttempt

\* p holds the lock, and gives it back only when it does not send its signal.
LEMMA SendHardSignalKeeps ==
  ASSUME Inv, NEW p \in Controllers, SendHardSignal(p)
  PROVE  Inv'
<1> DEFINE c == ctl[p]
<1>1. c \in Controller /\ c.pc = "signal" /\ c.attempt # None /\ c.pc \notin WithoutAttempt
      /\ lock = p
  BY DEF SendHardSignal, Inv, TypeOK, CtlShape, WithoutAttempt, SignalHeld
<1>2. UNCHANGED <<record, attempt, engine, registered, aborted, late, decider, requests,
                  losses>>
  BY DEF SendHardSignal
<1>3. CASE Become(p, At(c, "outcome")) /\ lock' = lock /\ killed' \in BOOLEAN
  <2> DEFINE d == At(c, "outcome")
  <2>1. d \in Controller /\ Carries(c, d) /\ d.pc = "outcome"
    BY <1>1, AtTyped DEF Label
  <2> HIDE DEF d
  <2>2. ASSUME View(c, TheWorld) PROVE Stands(d, TheWorld)
    <3>1. c.attempt.phase \in AttemptPhase
      BY <1>1 DEF Controller, ControlAttempt
    <3> QED
      BY <2>1, <3>1 DEF Stands, Carries, PhaseAt, Beginning, Deciding
  <2> QED
    BY <1>1, <1>2, <1>3, <2>1, <2>2, LocalGo DEF WithoutAttempt, d
<1>4. CASE Become(p, Caught(c, FALSE)) /\ lock' = None /\ killed' = killed
  BY <1>1, <1>2, <1>4, CaughtLeaves, LocalLeave
<1>5. killed \in BOOLEAN
  BY DEF Inv, TypeOK
<1> QED
  BY <1>3, <1>4, <1>5 DEF SendHardSignal

LEMMA WaitAfterSignalKeeps ==
  ASSUME Inv, NEW p \in Controllers, WaitAfterSignal(p)
  PROVE  Inv'
<1> DEFINE c == ctl[p]
<1>1. c \in Controller /\ c.pc = "exit" /\ c.attempt # None /\ c.pc \notin WithoutAttempt
  BY DEF WaitAfterSignal, Inv, TypeOK, CtlShape, WithoutAttempt
<1>2. lock' = lock /\ lock \in Controllers \cup {None} /\ killed' = killed
      /\ killed \in BOOLEAN
      /\ UNCHANGED <<record, attempt, engine, registered, aborted, late, decider, requests,
                     losses>>
  BY DEF WaitAfterSignal, outside, Inv, TypeOK
<1>3. CASE engine.alive
  BY <1>1, <1>2, <1>3, ReturnedLeaves, LocalLeave DEF WaitAfterSignal, WithoutAttempt
<1>4. CASE ~engine.alive
  <2> DEFINE d == At(c, "retire")
  <2>1. d \in Controller /\ Carries(c, d) /\ d.pc = "retire" /\ Become(p, d)
    BY <1>1, <1>4, AtTyped DEF WaitAfterSignal, Label
  <2> HIDE DEF d
  <2> QED
    BY <1>1, <1>2, <1>4, <2>1, LocalGo DEF WithoutAttempt
<1> QED
  BY <1>3, <1>4

\* A request that is not made: the record or the process is another, the
\* handshake aborted, the credential wiped, the engine dead.
LEMMA NotAskedKeeps ==
  ASSUME Inv, NEW p \in Controllers,
         Invalid(p) \/ AbortedHandshake(p) \/ RefusedRenewal(p) \/ Unreachable(p)
  PROVE  Inv'
<1> DEFINE c == ctl[p]
<1>1. c \in Controller /\ c.pc \in Requesting \cup Held
  BY DEF Invalid, AbortedHandshake, RefusedRenewal, Unreachable, Inv, TypeOK
<1>2. c.pc \notin WithoutAttempt /\ c.attempt # None /\ c.pc # "new"
  BY <1>1 DEF Inv, CtlShape, WithoutAttempt, Requesting, Held
<1>3. PICK d \in {Returned(c), Caught(c, FALSE)} : Become(p, d)
  BY DEF Invalid, AbortedHandshake, RefusedRenewal, Unreachable
<1>4. d \in Controller /\ (Leaves(c, d) \/ RollsBack(c, d))
  BY <1>1, ReturnedLeaves, CaughtLeaves
<1>5. UNCHANGED <<record, attempt, engine, registered, late, decider, requests, losses>>
      /\ lock' \in {lock, None} /\ (lock' = lock \/ lock = p)
      /\ aborted' = aborted /\ killed' = killed
  BY DEF Invalid, AbortedHandshake, RefusedRenewal, Unreachable, outside
<1> QED
  BY <1>2, <1>3, <1>4, <1>5, LocalLeave

LEMMA BeginStopKeeps ==
  ASSUME Inv, NEW p \in Controllers, BeginStop(p)
  PROVE  Inv'
<1> DEFINE c == ctl[p]
<1>1. c \in Controller /\ c.pc = "ready" /\ engine \in Engine
  BY DEF BeginStop, Inv, TypeOK
<1>2. PICK op \in Operation :
        Become(p, [c EXCEPT !.pc = "prepare", !.state = "draining", !.operation = op,
                            !.epoch = engine.epoch])
  BY DEF BeginStop
<1> DEFINE d == [c EXCEPT !.pc = "prepare", !.state = "draining", !.operation = op,
                          !.epoch = engine.epoch]
<1>3. d \in Controller /\ d.pc = "prepare" /\ d.epoch = engine.epoch
      /\ d.generation = c.generation
  BY <1>1 DEF Controller, Engine, Label, LifecycleState
<1>4. Become(p, d) /\ lock' = lock
      /\ UNCHANGED <<record, attempt, engine, registered, late, decider, requests>>
  BY <1>2 DEF BeginStop, outside
<1>5. TypeOK'
  BY <1>3, <1>4 DEF Inv, TypeOK, Become, BeginStop, outside
<1> HIDE DEF d
<1>6. ASSUME LiveInv PROVE Fits(d, TheWorld)
  BY <1>1, <1>3, <1>6, WorldTyped DEF Inv, LiveInv, Fits, Bounded, WithoutAttempt, Engine
<1> QED
  BY <1>1, <1>3, <1>4, <1>5, <1>6, LocalStep DEF WithoutAttempt

LEMMA AbortKeeps ==
  ASSUME Inv, NEW p \in Controllers, Abort(p)
  PROVE  Inv'
<1>1. TypeOK'
  BY DEF Abort, Inv, TypeOK
<1>2. TheWorld' = TheWorld
  BY DEF Abort, TheWorld
<1>3. WorldStep(TheWorld, TheWorld)
  BY WorldTyped, WorldTypes DEF Inv, WorldStep, Grown, DrainMoves, FilesKept, InDrain
<1>4. engine.alive => record = engine.owner
  BY DEF Inv, LiveInv
<1> QED
  BY <1>1, <1>2, <1>3, <1>4, NobodyMoves DEF Abort, PermitStands

LEMMA CrashKeeps ==
  ASSUME Inv, NEW p \in Controllers, Crash(p)
  PROVE  Inv'
<1> DEFINE d == [NoContext EXCEPT !.pc = "gone"]
<1>1. d \in Controller /\ d.pc = "gone" /\ d.generation = 0 /\ d.epoch = 0
  BY ContextTyped DEF NoContext
<1>2. Become(p, d) /\ ctl[p].pc # "new"
      /\ UNCHANGED <<record, attempt, engine, registered, late, decider, requests, losses>>
      /\ lock' \in {lock, None} /\ (lock' = lock \/ lock = p)
      /\ aborted' \subseteq aborted /\ killed' = killed
  BY DEF Crash, Attached
<1> HIDE DEF d
<1> QED
  BY <1>1, <1>2, LocalLeave DEF Leaves

\* Without its context p may be anywhere in its stop, at its signal as well.
LEMMA RenewalFailsKeeps ==
  ASSUME Inv, NEW p \in Controllers, RenewalFails(p)
  PROVE  Inv'
<1> DEFINE c == ctl[p]
           e == [c EXCEPT !.state = "lost"]
<1>1. c \in Controller /\ c.pc \notin {"new", "stopped", "gone"}
  BY DEF RenewalFails, Attached, Inv, TypeOK
<1>2. e \in Controller /\ Carries(c, e) /\ e.pc = c.pc /\ e.attempt = c.attempt
  BY <1>1 DEF Controller, Carries, LifecycleState
<1>3. /\ Become(p, IF c.pc = "ready" THEN Returned(e) ELSE e)
      /\ UNCHANGED <<record, attempt, engine, registered, late, decider, requests, lock,
                     aborted, killed>>
      /\ losses' \in {losses, losses + 1}
  BY DEF RenewalFails
<1> HIDE DEF e
<1>4. PICK d \in Controller :
        /\ Become(p, d)
        /\ \/ Leaves(c, d)
           \/ Carries(c, d) /\ d.pc = c.pc
  BY <1>2, <1>3, ReturnedLeaves DEF Leaves, Carries
<1>5. TypeOK'
  BY <1>3, <1>4 DEF Inv, TypeOK, Become
<1>6. ASSUME LiveInv PROVE Fits(d, TheWorld)
  <2>1. TheWorld \in World /\ Bounded(c, TheWorld)
        /\ (c.pc \notin WithoutAttempt => View(c, TheWorld))
    BY <1>6, WorldTyped DEF Inv, LiveInv
  <2>2. CASE Leaves(c, d)
    BY <1>1, <2>1, <2>2, LeavesFits
  <2>3. CASE Carries(c, d) /\ d.pc = c.pc
    <3>1. Stands(c, TheWorld) => Stands(d, TheWorld)
      BY <2>3 DEF Stands, Carries
    <3>2. c.pc \notin WithoutAttempt => View(d, TheWorld)
      BY <2>1, <2>3, <3>1, CarriesKnows DEF View
    <3> QED
      BY <2>1, <2>3, <3>2, CarriesKnows DEF Fits, Carries, Bounded
  <2> QED
    BY <1>4, <2>2, <2>3
<1>7. /\ d.pc # "new" /\ (d.pc \notin WithoutAttempt => d.attempt # None)
      /\ d.pc # "signal" \/ (c.pc = "signal" /\ Carries(c, d))
  BY <1>1, <1>4 DEF Leaves, Carries, Inv, CtlShape, WithoutAttempt
<1> QED
  BY <1>1, <1>3, <1>4, <1>5, <1>6, <1>7, LocalStep

(***************************************************************************)
(* The steps that change the durable attempt.                              *)
(***************************************************************************)
\* Taking an attempt on, p knows it.
LEMMA ResumeFits ==
  ASSUME NEW w \in World, WorldOK(w), w.attempt # None,
         NEW c \in Controller, Bounded(c, w), c.generation = w.engine.owner,
         NEW d \in Controller, d.attempt = w.attempt, d.drain = w.attempt.drain,
         d.generation = c.generation, d.epoch = c.epoch,
         d.pc = IF w.attempt.phase = "begin-pending" THEN "load" ELSE "drained"
  PROVE  Fits(d, w)
<1>1. w.attempt \in ControlAttempt /\ KnownAttempt(w.attempt, w)
  BY WorldTypes DEF WorldOK
<1>2. Knows(d, w)
  BY <1>1 DEF Knows, KnownAttempt
<1>3. w.attempt.phase \in PhaseAt(d.pc)
  BY <1>1 DEF PhaseAt, Beginning, ControlAttempt
<1>4. w.decider <= d.generation
  BY DEF WorldOK
<1>5. Stands(d, w)
  BY <1>1, <1>3, <1>4 DEF Stands, Deciding
<1> QED
  BY <1>2, <1>5 DEF Fits, View, Bounded

LEMMA ResumeTyped ==
  ASSUME NEW c \in Controller, NEW a \in ControlAttempt, NEW b \in BOOLEAN
  PROVE  LET d == [Resume(c, a) EXCEPT !.again = b]
         IN  /\ d \in Controller /\ Resume(c, a) \in Controller
             /\ Resume(c, a) = [Resume(c, a) EXCEPT !.again = c.again]
             /\ d.attempt = a /\ d.drain = a.drain
             /\ d.generation = c.generation /\ d.epoch = c.epoch
             /\ d.pc = IF a.phase = "begin-pending" THEN "load" ELSE "drained"
<1>1. a.drain \in Nat
  BY DEF ControlAttempt
<1> QED
  BY <1>1 DEF Resume, Controller, Label

\* Taking on the attempt that is there.
LEMMA TakeOn ==
  ASSUME Inv, NEW p \in Controllers, ctl[p].pc \notin {"new", "signal"}, attempt # None,
         record = ctl[p].generation, NEW b \in BOOLEAN,
         Become(p, [Resume(ctl[p], attempt) EXCEPT !.again = b]),
         UNCHANGED <<record, attempt, engine, registered, late, decider, requests, losses,
                     lock, aborted, killed>>
  PROVE  Inv'
<1> DEFINE c == ctl[p]
           d == [Resume(c, attempt) EXCEPT !.again = b]
<1>1. c \in Controller /\ attempt \in ControlAttempt
  BY DEF Inv, TypeOK
<1>2. /\ d \in Controller /\ d.attempt = attempt /\ d.drain = attempt.drain
      /\ d.generation = c.generation /\ d.epoch = c.epoch
      /\ d.pc = IF attempt.phase = "begin-pending" THEN "load" ELSE "drained"
  BY <1>1, ResumeTyped
<1>3. Become(p, d)
  OBVIOUS
<1> HIDE DEF d
<1>4. TypeOK'
  BY <1>2, <1>3 DEF Inv, TypeOK, Become
<1>5. ASSUME LiveInv PROVE Fits(d, TheWorld)
  BY <1>1, <1>2, <1>5, WorldTyped, ResumeFits DEF Inv, LiveInv
<1> QED
  BY <1>2, <1>3, <1>4, <1>5, LocalStep

\* Making a new attempt, where there is none that could still begin.
LEMMA MakeNew ==
  ASSUME Inv, NEW p \in Controllers, ctl[p].pc \notin {"new", "signal"}, lock = None,
         record = ctl[p].generation, NEW b \in BOOLEAN,
         attempt' = NewAttempt(p), requests' = requests + 1,
         Become(p, [Resume(ctl[p], attempt') EXCEPT !.again = b]),
         UNCHANGED <<record, engine, registered, late, decider, losses, lock, aborted,
                     killed>>,
         ctl[p].operation \in Operation,
         LiveInv => /\ ~InDrain(TheWorld)
                    /\ attempt # None => attempt.requester \in TheWorld.excluded
  PROVE  Inv'
<1> DEFINE c == ctl[p]
           a == NewAttempt(p)
           d == [Resume(c, a) EXCEPT !.again = b]
           w == TheWorld'
<1>1. c \in Controller /\ requests \in Nat /\ record \in Nat
  BY DEF Inv, TypeOK
<1>2. /\ a \in ControlAttempt /\ a # None
      /\ a.request = requests + 1 /\ a.requester = p /\ a.epoch = c.epoch
      /\ a.generation = record /\ a.phase = "begin-pending" /\ a.drain = 0
  BY <1>1, StopAssumption DEF NewAttempt, ControlAttempt, AttemptPhase, Controller
<1>3. attempt' = a /\ Become(p, d)
  OBVIOUS
<1> HIDE DEF a
<1>4. /\ d \in Controller /\ d.attempt = a /\ d.drain = a.drain
      /\ d.generation = c.generation /\ d.epoch = c.epoch /\ d.pc = "load"
  BY <1>1, <1>2, ResumeTyped
<1> HIDE DEF d
<1>5. /\ TypeOK' /\ ctl' \in [Controllers -> Controller]
      /\ ctl'[p] = d /\ \A q \in Controllers \ {p} : ctl'[q] = ctl[q]
  BY <1>1, <1>2, <1>3, <1>4 DEF Inv, TypeOK, Become
<1>6. ASSUME engine.alive, LiveInv
      PROVE  WorldStep(TheWorld, w) /\ Fits(d, w)
  <2>1. /\ TheWorld \in World /\ w \in World /\ WorldOK(TheWorld)
        /\ w.attempt = a /\ w.engine = engine /\ w.requests = requests + 1
        /\ w.decider = decider
        /\ TheWorld.engine = engine /\ TheWorld.decider = decider
        /\ TheWorld.requests = requests /\ TheWorld.attempt = attempt
    BY <1>3, <1>5, <1>6, WorldTyped, WorldTypedNext DEF Inv, LiveInv
  <2>s. \A q \in Controllers : ctl'[q].pc # "new" <=> ctl[q].pc # "new"
    BY <1>4, <1>5
  <2>n. registered' = registered
    OBVIOUS
  <2>x. w.excluded = TheWorld.excluded /\ w.started = TheWorld.started /\ p \in w.started
    BY <1>4, <1>5, <2>s, <2>n, WorldTyped, WorldTypedNext DEF Inv
  <2>2. Bounded(c, TheWorld) /\ record = engine.owner
    BY <1>6 DEF LiveInv
  <2>3. AttemptMade(TheWorld, w)
    BY <1>2, <1>6, <2>1, <2>2, <2>x, WorldTypes DEF AttemptMade, Bounded
  <2>4. WorldStep(TheWorld, w)
    BY <2>3, <2>x DEF WorldStep, Grown
  <2>5. WorldOK(w)
    BY <2>1, <2>4, WorldOKKept
  <2>6. Bounded(c, w)
    BY <2>1, <2>2 DEF Bounded
  <2> QED
    BY <1>1, <1>2, <1>4, <2>1, <2>2, <2>4, <2>5, <2>6, ResumeFits
<1>7. engine'.alive => engine.alive /\ record' = engine'.owner /\ LiveInv
  BY DEF Inv, LiveInv
<1> QED
  BY <1>2, <1>3, <1>4, <1>5, <1>6, <1>7, FreeStep

LEMMA PrepareControlAttemptKeeps ==
  ASSUME Inv, NEW p \in Controllers, PrepareControlAttempt(p)
  PROVE  Inv'
<1> DEFINE c == ctl[p]
<1>1. c \in Controller /\ c.pc = "prepare" /\ lock = None /\ c.operation \in Operation
      /\ c.again \in BOOLEAN
  BY DEF PrepareControlAttempt, Section, Inv, TypeOK, Controller
<1>2. UNCHANGED <<record, lock, engine, registered, aborted, late, killed, decider, losses>>
  BY DEF PrepareControlAttempt
<1>3. CASE Become(p, Returned(c)) /\ UNCHANGED <<attempt, requests>>
  BY <1>1, <1>2, <1>3, ReturnedLeaves, LocalLeave
<1>4. CASE ~Refused(p) /\ attempt # None /\ Become(p, Resume(c, attempt))
           /\ UNCHANGED <<attempt, requests>>
  <2>1. attempt \in ControlAttempt /\ record = c.generation
    BY <1>4 DEF Inv, TypeOK, Refused
  <2>2. Become(p, [Resume(c, attempt) EXCEPT !.again = c.again])
    BY <1>1, <1>4, <2>1, ResumeTyped
  <2> QED
    BY <1>1, <1>2, <1>4, <2>1, <2>2, TakeOn
<1>5. CASE /\ ~Refused(p) /\ attempt = None /\ attempt' = NewAttempt(p)
           /\ requests' = requests + 1 /\ Become(p, Resume(c, attempt'))
  <2>1. NewAttempt(p) \in ControlAttempt /\ record = c.generation
    BY <1>1, <1>5 DEF Inv, TypeOK, Refused, NewAttempt, ControlAttempt, Controller,
       AttemptPhase
  <2>2. Become(p, [Resume(c, attempt') EXCEPT !.again = c.again])
    BY <1>1, <1>5, <2>1, ResumeTyped
  <2>3. LiveInv => ~InDrain(TheWorld)
    BY <1>5, WorldTyped DEF Inv, LiveInv, WorldOK, Current
  <2> QED
    BY <1>1, <1>2, <1>5, <2>1, <2>2, <2>3, MakeNew
<1> QED
  BY <1>3, <1>4, <1>5 DEF PrepareControlAttempt

\* The requester of the attempt that is replaced is excluded, and no drain was
\* begun for it.
LEMMA ReplaceExpiredBeginKeeps ==
  ASSUME Inv, NEW p \in Controllers, ReplaceExpiredBegin(p)
  PROVE  Inv'
<1> DEFINE c == ctl[p]
<1>1. c \in Controller /\ c.pc = "replace" /\ lock = None /\ c.operation \in Operation
      /\ c.pc \notin WithoutAttempt /\ c.attempt # None
  BY DEF ReplaceExpiredBegin, Section, Inv, TypeOK, Controller, WithoutAttempt, CtlShape
<1>2. UNCHANGED <<record, lock, engine, registered, aborted, late, killed, decider, losses>>
  BY DEF ReplaceExpiredBegin
<1>3. CASE Become(p, Caught(c, FALSE)) /\ UNCHANGED <<attempt, requests>>
  BY <1>1, <1>2, <1>3, CaughtLeaves, LocalLeave
<1>4. CASE /\ record = c.generation /\ attempt \in {None, c.attempt}
           /\ attempt' = NewAttempt(p) /\ requests' = requests + 1
           /\ Become(p, [Resume(c, attempt') EXCEPT !.again = TRUE])
  <2>1. ASSUME LiveInv
        PROVE  /\ ~InDrain(TheWorld)
               /\ attempt # None => attempt.requester \in TheWorld.excluded
    <3>1. /\ View(c, TheWorld) /\ WorldOK(TheWorld)
          /\ TheWorld.attempt = attempt /\ TheWorld.engine = engine
      BY <1>1, <2>1, WorldTyped DEF Inv, LiveInv
    <3>2. CASE attempt = None
      BY <3>1, <3>2 DEF WorldOK, Current
    <3>3. CASE attempt = c.attempt
      <4>1. Current(c.attempt.request, TheWorld)
        BY <1>1, <3>1, <3>3 DEF Current
      <4>2. c.attempt.requester \in TheWorld.excluded
            /\ engine.drain.request # c.attempt.request
        BY <1>1, <3>1, <4>1 DEF View, Stands
      <4> QED
        BY <3>1, <3>3, <4>2 DEF WorldOK, Current
    <3> QED
      BY <1>4, <3>2, <3>3
  <2> QED
    BY <1>1, <1>2, <1>4, <2>1, MakeNew
<1>5. CASE /\ attempt \notin {None, c.attempt} /\ ~Refused(p)
           /\ Become(p, [Resume(c, attempt) EXCEPT !.again = TRUE])
           /\ UNCHANGED <<attempt, requests>>
  BY <1>1, <1>2, <1>5, TakeOn DEF Refused
<1> QED
  BY <1>3, <1>4, <1>5 DEF ReplaceExpiredBegin

\* An attempt that can no longer begin a drain is cleared.
LEMMA Clears ==
  ASSUME Inv, NEW p \in Controllers, ctl[p].pc \in {"denied", "clear"}, lock = None,
         attempt = ctl[p].attempt, attempt' = None,
         NEW d \in Controller, Become(p, d), Leaves(ctl[p], d),
         registered' \subseteq registered,
         UNCHANGED <<record, lock, engine, aborted, late, killed, decider, requests, losses>>
  PROVE  Inv'
<1> DEFINE c == ctl[p]
           w == TheWorld'
<1>1. c \in Controller /\ c.pc \notin WithoutAttempt /\ c.attempt # None
  BY DEF Inv, TypeOK, CtlShape, WithoutAttempt
<1>2. /\ TypeOK' /\ ctl' \in [Controllers -> Controller]
      /\ ctl'[p] = d /\ \A q \in Controllers \ {p} : ctl'[q] = ctl[q]
  BY DEF Inv, TypeOK, Become
<1>3. d.pc \in {"ready", "gone"}
  BY DEF Leaves
<1>4. ASSUME engine.alive, LiveInv
      PROVE  WorldStep(TheWorld, w) /\ Fits(d, w)
  <2>1. /\ TheWorld \in World /\ w \in World
        /\ w.attempt = None /\ w.engine = engine /\ w.requests = requests
        /\ w.decider = decider
        /\ TheWorld.engine = engine /\ TheWorld.decider = decider
        /\ TheWorld.requests = requests /\ TheWorld.attempt = attempt
    BY <1>2, WorldTyped, WorldTypedNext DEF Inv
  <2>2. View(c, TheWorld) /\ Bounded(c, TheWorld)
    BY <1>1, <1>4 DEF LiveInv
  <2>3. Current(c.attempt.request, TheWorld)
    BY <1>1, <2>1 DEF Current
  <2>4. engine.epoch > attempt.epoch
    BY <2>1, <2>2, <2>3 DEF View, Stands
  <2>5. AttemptCleared(TheWorld, w)
    BY <2>1, <2>4 DEF AttemptCleared
  <2>6. \A q \in Controllers : ctl'[q].pc # "new" <=> ctl[q].pc # "new"
    BY <1>2, <1>3
  <2>7. Grown(TheWorld, w)
    BY <1>2, <2>6, WorldTyped, WorldTypedNext DEF Inv, Grown
  <2>8. Bounded(c, w)
    BY <2>1, <2>2 DEF Bounded
  <2> QED
    BY <1>1, <2>1, <2>5, <2>7, <2>8, LeavesFits DEF WorldStep
<1>5. engine'.alive => engine.alive /\ record' = engine'.owner /\ LiveInv
  BY DEF Inv, LiveInv
<1>6. d.pc \in WithoutAttempt /\ d.pc # "signal" /\ late' = late
  BY <1>3 DEF WithoutAttempt
<1> QED
  BY <1>2, <1>4, <1>5, <1>6, FreeStep

LEMMA DeniedKeeps ==
  ASSUME Inv, NEW p \in Controllers, Denied(p)
  PROVE  Inv'
<1> DEFINE c == ctl[p]
           gone == [NoContext EXCEPT !.pc = "gone"]
<1>1. c \in Controller /\ c.pc = "denied" /\ lock = None
      /\ c.pc \notin WithoutAttempt /\ c.attempt # None
  BY DEF Denied, Section, Inv, TypeOK, WithoutAttempt, CtlShape
<1>2. UNCHANGED <<record, lock, engine, aborted, late, killed, decider, requests, losses>>
  BY DEF Denied
<1>3. CASE /\ attempt = c.attempt /\ attempt' = None /\ registered' = registered \ {p}
           /\ Become(p, gone)
  <2>1. gone \in Controller /\ Leaves(c, gone)
    BY ContextTyped DEF Leaves, NoContext
  <2> HIDE DEF gone
  <2> QED
    BY <1>1, <1>2, <1>3, <2>1, Clears
<1>4. CASE Become(p, Caught(c, FALSE)) /\ UNCHANGED <<attempt, registered>>
  BY <1>1, <1>2, <1>4, CaughtLeaves, LocalLeave
<1> QED
  BY <1>3, <1>4 DEF Denied

LEMMA ClearControlAttemptKeeps ==
  ASSUME Inv, NEW p \in Controllers, ClearControlAttempt(p)
  PROVE  Inv'
<1> DEFINE c == ctl[p]
<1>1. c \in Controller /\ c.pc = "clear" /\ lock = None
      /\ c.pc \notin WithoutAttempt /\ c.attempt # None
  BY DEF ClearControlAttempt, Section, Inv, TypeOK, WithoutAttempt, CtlShape
<1>2. UNCHANGED <<record, lock, engine, registered, aborted, late, killed, decider, requests,
                  losses>>
  BY DEF ClearControlAttempt
<1>3. CASE attempt = c.attempt
  <2>1. PICK d \in {Returned(c), ReadyAgain(c)} : Become(p, d)
    BY <1>3 DEF ClearControlAttempt
  <2>2. d \in Controller /\ Leaves(c, d)
    BY <1>1, ReturnedLeaves, ReadyAgainLeaves
  <2>3. attempt' = None
    BY <1>3 DEF ClearControlAttempt
  <2> QED
    BY <1>1, <1>2, <1>3, <2>1, <2>2, <2>3, Clears
<1>4. CASE attempt # c.attempt
  <2>1. PICK d \in {Returned(c), Caught(c, FALSE)} : Become(p, d)
    BY <1>4 DEF ClearControlAttempt
  <2>2. d \in Controller /\ (Leaves(c, d) \/ RollsBack(c, d)) /\ attempt' = attempt
    BY <1>1, <1>4, ReturnedLeaves, CaughtLeaves DEF ClearControlAttempt
  <2> QED
    BY <1>1, <1>2, <2>1, <2>2, LocalLeave
<1> QED
  BY <1>3, <1>4

\* Where p advances its attempt from and to.
Advances(from, phase, to) ==
  \/ from = "mark" /\ phase = "draining" /\ to = "drained"
  \/ from = "advance-accepted" /\ phase = "graceful-accepted" /\ to = "wait"
  \/ from = "advance-hard" /\ phase = "hard-signal-pending" /\ to = "authorize"
  \/ from = "advance-commit" /\ phase = "hard-signal-commit-pending" /\ to = "commit"

LEMMA AdvanceKeeps ==
  ASSUME Inv, NEW p \in Controllers, NEW from, NEW phase, NEW to,
         Advances(from, phase, to), Advance(p, from, phase, to)
  PROVE  Inv'
<1> DEFINE c == ctl[p]
           b == [attempt EXCEPT !.phase = phase, !.drain = c.drain]
           w == TheWorld'
<1>1. /\ c \in Controller /\ c.pc = from /\ lock = None /\ c.generation \in Nat
      /\ c.pc \notin WithoutAttempt \cup {"signal"} /\ c.attempt # None
      /\ phase \in AttemptPhase /\ to \in Label \ (WithoutAttempt \cup {"signal"})
  BY DEF Advance, Advances, Section, Inv, TypeOK, WithoutAttempt, CtlShape, AttemptPhase,
     Label, Requesting, Controller
<1>2. UNCHANGED <<record, lock, engine, registered, aborted, late, killed, requests, losses>>
  BY DEF Advance
<1>3. CASE attempt # c.attempt
  <2>1. Become(p, Caught(c, FALSE)) /\ UNCHANGED <<attempt, decider>>
    BY <1>3 DEF Advance
  <2> QED
    BY <1>1, <1>2, <2>1, CaughtLeaves, LocalLeave DEF WithoutAttempt
<1>4. CASE attempt = c.attempt
  <2> DEFINE e == [c EXCEPT !.attempt = b, !.hard = (phase = "hard-signal-commit-pending")]
             d == Checked(p, e, to)
  <2>1. /\ attempt' = b /\ Become(p, d)
        /\ decider' = IF phase = "hard-signal-pending" THEN c.generation ELSE decider
    BY <1>4 DEF Advance
  <2>2. /\ attempt \in ControlAttempt /\ b \in ControlAttempt /\ b # None
        /\ b.phase = phase /\ b.drain = c.drain
        /\ b.request = attempt.request /\ b.requester = attempt.requester
        /\ b.epoch = attempt.epoch /\ b.generation = attempt.generation
        /\ b = [attempt EXCEPT !.phase = b.phase, !.drain = b.drain]
    <3>1. attempt \in ControlAttempt
      <4>1. attempt \in ControlAttempt \cup {None}
        BY DEF Inv, TypeOK
      <4> QED
        BY <4>1, <1>1, <1>4
    <3>2. c.drain \in Nat /\ phase \in AttemptPhase
      BY <1>1 DEF Controller
    <3> HIDE DEF c
    <3>3. /\ b \in ControlAttempt /\ b.phase = phase /\ b.drain = c.drain
          /\ b.request = attempt.request /\ b.requester = attempt.requester
          /\ b.epoch = attempt.epoch /\ b.generation = attempt.generation
      BY <3>1, <3>2 DEF ControlAttempt
    <3>4. b = [attempt EXCEPT !.phase = b.phase, !.drain = b.drain]
      BY <3>3
    <3>5. b # None
      BY <3>3, StopAssumption DEF ControlAttempt
    <3> QED
      BY <3>1, <3>3, <3>4, <3>5
  <2> HIDE DEF b
  <2>3. /\ e \in Controller /\ e.attempt = b /\ e.drain = c.drain
        /\ e.generation = c.generation /\ e.epoch = c.epoch
    BY <1>1, <2>2 DEF Controller
  <2> HIDE DEF e
  <2>4. /\ d \in Controller /\ Carries(e, d) /\ d.pc \in {to, "rollback"}
    BY <1>1, <2>3, CheckedMoves
  <2> HIDE DEF d
  <2>5. /\ d.attempt = b /\ d.drain = c.drain
        /\ d.generation = c.generation /\ d.epoch = c.epoch
    BY <2>3, <2>4 DEF Carries
  <2>6. /\ TypeOK' /\ ctl' \in [Controllers -> Controller]
        /\ ctl'[p] = d /\ \A q \in Controllers \ {p} : ctl'[q] = ctl[q]
    BY <1>1, <1>2, <2>1, <2>2, <2>4 DEF Inv, TypeOK, Become
  <2>7. d.pc \notin WithoutAttempt \cup {"signal"}
    BY <1>1, <2>4 DEF WithoutAttempt
  <2>8. ASSUME engine.alive, LiveInv
        PROVE  WorldStep(TheWorld, w) /\ Fits(d, w)
    <3> DEFINE v == TheWorld
    <3>1. /\ v \in World /\ w \in World /\ WorldOK(v)
          /\ w.attempt = b /\ w.engine = engine /\ w.requests = requests
          /\ w.decider = IF phase = "hard-signal-pending" THEN c.generation ELSE decider
          /\ v.engine = engine /\ v.decider = decider
          /\ v.requests = requests /\ v.attempt = attempt
      BY <1>2, <2>1, <2>6, <2>8, WorldTyped, WorldTypedNext DEF Inv, LiveInv
    <3>2. \A q \in Controllers : ctl'[q].pc # "new" <=> ctl[q].pc # "new"
      BY <1>1, <2>6, <2>7 DEF WithoutAttempt
    <3>3. Grown(v, w)
      BY <1>2, <2>6, <3>2, WorldTyped, WorldTypedNext DEF Inv, Grown
    <3>4. View(c, v) /\ Bounded(c, v) /\ Current(c.attempt.request, v)
      BY <1>1, <1>4, <2>8, <3>1 DEF LiveInv, Current
    <3> HIDE DEF v, w
    <3>5. /\ Numbered(c.drain, attempt, v) /\ c.drain # 0
          /\ attempt.phase \in PhaseAt(from) /\ attempt.generation <= c.generation
          /\ from = "mark" \/ attempt.phase # "begin-pending"
      <4>1. attempt.phase \in PhaseAt(from) /\ attempt.generation <= c.generation
            /\ (from = "mark" => c.drain # 0)
            /\ (c.drain # 0 => Numbered(c.drain, attempt, v))
        BY <1>1, <1>4, <3>4 DEF View, Knows, Stands
      <4>2. from # "mark" => attempt.phase # "begin-pending"
        BY <4>1 DEF Advances, PhaseAt, Beginning
      <4>3. c.drain # 0
        BY <1>1, <1>4, <3>1, <3>4, <4>1, <4>2, HasDrain DEF View
      <4> QED
        BY <4>1, <4>2, <4>3
    <3>6. from = "advance-commit" => decider = c.generation
      BY <1>1, <3>1, <3>4 DEF View, Stands, Deciding
    <3>7. c.generation <= engine.owner /\ decider <= engine.owner
      BY <3>1, <3>4 DEF Bounded, WorldOK
    <3>8. AttemptAdvanced(v, w)
      BY <1>1, <1>4, <2>2, <3>1, <3>5, <3>6, <3>7
         DEF AttemptAdvanced, Advances, PhaseAt, Beginning, HardPhase
    <3>9. WorldStep(v, w)
      BY <3>3, <3>8 DEF WorldStep
    <3>10. KnownAttempt(b, w) /\ Numbered(c.drain, b, w)
      BY <3>1, <3>5, <3>9, <2>2, WorldOKKept DEF WorldOK, Numbered
    <3>11. Knows(d, w)
      BY <2>2, <2>5, <3>5, <3>10 DEF Knows
    <3>12. Stands(d, w)
      BY <2>2, <2>4, <2>5, <3>1, <3>5, <3>6
         DEF Stands, Advances, PhaseAt, Beginning, Deciding, HardPhase, AttemptPhase
    <3>13. Bounded(d, w)
      BY <2>5, <3>1, <3>4 DEF Bounded
    <3> QED
      BY <3>9, <3>11, <3>12, <3>13 DEF Fits, View, v, w
  <2>9. engine'.alive => engine.alive /\ record' = engine'.owner /\ LiveInv
    BY <1>2 DEF Inv, LiveInv
  <2>10. d.attempt # None /\ d.pc # "signal" /\ late' = late
    BY <1>2, <2>2, <2>5, <2>7
  <2> QED
    BY <1>1, <2>1, <2>4, <2>6, <2>8, <2>9, <2>10, FreeStep
<1> QED
  BY <1>3, <1>4

LEMMA RetireObservedExitKeeps ==
  ASSUME Inv, NEW p \in Controllers, RetireObservedExit(p)
  PROVE  Inv'
<1> DEFINE c == ctl[p]
           stopped == [NoContext EXCEPT !.pc = "stopped"]
<1>1. c \in Controller /\ c.pc = "retire" /\ lock = None
      /\ c.pc \notin WithoutAttempt /\ c.attempt # None
  BY DEF RetireObservedExit, Section, Inv, TypeOK, WithoutAttempt, CtlShape
<1>2. UNCHANGED <<lock, engine, registered, aborted, late, killed, decider, requests, losses>>
  BY DEF RetireObservedExit
<1>3. CASE ~engine.alive /\ record' = 0 /\ attempt' = None
           /\ \E d \in {Caught(c, FALSE), stopped} : Become(p, d)
  <2>1. PICK d \in {Caught(c, FALSE), stopped} : Become(p, d)
    BY <1>3
  <2>2. d \in Controller /\ d.pc # "signal" /\ (d.pc \notin WithoutAttempt => d.attempt # None)
    <3>1. CASE d = Caught(c, FALSE)
      BY <1>1, <3>1, CaughtLeaves DEF Leaves, RollsBack, Carries, WithoutAttempt
    <3>2. CASE d = stopped
      BY <3>2, ContextTyped DEF NoContext, WithoutAttempt
    <3> QED
      BY <3>1, <3>2
  <2>3. TypeOK'
    BY <1>2, <1>3, <2>1, <2>2 DEF Inv, TypeOK, Become
  <2>4. engine' = engine /\ late' = late
    BY <1>2
  <2> HIDE DEF stopped
  <2> QED
    BY <1>1, <1>3, <2>1, <2>2, <2>3, <2>4, FreeStep
<1>4. CASE Become(p, Returned(c)) /\ UNCHANGED <<record, attempt>>
  BY <1>1, <1>2, <1>4, ReturnedLeaves, LocalLeave
<1> QED
  BY <1>3, <1>4 DEF RetireObservedExit

(***************************************************************************)
(* Adopting the engine, and the steps of the engine and of time.           *)
(***************************************************************************)
\* The adopter is new, so its registration excludes nobody.
LEMMA AdoptKeeps ==
  ASSUME Inv, NEW p \in Controllers, Adopt(p)
  PROVE  Inv'
<1> DEFINE g == IF engine.leased THEN record ELSE record + 1
           e == [ctl[p] EXCEPT !.generation = g]
           d == Returned(e)
           w == TheWorld'
<1>1. /\ ctl[p] \in Controller /\ ctl[p].pc = "new" /\ lock = None /\ engine.alive
      /\ record = engine.owner /\ g \in Nat /\ g >= engine.owner /\ LiveInv
      /\ engine \in Engine
  BY DEF Adopt, Section, Inv, TypeOK
<1>2. /\ record' = g /\ engine' = [engine EXCEPT !.owner = g, !.leased = TRUE]
      /\ Become(p, d) /\ registered' = registered \cup {p}
      /\ UNCHANGED <<attempt, lock, aborted, late, killed, decider, requests, losses>>
  BY DEF Adopt
<1> HIDE DEF g
<1>3. e \in Controller /\ e.generation = g
  BY <1>1 DEF Controller
<1> HIDE DEF e
<1>4. d \in Controller /\ Leaves(e, d)
  BY <1>3, ReturnedLeaves
<1> HIDE DEF d
<1>5. d.pc \in {"ready", "gone"} /\ d.generation \in {0, g} /\ d.epoch = 0
  BY <1>3, <1>4 DEF Leaves
<1>6. /\ engine' \in Engine /\ engine'.owner = g /\ engine'.epoch = engine.epoch
      /\ engine'.drain = engine.drain
  BY <1>1, <1>2 DEF Engine
<1>7. /\ ctl' \in [Controllers -> Controller]
      /\ ctl'[p] = d /\ \A q \in Controllers \ {p} : ctl'[q] = ctl[q]
  BY <1>2, <1>4 DEF Inv, TypeOK, Become
<1>8. TypeOK'
  BY <1>1, <1>2, <1>6, <1>7 DEF Inv, TypeOK
<1>9. /\ TheWorld \in World /\ w \in World
      /\ w.attempt = attempt /\ w.engine = engine' /\ w.requests = requests
      /\ w.decider = decider
      /\ TheWorld.engine = engine /\ TheWorld.decider = decider
      /\ TheWorld.requests = requests /\ TheWorld.attempt = attempt
  BY <1>2, <1>8, WorldTyped, WorldTypedNext DEF Inv
<1>10. Grown(TheWorld, w)
  <2>1. \A q \in Controllers : ctl[q].pc # "new" => q # p /\ ctl'[q].pc # "new"
    BY <1>1, <1>7
  <2> QED
    BY <1>2, <1>8, <2>1, WorldTyped, WorldTypedNext DEF Inv, Grown
<1>11. DrainMoves(TheWorld, w)
  BY <1>1, <1>6, <1>9 DEF DrainMoves, FilesKept, InDrain
<1>12. Fits(d, w)
  BY <1>1, <1>5, <1>6, <1>9, WorldTypes DEF Fits, Bounded, WithoutAttempt
<1>13. d.pc \in WithoutAttempt /\ d.pc # "signal" /\ late' = late /\ record' = engine'.owner
  BY <1>2, <1>5, <1>6 DEF WithoutAttempt
<1> QED
  BY <1>1, <1>2, <1>4, <1>8, <1>10, <1>11, <1>12, <1>13, FreeStep DEF WorldStep

LEMMA RetireDeadAuthorityKeeps ==
  ASSUME Inv, NEW p \in Controllers, RetireDeadAuthority(p)
  PROVE  Inv'
<1>1. TypeOK' /\ ~engine'.alive
  BY DEF RetireDeadAuthority, Inv, TypeOK
<1> QED
  BY <1>1, NobodyMoves DEF RetireDeadAuthority

LEMMA RegistrationExpiresKeeps ==
  ASSUME Inv, NEW p \in Controllers, RegistrationExpires(p)
  PROVE  Inv'
<1>1. /\ registered' \subseteq registered
      /\ UNCHANGED <<record, attempt, lock, engine, ctl, aborted, late, killed, decider,
                     requests, losses>>
  BY DEF RegistrationExpires
<1>2. TypeOK'
  BY <1>1 DEF Inv, TypeOK
<1>3. Grown(TheWorld, TheWorld')
  BY <1>1, <1>2, WorldTyped, WorldTypedNext DEF Inv, Grown
<1>4. DrainMoves(TheWorld, TheWorld')
  BY <1>1, <1>2, WorldTyped, WorldTypedNext, WorldTypes DEF Inv, DrainMoves, FilesKept, InDrain
<1>5. engine.alive => record = engine.owner
  BY DEF Inv, LiveInv
<1> QED
  BY <1>1, <1>2, <1>3, <1>4, <1>5, NobodyMoves DEF WorldStep, PermitStands

\* Only the engine changes.
LEMMA EngineOnly ==
  ASSUME Inv, engine.alive, engine' \in Engine, engine'.owner = engine.owner,
         PermitStands(engine, engine'), ctl' = ctl, late' \subseteq late,
         UNCHANGED <<record, attempt, lock, registered, aborted, killed, decider, requests,
                     losses>>,
         LET v == TheWorld
             w == WithEngine(TheWorld, engine')
         IN  DrainMoves(v, w) \/ DrainBegun(v, w) \/ DrainRolledBack(v, w)
  PROVE  Inv'
<1>1. TypeOK'
  BY DEF Inv, TypeOK
<1>2. TheWorld' = WithEngine(TheWorld, engine')
  BY DEF TheWorld, WithEngine
<1>3. Grown(TheWorld, TheWorld')
  BY <1>2 DEF Grown, WithEngine
<1>4. record' = engine'.owner
  BY DEF Inv, LiveInv
<1> QED
  BY <1>1, <1>2, <1>3, <1>4, NobodyMoves DEF WorldStep

LEMMA TimePassesKeeps ==
  ASSUME Inv, OwnerLeaseExpires \/ RequesterExpires \/ AuthorizationExpires
  PROVE  Inv'
<1> DEFINE v == TheWorld
           w == WithEngine(TheWorld, engine')
<1>1. /\ engine.alive /\ engine \in Engine /\ engine.drain \in Drain /\ late' = late
      /\ ctl' = ctl
      /\ UNCHANGED <<record, attempt, lock, registered, aborted, killed, decider, requests,
                     losses>>
  BY DEF OwnerLeaseExpires, RequesterExpires, AuthorizationExpires, outside, Inv, TypeOK,
     Engine
<1>2. v.engine = engine /\ w.engine = engine' /\ FilesKept(v, w) /\ engine.owner \in Nat
  BY <1>1, WorldTyped DEF Inv, WithEngine, FilesKept, Engine
<1>3. CASE OwnerLeaseExpires
  <2>1. /\ engine' \in Engine /\ engine'.owner = engine.owner
        /\ engine'.epoch = engine.epoch /\ engine'.drain = engine.drain
    BY <1>1, <1>3 DEF OwnerLeaseExpires, Engine
  <2>2. DrainMoves(v, w) /\ PermitStands(engine, engine')
    BY <1>2, <2>1 DEF DrainMoves, InDrain, PermitStands
  <2> QED
    BY <1>1, <2>1, <2>2, EngineOnly
<1>4. CASE AuthorizationExpires
  <2>1. /\ engine' \in Engine /\ engine'.owner = engine.owner
        /\ engine'.epoch = engine.epoch
        /\ engine'.drain.phase = engine.drain.phase
        /\ engine'.drain.number = engine.drain.number
        /\ engine'.drain.request = engine.drain.request
    BY <1>1, <1>4 DEF AuthorizationExpires, Engine, Drain
  <2>2. DrainMoves(v, w) /\ PermitStands(engine, engine')
    BY <1>2, <2>1 DEF DrainMoves, InDrain, PermitStands
  <2> QED
    BY <1>1, <2>1, <2>2, EngineOnly
<1>5. CASE RequesterExpires
  <2>1. /\ engine' = RolledBack /\ engine.drain.phase = "draining"
    BY <1>5 DEF RequesterExpires
  <2>2. /\ engine' \in Engine /\ engine'.owner = engine.owner
        /\ engine'.epoch = engine.epoch + 1
        /\ engine'.drain.phase = "rolled-back"
        /\ engine'.drain.number = engine.drain.number
        /\ engine'.drain.request = engine.drain.request
    <3>1. [engine.drain EXCEPT !.phase = "rolled-back"] \in Drain
      BY <1>1 DEF Drain, DrainPhase
    <3>2. RolledBack =
            [engine EXCEPT !.drain = [engine.drain EXCEPT !.phase = "rolled-back"],
                           !.epoch = engine.epoch + 1]
      BY <1>1 DEF RolledBack, Engine
    <3>3. engine.epoch + 1 \in Nat
      BY <1>1 DEF Engine
    <3>4. RolledBack \in Engine
      BY <1>1, <3>1, <3>2, <3>3 DEF Engine
    <3> QED
      BY <1>1, <2>1, <3>4 DEF RolledBack, Engine, Drain
  <2>3. DrainRolledBack(v, w) /\ PermitStands(engine, engine')
    BY <1>2, <2>1, <2>2 DEF DrainRolledBack, InDrain, PermitStands
  <2> QED
    BY <1>1, <2>2, <2>3, EngineOnly
<1> QED
  BY <1>3, <1>4, <1>5

\* A request carried out long after it was sent does what it would have done.
LEMMA LateRequestKeeps ==
  ASSUME Inv, LateRequest
  PROVE  Inv'
<1>1. PICK m \in late : \E r \in Replies(m) : engine' = r.engine /\ late' = late \ {m}
  BY DEF LateRequest
<1>2. PICK r \in Replies(m) : engine' = r.engine /\ late' = late \ {m}
  BY <1>1
<1>3. /\ engine.alive /\ ctl' = ctl
      /\ UNCHANGED <<record, attempt, lock, registered, aborted, killed, decider, requests,
                     losses>>
  BY DEF LateRequest
<1>4. TypeOK /\ LiveInv /\ m \in Request /\ Sent(m, TheWorld)
  BY <1>3 DEF Inv, TypeOK, LiveInv
<1>5. /\ r.engine \in Engine /\ r.engine.owner = engine.owner
      /\ PermitStands(engine, r.engine)
      /\ WithEngine(TheWorld, r.engine) \in World
      /\ WorldStep(TheWorld, WithEngine(TheWorld, r.engine))
  BY <1>4, ReplyStep
<1>6. TypeOK'
  BY <1>2, <1>3, <1>5 DEF Inv, TypeOK
<1>7. TheWorld' = WithEngine(TheWorld, r.engine)
  BY <1>2, <1>3 DEF TheWorld, WithEngine
<1>8. record' = engine'.owner
  BY <1>2, <1>3, <1>4, <1>5 DEF LiveInv
<1> QED
  BY <1>2, <1>3, <1>5, <1>6, <1>7, <1>8, NobodyMoves

LEMMA EngineExitsKeeps ==
  ASSUME Inv, EngineExits
  PROVE  Inv'
<1>1. NoDrain \in Drain
  BY DEF NoDrain, Drain, DrainPhase
<1>2. engine' \in Engine /\ ~engine'.alive
  BY <1>1 DEF EngineExits, Inv, TypeOK, Engine
<1>3. TypeOK'
  BY <1>2 DEF EngineExits, Inv, TypeOK
<1> QED
  BY <1>2, <1>3, NobodyMoves DEF EngineExits

(***************************************************************************)
(* The invariant holds.                                                    *)
(***************************************************************************)
LEMMA InitInv == Init => Inv
<1> SUFFICES ASSUME Init PROVE Inv
  OBVIOUS
<1>1. NoDrain \in Drain /\ NoDrain.request = 0 /\ NoDrain.phase = "rolled-back"
      /\ NoDrain.number = 0
  BY DEF NoDrain, Drain, DrainPhase
<1>2. /\ engine \in Engine /\ engine.owner = 1 /\ engine.epoch = 0 /\ engine.drain = NoDrain
  BY <1>1 DEF Init, Engine
<1>3. TypeOK
  BY <1>2, ContextTyped DEF Init, TypeOK
<1>4. \A p \in Controllers : /\ ctl[p].pc = "new" /\ ctl[p].generation = 0
                             /\ ctl[p].epoch = 0
  BY DEF Init, NoContext
<1>5. CtlShape /\ SignalHeld
  BY <1>4 DEF CtlShape, SignalHeld, WithoutAttempt
<1>6. LiveInv
  <2>1. TheWorld.attempt = None /\ TheWorld.engine = engine /\ TheWorld.requests = 0
        /\ TheWorld.decider = 0
    BY <1>3, WorldTyped DEF Init
  <2>2. WorldOK(TheWorld)
    BY <1>1, <1>2, <2>1 DEF WorldOK, InDrain, Current
  <2> QED
    BY <1>2, <1>4, <2>1, <2>2 DEF LiveInv, Init, Bounded, WithoutAttempt
<1> QED
  BY <1>3, <1>5, <1>6 DEF Inv

LEMMA NextInv == Inv /\ [Next]_vars => Inv'
<1> SUFFICES ASSUME Inv, [Next]_vars PROVE Inv'
  OBVIOUS
<1>1. ASSUME NEW p \in Controllers, Step(p)
      PROVE  Inv'
  <2>1. CASE \/ PrepareControlAttempt(p) \/ LoadSecret(p) \/ BeginControlDrain(p)
             \/ ReplaceExpiredBegin(p) \/ Denied(p)
    BY <2>1, PrepareControlAttemptKeeps, LoadSecretKeeps, BeginControlDrainKeeps,
       ReplaceExpiredBeginKeeps, DeniedKeeps
  <2>2. CASE MarkDraining(p) \/ AdvanceAccepted(p) \/ AdvanceHard(p) \/ AdvanceCommit(p)
    BY <2>2, AdvanceKeeps
       DEF MarkDraining, AdvanceAccepted, AdvanceHard, AdvanceCommit, Advances
  <2>3. CASE Drained(p) \/ RecordAccepted(p) \/ WaitForExit(p) \/ RecordTimeout(p)
    BY <2>3, DrainedKeeps, RecordAcceptedKeeps, WaitForExitKeeps, RecordTimeoutKeeps
  <2>4. CASE PrepareHardSignal(p) \/ CommitHardSignal(p) \/ SendHardSignal(p)
             \/ RecordOutcome(p) \/ WaitAfterSignal(p)
    BY <2>4, PrepareHardSignalKeeps, CommitHardSignalKeeps, SendHardSignalKeeps,
       RecordOutcomeKeeps, WaitAfterSignalKeeps
  <2>5. CASE RetireObservedExit(p) \/ RollbackDrain(p) \/ ClearControlAttempt(p)
             \/ LoseReply(p)
    BY <2>5, RetireObservedExitKeeps, RollbackDrainKeeps, ClearControlAttemptKeeps,
       LoseReplyKeeps
  <2>6. CASE Invalid(p) \/ AbortedHandshake(p) \/ RefusedRenewal(p) \/ Unreachable(p)
    BY <2>6, NotAskedKeeps
  <2> QED
    BY <1>1, <2>1, <2>2, <2>3, <2>4, <2>5, <2>6 DEF Step
<1>2. ASSUME NEW p \in Controllers,
             Adopt(p) \/ BeginStop(p) \/ Abort(p) \/ Crash(p) \/ RenewalFails(p)
             \/ RetireDeadAuthority(p) \/ RegistrationExpires(p)
      PROVE  Inv'
  BY <1>2, AdoptKeeps, BeginStopKeeps, AbortKeeps, CrashKeeps, RenewalFailsKeeps,
     RetireDeadAuthorityKeeps, RegistrationExpiresKeeps
<1>3. CASE OwnerLeaseExpires \/ RequesterExpires \/ AuthorizationExpires \/ LateRequest
           \/ EngineExits
  BY <1>3, TimePassesKeeps, LateRequestKeeps, EngineExitsKeeps
<1>4. CASE UNCHANGED vars
  <2>1. TypeOK' /\ ctl' = ctl /\ lock' = lock /\ late' = late /\ engine' = engine
        /\ record' = record
    BY <1>4 DEF Inv, TypeOK, vars
  <2>2. TheWorld' = TheWorld
    BY <1>4 DEF TheWorld, vars
  <2>3. engine.alive => record = engine.owner /\ WorldStep(TheWorld, TheWorld)
    BY WorldTyped, WorldTypes
       DEF Inv, LiveInv, WorldStep, Grown, DrainMoves, FilesKept, InDrain
  <2> QED
    BY <2>1, <2>2, <2>3, NobodyMoves DEF PermitStands
<1> QED
  BY <1>1, <1>2, <1>3, <1>4 DEF Next

\* The invariant that the theorems below rest on.
THEOREM InvHolds == Spec => []Inv
BY InitInv, NextInv, PTL DEF Spec

(***************************************************************************)
(* What follows from it.                                                   *)
(***************************************************************************)
\* Every variable keeps its type, whatever #controlledStop and the engine do.
THEOREM TypeCorrect == Spec => []TypeOK
<1>1. Inv => TypeOK
  BY DEF Inv
<1> QED
  BY <1>1, InvHolds, PTL

\* Whenever the engine drains, the control attempt of that very request is
\* durable: clearControlAttempt and the replacement of an expired begin only
\* ever remove an attempt that has no drain and can no longer get one, not even
\* by a begin request that is still on its way.
THEOREM DrainCovered == Spec => []DrainIsCovered
<1>1. Inv => DrainIsCovered
  BY WorldTyped DEF Inv, LiveInv, WorldOK, DrainIsCovered, Draining, InDrain, Current
<1> QED
  BY <1>1, InvHolds, PTL

\* Whenever the engine has committed a permit, the attempt that asked for it is
\* durable in its last phase, hard-signal-commit-pending, and names that drain.
THEOREM PermitCovered == Spec => []PermitKeepsAttempt
<1>1. Inv => PermitKeepsAttempt
  <2> SUFFICES ASSUME Inv, engine.alive, engine.drain.phase = "committed"
               PROVE  /\ attempt # None /\ attempt.phase = "hard-signal-commit-pending"
                      /\ attempt.drain = engine.drain.number
    BY DEF PermitKeepsAttempt
  <2> QED
    BY WorldTyped DEF Inv, LiveInv, WorldOK, InDrain, Current
<1> QED
  BY <1>1, InvHolds, PTL

\* SIGKILL is sent (in the callback of commitHardSignal, under the lock) only
\* on an unexpired committed permit, with the commit durable, by a controller of
\* the owner generation that recorded the hard decision.
THEOREM SignalIsPermitted == Spec => SignalOnlyOnPermit
<1> DEFINE Good == ~killed /\ killed' =>
             /\ engine.drain.phase = "committed" /\ ~engine.drain.expired
             /\ attempt # None /\ attempt.phase = "hard-signal-commit-pending"
             /\ attempt.drain = engine.drain.number
             /\ decider = engine.owner
<1>1. Inv /\ [Next]_vars => [Good]_vars
  <2> SUFFICES ASSUME Inv, [Next]_vars, ~killed, killed' PROVE Good
    OBVIOUS
  <2>1. PICK p \in Controllers : SendHardSignal(p)
    <3>1. ASSUME NEW p \in Controllers,
                 \/ PrepareControlAttempt(p) \/ LoadSecret(p) \/ BeginControlDrain(p)
                 \/ ReplaceExpiredBegin(p) \/ Denied(p) \/ MarkDraining(p) \/ Drained(p)
                 \/ RecordAccepted(p) \/ AdvanceAccepted(p) \/ WaitForExit(p)
          PROVE  FALSE
      BY <3>1 DEF outside, PrepareControlAttempt, LoadSecret, BeginControlDrain,
         ReplaceExpiredBegin, Denied, MarkDraining, Drained, RecordAccepted,
         AdvanceAccepted, WaitForExit, Advance
    <3>2. ASSUME NEW p \in Controllers,
                 \/ RecordTimeout(p) \/ AdvanceHard(p) \/ PrepareHardSignal(p)
                 \/ AdvanceCommit(p) \/ CommitHardSignal(p) \/ RecordOutcome(p)
                 \/ WaitAfterSignal(p) \/ RetireObservedExit(p) \/ RollbackDrain(p)
                 \/ ClearControlAttempt(p)
          PROVE  FALSE
      BY <3>2 DEF outside, RecordTimeout, AdvanceHard, PrepareHardSignal, AdvanceCommit,
         CommitHardSignal, RecordOutcome, WaitAfterSignal, RetireObservedExit,
         RollbackDrain, ClearControlAttempt, Advance
    <3>3. ASSUME NEW p \in Controllers,
                 \/ LoseReply(p) \/ Invalid(p) \/ AbortedHandshake(p) \/ RefusedRenewal(p)
                 \/ Unreachable(p) \/ Adopt(p) \/ BeginStop(p) \/ Abort(p) \/ Crash(p)
                 \/ RenewalFails(p) \/ RetireDeadAuthority(p) \/ RegistrationExpires(p)
          PROVE  FALSE
      BY <3>3 DEF outside, LoseReply, Invalid, AbortedHandshake, RefusedRenewal,
         Unreachable, Adopt, BeginStop, Abort, Crash, RenewalFails, RetireDeadAuthority,
         RegistrationExpires
    <3>4. CASE \/ OwnerLeaseExpires \/ RequesterExpires \/ AuthorizationExpires
               \/ LateRequest \/ EngineExits
      BY <3>4 DEF outside, OwnerLeaseExpires, RequesterExpires, AuthorizationExpires,
         LateRequest, EngineExits
    <3>5. CASE UNCHANGED vars
      BY <3>5 DEF vars
    <3> QED
      BY <3>1, <3>2, <3>3, <3>4, <3>5 DEF Next, Step
  <2> DEFINE c == ctl[p]
             w == TheWorld
  <2>2. c.pc = "signal" /\ engine.alive /\ ~engine.drain.expired
    BY <2>1 DEF SendHardSignal
  <2>3. /\ engine.drain.phase = "committed" /\ engine.drain.number = c.drain
        /\ c.generation = engine.owner
    BY <2>2 DEF Inv, SignalHeld
  <2>4. /\ w.attempt = attempt /\ w.engine = engine /\ w.decider = decider
        /\ w \in World /\ WorldOK(w) /\ View(c, w)
    BY <2>2, WorldTyped DEF Inv, LiveInv, WithoutAttempt
  <2>5. /\ Current(engine.drain.request, w)
        /\ attempt.phase = "hard-signal-commit-pending"
        /\ attempt.drain = engine.drain.number
    BY <2>3, <2>4 DEF WorldOK, InDrain
  <2>6. engine.drain.request = c.attempt.request
    <3>1. c.attempt.phase = "hard-signal-commit-pending"
      BY <2>2, <2>4 DEF View, Stands, PhaseAt, Beginning
    <3>2. c.drain = c.attempt.drain /\ Numbered(c.attempt.drain, c.attempt, w)
      BY <2>4, <3>1 DEF View, Knows, KnownAttempt
    <3> QED
      BY <2>3, <2>4, <3>2 DEF Numbered
  <2>7. decider = c.generation
    BY <2>2, <2>4, <2>5, <2>6 DEF View, Stands, Deciding
  <2> QED
    BY <2>2, <2>3, <2>4, <2>5, <2>7 DEF Current
<1> HIDE DEF Good
<1>2. []Inv /\ [][Next]_vars => [][Good]_vars
  BY <1>1, PTL
<1>3. Spec => []Inv /\ [][Next]_vars
  BY InvHolds, PTL DEF Spec
<1> USE DEF Good
<1> QED
  BY <1>2, <1>3 DEF SignalOnlyOnPermit

(***************************************************************************)
(* Controllers that follow each other.                                     *)
(***************************************************************************)
HardCommit == attempt # None /\ attempt.phase = "hard-signal-commit-pending"

\* A drain with a decision that was authorized.
Authorized == {"prepared", "committed"}

\* Of controllers in turn one at most is attached; while the engine lives, the
\* attempt it works on is the durable one.
Alone == \A p, q \in Controllers : Attached(p) /\ Attached(q) => p = q
OwnAttempt ==
  engine.alive => \A p \in Controllers : ctl[p].pc \notin WithoutAttempt => ctl[p].attempt = attempt

\* As long as no reply was lost, no request is carried out behind its
\* controller's back: a hard commit is durable only when its drain was
\* authorized, and rolled back only when the authorization expired.
NoneLate == losses = 0 => late = {}
Decided ==
  losses = 0 /\ engine.alive /\ Draining =>
    \/ ~HardCommit /\ \A p \in Controllers : ctl[p].pc # "advance-commit"
    \/ engine.drain.phase \in Authorized
Undoing ==
  losses = 0 /\ engine.alive /\ Draining /\ HardCommit =>
    \A p \in Controllers : ctl[p].pc = "rollback" => engine.drain.expired

InTurn == Alone /\ OwnAttempt /\ NoneLate /\ Decided /\ Undoing

\* How a controller goes on from c to d with the attempt it has: it rolls a
\* hard commit back only on an expired authorization, and prepares one only
\* when it has the authorization.
Proceeds(c, d) ==
  /\ d.pc \notin WithoutAttempt => d.attempt = c.attempt
  /\ d.pc = "rollback" =>
       \/ c.attempt.phase # "hard-signal-commit-pending"
       \/ c.pc = "rollback"
       \/ c.pc \in {"authorize", "commit"} /\ engine.drain.expired
  /\ d.pc = "advance-commit" => c.pc = "authorize" /\ engine'.drain.phase \in Authorized

\* How it goes on when it may change the file.
Files(c, d) ==
  /\ d.pc \notin WithoutAttempt => d.attempt = attempt'
  /\ HardCommit' => /\ attempt' = attempt \/ c.pc = "advance-commit"
                    /\ d.pc # "rollback"
  /\ d.pc # "advance-commit"

\* Once a hard commit is recorded, the catch block rolls back only for an
\* expired authorization.
LEMMA CaughtProceeds ==
  ASSUME NEW c \in Controller, NEW e \in BOOLEAN,
         e => c.pc \in {"authorize", "commit"} /\ engine.drain.expired
  PROVE  Proceeds(c, Caught(c, e))
<1>1. Leaves(c, Caught(c, e)) \/ RollsBack(c, Caught(c, e))
  BY CaughtLeaves
<1>2. Caught(c, e).pc = "rollback" => (c.attempt.phase = "hard-signal-commit-pending" => e)
  BY ReturnedLeaves DEF Caught, Leaves
<1> QED
  BY <1>1, <1>2 DEF Leaves, RollsBack, Carries, Proceeds, WithoutAttempt

LEMMA ReturnedProceeds ==
  ASSUME NEW c \in Controller
  PROVE  Proceeds(c, Returned(c)) /\ Proceeds(c, ReadyAgain(c))
BY ReturnedLeaves, ReadyAgainLeaves DEF Leaves, Proceeds, WithoutAttempt

LEMMA GoesProceeds ==
  ASSUME NEW c \in Controller, NEW l \in Label \ {"rollback", "advance-commit"}
  PROVE  Proceeds(c, At(c, l))
BY AtTyped DEF Carries, Proceeds

LEMMA GiveUpProceeds ==
  ASSUME NEW c \in Controller, c.attempt.phase # "hard-signal-commit-pending"
  PROVE  Proceeds(c, GiveUp(c))
BY GiveUpCarries DEF Carries, Proceeds

LEMMA CheckedProceeds ==
  ASSUME NEW p, NEW c \in Controller, NEW l \in Label \ {"rollback", "advance-commit"}
  PROVE  Proceeds(c, Checked(p, c, l))
BY GoesProceeds, GiveUpProceeds DEF Checked, Aborting

\* The steps a controller makes without the engine and the file.
LEMMA LocalProceeds ==
  ASSUME Inv, engine.alive, NEW p \in Controllers,
         \/ LoadSecret(p) \/ Drained(p) \/ WaitForExit(p) \/ SendHardSignal(p)
         \/ WaitAfterSignal(p) \/ Invalid(p) \/ AbortedHandshake(p) \/ RefusedRenewal(p)
         \/ Unreachable(p)
  PROVE  \E d : Become(p, d) /\ Proceeds(ctl[p], d) /\ attempt' = attempt /\ engine' = engine
<1> DEFINE c == ctl[p]
<1>1. c \in Controller
  BY DEF Inv, TypeOK
<1>2. /\ Proceeds(c, Returned(c)) /\ Proceeds(c, Caught(c, FALSE))
      /\ \A l \in Label \ {"rollback", "advance-commit"} :
           Proceeds(c, At(c, l)) /\ Proceeds(c, Checked(p, c, l))
  BY <1>1, ReturnedProceeds, CaughtProceeds, GoesProceeds, CheckedProceeds
<1>3. CASE LoadSecret(p)
  BY <1>2, <1>3 DEF LoadSecret, outside, Label, Requesting
<1>4. CASE Drained(p)
  <2> DEFINE s == [c EXCEPT !.state = "stopping"]
  <2>1. s \in Controller /\ s.attempt = c.attempt /\ s.pc = c.pc
    BY <1>1 DEF Controller, LifecycleState
  <2> HIDE DEF s
  <2>2. \A d : Proceeds(s, d) <=> Proceeds(c, d)
    BY <2>1 DEF Proceeds
  <2>3. /\ Proceeds(s, Returned(s))
        /\ \A l \in Label \ {"rollback", "advance-commit"} : Proceeds(s, At(s, l))
        /\ s.attempt.phase # "hard-signal-commit-pending" => Proceeds(s, GiveUp(s))
    BY <2>1, ReturnedProceeds, GoesProceeds, GiveUpProceeds
  <2>4. PICK d : /\ Become(p, d)
                 /\ \/ d = Caught(c, FALSE) \/ d = Returned(s)
                    \/ \E l \in {"accepted", "wait", "authorize"} : d = At(s, l)
                    \/ d = GiveUp(s) /\ s.attempt.phase # "hard-signal-commit-pending"
    BY <1>4 DEF Drained, Aborting, s
  <2>5. Proceeds(c, d)
    BY <1>2, <2>2, <2>3, <2>4 DEF Label, Requesting
  <2>6. attempt' = attempt /\ engine' = engine
    BY <1>4 DEF Drained, outside
  <2> QED
    BY <2>4, <2>5, <2>6
<1>5. CASE WaitForExit(p)
  BY <1>2, <1>5 DEF WaitForExit, outside, Label, Requesting
<1>6. CASE SendHardSignal(p)
  BY <1>2, <1>6 DEF SendHardSignal, Label, Requesting
<1>7. CASE WaitAfterSignal(p)
  BY <1>2, <1>7 DEF WaitAfterSignal, outside, Label, Requesting
<1>8. CASE Invalid(p) \/ AbortedHandshake(p) \/ RefusedRenewal(p) \/ Unreachable(p)
  BY <1>2, <1>8 DEF Invalid, AbortedHandshake, RefusedRenewal, Unreachable, outside
<1> QED
  BY <1>3, <1>4, <1>5, <1>6, <1>7, <1>8

\* What the answers to the hard requests tell of the drain.
LEMMA HardAnswers ==
  ASSUME TypeOK, NEW m \in Request, NEW r \in Replies(m)
  PROVE  /\ m.kind = "authorize" /\ r.answer = "prepared" => r.engine.drain.phase \in Authorized
         /\ m.kind \in {"authorize", "commit"} /\ r.answer = "authorization-expired" =>
              engine.drain.expired
<1>1. /\ Moved("prepared").drain.phase = "prepared" /\ Moved("committed").drain.phase = "committed"
  BY DEF Moved, With, TypeOK, Engine, Drain
<1>2. ASSUME m.kind = "authorize", r \in AuthorizeReplies
      PROVE  /\ r.answer = "prepared" => r.engine.drain.phase \in Authorized
             /\ r.answer = "authorization-expired" => engine.drain.expired
  <2> USE DEF Reply
  <2>1. CASE engine.drain.phase = "decision"
    BY <1>1, <1>2, <2>1 DEF AuthorizeReplies, Authorized
  <2>2. CASE engine.drain.phase \in {"prepared", "committed"}
    BY <1>2, <2>2 DEF AuthorizeReplies, Authorized
  <2>3. CASE engine.drain.phase \notin {"decision", "prepared", "committed"}
    BY <1>2, <2>3 DEF AuthorizeReplies
  <2> QED
    BY <2>1, <2>2, <2>3
<1>3. ASSUME m.kind = "commit", r \in CommitReplies
      PROVE  r.answer = "authorization-expired" => engine.drain.expired
  BY <1>3 DEF CommitReplies, Reply
<1>4. ASSUME m.kind \in {"authorize", "commit"}
      PROVE  \/ r = Reply("owner-refused", engine) \/ r = Reply("refused", engine)
             \/ m.kind = "authorize" /\ r \in AuthorizeReplies
             \/ m.kind = "commit" /\ r \in CommitReplies
  BY <1>4 DEF Replies
<1> QED
  BY <1>2, <1>3, <1>4 DEF Reply

\* The steps at which the engine answers.
LEMMA AnswerProceeds ==
  ASSUME Inv, NEW p \in Controllers,
         \/ BeginControlDrain(p) \/ RecordAccepted(p) \/ RecordTimeout(p)
         \/ PrepareHardSignal(p) \/ CommitHardSignal(p) \/ RecordOutcome(p) \/ RollbackDrain(p)
  PROVE  /\ attempt' = attempt /\ losses' = losses /\ late' = late
         /\ ctl[p].pc \in Requesting \cup {"outcome"} /\ engine.alive
         /\ \E r \in Replies(RequestOf(ctl[p])) : engine' = r.engine
         /\ \E d : Become(p, d) /\ Proceeds(ctl[p], d)
<1> DEFINE c == ctl[p]
<1>1. c \in Controller /\ TypeOK
  BY DEF Inv, TypeOK
<1>2. /\ Proceeds(c, Returned(c)) /\ Proceeds(c, Caught(c, FALSE))
      /\ \A l \in Label \ {"rollback", "advance-commit"} :
           Proceeds(c, At(c, l)) /\ Proceeds(c, Checked(p, c, l))
      /\ c.attempt.phase # "hard-signal-commit-pending" => Proceeds(c, GiveUp(c))
  BY <1>1, ReturnedProceeds, CaughtProceeds, GoesProceeds, CheckedProceeds, GiveUpProceeds
<1>3. ASSUME NEW l \in Requesting \cup {"outcome"}, Reaches(p, l)
      PROVE  /\ c.pc = l /\ engine.alive /\ RequestOf(c) \in Request /\ RequestOf(c).kind = c.pc
             /\ c.attempt.phase \in PhaseAt(l)
  <2>1. c.pc = l /\ engine.alive
    BY <1>3 DEF Reaches, Valid
  <2>2. RequestOf(c) \in Request /\ View(c, TheWorld)
    BY <2>1, RequestFits DEF Inv, LiveInv, WithoutAttempt, Requesting
  <2> QED
    BY <2>1, <2>2 DEF View, Stands, RequestOf
<1>4. CASE BeginControlDrain(p)
  <2>1. c.pc = "begin" /\ engine.alive /\ UNCHANGED outside
    BY <1>3, <1>4 DEF BeginControlDrain, Requesting
  <2>2. PICK r \in Replies(RequestOf(c)) :
          /\ engine' = r.engine
          /\ \/ Become(p, Caught(c, FALSE)) \/ Become(p, At(c, "replace"))
             \/ Become(p, At(c, "denied"))
             \/ Become(p, [At(c, "mark") EXCEPT !.drain = r.engine.drain.number])
    BY <1>4 DEF BeginControlDrain
  <2>3. Proceeds(c, [At(c, "mark") EXCEPT !.drain = r.engine.drain.number])
    <3>1. At(c, "mark") \in Controller /\ At(c, "mark").attempt = c.attempt
          /\ At(c, "mark").pc = "mark"
      BY <1>1, AtTyped DEF Carries, Label, Requesting
    <3> QED
      BY <3>1 DEF Proceeds, Controller
  <2> QED
    BY <1>2, <2>1, <2>2, <2>3 DEF outside, Label, Requesting
<1>5. CASE RecordAccepted(p)
  <2>1. c.pc = "accepted" /\ engine.alive /\ UNCHANGED outside
        /\ c.attempt.phase # "hard-signal-commit-pending"
    BY <1>3, <1>5 DEF RecordAccepted, Requesting, PhaseAt, Beginning
  <2>2. PICK r \in Replies(RequestOf(c)) :
          /\ engine' = r.engine
          /\ \/ Become(p, Caught(c, FALSE)) \/ Become(p, At(c, "advance-accepted"))
             \/ Become(p, GiveUp(c))
    BY <1>5 DEF RecordAccepted
  <2> QED
    BY <1>2, <2>1, <2>2 DEF outside, Label, Requesting
<1>6. CASE RecordTimeout(p)
  <2>1. c.pc = "timeout" /\ engine.alive /\ UNCHANGED outside
        /\ c.attempt.phase # "hard-signal-commit-pending"
    BY <1>3, <1>6 DEF RecordTimeout, Requesting, PhaseAt, Beginning
  <2>2. PICK r \in Replies(RequestOf(c)) :
          /\ engine' = r.engine
          /\ \/ Become(p, Caught(c, FALSE)) \/ Become(p, At(c, "advance-hard"))
             \/ Become(p, GiveUp(c))
    BY <1>6 DEF RecordTimeout
  <2> QED
    BY <1>2, <2>1, <2>2 DEF outside, Label, Requesting
<1>7. CASE PrepareHardSignal(p)
  <2>1. c.pc = "authorize" /\ engine.alive /\ UNCHANGED outside
        /\ RequestOf(c) \in Request /\ RequestOf(c).kind = "authorize"
    BY <1>3, <1>7 DEF PrepareHardSignal, Requesting
  <2>2. PICK r \in Replies(RequestOf(c)) :
          /\ engine' = r.engine
          /\ \/ /\ r.answer = "prepared" /\ c.attempt.phase = "hard-signal-pending"
                /\ Become(p, Checked(p, c, "advance-commit"))
             \/ Become(p, [At(c, "commit") EXCEPT !.hard = TRUE])
             \/ Become(p, Caught(c, r.answer = "authorization-expired"))
    BY <1>7 DEF PrepareHardSignal
  <2>3. /\ r.answer = "prepared" => r.engine.drain.phase \in Authorized
        /\ r.answer = "authorization-expired" => engine.drain.expired
    BY <1>1, <2>1, HardAnswers
  <2>4. CASE r.answer = "prepared" /\ c.attempt.phase = "hard-signal-pending"
             /\ Become(p, Checked(p, c, "advance-commit"))
    <3>1. Carries(c, Checked(p, c, "advance-commit"))
      BY <1>1, CheckedMoves DEF Label
    <3>2. Proceeds(c, Checked(p, c, "advance-commit"))
      BY <2>1, <2>2, <2>3, <2>4, <3>1 DEF Proceeds, Carries
    <3> QED
      BY <2>1, <2>2, <2>4, <3>2 DEF outside, Requesting
  <2>5. Proceeds(c, [At(c, "commit") EXCEPT !.hard = TRUE])
    BY <1>1 DEF Proceeds, At, Controller
  <2>6. Proceeds(c, Caught(c, r.answer = "authorization-expired"))
    BY <1>1, <2>1, <2>3, CaughtProceeds
  <2> QED
    BY <2>1, <2>2, <2>4, <2>5, <2>6 DEF outside, Requesting
<1>8. CASE CommitHardSignal(p)
  <2> DEFINE s == [c EXCEPT !.hard = FALSE]
  <2>1. c.pc = "commit" /\ engine.alive /\ UNCHANGED outside
        /\ RequestOf(c) \in Request /\ RequestOf(c).kind = "commit"
    BY <1>3, <1>8 DEF CommitHardSignal, Requesting
  <2>2. PICK r \in Replies(RequestOf(c)) :
          /\ engine' = r.engine
          /\ \/ Become(p, At(c, "signal"))
             \/ r.answer = "authorization-expired" /\ Become(p, Caught(s, TRUE))
             \/ Become(p, Caught(c, FALSE))
    BY <1>8 DEF CommitHardSignal
  <2>3. r.answer = "authorization-expired" => engine.drain.expired
    BY <1>1, <2>1, HardAnswers
  <2>4. s \in Controller /\ s.attempt = c.attempt /\ s.pc = c.pc
    BY <1>1 DEF Controller
  <2> HIDE DEF s
  <2>5. r.answer = "authorization-expired" => Proceeds(s, Caught(s, TRUE))
    BY <2>1, <2>3, <2>4, CaughtProceeds
  <2>6. \A d : Proceeds(s, d) => Proceeds(c, d)
    BY <2>4 DEF Proceeds
  <2> QED
    BY <1>2, <2>1, <2>2, <2>5, <2>6 DEF outside, Label, Requesting
<1>9. CASE RecordOutcome(p)
  <2>1. c.pc = "outcome" /\ engine.alive /\ UNCHANGED outside
    BY <1>3, <1>9 DEF RecordOutcome, Requesting
  <2>2. PICK r \in Replies(RequestOf(c)) :
          /\ engine' = r.engine
          /\ \/ Become(p, Caught(c, FALSE)) \/ Become(p, At(c, "exit"))
    BY <1>9 DEF RecordOutcome
  <2> QED
    BY <1>2, <2>1, <2>2 DEF outside, Label, Requesting
<1>10. CASE RollbackDrain(p)
  <2>1. c.pc = "rollback" /\ engine.alive /\ UNCHANGED outside
    BY <1>3, <1>10 DEF RollbackDrain, Requesting
  <2>2. PICK r \in Replies(RequestOf(c)) :
          /\ engine' = r.engine
          /\ \/ Become(p, At(c, "clear")) \/ Become(p, Returned(c))
    BY <1>10 DEF RollbackDrain
  <2> QED
    BY <1>2, <2>1, <2>2 DEF outside, Label, Requesting
<1> QED
  BY <1>4, <1>5, <1>6, <1>7, <1>8, <1>9, <1>10

\* A reply that is lost.
LEMMA LostProceeds ==
  ASSUME Inv, NEW p \in Controllers, LoseReply(p)
  PROVE  \E d : Become(p, d) /\ Proceeds(ctl[p], d) /\ attempt' = attempt /\ engine' = engine
                /\ losses' # 0
<1> DEFINE c == ctl[p]
<1>1. c \in Controller /\ losses \in Nat
  BY DEF Inv, TypeOK
<1>2. Proceeds(c, Returned(c)) /\ Proceeds(c, Caught(c, FALSE))
  BY <1>1, ReturnedProceeds, CaughtProceeds
<1>3. c.pc \in Requesting \cup {"outcome"}
  BY DEF LoseReply, Reaches
<1>4. Proceeds(c, [c EXCEPT !.tries = @ + 1])
  BY <1>1, <1>3 DEF Proceeds, Controller, Requesting
<1>5. attempt' = attempt /\ engine' = engine /\ losses' # 0
  BY <1>1 DEF LoseReply
<1>6. \/ Become(p, [c EXCEPT !.tries = @ + 1]) \/ Become(p, Returned(c))
      \/ Become(p, Caught(c, FALSE))
  BY DEF LoseReply
<1> QED
  BY <1>2, <1>4, <1>5, <1>6

\* The steps that may change the durable attempt.
LEMMA FileMoves ==
  ASSUME Inv, engine.alive, NEW p \in Controllers,
         ctl[p].pc \notin WithoutAttempt => ctl[p].attempt = attempt,
         \/ PrepareControlAttempt(p) \/ ReplaceExpiredBegin(p) \/ Denied(p)
         \/ MarkDraining(p) \/ AdvanceAccepted(p) \/ AdvanceHard(p) \/ AdvanceCommit(p)
         \/ RetireObservedExit(p) \/ ClearControlAttempt(p)
  PROVE  \E d : Become(p, d) /\ Files(ctl[p], d) /\ engine' = engine
<1> DEFINE c == ctl[p]
<1>1. c \in Controller
  BY DEF Inv, TypeOK
<1>2. /\ Returned(c).pc \in {"ready", "gone"} /\ ReadyAgain(c).pc \in {"ready", "gone"}
      /\ NoContext \in Controller
  BY <1>1, ReturnedLeaves, ReadyAgainLeaves, ContextTyped DEF Leaves
<1>3. ASSUME NEW d, d.pc \in WithoutAttempt, attempt' \in {None, attempt} PROVE Files(c, d)
  BY <1>3 DEF Files, HardCommit, WithoutAttempt
<1>4. ASSUME NEW d, NEW a, d.attempt = a, d.pc \in {"load", "drained"},
             attempt' = a, a = attempt \/ a.phase = "begin-pending"
      PROVE  Files(c, d)
  BY <1>4 DEF Files, HardCommit
<1>5. ASSUME NEW a, NEW b
      PROVE  /\ Resume(c, a).attempt = a /\ Resume(c, a).pc \in {"load", "drained"}
             /\ [Resume(c, a) EXCEPT !.again = b].attempt = a
             /\ [Resume(c, a) EXCEPT !.again = b].pc \in {"load", "drained"}
  BY <1>1 DEF Resume, Controller
<1>6. NewAttempt(p).phase = "begin-pending"
  BY DEF NewAttempt
<1>7. CASE PrepareControlAttempt(p)
  <2>1. engine' = engine
    BY <1>7 DEF PrepareControlAttempt
  <2>2. CASE Become(p, Returned(c)) /\ attempt' = attempt
    BY <1>2, <1>3, <2>1, <2>2 DEF WithoutAttempt
  <2>3. CASE Become(p, Resume(c, attempt)) /\ attempt' = attempt
    BY <1>4, <1>5, <2>1, <2>3
  <2>4. CASE Become(p, Resume(c, attempt')) /\ attempt' = NewAttempt(p)
    BY <1>4, <1>5, <1>6, <2>1, <2>4
  <2> QED
    BY <1>7, <2>2, <2>3, <2>4 DEF PrepareControlAttempt
<1>8. CASE ReplaceExpiredBegin(p)
  <2>1. engine' = engine /\ c.pc = "replace" /\ c.attempt = attempt
    BY <1>8 DEF ReplaceExpiredBegin, Section, WithoutAttempt
  <2>2. CASE record # c.generation /\ Become(p, Caught(c, FALSE)) /\ attempt' = attempt
    <3>1. record = engine.owner /\ View(c, TheWorld)
      BY <2>1 DEF Inv, LiveInv, WithoutAttempt
    <3>2. c.attempt.phase = "begin-pending"
      BY <2>1, <3>1 DEF View, Stands, PhaseAt, Beginning
    <3>3. Leaves(c, Caught(c, FALSE)) \/ RollsBack(c, Caught(c, FALSE))
      BY <1>1, CaughtLeaves
    <3> QED
      BY <2>1, <2>2, <3>2, <3>3
         DEF Files, HardCommit, Leaves, RollsBack, Carries, WithoutAttempt
  <2>3. CASE attempt' = NewAttempt(p) /\ Become(p, [Resume(c, attempt') EXCEPT !.again = TRUE])
    BY <1>4, <1>5, <1>6, <2>1, <2>3
  <2> QED
    BY <1>8, <2>1, <2>2, <2>3 DEF ReplaceExpiredBegin
<1>9. CASE Denied(p)
  <2>1. c.attempt = attempt
    BY <1>9 DEF Denied, Section, WithoutAttempt
  <2>2. engine' = engine /\ attempt' = None /\ Become(p, [NoContext EXCEPT !.pc = "gone"])
    BY <1>9, <2>1 DEF Denied
  <2> QED
    BY <1>2, <1>3, <2>2 DEF WithoutAttempt, Controller
<1>10. ASSUME NEW from, NEW phase, NEW to, Advances(from, phase, to), Advance(p, from, phase, to)
       PROVE  \E d : Become(p, d) /\ Files(c, d) /\ engine' = engine
  <2> DEFINE e == [c EXCEPT !.attempt = attempt',
                            !.hard = (phase = "hard-signal-commit-pending")]
  <2>1. c.pc = from /\ c.attempt = attempt /\ attempt # None
    BY <1>10 DEF Advance, Advances, Section, WithoutAttempt, Inv, CtlShape
  <2>2. /\ attempt' = [attempt EXCEPT !.phase = phase, !.drain = c.drain]
        /\ Become(p, Checked(p, e, to)) /\ engine' = engine
    BY <1>10, <2>1 DEF Advance
  <2>3. attempt \in ControlAttempt /\ attempt'.phase = phase /\ attempt' \in ControlAttempt
    BY <1>1, <1>10, <2>1, <2>2 DEF Advances, Inv, TypeOK, ControlAttempt, AttemptPhase, Controller
  <2>4. e \in Controller /\ e.attempt = attempt'
    BY <1>1, <2>3 DEF Controller
  <2> HIDE DEF e
  <2>5. Checked(p, e, to).attempt = attempt' /\ Checked(p, e, to).pc \in {to, "rollback"}
    BY <1>10, <2>4, CheckedMoves DEF Advances, Label, Requesting, Carries
  <2>6. phase = "hard-signal-commit-pending" => Checked(p, e, to).pc = to
    BY <1>10, <2>3, <2>4, AtTyped DEF Checked, Aborting, Advances, Label, Requesting
  <2>7. Files(c, Checked(p, e, to))
    BY <1>10, <2>1, <2>3, <2>5, <2>6 DEF Files, HardCommit, Advances
  <2> QED
    BY <2>2, <2>7
<1>11. CASE MarkDraining(p) \/ AdvanceAccepted(p) \/ AdvanceHard(p) \/ AdvanceCommit(p)
  BY <1>10, <1>11 DEF MarkDraining, AdvanceAccepted, AdvanceHard, AdvanceCommit, Advances
<1>12. CASE RetireObservedExit(p)
  BY <1>2, <1>3, <1>12 DEF RetireObservedExit, WithoutAttempt
<1>13. CASE ClearControlAttempt(p)
  <2>1. c.attempt = attempt
    BY <1>13 DEF ClearControlAttempt, Section, WithoutAttempt
  <2>2. engine' = engine /\ attempt' = None
        /\ (Become(p, Returned(c)) \/ Become(p, ReadyAgain(c)))
    BY <1>13, <2>1 DEF ClearControlAttempt
  <2> QED
    BY <1>2, <1>3, <2>2 DEF WithoutAttempt
<1> QED
  BY <1>7, <1>8, <1>9, <1>11, <1>12, <1>13

\* A step of a controller, from c to d.
Goes(p, d) ==
  LET c == ctl[p] IN
  /\ Become(p, d)
  /\ d.pc \notin WithoutAttempt => d.attempt = attempt'
  /\ HardCommit' => attempt' = attempt \/ c.pc = "advance-commit"
  /\ HardCommit' /\ d.pc = "rollback" =>
       c.pc = "rollback" \/ (c.pc \in {"authorize", "commit"} /\ engine.drain.expired)
  /\ d.pc = "advance-commit" => c.pc = "authorize" /\ engine'.drain.phase \in Authorized
  /\ \/ engine' = engine
     \/ /\ c.pc \in Requesting \cup {"outcome"} /\ attempt' = attempt
        /\ \E r \in Replies(RequestOf(c)) : engine' = r.engine

LEMMA StepGoes ==
  ASSUME Inv, engine.alive, NEW p \in Controllers, Step(p),
         ctl[p].pc \notin WithoutAttempt => ctl[p].attempt = attempt
  PROVE  \E d : Goes(p, d)
<1> DEFINE c == ctl[p]
<1>1. ASSUME NEW d, Become(p, d), Proceeds(c, d), attempt' = attempt,
             c.pc \notin WithoutAttempt,
             \/ engine' = engine
             \/ /\ c.pc \in Requesting \cup {"outcome"}
                /\ \E r \in Replies(RequestOf(c)) : engine' = r.engine
      PROVE  Goes(p, d)
  <2>1. c.attempt = attempt
    BY <1>1
  <2>2. HardCommit' => c.attempt.phase = "hard-signal-commit-pending"
    BY <1>1, <2>1 DEF HardCommit
  <2>3. /\ d.pc \notin WithoutAttempt => d.attempt = attempt'
        /\ HardCommit' /\ d.pc = "rollback" =>
             c.pc = "rollback" \/ (c.pc \in {"authorize", "commit"} /\ engine.drain.expired)
        /\ d.pc = "advance-commit" => c.pc = "authorize" /\ engine'.drain.phase \in Authorized
    BY <1>1, <2>1, <2>2 DEF Proceeds
  <2>4. /\ Become(p, d)
        /\ HardCommit' => attempt' = attempt \/ c.pc = "advance-commit"
        /\ \/ engine' = engine
           \/ /\ c.pc \in Requesting \cup {"outcome"} /\ attempt' = attempt
              /\ \E r \in Replies(RequestOf(c)) : engine' = r.engine
    BY <1>1
  <2> QED
    BY <2>3, <2>4 DEF Goes
<1>2. ASSUME NEW d, Become(p, d), Files(c, d), engine' = engine
      PROVE  Goes(p, d)
  BY <1>2 DEF Goes, Files
<1>3. CASE \/ LoadSecret(p) \/ Drained(p) \/ WaitForExit(p) \/ SendHardSignal(p)
           \/ WaitAfterSignal(p) \/ Invalid(p) \/ AbortedHandshake(p) \/ RefusedRenewal(p)
           \/ Unreachable(p)
  <2>a. \/ c.pc \in {"load", "drained", "wait", "signal", "exit"}
        \/ c.pc \in Requesting \cup Held
    <3>1. LoadSecret(p) => c.pc = "load"
      BY DEF LoadSecret
    <3>2. Drained(p) => c.pc = "drained"
      BY DEF Drained
    <3>3. WaitForExit(p) => c.pc = "wait"
      BY DEF WaitForExit
    <3>4. SendHardSignal(p) => c.pc = "signal"
      BY DEF SendHardSignal
    <3>5. WaitAfterSignal(p) => c.pc = "exit"
      BY DEF WaitAfterSignal
    <3>6. Invalid(p) \/ AbortedHandshake(p) \/ RefusedRenewal(p) => c.pc \in Requesting
      BY DEF Invalid, AbortedHandshake, RefusedRenewal
    <3>7. Unreachable(p) => c.pc \in Held
      BY DEF Unreachable
    <3> QED
      BY <1>3, <3>1, <3>2, <3>3, <3>4, <3>5, <3>6, <3>7
  <2>1. c.pc \notin WithoutAttempt
    BY <2>a DEF WithoutAttempt, Requesting, Held
  <2>2. PICK d : Become(p, d) /\ Proceeds(c, d) /\ attempt' = attempt /\ engine' = engine
    BY <1>3, LocalProceeds
  <2> QED
    BY <1>1, <2>1, <2>2
<1>4. CASE \/ BeginControlDrain(p) \/ RecordAccepted(p) \/ RecordTimeout(p)
           \/ PrepareHardSignal(p) \/ CommitHardSignal(p) \/ RecordOutcome(p) \/ RollbackDrain(p)
  <2>1. /\ attempt' = attempt /\ c.pc \in Requesting \cup {"outcome"}
        /\ \E r \in Replies(RequestOf(c)) : engine' = r.engine
        /\ \E d : Become(p, d) /\ Proceeds(c, d)
    BY <1>4, AnswerProceeds
  <2> QED
    BY <1>1, <2>1 DEF WithoutAttempt, Requesting
<1>5. CASE LoseReply(p)
  <2>1. c.pc \notin WithoutAttempt
    BY <1>5 DEF LoseReply, Reaches, WithoutAttempt, Requesting
  <2>2. PICK d : Become(p, d) /\ Proceeds(c, d) /\ attempt' = attempt /\ engine' = engine
    BY <1>5, LostProceeds
  <2> QED
    BY <1>1, <2>1, <2>2
<1>6. CASE \/ PrepareControlAttempt(p) \/ ReplaceExpiredBegin(p) \/ Denied(p)
           \/ MarkDraining(p) \/ AdvanceAccepted(p) \/ AdvanceHard(p) \/ AdvanceCommit(p)
           \/ RetireObservedExit(p) \/ ClearControlAttempt(p)
  <2>1. PICK d : Become(p, d) /\ Files(c, d) /\ engine' = engine
    BY <1>6, FileMoves
  <2> QED
    BY <1>2, <2>1
<1> QED
  BY <1>3, <1>4, <1>5, <1>6 DEF Step

\* Only an attached controller makes a step, and a reply is of a living engine.
LEMMA StepActs ==
  ASSUME TypeOK, NEW p \in Controllers, Step(p)
  PROVE  /\ Attached(p) /\ \A q \in Controllers \ {p} : ctl'[q] = ctl[q]
         /\ engine'.alive => engine.alive
         /\ losses' \in Nat /\ (losses' = 0 => losses = 0 /\ late' = late)
<1> USE DEF Attached, Become, TypeOK, outside
<1>1. CASE \/ PrepareControlAttempt(p) \/ ReplaceExpiredBegin(p) \/ Denied(p)
           \/ RetireObservedExit(p) \/ ClearControlAttempt(p)
  BY <1>1 DEF PrepareControlAttempt, ReplaceExpiredBegin, Denied, RetireObservedExit,
     ClearControlAttempt, Section
<1>2. CASE MarkDraining(p) \/ AdvanceAccepted(p) \/ AdvanceHard(p) \/ AdvanceCommit(p)
  BY <1>2 DEF MarkDraining, AdvanceAccepted, AdvanceHard, AdvanceCommit, Advance, Section
<1>3. CASE LoadSecret(p) \/ WaitForExit(p) \/ WaitAfterSignal(p)
  BY <1>3 DEF LoadSecret, WaitForExit, WaitAfterSignal
<1>s. CASE SendHardSignal(p)
  BY <1>s DEF SendHardSignal
<1>d. CASE Drained(p)
  <2>1. ctl[p].pc = "drained" /\ UNCHANGED <<outside, lock, engine>>
    BY <1>d DEF Drained
  <2>2. \A q \in Controllers \ {p} : ctl'[q] = ctl[q]
    BY <1>d DEF Drained
  <2> QED
    BY <2>1, <2>2
<1>4. CASE Invalid(p) \/ AbortedHandshake(p) \/ RefusedRenewal(p) \/ Unreachable(p)
  BY <1>4 DEF Invalid, AbortedHandshake, RefusedRenewal, Unreachable, Requesting, Held
<1>5. CASE \/ BeginControlDrain(p) \/ RecordAccepted(p) \/ RecordTimeout(p)
           \/ PrepareHardSignal(p)
  BY <1>5 DEF BeginControlDrain, RecordAccepted, RecordTimeout, PrepareHardSignal, Reaches, Valid
<1>6. CASE CommitHardSignal(p) \/ RecordOutcome(p) \/ RollbackDrain(p)
  BY <1>6 DEF CommitHardSignal, RecordOutcome, RollbackDrain, Reaches, Valid
<1>7. CASE LoseReply(p)
  <2>1. ctl[p].pc \in Requesting \cup {"outcome"} /\ engine' = engine /\ losses' = losses + 1
    BY <1>7 DEF LoseReply, Reaches
  <2>2. \A q \in Controllers \ {p} : ctl'[q] = ctl[q]
    BY <1>7 DEF LoseReply
  <2> QED
    BY <2>1, <2>2 DEF Requesting
<1> QED
  BY <1>1, <1>2, <1>3, <1>s, <1>d, <1>4, <1>5, <1>6, <1>7 DEF Step

\* Only a rollback rolls a drain back; nothing else than a begin takes back an
\* authorization or its expiry.
LEMMA ReplyMoves ==
  ASSUME TypeOK, NEW m \in Request, NEW r \in Replies(m)
  PROVE  /\ Draining /\ r.engine.drain.phase = "rolled-back" => m.kind = "rollback"
         /\ m.kind # "begin" =>
              /\ r.engine.drain.expired = engine.drain.expired
              /\ engine.drain.phase \in Authorized =>
                   r.engine.drain.phase \in Authorized \cup {"rolled-back"}
<1> USE DEF Reply
<1>1. /\ engine.drain \in Drain /\ engine \in Engine
  BY DEF TypeOK, Engine
<1>2. /\ \A ph : Moved(ph).drain.phase = ph /\ Moved(ph).drain.expired = engine.drain.expired
      /\ RolledBack.drain.phase = "rolled-back" /\ RolledBack.drain.expired = engine.drain.expired
  BY <1>1 DEF Moved, With, RolledBack, Engine, Drain
<1>3. CASE r = Reply("owner-refused", engine) \/ r = Reply("refused", engine)
           \/ r = Reply("recorded", engine)
  BY <1>3 DEF Draining, Authorized
<1>4. CASE m.kind = "begin" /\ r \in BeginReplies(m)
  <2>1. r.engine = engine \/ r.engine.drain.phase = "draining"
    BY <1>1, <1>4 DEF BeginReplies, With, Engine
  <2> QED
    BY <1>4, <2>1 DEF Draining
<1>5. CASE m.kind \in {"accepted", "timeout"} /\ r \in GracefulReplies(m)
  <2>1. \/ r.engine = engine
        \/ /\ engine.drain.phase \in {"draining", "accepted"}
           /\ \E ph \in {"accepted", "decision"} : r.engine = Moved(ph)
    BY <1>5 DEF GracefulReplies
  <2> QED
    BY <1>2, <1>5, <2>1 DEF Draining, Authorized
<1>6. CASE m.kind = "authorize" /\ r \in AuthorizeReplies
  <2>1. \/ r.engine = engine
        \/ engine.drain.phase = "decision" /\ r.engine = Moved("prepared")
    BY <1>6 DEF AuthorizeReplies
  <2> QED
    BY <1>2, <1>6, <2>1 DEF Draining, Authorized
<1>7. CASE m.kind = "commit" /\ r \in CommitReplies
  <2>1. r.engine = engine \/ r.engine = Moved("committed")
    BY <1>7 DEF CommitReplies
  <2> QED
    BY <1>2, <1>7, <2>1 DEF Draining, Authorized
<1>8. CASE m.kind = "rollback" /\ r \in RollbackReplies
  BY <1>2, <1>8 DEF RollbackReplies, Authorized
<1> QED
  BY <1>3, <1>4, <1>5, <1>6, <1>7, <1>8 DEF Replies, Request, Requesting

\* What the steps outside of a stop leave as it is.
Quiet ==
  /\ attempt' = attempt /\ engine'.drain = engine.drain /\ engine'.alive = engine.alive
  /\ losses' \in Nat /\ (losses' = 0 => losses = 0 /\ late' = late)
  /\ \A q \in Controllers : \/ ctl'[q].pc \in WithoutAttempt
                            \/ ctl'[q].pc = ctl[q].pc /\ ctl'[q].attempt = ctl[q].attempt

LEMMA OthersQuiet ==
  ASSUME TypeOK,
         \/ \E p \in Controllers : Adopt(p) \/ BeginStop(p) \/ Abort(p) \/ Crash(p)
                                   \/ RenewalFails(p) \/ RegistrationExpires(p)
         \/ OwnerLeaseExpires \/ UNCHANGED vars
  PROVE  Quiet
<1> USE DEF TypeOK, outside
<1>1. \A c \in Controller : Returned(c).pc \in WithoutAttempt
  BY ReturnedLeaves DEF Leaves, WithoutAttempt
<1>2. ASSUME NEW p \in Controllers, Adopt(p) PROVE Quiet
  <2> DEFINE g == IF engine.leased THEN record ELSE record + 1
  <2>0. g \in Nat
    OBVIOUS
  <2>1. /\ engine' = [engine EXCEPT !.owner = g, !.leased = TRUE]
        /\ Become(p, Returned([ctl[p] EXCEPT !.generation = g]))
    BY <1>2 DEF Adopt
  <2> HIDE DEF g
  <2>2. [ctl[p] EXCEPT !.generation = g] \in Controller
    BY <2>0 DEF Controller
  <2>3. engine'.drain = engine.drain /\ engine'.alive = engine.alive
    BY <2>1 DEF Engine
  <2>4. \A q \in Controllers : ctl'[q].pc \in WithoutAttempt \/ ctl'[q] = ctl[q]
    BY <1>1, <2>1, <2>2 DEF Become
  <2>5. attempt' = attempt /\ losses' = losses /\ late' = late
    BY <1>2 DEF Adopt
  <2> QED
    BY <2>3, <2>4, <2>5 DEF Quiet
<1>3. ASSUME NEW p \in Controllers, BeginStop(p) PROVE Quiet
  <2>1. PICK op \in Operation :
          Become(p, [ctl[p] EXCEPT !.pc = "prepare", !.state = "draining", !.operation = op,
                                   !.epoch = engine.epoch])
    BY <1>3 DEF BeginStop
  <2>2. PICK d : d = [ctl[p] EXCEPT !.pc = "prepare", !.state = "draining", !.operation = op,
                                    !.epoch = engine.epoch]
    OBVIOUS
  <2>3. d.pc = "prepare"
    BY <2>2 DEF Controller
  <2>4. \A q \in Controllers : ctl'[q] = IF q = p THEN d ELSE ctl[q]
    BY <2>1, <2>2 DEF Become
  <2>5. \A q \in Controllers : ctl'[q].pc \in WithoutAttempt \/ ctl'[q] = ctl[q]
    BY <2>3, <2>4 DEF WithoutAttempt
  <2>6. attempt' = attempt /\ engine' = engine /\ losses' = losses /\ late' = late
    BY <1>3 DEF BeginStop
  <2> QED
    BY <2>5, <2>6 DEF Quiet
<1>4. ASSUME NEW p \in Controllers, Abort(p) \/ RegistrationExpires(p) PROVE Quiet
  BY <1>4 DEF Abort, RegistrationExpires, Quiet
<1>5. ASSUME NEW p \in Controllers, Crash(p) PROVE Quiet
  <2>1. \A q \in Controllers : ctl'[q].pc \in WithoutAttempt \/ ctl'[q] = ctl[q]
    BY <1>5 DEF Crash, Become, WithoutAttempt, NoContext
  <2> QED
    BY <1>5, <2>1 DEF Crash, Quiet
<1>6. ASSUME NEW p \in Controllers, RenewalFails(p) PROVE Quiet
  <2> DEFINE lost == [ctl[p] EXCEPT !.state = "lost"]
  <2>1. lost \in Controller /\ lost.pc = ctl[p].pc /\ lost.attempt = ctl[p].attempt
    BY DEF Controller, LifecycleState
  <2>2. Become(p, IF ctl[p].pc = "ready" THEN Returned(lost) ELSE lost)
    BY <1>6 DEF RenewalFails
  <2> HIDE DEF lost
  <2>3. \A q \in Controllers : \/ ctl'[q].pc \in WithoutAttempt
                               \/ ctl'[q].pc = ctl[q].pc /\ ctl'[q].attempt = ctl[q].attempt
    BY <1>1, <2>1, <2>2 DEF Become
  <2> QED
    BY <1>6, <2>3 DEF RenewalFails, Quiet
<1>7. CASE OwnerLeaseExpires
  <2>1. engine'.drain = engine.drain /\ engine'.alive = engine.alive
    BY <1>7 DEF OwnerLeaseExpires, Engine
  <2> QED
    BY <1>7, <2>1 DEF OwnerLeaseExpires, Quiet
<1>8. CASE UNCHANGED vars
  BY <1>8 DEF vars, Quiet
<1> QED
  BY <1>2, <1>3, <1>4, <1>5, <1>6, <1>7, <1>8

\* One controller at a time.
LEMMA AloneKept ==
  ASSUME ~Concurrent, TypeOK, Alone, [Next]_vars
  PROVE  Alone'
<1> USE DEF TypeOK, outside
<1>1. ASSUME \A q \in Controllers : Attached(q)' => Attached(q) PROVE Alone'
  BY <1>1 DEF Alone
<1>2. ASSUME NEW p \in Controllers, Attached(p),
             \A q \in Controllers \ {p} : ctl'[q] = ctl[q]
      PROVE  Alone'
  BY <1>1, <1>2 DEF Attached
<1>3. ASSUME NEW p \in Controllers, Step(p) PROVE Alone'
  BY <1>2, <1>3, StepActs
<1>4. ASSUME NEW p \in Controllers, Adopt(p) PROVE Alone'
  <2>1. \A q \in Controllers : ~Attached(q)
    BY <1>4 DEF Adopt
  <2>2. \A q \in Controllers \ {p} : ctl'[q] = ctl[q]
    BY <1>4 DEF Adopt, Become
  <2> QED
    BY <2>1, <2>2 DEF Alone, Attached
<1>5. ASSUME NEW p \in Controllers, BeginStop(p) \/ Crash(p) \/ RenewalFails(p) PROVE Alone'
  <2>1. Attached(p)
    BY <1>5 DEF BeginStop, Crash, RenewalFails, Attached
  <2>2. \A q \in Controllers \ {p} : ctl'[q] = ctl[q]
    BY <1>5 DEF BeginStop, Crash, RenewalFails, Become
  <2> QED
    BY <1>2, <2>1, <2>2
<1>6. CASE ctl' = ctl
  BY <1>1, <1>6 DEF Attached
<1>7. ASSUME NEW p \in Controllers, Abort(p) \/ RetireDeadAuthority(p) \/ RegistrationExpires(p)
      PROVE  ctl' = ctl
  BY <1>7 DEF Abort, RetireDeadAuthority, RegistrationExpires
<1>8. CASE OwnerLeaseExpires \/ RequesterExpires \/ AuthorizationExpires \/ LateRequest
           \/ EngineExits \/ UNCHANGED vars
  <2>1. ctl' = ctl
    BY <1>8 DEF OwnerLeaseExpires, RequesterExpires, AuthorizationExpires, LateRequest,
       EngineExits, vars
  <2> QED
    BY <1>6, <2>1
<1> QED
  BY <1>3, <1>4, <1>5, <1>6, <1>7, <1>8 DEF Next

\* What the steps outside of a stop keep.
LEMMA QuietKeeps ==
  ASSUME InTurn, Quiet
  PROVE  OwnAttempt' /\ NoneLate' /\ Decided' /\ Undoing'
<1>1. /\ HardCommit' <=> HardCommit
      /\ Draining' <=> Draining
      /\ engine'.alive = engine.alive /\ engine'.drain = engine.drain
      /\ losses' = 0 => losses = 0 /\ late' = late
  BY DEF Quiet, HardCommit, Draining
<1>2. ASSUME NEW q \in Controllers
      PROVE  /\ ctl'[q].pc \notin WithoutAttempt =>
                  ctl'[q].pc = ctl[q].pc /\ ctl'[q].attempt = ctl[q].attempt
             /\ ctl'[q].pc \in {"rollback", "advance-commit"} => ctl'[q].pc = ctl[q].pc
  BY DEF Quiet, WithoutAttempt
<1>3. attempt' = attempt
  BY DEF Quiet
<1>4. OwnAttempt'
  BY <1>1, <1>2, <1>3 DEF InTurn, OwnAttempt
<1>5. NoneLate'
  BY <1>1 DEF InTurn, NoneLate
<1>6. Decided'
  BY <1>1, <1>2 DEF InTurn, Decided
<1>7. Undoing'
  BY <1>1, <1>2 DEF InTurn, Undoing
<1> QED
  BY <1>4, <1>5, <1>6, <1>7

\* What a step of the only attached controller keeps.
LEMMA StepKeeps ==
  ASSUME Inv, InTurn, NEW p \in Controllers, Step(p)
  PROVE  OwnAttempt' /\ NoneLate' /\ Decided' /\ Undoing'
<1> DEFINE c == ctl[p]
<1>1. /\ Attached(p) /\ \A q \in Controllers \ {p} : ctl'[q] = ctl[q]
      /\ engine'.alive => engine.alive
      /\ losses' = 0 => losses = 0 /\ late' = late
      /\ TypeOK
  BY StepActs DEF Inv
<1>2. \A q \in Controllers \ {p} : ctl'[q].pc \in WithoutAttempt
  BY <1>1 DEF InTurn, Alone, Attached, WithoutAttempt
<1>3. NoneLate'
  BY <1>1 DEF InTurn, NoneLate
<1>4. CASE ~engine'.alive
  BY <1>3, <1>4 DEF OwnAttempt, Decided, Undoing
<1>5. CASE engine'.alive
  <2>1. engine.alive /\ (c.pc \notin WithoutAttempt => c.attempt = attempt)
    BY <1>1, <1>5 DEF InTurn, OwnAttempt
  <2>2. PICK d : Goes(p, d)
    BY <2>1, StepGoes
  <2>3. ctl'[p] = d
    BY <1>1, <2>2 DEF Goes, Become, TypeOK
  <2>4. OwnAttempt'
    BY <1>2, <2>2, <2>3 DEF OwnAttempt, Goes
  <2>5. c.pc = "begin" => ~HardCommit
    <3>1. c.pc = "begin" => View(c, TheWorld) /\ c.attempt = attempt
      BY <2>1 DEF Inv, LiveInv, WithoutAttempt
    <3> QED
      BY <3>1 DEF View, Stands, PhaseAt, Beginning, HardCommit
  <2>6. engine' = engine \/
          /\ attempt' = attempt
          /\ Draining /\ engine'.drain.phase = "rolled-back" => c.pc = "rollback"
          /\ c.pc # "begin" => /\ engine'.drain.expired = engine.drain.expired
                               /\ engine.drain.phase \in Authorized =>
                                    engine'.drain.phase \in Authorized \cup {"rolled-back"}
    <3>1. CASE engine' # engine
      <4>1. PICK r \in Replies(RequestOf(c)) : engine' = r.engine
        BY <2>2, <3>1 DEF Goes
      <4>2. c.pc \in Requesting \cup {"outcome"} /\ attempt' = attempt
        BY <2>2, <3>1 DEF Goes
      <4>3. RequestOf(c) \in Request /\ RequestOf(c).kind = c.pc
        BY <2>1, <4>2, RequestFits DEF RequestOf
      <4> QED
        BY <1>1, <4>1, <4>2, <4>3, ReplyMoves
    <3> QED
      BY <3>1
  <2>7. HardCommit' => attempt' = attempt \/ c.pc = "advance-commit"
    BY <2>2 DEF Goes
  <2>8. d.pc = "advance-commit" => engine'.drain.phase \in Authorized
    BY <2>2 DEF Goes
  <2>9. Decided'
    <3> SUFFICES ASSUME losses' = 0, Draining',
                        HardCommit' \/ \E q \in Controllers : ctl'[q].pc = "advance-commit"
                 PROVE  engine'.drain.phase \in Authorized
      BY DEF Decided
    <3>1. engine'.drain.phase # "rolled-back"
      BY DEF Draining
    <3>2. CASE \E q \in Controllers : ctl'[q].pc = "advance-commit"
      BY <1>2, <2>3, <2>8, <3>2 DEF WithoutAttempt
    <3>3. CASE HardCommit'
      <4>1. HardCommit \/ c.pc = "advance-commit"
        BY <2>7, <3>3 DEF HardCommit
      <4>2. c.pc # "begin"
        BY <2>5, <4>1
      <4>3. CASE Draining
        <5>1. engine.drain.phase \in Authorized
          BY <1>1, <2>1, <4>1, <4>3 DEF InTurn, Decided
        <5> QED
          BY <2>6, <3>1, <4>2, <5>1
      <4>4. CASE ~Draining
        <5>1. engine' # engine
          BY <3>1, <4>4 DEF Draining
        <5>2. PICK r \in Replies(RequestOf(c)) : engine' = r.engine
          BY <2>2, <5>1 DEF Goes
        <5>3. c.pc \in Requesting \cup {"outcome"}
          BY <2>2, <5>1 DEF Goes
        <5>4. RequestOf(c) \in Request /\ RequestOf(c).kind = c.pc
          BY <2>1, <5>3, RequestFits DEF RequestOf
        <5>5. r.engine.drain.phase = "rolled-back"
          BY <1>1, <4>2, <4>4, <5>2, <5>4, ReplyEngine DEF Draining, RolledBack, Authorized
        <5> QED
          BY <3>1, <5>2, <5>5
      <4> QED
        BY <4>3, <4>4
    <3> QED
      BY <3>2, <3>3
  <2>10. Undoing'
    <3> SUFFICES ASSUME losses' = 0, Draining', HardCommit',
                        NEW q \in Controllers, ctl'[q].pc = "rollback"
                 PROVE  engine'.drain.expired
      BY DEF Undoing
    <3>1. d.pc = "rollback"
      BY <1>2, <2>3 DEF WithoutAttempt
    <3>2. c.pc = "rollback" \/ (c.pc \in {"authorize", "commit"} /\ engine.drain.expired)
      BY <2>2, <3>1 DEF Goes
    <3>3. HardCommit
      BY <2>7, <3>2 DEF HardCommit
    <3>4. Draining
      <4>1. SUFFICES ASSUME ~Draining PROVE FALSE
        OBVIOUS
      <4>2. engine' # engine
        BY <4>1 DEF Draining
      <4>3. PICK r \in Replies(RequestOf(c)) : engine' = r.engine
        BY <2>2, <4>2 DEF Goes
      <4>4. RequestOf(c) \in Request /\ RequestOf(c).kind = c.pc
        BY <2>1, <3>2, RequestFits DEF RequestOf, Requesting
      <4> QED
        BY <1>1, <3>2, <4>1, <4>2, <4>3, <4>4, ReplyEngine DEF Draining
    <3>5. engine.drain.expired
      BY <1>1, <2>1, <3>2, <3>3, <3>4 DEF InTurn, Undoing
    <3> QED
      BY <2>6, <3>2, <3>5
  <2> QED
    BY <1>3, <2>4, <2>9, <2>10
<1> QED
  BY <1>4, <1>5

\* What the engine and time keep.
LEMMA EngineKeeps ==
  ASSUME Inv, InTurn,
         \/ RequesterExpires \/ AuthorizationExpires \/ LateRequest \/ EngineExits
         \/ \E p \in Controllers : RetireDeadAuthority(p)
  PROVE  OwnAttempt' /\ NoneLate' /\ Decided' /\ Undoing'
<1>1. engine.drain \in Drain /\ engine \in Engine /\ losses \in Nat
  BY DEF Inv, TypeOK, Engine
<1>2. CASE ~engine'.alive
  <2>1. NoneLate'
    BY <1>2 DEF RequesterExpires, AuthorizationExpires, LateRequest, EngineExits,
       RetireDeadAuthority, outside, InTurn, NoneLate
  <2> QED
    BY <1>2, <2>1 DEF OwnAttempt, Decided, Undoing
<1>3. CASE engine'.alive /\ (RequesterExpires \/ AuthorizationExpires \/ LateRequest)
  <2>1. engine.alive /\ ctl' = ctl /\ attempt' = attempt /\ losses' = losses
        /\ (late' = late \/ \E m \in late : late' = late \ {m})
    BY <1>3 DEF RequesterExpires, AuthorizationExpires, LateRequest, outside
  <2>2. OwnAttempt' /\ NoneLate' /\ (HardCommit' <=> HardCommit)
    BY <2>1 DEF InTurn, OwnAttempt, NoneLate, HardCommit
  <2>3. CASE losses # 0
    BY <2>1, <2>2, <2>3 DEF Decided, Undoing
  <2>4. CASE losses = 0 /\ RequesterExpires
    <3>1. ~Draining'
      BY <1>1, <2>4 DEF RequesterExpires, RolledBack, Draining, Engine, Drain
    <3> QED
      BY <2>2, <3>1 DEF Decided, Undoing
  <2>5. CASE losses = 0 /\ AuthorizationExpires
    <3>1. engine'.drain.phase = engine.drain.phase /\ engine'.drain.expired
      BY <1>1, <2>5 DEF AuthorizationExpires, Engine, Drain
    <3> QED
      BY <2>1, <2>2, <3>1 DEF InTurn, Decided, Undoing, Draining
  <2>6. CASE losses = 0 /\ LateRequest
    BY <2>6 DEF LateRequest, InTurn, NoneLate
  <2> QED
    BY <1>3, <2>3, <2>4, <2>5, <2>6
<1>4. engine'.alive => RequesterExpires \/ AuthorizationExpires \/ LateRequest
  <2>1. EngineExits => ~engine'.alive
    BY <1>1 DEF EngineExits, Engine
  <2>2. \A p \in Controllers : RetireDeadAuthority(p) => ~engine'.alive
    BY DEF RetireDeadAuthority
  <2> QED
    BY <2>1, <2>2
<1> QED
  BY <1>2, <1>3, <1>4

LEMMA InTurnKept ==
  ASSUME ~Concurrent, Inv, InTurn, [Next]_vars
  PROVE  InTurn'
<1>1. TypeOK /\ Alone'
  BY AloneKept DEF Inv, InTurn
<1>2. OwnAttempt' /\ NoneLate' /\ Decided' /\ Undoing'
  <2>1. ASSUME NEW p \in Controllers, Step(p)
        PROVE  OwnAttempt' /\ NoneLate' /\ Decided' /\ Undoing'
    BY <2>1, StepKeeps
  <2>2. CASE \/ \E p \in Controllers : Adopt(p) \/ BeginStop(p) \/ Abort(p) \/ Crash(p)
                                       \/ RenewalFails(p) \/ RegistrationExpires(p)
             \/ OwnerLeaseExpires \/ UNCHANGED vars
    BY <1>1, <2>2, OthersQuiet, QuietKeeps
  <2>3. CASE \/ RequesterExpires \/ AuthorizationExpires \/ LateRequest \/ EngineExits
             \/ \E p \in Controllers : RetireDeadAuthority(p)
    BY <2>3, EngineKeeps
  <2> QED
    BY <2>1, <2>2, <2>3 DEF Next
<1> QED
  BY <1>1, <1>2 DEF InTurn

\* Of controllers that follow each other, as long as no reply was lost, none
\* rolls the drain of a durable hard commit back unless its authorization has
\* expired: neither an abort nor a crash nor a rotated owner nor the catch block
\* of #controlledStop undoes it.
THEOREM CommitStands ==
  ASSUME ~Concurrent
  PROVE  Spec => CommitUndoneOnlyExpired
<1> DEFINE Good ==
      losses = 0
      /\ engine.alive /\ engine'.alive /\ Draining /\ engine'.drain.phase = "rolled-back"
      /\ attempt # None /\ attempt.phase = "hard-signal-commit-pending"
      => engine.drain.expired
<1>1. Init => InTurn
  BY DEF Init, InTurn, Alone, OwnAttempt, NoneLate, Decided, Undoing, NoContext, NoDrain,
     Attached, WithoutAttempt, Draining
<1>2. Inv /\ InTurn /\ [Next]_vars => InTurn'
  BY InTurnKept
<1>3. Inv /\ InTurn /\ [Next]_vars => [Good]_vars
  <2> SUFFICES ASSUME Inv, InTurn, [Next]_vars, losses = 0, engine.alive, engine'.alive,
                      Draining, engine'.drain.phase = "rolled-back", HardCommit
               PROVE  engine.drain.expired
    BY DEF HardCommit
  <2>1. TypeOK /\ engine.drain.phase \in Authorized
    BY DEF Inv, InTurn, Decided
  <2>2. engine'.drain # engine.drain
    BY DEF Draining
  <2>3. ASSUME NEW p \in Controllers, Step(p) PROVE engine.drain.expired
    <3>1. ctl[p].pc \notin WithoutAttempt => ctl[p].attempt = attempt
      BY DEF InTurn, OwnAttempt
    <3>2. PICK d : Goes(p, d)
      BY <2>3, <3>1, StepGoes
    <3>3. PICK r \in Replies(RequestOf(ctl[p])) : engine' = r.engine
      BY <2>2, <3>2 DEF Goes
    <3>4. ctl[p].pc \in Requesting \cup {"outcome"}
      BY <2>2, <3>2 DEF Goes
    <3>5. RequestOf(ctl[p]) \in Request /\ RequestOf(ctl[p]).kind = ctl[p].pc
      BY <3>4, RequestFits DEF RequestOf
    <3>6. ctl[p].pc = "rollback"
      BY <2>1, <3>3, <3>5, ReplyMoves
    <3> QED
      BY <3>6 DEF InTurn, Undoing
  <2>4. ~(\/ \E p \in Controllers : Adopt(p) \/ BeginStop(p) \/ Abort(p) \/ Crash(p)
                                    \/ RenewalFails(p) \/ RegistrationExpires(p)
          \/ OwnerLeaseExpires \/ UNCHANGED vars)
    BY <2>1, <2>2, OthersQuiet DEF Quiet
  <2>5. ~RequesterExpires
    BY <2>1 DEF RequesterExpires, Authorized
  <2>6. ~AuthorizationExpires
    <3>1. AuthorizationExpires => engine'.drain.phase = engine.drain.phase
      BY DEF AuthorizationExpires, Inv, TypeOK, Engine, Drain
    <3> QED
      BY <3>1 DEF Draining
  <2>7. ~LateRequest
    BY DEF LateRequest, InTurn, NoneLate
  <2>8. ~EngineExits
    BY DEF EngineExits, Inv, TypeOK, Engine
  <2>9. \A p \in Controllers : ~RetireDeadAuthority(p)
    BY DEF RetireDeadAuthority
  <2> QED
    BY <2>3, <2>4, <2>5, <2>6, <2>7, <2>8, <2>9 DEF Next
<1> HIDE DEF Good
<1>4. []Inv /\ InTurn /\ [][Next]_vars => [][Good]_vars
  BY <1>2, <1>3, PTL
<1>5. Spec => []Inv /\ InTurn /\ [][Next]_vars
  BY <1>1, InvHolds, PTL DEF Spec
<1> USE DEF Good
<1> QED
  BY <1>4, <1>5 DEF CommitUndoneOnlyExpired

=============================================================================
