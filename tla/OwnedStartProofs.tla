-------------------------- MODULE OwnedStartProofs --------------------------
(***************************************************************************)
(* Proofs about OwnedStart, for any set of supervisors and any bounds.     *)
(*                                                                         *)
(* The claim is the only thing two starting processes share.  The          *)
(* inductive invariant ties what a process believes (its phase and its     *)
(* copy of the claim) to the claim, and the claim to the engine: a process *)
(* on the way to a started engine holds the published claim, and an engine *)
(* gets its bootstrap only under a claim that is bound.                    *)
(***************************************************************************)
EXTENDS OwnedStart, TLAPS

\* The phases in which a process works on a claim with a bound engine, and
\* those in which that claim records an owner attempt.
BoundPhase == {"deliver", "handshake", "mark", "resume", "recover", "initial",
               "commit", "release", "renew", "predecessor", "unwind",
               "reacquire", "confirm", "advance", "acquire", "undo", "retry"}
AttemptPhase == {"initial", "commit", "release", "renew", "predecessor",
                 "unwind", "reacquire", "confirm", "advance", "acquire",
                 "undo", "retry"}

\* A claim without an engine names none, and a new one has no attempt.
ShapeOf(c) ==
  /\ c.stage = "none" <=> c.launch = 0
  /\ c.attempt > 0 => c.stage = "bound"

CopyOK(s) ==
  /\ ShapeOf(s.claim)
  /\ s.pc = "prepare" => s.claim.stage = "claimed"
  /\ s.pc \in {"spawn", "bind", "unbound"} => s.claim.stage = "prepared"
  /\ s.pc \in BoundPhase => s.claim.stage = "bound"
  /\ s.pc \in AttemptPhase => s.claim.attempt >= 1
  /\ s.pc \in {"adopt", "adopt-renew", "adopt-acquire"} =>
       s.record.launch \in Launches
  /\ s.pc = "rotate" => s.record.generation < MaxOwner

CopyShape == \A p \in Supervisors : CopyOK(sup[p])

\* A process on its way to a started engine made the published claim.
ColdStarterOwnsClaim ==
  \A p \in Supervisors :
    ColdStarting(p) => starter = p /\ claim = sup[p].claim

\* Those who know the published claim are its starter or, once that process
\* has died, the ones that recover it.
ClaimShared ==
  \A p \in Supervisors :
    /\ sup[p].claim.launch <= launches
    /\ claim.launch # 0 /\ sup[p].claim.launch = claim.launch =>
         starter \in {p, NoOne}

\* Between publishing the record and dropping the claim both name one launch.
ReleaseHoldsLock ==
  \A p \in Supervisors :
    /\ sup[p].pc = "release" <=> lock = p
    /\ sup[p].pc = "release" =>
         record.launch = claim.launch /\ claim = sup[p].claim

\* No launch beyond the last has an engine, and no engine has its bootstrap
\* under a claim that is not bound.
EngineFollowsClaim ==
  /\ claim.launch <= launches
  /\ \A l \in Launches :
       /\ l > launches => engine[l].process = "absent"
       /\ l = claim.launch /\ claim.stage # "bound" =>
            engine[l].process \notin {"started", "serving"}

Inv ==
  /\ TypeOK
  /\ CopyShape
  /\ ColdStarterOwnsClaim
  /\ ClaimShared
  /\ ReleaseHoldsLock
  /\ EngineFollowsClaim
  /\ NoEngineForgotten

(***************************************************************************)
(* Most steps of a supervisor leave the claim, its starter and the lock    *)
(* alone, and start no engine.                                             *)
(***************************************************************************)
Running(l) == engine[l].process \in {"started", "serving"}

\* No engine gets its bootstrap, and no launch beyond the last an engine.
EngineTame ==
  /\ engine' \in [Launches -> Engine]
  /\ \A l \in Launches :
       /\ Running(l)' => Running(l)
       /\ l > launches => engine'[l].process = "absent"

ColdPhase == {"prepare", "spawn", "bind", "deliver"}

LEMMA LocalStep ==
  ASSUME Inv, NEW p \in Supervisors, NEW s \in Supervisor,
         sup' = [sup EXCEPT ![p] = s],
         CopyOK(s),
         s.claim \in {sup[p].claim, NoClaim},
         s.pc \in ColdPhase => ColdStarting(p) /\ s.claim = sup[p].claim,
         s.pc # "release", sup[p].pc # "release",
         UNCHANGED <<claim, starter, lock, launches, noted>>,
         losses' \in 0 .. MaxLosses,
         late' \subseteq [launch : Launches, expected : Owner],
         EngineTame,
         record' \in Record,
         record'.launch = record.launch \/
           (lock = NoOne /\ \A l \in Launches : l = record.launch => ~Running(l))
  PROVE  Inv'
<1>1. /\ sup' \in [Supervisors -> Supervisor]
      /\ sup'[p] = s
      /\ \A q \in Supervisors : q # p => sup'[q] = sup[q]
  BY DEF Inv, TypeOK
<1>2. TypeOK'
  BY <1>1 DEF Inv, TypeOK, EngineTame
<1>3. CopyShape'
  BY <1>1 DEF Inv, CopyShape, CopyOK, ShapeOf
<1>4. ColdStarterOwnsClaim'
  BY <1>1 DEF Inv, ColdStarterOwnsClaim, ColdStarting, ColdPhase
<1>5. ClaimShared'
  BY <1>1 DEF Inv, TypeOK, ClaimShared, NoClaim
<1>6. ReleaseHoldsLock'
  BY <1>1, StartAssumption DEF Inv, ReleaseHoldsLock
<1>7. EngineFollowsClaim'
  BY DEF Inv, EngineFollowsClaim, EngineTame, Running
<1>8. NoEngineForgotten'
  BY DEF Inv, NoEngineForgotten, EngineTame, Running
<1> QED
  BY <1>2, <1>3, <1>4, <1>5, <1>6, <1>7, <1>8 DEF Inv

\* Where nothing is published, released or started: the rest of the state.
Aside ==
  /\ UNCHANGED <<claim, starter, lock, launches, noted>>
  /\ losses' \in 0 .. MaxLosses
  /\ late' \subseteq [launch : Launches, expected : Owner]

Phases == Starting \union Recovering \union Adopting \union Owning

LEMMA GotoStep ==
  ASSUME Inv, NEW p \in Supervisors, NEW pc \in Phases, Goto(p, pc),
         CopyOK([sup[p] EXCEPT !.pc = pc]),
         pc \in ColdPhase => ColdStarting(p),
         pc # "release", sup[p].pc # "release",
         Aside, EngineTame, record' \in Record,
         record'.launch = record.launch \/
           (lock = NoOne /\ \A l \in Launches : l = record.launch => ~Running(l))
  PROVE  Inv'
<1> DEFINE s == [sup[p] EXCEPT !.pc = pc]
<1>1. s \in Supervisor /\ s.claim = sup[p].claim /\ s.pc = pc
  BY DEF Inv, TypeOK, Supervisor, Phases
<1>2. sup' = [sup EXCEPT ![p] = s]
  BY DEF Goto, Inv, TypeOK
<1> HIDE DEF s
<1> QED
  BY <1>1, <1>2, LocalStep DEF Aside, s

LEMMA LeaveStep ==
  ASSUME Inv, NEW p \in Supervisors, Leave(p), sup[p].pc # "release",
         Aside, EngineTame, record' \in Record,
         record'.launch = record.launch \/
           (lock = NoOne /\ \A l \in Launches : l = record.launch => ~Running(l))
  PROVE  Inv'
<1> DEFINE s == [pc |-> "idle", claim |-> NoClaim, record |-> NoRecord]
<1>1. s \in Supervisor /\ s.claim = NoClaim /\ s.pc = "idle"
  BY StartAssumption DEF Supervisor, Claim, Record, NoClaim, NoRecord, Owning, Owner
<1>2. CopyOK(s)
  BY <1>1 DEF CopyOK, ShapeOf, NoClaim, BoundPhase, AttemptPhase
<1> QED
  BY <1>1, <1>2, LocalStep DEF Aside, Leave, ColdPhase

\* The engine as a step of the program or of the engine itself leaves it.
LEMMA EngineUntouched ==
  ASSUME Inv, UNCHANGED engine
  PROVE  EngineTame
BY DEF Inv, TypeOK, EngineFollowsClaim, EngineTame, Running

LEMMA EngineSet ==
  ASSUME Inv, NEW l, NEW e,
         engine' = [engine EXCEPT ![l] = e],
         l \in Launches => /\ e \in Engine
                           /\ e.process \in {"started", "serving"} => Running(l)
                           /\ l > launches => e.process = "absent"
  PROVE  EngineTame
<1>1. engine \in [Launches -> Engine]
  BY DEF Inv, TypeOK
<1>2. engine' \in [Launches -> Engine]
  BY <1>1
<1>3. \A k \in Launches : engine'[k] = IF k = l THEN e ELSE engine[k]
  BY <1>1
<1> QED
  BY <1>2, <1>3 DEF Inv, EngineFollowsClaim, EngineTame, Running

LEMMA EngineDies ==
  ASSUME Inv, NEW l \in 0 .. launches, Process(l, "dead") \/ Process(l, "gated")
  PROVE  EngineTame
<1>1. PICK x \in {"dead", "gated"} : Process(l, x)
  OBVIOUS
<1> DEFINE e == [engine[l] EXCEPT !.process = x]
<1>2. engine' = [engine EXCEPT ![l] = e]
  BY <1>1 DEF Process
<1>3. l \in Launches => e \in Engine /\ e.process = x
  BY DEF Inv, TypeOK, Engine
<1>4. launches \in Int /\ l \in Int /\ ~(l > launches)
  BY DEF Inv, TypeOK
<1> HIDE DEF e
<1> QED
  BY <1>2, <1>3, <1>4, EngineSet

LEMMA OwnerGranted ==
  ASSUME Inv, NEW l, Acquired(l), l \in Launches => engine[l].process # "absent"
  PROVE  EngineTame
<1> DEFINE e == [engine[l] EXCEPT !.owner = engine[l].owner + 1,
                              !.lapsed = FALSE]
<1>1. engine' = [engine EXCEPT ![l] = e]
  BY DEF Acquired
<1>2. l \in Launches => e \in Engine /\ e.process = engine[l].process
  <2> SUFFICES ASSUME l \in Launches PROVE e \in Engine /\ e.process = engine[l].process
    OBVIOUS
  <2>1. engine[l] \in Engine
    BY DEF Inv, TypeOK
  <2>2. engine[l].owner + 1 \in Owner
    BY <2>1, StartAssumption DEF Engine, Owner, Acquired
  <2> QED
    BY <2>1, <2>2 DEF Engine
<1>3. l \in Launches => ~(l > launches)
  BY DEF Inv, EngineFollowsClaim
<1> HIDE DEF e
<1> QED
  BY <1>1, <1>2, <1>3, EngineSet DEF Running

(***************************************************************************)
(* The steps that change the claim.                                        *)
(***************************************************************************)
LEMMA ClaimWriteStep ==
  ASSUME Inv, NEW p \in Supervisors, NEW c \in Claim, NEW pc \in Phases,
         WriteClaim(p, c, pc),
         claim = sup[p].claim \/ starter = NoOne,
         c.launch = claim.launch, claim.stage # "none", c.stage # "none",
         claim.stage = "bound" => c.stage = "bound",
         ShapeOf(c),
         CopyOK([[sup[p] EXCEPT !.claim = c] EXCEPT !.pc = pc]),
         pc \in ColdPhase => ColdStarting(p),
         pc # "release", sup[p].pc # "release", lock = NoOne,
         noted' \in Owner,
         UNCHANGED <<starter, record, lock, engine, launches, late, losses>>
  PROVE  Inv'
<1> DEFINE s == [[sup[p] EXCEPT !.claim = c] EXCEPT !.pc = pc]
<1>1. s \in Supervisor /\ s.claim = c /\ s.pc = pc
  BY DEF Inv, TypeOK, Supervisor, Phases
<1>2. sup' = [sup EXCEPT ![p] = s] /\ claim' = c
  BY DEF WriteClaim, Inv, TypeOK, Supervisor
<1>3. /\ sup' \in [Supervisors -> Supervisor]
      /\ sup'[p] = s
      /\ \A q \in Supervisors : q # p => sup'[q] = sup[q]
  BY <1>1, <1>2 DEF Inv, TypeOK
<1> HIDE DEF s
<1>4. claim.launch # 0 /\ starter \in {p, NoOne}
  BY DEF Inv, TypeOK, ClaimShared
<1>5. TypeOK'
  BY <1>2, <1>3 DEF Inv, TypeOK, ShapeOf
<1>6. CopyShape'
  <2>1. CopyOK(s)
    BY DEF s
  <2>2. ASSUME NEW q \in Supervisors PROVE CopyOK(sup'[q])
    <3>1. CopyOK(sup[q])
      BY DEF Inv, CopyShape
    <3>2. sup'[q] = s \/ sup'[q] = sup[q]
      BY <1>3
    <3> QED
      BY <2>1, <3>1, <3>2
  <2>3. \A q \in Supervisors : CopyOK(sup[q])'
    BY <2>2 DEF CopyOK, ShapeOf
  <2> QED
    BY <2>3 DEF CopyShape
<1>7. ColdStarterOwnsClaim'
  BY <1>1, <1>2, <1>3, <1>4, StartAssumption
     DEF Inv, ColdStarterOwnsClaim, ColdStarting, ColdPhase
<1>8. ClaimShared'
  BY <1>1, <1>2, <1>3, <1>4 DEF Inv, ClaimShared, EngineFollowsClaim
<1>9. ReleaseHoldsLock'
  BY <1>1, <1>3, StartAssumption DEF Inv, ReleaseHoldsLock
<1>10. EngineFollowsClaim'
  BY <1>2 DEF Inv, EngineFollowsClaim
<1>11. NoEngineForgotten'
  BY <1>2 DEF Inv, NoEngineForgotten
<1> QED
  BY <1>5, <1>6, <1>7, <1>8, <1>9, <1>10, <1>11 DEF Inv

LEMMA TakeClaimStep ==
  ASSUME Inv, NEW p \in Supervisors, TakeClaim(p),
         starter \in {p, NoOne}, lock = NoOne, sup[p].pc # "release",
         \A l \in Launches : l = claim.launch => ~Running(l)
  PROVE  Inv'
<1> DEFINE c == [launch |-> launches + 1, stage |-> "claimed", attempt |-> 0]
           s == [[sup[p] EXCEPT !.claim = c] EXCEPT !.pc = "prepare"]
<1>1. c \in Claim /\ c.launch = launches + 1 /\ c.stage = "claimed" /\ c.attempt = 0
  BY StartAssumption DEF Inv, TypeOK, TakeClaim, Claim, Owner
<1> HIDE DEF c
<1>2. s \in Supervisor /\ s.claim = c /\ s.pc = "prepare"
  BY <1>1 DEF Inv, TypeOK, Supervisor, Starting
<1>3. sup' = [sup EXCEPT ![p] = s] /\ claim' = c
  BY DEF TakeClaim, WriteClaim, c, Inv, TypeOK, Supervisor
<1>4. /\ sup' \in [Supervisors -> Supervisor]
      /\ sup'[p] = s
      /\ \A q \in Supervisors : q # p => sup'[q] = sup[q]
  BY <1>2, <1>3 DEF Inv, TypeOK
<1>5. CopyOK(s)
  BY <1>1, <1>2 DEF CopyOK, ShapeOf, BoundPhase, AttemptPhase, Inv, TypeOK
<1> HIDE DEF s
<1>6. /\ launches \in Nat /\ launches' = launches + 1 /\ launches' \in 0 .. MaxLaunch
      /\ starter' = p /\ noted' = 0
      /\ UNCHANGED <<record, lock, engine, late, losses>>
  BY StartAssumption DEF Inv, TypeOK, TakeClaim
<1>7. TypeOK'
  BY <1>1, <1>3, <1>4, <1>6, StartAssumption DEF Inv, TypeOK, Owner
<1>8. CopyShape'
  BY <1>4, <1>5 DEF Inv, CopyShape, CopyOK, ShapeOf
<1>9. ColdStarterOwnsClaim'
  BY <1>2, <1>3, <1>4, <1>6, StartAssumption DEF Inv, ColdStarterOwnsClaim, ColdStarting
<1>10. ClaimShared'
  <2>1. \A q \in Supervisors : sup[q].claim.launch <= launches /\ sup[q].claim.launch \in Nat
    BY DEF Inv, TypeOK, ClaimShared, Supervisor, Claim
  <2> QED
    BY <1>1, <1>2, <1>3, <1>4, <1>6, <2>1 DEF ClaimShared
<1>11. ReleaseHoldsLock'
  BY <1>2, <1>4, <1>6, StartAssumption DEF Inv, ReleaseHoldsLock
<1>12. EngineFollowsClaim'
  BY <1>1, <1>3, <1>6 DEF Inv, EngineFollowsClaim, Launches
<1>13. NoEngineForgotten'
  BY <1>6 DEF Inv, NoEngineForgotten, Running
<1> QED
  BY <1>7, <1>8, <1>9, <1>10, <1>11, <1>12, <1>13 DEF Inv

\* A process drops a claim whose engine does not run and goes back to idle.
LEMMA DropClaimStep ==
  ASSUME Inv, NEW p \in Supervisors, RemoveClaim, Leave(p),
         starter \in {p, NoOne}, lock = NoOne, sup[p].pc # "release",
         EngineTame, \A l \in Launches : l = claim.launch => ~Running(l)',
         UNCHANGED <<record, lock, launches, late, losses, noted>>
  PROVE  Inv'
<1> DEFINE s == [pc |-> "idle", claim |-> NoClaim, record |-> NoRecord]
<1>1. s \in Supervisor /\ s.claim = NoClaim /\ s.pc = "idle"
  BY StartAssumption DEF Supervisor, Claim, Record, NoClaim, NoRecord, Owning, Owner
<1>2. CopyOK(s)
  BY <1>1 DEF CopyOK, ShapeOf, NoClaim, BoundPhase, AttemptPhase
<1>3. sup' = [sup EXCEPT ![p] = s] /\ claim' = NoClaim /\ starter' = NoOne
  BY DEF Leave, RemoveClaim
<1> HIDE DEF s
<1>4. /\ sup' \in [Supervisors -> Supervisor]
      /\ sup'[p] = s
      /\ \A q \in Supervisors : q # p => sup'[q] = sup[q]
  BY <1>1, <1>3 DEF Inv, TypeOK
<1>5. NoClaim \in Claim
  BY <1>1 DEF Supervisor
<1>6. TypeOK'
  BY <1>3, <1>4, <1>5 DEF Inv, TypeOK, EngineTame, NoClaim
<1>7. CopyShape'
  BY <1>2, <1>4 DEF Inv, CopyShape, CopyOK, ShapeOf
<1>8. ColdStarterOwnsClaim'
  BY <1>1, <1>3, <1>4, StartAssumption DEF Inv, ColdStarterOwnsClaim, ColdStarting
<1>9. ClaimShared'
  BY <1>1, <1>3, <1>4 DEF Inv, TypeOK, ClaimShared, NoClaim
<1>10. ReleaseHoldsLock'
  BY <1>1, <1>4, StartAssumption DEF Inv, ReleaseHoldsLock
<1>11. EngineFollowsClaim'
  BY <1>3 DEF Inv, TypeOK, EngineFollowsClaim, EngineTame, Running, NoClaim, Launches
<1>12. NoEngineForgotten'
  BY DEF Inv, NoEngineForgotten, EngineTame, Running
<1> QED
  BY <1>6, <1>7, <1>8, <1>9, <1>10, <1>11, <1>12 DEF Inv

\* The engine moves on by itself.
LEMMA EngineStep ==
  ASSUME Inv, EngineTame, late' \subseteq late,
         UNCHANGED <<claim, starter, record, lock, sup, launches, losses, noted>>
  PROVE  Inv'
<1>1. TypeOK'
  BY DEF Inv, TypeOK, EngineTame
<1>2. CopyShape' /\ ReleaseHoldsLock' /\ ClaimShared'
  BY DEF Inv, CopyShape, CopyOK, ShapeOf, ReleaseHoldsLock, ClaimShared
<1>3. ColdStarterOwnsClaim'
  BY DEF Inv, ColdStarterOwnsClaim, ColdStarting
<1>4. EngineFollowsClaim'
  BY DEF Inv, EngineFollowsClaim, EngineTame, Running
<1>5. NoEngineForgotten'
  BY DEF Inv, NoEngineForgotten, EngineTame, Running
<1> QED
  BY <1>1, <1>2, <1>3, <1>4, <1>5 DEF Inv

\* The bootstrap credential goes to the engine of the bound claim.
LEMMA DeliverStep ==
  ASSUME Inv, NEW p \in Supervisors, DeliverBootstrap(p)
  PROVE  Inv'
<1> DEFINE l == sup[p].claim.launch
           e == [engine[l] EXCEPT !.process = "started"]
           s == [sup[p] EXCEPT !.pc = "handshake"]
<1>1. /\ claim = sup[p].claim /\ claim.stage = "bound"
      /\ starter = p /\ l \in Launches /\ l = claim.launch /\ l <= launches
  BY DEF Inv, TypeOK, DeliverBootstrap, At, ColdStarterOwnsClaim, ColdStarting,
     CopyShape, CopyOK, BoundPhase, EngineFollowsClaim, Claim, Launches
<1>2. s \in Supervisor /\ s.claim = sup[p].claim /\ s.pc = "handshake"
  BY DEF Inv, TypeOK, Supervisor, Starting
<1>3. sup' = [sup EXCEPT ![p] = s]
  BY DEF DeliverBootstrap, Goto
<1>4. /\ sup' \in [Supervisors -> Supervisor]
      /\ sup'[p] = s
      /\ \A q \in Supervisors : q # p => sup'[q] = sup[q]
  BY <1>2, <1>3 DEF Inv, TypeOK
<1>5. e \in Engine /\ e.process = "started"
  BY <1>1 DEF Inv, TypeOK, Engine
<1>6. engine' = [engine EXCEPT ![l] = e]
  BY DEF DeliverBootstrap, Process
<1>7. CopyOK(s)
  BY <1>1, <1>2 DEF Inv, CopyShape, CopyOK, BoundPhase, AttemptPhase, ShapeOf
<1>8. sup[p].pc = "deliver" /\ UNCHANGED <<claim, starter, record, lock, launches, late, losses, noted>>
  BY DEF DeliverBootstrap, At
<1> HIDE DEF l, e, s
<1>9. /\ engine' \in [Launches -> Engine]
      /\ \A k \in Launches : engine'[k] = IF k = l THEN e ELSE engine[k]
  BY <1>1, <1>5, <1>6 DEF Inv, TypeOK
<1>10. TypeOK'
  BY <1>4, <1>8, <1>9 DEF Inv, TypeOK
<1>11. CopyShape'
  BY <1>4, <1>7 DEF Inv, CopyShape, CopyOK, ShapeOf
<1>12. ColdStarterOwnsClaim'
  BY <1>2, <1>4, <1>8 DEF Inv, ColdStarterOwnsClaim, ColdStarting
<1>13. ClaimShared' /\ ReleaseHoldsLock'
  BY <1>2, <1>4, <1>8, StartAssumption DEF Inv, ClaimShared, ReleaseHoldsLock
<1>14. EngineFollowsClaim'
  BY <1>1, <1>8, <1>9, StartAssumption DEF Inv, TypeOK, EngineFollowsClaim, Launches
<1>15. NoEngineForgotten'
  BY <1>1, <1>8, <1>9 DEF Inv, NoEngineForgotten
<1> QED
  BY <1>10, <1>11, <1>12, <1>13, <1>14, <1>15 DEF Inv

\* The record is published while the claim still stands.
LEMMA CommitStep ==
  ASSUME Inv, NEW p \in Supervisors, Commit(p)
  PROVE  Inv'
<1> DEFINE r == [launch |-> claim.launch, generation |-> claim.attempt]
           s == [[sup[p] EXCEPT !.pc = "release"] EXCEPT !.record = r]
<1>1. r \in Record /\ r.launch = claim.launch
  BY DEF Inv, TypeOK, Claim, Record
<1>2. s \in Supervisor /\ s.claim = sup[p].claim /\ s.pc = "release"
  BY <1>1 DEF Inv, TypeOK, Supervisor, Starting
<1>3. sup' = [sup EXCEPT ![p] = s] /\ record' = r
  BY <1>1 DEF Commit, Inv, TypeOK, Supervisor
<1>4. /\ sup[p].pc = "commit" /\ claim = sup[p].claim /\ lock = NoOne
      /\ lock' = p /\ record = NoRecord
      /\ UNCHANGED <<claim, starter, engine, launches, late, losses, noted>>
  BY DEF Commit, At, Section, Verified, world
<1>5. CopyOK(s)
  BY <1>2, <1>4 DEF Inv, CopyShape, CopyOK, BoundPhase, AttemptPhase, ShapeOf
<1> HIDE DEF s, r
<1>6. /\ sup' \in [Supervisors -> Supervisor]
      /\ sup'[p] = s
      /\ \A q \in Supervisors : q # p => sup'[q] = sup[q]
  BY <1>2, <1>3 DEF Inv, TypeOK
<1>7. TypeOK'
  BY <1>1, <1>3, <1>4, <1>6 DEF Inv, TypeOK
<1>8. CopyShape'
  BY <1>5, <1>6 DEF Inv, CopyShape, CopyOK, ShapeOf
<1>9. ColdStarterOwnsClaim' /\ ClaimShared'
  BY <1>2, <1>4, <1>6 DEF Inv, ColdStarterOwnsClaim, ColdStarting, ClaimShared
<1>10. ReleaseHoldsLock'
  BY <1>1, <1>2, <1>3, <1>4, <1>6, StartAssumption DEF Inv, ReleaseHoldsLock
<1>11. EngineFollowsClaim'
  BY <1>4 DEF Inv, EngineFollowsClaim
<1>12. NoEngineForgotten'
  <2>1. \A l \in Launches : l # record.launch
    BY <1>4 DEF NoRecord, Launches
  <2> QED
    BY <2>1, <1>4 DEF Inv, NoEngineForgotten
<1> QED
  BY <1>7, <1>8, <1>9, <1>10, <1>11, <1>12 DEF Inv

\* The claim goes once the record names its launch.
LEMMA ReleaseStep ==
  ASSUME Inv, NEW p \in Supervisors, ReleaseStartClaim(p)
  PROVE  Inv'
<1> DEFINE pc == IF starter = p THEN "register" ELSE "join"
           s == [[sup[p] EXCEPT !.claim = NoClaim] EXCEPT !.pc = pc]
<1>1. NoClaim \in Claim
  BY StartAssumption DEF Claim, NoClaim, Owner
<1>2. s \in Supervisor /\ s.claim = NoClaim /\ s.pc \in {"register", "join"}
  BY <1>1 DEF Inv, TypeOK, Supervisor, Adopting
<1>3. sup' = [sup EXCEPT ![p] = s] /\ claim' = NoClaim /\ starter' = NoOne
  BY DEF ReleaseStartClaim, RemoveClaim, Inv, TypeOK, Supervisor
<1>4. /\ sup[p].pc = "release" /\ lock = p /\ lock' = NoOne
      /\ record.launch = claim.launch /\ claim = sup[p].claim
      /\ UNCHANGED <<record, engine, launches, late, losses, noted>>
  BY DEF ReleaseStartClaim, At, world, Inv, ReleaseHoldsLock
<1>5. CopyOK(s)
  BY <1>2 DEF CopyOK, BoundPhase, AttemptPhase, ShapeOf, NoClaim
<1>6. starter \in {p, NoOne}
  BY <1>4 DEF Inv, TypeOK, ClaimShared, CopyShape, CopyOK, BoundPhase, ShapeOf
<1> HIDE DEF s
<1>7. /\ sup' \in [Supervisors -> Supervisor]
      /\ sup'[p] = s
      /\ \A q \in Supervisors : q # p => sup'[q] = sup[q]
  BY <1>2, <1>3 DEF Inv, TypeOK
<1>8. TypeOK'
  BY <1>1, <1>3, <1>4, <1>7 DEF Inv, TypeOK, NoClaim
<1>9. CopyShape'
  BY <1>5, <1>7 DEF Inv, CopyShape, CopyOK, ShapeOf
<1>10. ColdStarterOwnsClaim'
  BY <1>2, <1>4, <1>6, <1>7, StartAssumption DEF Inv, ColdStarterOwnsClaim, ColdStarting
<1>11. ClaimShared'
  BY <1>2, <1>3, <1>4, <1>7 DEF Inv, TypeOK, ClaimShared, NoClaim
<1>12. ReleaseHoldsLock'
  BY <1>2, <1>4, <1>7, StartAssumption DEF Inv, ReleaseHoldsLock
<1>13. EngineFollowsClaim'
  BY <1>3, <1>4 DEF Inv, TypeOK, EngineFollowsClaim, NoClaim, Launches
<1>14. NoEngineForgotten'
  BY <1>4 DEF Inv, NoEngineForgotten
<1> QED
  BY <1>8, <1>9, <1>10, <1>11, <1>12, <1>13, <1>14 DEF Inv

\* A process is back at idle, dead or alive, and what it wrote stays.
LEMMA AbandonStep ==
  ASSUME Inv, NEW p \in Supervisors, Leave(p),
         starter' \in {starter, IF starter = p THEN NoOne ELSE starter},
         lock' = IF lock = p THEN NoOne ELSE lock,
         UNCHANGED <<claim, record, world>>
  PROVE  Inv'
<1> DEFINE s == [pc |-> "idle", claim |-> NoClaim, record |-> NoRecord]
<1>1. s \in Supervisor /\ s.claim = NoClaim /\ s.pc = "idle"
  BY StartAssumption DEF Supervisor, Claim, Record, NoClaim, NoRecord, Owning, Owner
<1>2. CopyOK(s)
  BY <1>1 DEF CopyOK, ShapeOf, NoClaim, BoundPhase, AttemptPhase
<1>3. /\ sup' = [sup EXCEPT ![p] = s]
      /\ starter' \in {starter, IF starter = p THEN NoOne ELSE starter}
      /\ lock' = (IF lock = p THEN NoOne ELSE lock)
      /\ UNCHANGED <<claim, record, engine, launches, late, losses, noted>>
  BY DEF Leave, world
<1> HIDE DEF s
<1>4. /\ sup' \in [Supervisors -> Supervisor]
      /\ sup'[p] = s
      /\ \A q \in Supervisors : q # p => sup'[q] = sup[q]
  BY <1>1, <1>3 DEF Inv, TypeOK
<1>5. TypeOK'
  BY <1>3, <1>4 DEF Inv, TypeOK
<1>6. CopyShape'
  BY <1>2, <1>4 DEF Inv, CopyShape, CopyOK, ShapeOf
<1>7. ColdStarterOwnsClaim'
  BY <1>1, <1>3, <1>4 DEF Inv, ColdStarterOwnsClaim, ColdStarting
<1>8. ClaimShared'
  BY <1>1, <1>3, <1>4 DEF Inv, TypeOK, ClaimShared, NoClaim
<1>9. ReleaseHoldsLock'
  BY <1>1, <1>3, <1>4, StartAssumption DEF Inv, ReleaseHoldsLock
<1>10. EngineFollowsClaim' /\ NoEngineForgotten'
  BY <1>3 DEF Inv, EngineFollowsClaim, NoEngineForgotten
<1> QED
  BY <1>5, <1>6, <1>7, <1>8, <1>9, <1>10 DEF Inv

(***************************************************************************)
(* The actions, by the lemma that covers them.                             *)
(***************************************************************************)

\* What a supervisor's own entry says of the claim and engine it works on.
LEMMA KnownClaim ==
  ASSUME Inv, NEW p \in Supervisors
  PROVE  /\ sup[p] \in Supervisor /\ CopyOK(sup[p])
         /\ sup[p].claim.launch \in 0 .. launches
         /\ Verified(p) /\ sup[p].claim.stage # "none" => starter \in {p, NoOne}
BY DEF Inv, TypeOK, CopyShape, CopyOK, ShapeOf, ClaimShared, Supervisor, Claim, Verified

LEMMA AsideOf ==
  ASSUME Inv, UNCHANGED <<claim, starter, lock>>,
         UNCHANGED <<launches, late, losses, noted>>
  PROVE  Aside
BY DEF Inv, TypeOK, Aside

\* A move to a phase that asks nothing of the claim.
LEMMA QuietMove ==
  ASSUME Inv, NEW p \in Supervisors,
         NEW pc \in {"ready", "stopped", "reclaim", "join"},
         Goto(p, pc), sup[p].pc # "release",
         Aside, EngineTame, record' \in Record,
         record'.launch = record.launch \/
           (lock = NoOne /\ \A l \in Launches : l = record.launch => ~Running(l))
  PROVE  Inv'
<1>1. CopyOK([sup[p] EXCEPT !.pc = pc])
  BY KnownClaim DEF CopyOK, BoundPhase, AttemptPhase, Supervisor
<1>2. pc \in Phases /\ pc \notin ColdPhase /\ pc # "release"
  BY DEF Phases, Adopting, Owning, ColdPhase
<1> QED
  BY <1>1, <1>2, GotoStep

\* A move between the phases of a bound claim.
LEMMA BoundMove ==
  ASSUME Inv, NEW p \in Supervisors, NEW pc \in BoundPhase \ {"deliver", "release"},
         Goto(p, pc), sup[p].pc # "release",
         sup[p].claim.stage = "bound",
         pc \in AttemptPhase => sup[p].claim.attempt >= 1,
         Aside, EngineTame, UNCHANGED record
  PROVE  Inv'
<1>1. CopyOK([sup[p] EXCEPT !.pc = pc])
  BY KnownClaim DEF CopyOK, BoundPhase, AttemptPhase, Supervisor
<1>2. pc \in Phases /\ pc \notin ColdPhase /\ pc # "release"
  BY DEF Phases, Starting, Recovering, ColdPhase, BoundPhase
<1>3. record' \in Record
  BY DEF Inv, TypeOK
<1> QED
  BY <1>1, <1>2, <1>3, GotoStep

LEMMA StartKeepsInv ==
  ASSUME Inv, NEW p \in Supervisors, Start(p)
  PROVE  Inv'
<1> USE KnownClaim
<1>1. CASE ConnectToRecord(p)
  <2> DEFINE s == [[sup[p] EXCEPT !.pc = "adopt"] EXCEPT !.record = record]
  <2>1. s \in Supervisor /\ s.claim = sup[p].claim /\ s.pc = "adopt"
    BY DEF Inv, TypeOK, Supervisor, Adopting
  <2>2. sup' = [sup EXCEPT ![p] = s]
    BY <1>1 DEF ConnectToRecord
  <2>3. CopyOK(s)
    BY <1>1, <2>1, StartAssumption
       DEF ConnectToRecord, CopyOK, BoundPhase, AttemptPhase, Inv, TypeOK, Record,
           Launches
  <2>4. /\ sup[p].pc = "idle" /\ EngineTame /\ Aside /\ record' = record
        /\ record \in Record
    BY <1>1, EngineUntouched, AsideOf
       DEF ConnectToRecord, Connecting, At, world, Inv, TypeOK
  <2> HIDE DEF s
  <2> QED
    BY <2>1, <2>2, <2>3, <2>4, LocalStep DEF Aside, ColdPhase
<1>2. CASE ClaimStart(p)
  BY <1>2, TakeClaimStep, StartAssumption
     DEF ClaimStart, Connecting, At, Section, Claimable, NoClaim, Inv, TypeOK,
         EngineFollowsClaim, Running
<1>3. CASE FindPendingStart(p)
  <2>1. PICK pc \in {"unbound", "resume"} :
          /\ WriteClaim(p, claim, pc)
          /\ pc = "unbound" => claim.stage = "prepared"
          /\ pc = "resume" => claim.stage = "bound"
    BY <1>3 DEF FindPendingStart
  <2>2. /\ claim \in Claim /\ claim.stage # "none" /\ ShapeOf(claim)
        /\ starter = NoOne /\ lock = NoOne /\ sup[p].pc = "idle" /\ noted' \in Owner
        /\ UNCHANGED <<starter, record, lock, engine, launches, late, losses>>
    BY <1>3, <2>1 DEF FindPendingStart, Connecting, Section, At, world, Inv,
       TypeOK, ShapeOf
  <2>3. CopyOK([[sup[p] EXCEPT !.claim = claim] EXCEPT !.pc = pc])
    BY <2>1, <2>2 DEF CopyOK, BoundPhase, AttemptPhase, Supervisor
  <2> QED
    BY <2>1, <2>2, <2>3, ClaimWriteStep DEF Phases, Recovering, ColdPhase
<1>4. CASE ReplaceDeadStart(p)
  BY <1>4, TakeClaimStep
     DEF ReplaceDeadStart, Connecting, At, Section, Alive, Running
<1>5. CASE ReplaceUnboundStart(p)
  <2>1. claim = sup[p].claim /\ sup[p].claim.stage = "prepared"
    BY <1>5 DEF ReplaceUnboundStart, At, Verified, CopyOK
  <2>2. starter \in {p, NoOne}
    BY <2>1 DEF Verified
  <2> QED
    BY <1>5, <2>1, <2>2, TakeClaimStep
       DEF ReplaceUnboundStart, At, Section, Inv, EngineFollowsClaim, Running
<1>6. CASE PrepareStartClaim(p)
  <2> DEFINE c == [claim EXCEPT !.stage = "prepared"]
  <2>1. claim = sup[p].claim /\ claim.stage = "claimed" /\ sup[p].pc = "prepare"
    BY <1>6 DEF PrepareStartClaim, At, Verified, CopyOK
  <2>2. c \in Claim /\ c.stage = "prepared" /\ c.launch = claim.launch /\ ShapeOf(c)
    BY <2>1 DEF Inv, TypeOK, Claim, ShapeOf
  <2>3. CopyOK([[sup[p] EXCEPT !.claim = c] EXCEPT !.pc = "spawn"])
    BY <2>2 DEF CopyOK, BoundPhase, AttemptPhase, Supervisor
  <2>4. /\ lock = NoOne /\ noted' \in Owner /\ WriteClaim(p, c, "spawn")
        /\ UNCHANGED <<starter, record, lock, engine, launches, late, losses>>
    BY <1>6 DEF PrepareStartClaim, Section, world, Inv, TypeOK
  <2> HIDE DEF c
  <2> QED
    BY <2>1, <2>2, <2>3, <2>4, ClaimWriteStep
       DEF Phases, Starting, ColdPhase, ColdStarting
<1>7. CASE AbortUnspawnedStart(p)
  <2>1. claim = sup[p].claim /\ sup[p].claim.stage \in {"claimed", "prepared"}
    BY <1>7 DEF AbortUnspawnedStart, At, Verified, CopyOK
  <2>2. starter \in {p, NoOne}
    BY <2>1 DEF Verified
  <2>3. EngineTame /\ engine' = engine
    BY <1>7, EngineUntouched DEF AbortUnspawnedStart, world
  <2> QED
    BY <1>7, <2>1, <2>2, <2>3, DropClaimStep
       DEF AbortUnspawnedStart, At, Section, world, Inv, EngineFollowsClaim, Running
<1>8. CASE Spawn(p)
  <2> DEFINE l == sup[p].claim.launch
  <2>1. sup[p].pc = "spawn" /\ Goto(p, "bind") /\ Process(l, "gated") /\ l \in 0 .. launches
    BY <1>8 DEF Spawn, At
  <2>2. EngineTame
    BY <2>1, EngineDies
  <2>3. CopyOK([sup[p] EXCEPT !.pc = "bind"])
    BY <2>1 DEF CopyOK, BoundPhase, AttemptPhase, Supervisor
  <2>4. Aside /\ record' = record /\ record' \in Record
    BY <1>8, AsideOf DEF Spawn, Inv, TypeOK
  <2> QED
    BY <2>1, <2>2, <2>3, <2>4, GotoStep DEF Phases, Starting, ColdPhase, ColdStarting
<1>9. CASE BindStartClaimProcess(p)
  <2> DEFINE c == [claim EXCEPT !.stage = "bound"]
  <2>1. claim = sup[p].claim /\ claim.stage = "prepared" /\ sup[p].pc = "bind"
    BY <1>9 DEF BindStartClaimProcess, At, Verified, CopyOK
  <2>2. c \in Claim /\ c.stage = "bound" /\ c.launch = claim.launch /\ ShapeOf(c)
    BY <2>1 DEF Inv, TypeOK, Claim, ShapeOf
  <2>3. CopyOK([[sup[p] EXCEPT !.claim = c] EXCEPT !.pc = "deliver"])
    BY <2>2 DEF CopyOK, BoundPhase, AttemptPhase, Supervisor
  <2>4. /\ lock = NoOne /\ noted' \in Owner /\ WriteClaim(p, c, "deliver")
        /\ UNCHANGED <<starter, record, lock, engine, launches, late, losses>>
    BY <1>9 DEF BindStartClaimProcess, Section, world, Inv, TypeOK
  <2> HIDE DEF c
  <2> QED
    BY <2>1, <2>2, <2>3, <2>4, ClaimWriteStep
       DEF Phases, Starting, ColdPhase, ColdStarting
<1>10. CASE DeliverBootstrap(p)
  BY <1>10, DeliverStep
<1>11. CASE SpawnFails(p)
  <2> DEFINE l == sup[p].claim.launch
  <2>1. starter = p /\ claim = sup[p].claim /\ sup[p].pc # "release" /\ lock = NoOne
    BY <1>11 DEF SpawnFails, Section, Inv, ColdStarterOwnsClaim, ColdStarting
  <2>2. \/ engine' = engine /\ sup[p].claim.stage = "prepared"
        \/ Process(l, "dead")
    BY <1>11 DEF SpawnFails, At, CopyOK
  <2>3. EngineTame
    BY <2>2, EngineUntouched, EngineDies
  <2>4. \A k \in Launches : k = claim.launch => ~Running(k)'
    BY <2>1, <2>2 DEF Inv, TypeOK, EngineFollowsClaim, Running, Process, Engine
  <2>5. CASE RemoveClaim
    BY <1>11, <2>1, <2>3, <2>4, <2>5, DropClaimStep DEF SpawnFails
  <2>6. CASE UNCHANGED <<claim, starter>>
    <3>1. Aside /\ record' = record /\ record' \in Record /\ Leave(p)
      BY <1>11, <2>6, AsideOf DEF SpawnFails, Inv, TypeOK
    <3> QED
      BY <2>1, <2>3, <3>1, LeaveStep
  <2> QED
    BY <1>11, <2>5, <2>6 DEF SpawnFails
<1>12. CASE ResumePendingStart(p)
  BY <1>12, BoundMove, EngineUntouched, AsideOf
     DEF ResumePendingStart, At, world, CopyOK, BoundPhase, AttemptPhase
<1>13. CASE Handshake(p)
  <2> DEFINE pc == IF sup[p].claim.attempt = 0 THEN "mark" ELSE "renew"
  <2>1. /\ sup[p].pc = "handshake" /\ sup[p].claim.stage = "bound"
        /\ EngineTame /\ Aside /\ UNCHANGED record /\ Goto(p, pc)
    BY <1>13, EngineUntouched, AsideOf DEF Handshake, At, world, CopyOK, BoundPhase
  <2>2. pc \in AttemptPhase => sup[p].claim.attempt >= 1
    BY StartAssumption DEF AttemptPhase, Supervisor, Claim, Owner
  <2>3. pc \in BoundPhase \ {"deliver", "release"}
    BY DEF BoundPhase
  <2> HIDE DEF pc
  <2> QED
    BY <2>1, <2>2, <2>3, BoundMove
<1>14. CASE FindDead(p)
  BY <1>14, BoundMove, EngineUntouched, AsideOf
     DEF FindDead, At, world, CopyOK, BoundPhase, AttemptPhase
<1>15. CASE RecoverStartupDeath(p)
  <2>1. claim = sup[p].claim /\ sup[p].claim.stage = "bound"
    BY <1>15 DEF RecoverStartupDeath, At, Verified, CopyOK, BoundPhase
  <2>2. starter \in {p, NoOne}
    BY <2>1 DEF Verified
  <2>3. EngineTame /\ engine' = engine
    BY <1>15, EngineUntouched DEF RecoverStartupDeath, world
  <2> QED
    BY <1>15, <2>1, <2>2, <2>3, DropClaimStep
       DEF RecoverStartupDeath, At, Section, world, Dead, Running
<1> QED
  BY <1>1, <1>2, <1>3, <1>4, <1>5, <1>6, <1>7, <1>8, <1>9, <1>10, <1>11,
     <1>12, <1>13, <1>14, <1>15 DEF Start

\* A mark or a rollback rewrites the attempt of a bound claim.
LEMMA AttemptStep ==
  ASSUME Inv, NEW p \in Supervisors, NEW n \in Owner \ {0},
         NEW pc \in AttemptPhase \ {"release"},
         WriteClaim(p, [claim EXCEPT !.attempt = n], pc),
         claim = sup[p].claim, claim.stage = "bound",
         sup[p].pc # "release", lock = NoOne, noted' \in Owner,
         UNCHANGED <<starter, record, lock, engine, launches, late, losses>>
  PROVE  Inv'
<1> DEFINE c == [claim EXCEPT !.attempt = n]
<1>1. c \in Claim /\ c.stage = "bound" /\ c.launch = claim.launch /\ c.attempt = n
  BY DEF Inv, TypeOK, Claim
<1>2. n \in Nat /\ n >= 1
  BY StartAssumption DEF Owner
<1>3. ShapeOf(c)
  BY <1>1 DEF Inv, TypeOK, ShapeOf
<1> HIDE DEF c
<1>4. CopyOK([[sup[p] EXCEPT !.claim = c] EXCEPT !.pc = pc])
  BY <1>1, <1>2, <1>3, KnownClaim DEF CopyOK, BoundPhase, AttemptPhase, Supervisor
<1>5. pc \in Phases /\ pc \notin ColdPhase
  BY DEF Phases, Starting, Recovering, ColdPhase, AttemptPhase
<1>6. WriteClaim(p, c, pc)
  BY DEF c
<1> QED
  BY <1>1, <1>3, <1>4, <1>5, <1>6, ClaimWriteStep

LEMMA AcquireKeepsInv ==
  ASSUME Inv, NEW p \in Supervisors, Acquire(p)
  PROVE  Inv'
<1> USE KnownClaim
<1>1. CASE MarkOwnerAttempt(p)
  <2> DEFINE n == claim.attempt + 1
             pc == IF At(p, "mark") THEN "initial" ELSE "acquire"
  <2>1. claim = sup[p].claim /\ claim.stage = "bound" /\ sup[p].pc # "release"
    BY <1>1 DEF MarkOwnerAttempt, At, Verified, CopyOK, BoundPhase
  <2>2. n \in Owner \ {0}
    BY <1>1, StartAssumption DEF MarkOwnerAttempt, Inv, TypeOK, Claim, Owner
  <2>3. WriteClaim(p, [claim EXCEPT !.attempt = n], pc)
    BY <1>1 DEF MarkOwnerAttempt
  <2>4. claim'.attempt = n
    BY <2>3 DEF WriteClaim, Inv, TypeOK, Claim
  <2>5. /\ lock = NoOne /\ noted' \in Owner
        /\ UNCHANGED <<starter, record, lock, engine, launches, late, losses>>
    BY <1>1, <2>2, <2>4 DEF MarkOwnerAttempt, Section, Inv, TypeOK
  <2>6. pc \in AttemptPhase \ {"release"}
    BY DEF AttemptPhase
  <2> HIDE DEF n, pc
  <2> QED
    BY <2>1, <2>2, <2>3, <2>5, <2>6, AttemptStep
<1>2. CASE RollbackOwnerAttempt(p)
  <2> DEFINE n == claim.attempt - 1
             pc == IF At(p, "unwind") THEN "commit" ELSE "retry"
  <2>1. claim = sup[p].claim /\ claim.stage = "bound" /\ sup[p].pc # "release"
    BY <1>2 DEF RollbackOwnerAttempt, At, Verified, CopyOK, BoundPhase
  <2>2. n \in Owner \ {0}
    BY <1>2, StartAssumption DEF RollbackOwnerAttempt, Inv, TypeOK, Claim, Owner
  <2>3. WriteClaim(p, [claim EXCEPT !.attempt = n], pc)
    BY <1>2 DEF RollbackOwnerAttempt
  <2>4. /\ lock = NoOne /\ noted' \in Owner
        /\ UNCHANGED <<starter, record, lock, engine, launches, late, losses>>
    BY <1>2 DEF RollbackOwnerAttempt, Section, world, Inv, TypeOK
  <2>5. pc \in AttemptPhase \ {"release"}
    BY DEF AttemptPhase
  <2> HIDE DEF n, pc
  <2> QED
    BY <2>1, <2>2, <2>3, <2>4, <2>5, AttemptStep
<1>3. CASE RenewPending(p)
  <2>1. PICK pc \in {"commit", "advance", "predecessor", "unwind", "reacquire"} :
          Goto(p, pc)
    BY <1>3 DEF RenewPending
  <2>2. /\ sup[p].pc # "release" /\ sup[p].claim.stage = "bound"
        /\ sup[p].claim.attempt >= 1
    BY <1>3 DEF RenewPending, CopyOK, BoundPhase, AttemptPhase
  <2>3. EngineTame /\ Aside /\ UNCHANGED record
    BY <1>3, EngineUntouched, AsideOf DEF RenewPending, world
  <2>4. pc \in BoundPhase \ {"deliver", "release"}
    BY DEF BoundPhase
  <2> QED
    BY <2>1, <2>2, <2>3, <2>4, BoundMove
<1>4. CASE AcquirePending(p)
  <2>1. PICK pc \in {"commit", "undo", "confirm"} : Goto(p, pc)
    BY <1>4 DEF AcquirePending
  <2>2. /\ sup[p].pc # "release" /\ sup[p].claim.stage = "bound"
        /\ sup[p].claim.attempt >= 1
    BY <1>4 DEF AcquirePending, CopyOK, BoundPhase, AttemptPhase
  <2>3. EngineTame
    BY <1>4, EngineUntouched, OwnerGranted DEF AcquirePending, Serving
  <2>4. Aside /\ UNCHANGED record
    BY <1>4, AsideOf DEF AcquirePending
  <2>5. pc \in BoundPhase \ {"deliver", "release"}
    BY DEF BoundPhase
  <2> QED
    BY <2>1, <2>2, <2>3, <2>4, <2>5, BoundMove
<1>5. CASE Commit(p)
  BY <1>5, CommitStep
<1>6. CASE ReleaseStartClaim(p)
  BY <1>6, ReleaseStep
<1>7. CASE ReleaseFails(p)
  BY <1>7, AbandonStep DEF ReleaseFails
<1>8. CASE Register(p)
  <2>1. sup[p].pc # "release" /\ Goto(p, "ready") /\ record' = record /\ record \in Record
    BY <1>8 DEF Register, At, Inv, TypeOK
  <2>2. EngineTame /\ Aside
    BY <1>8, EngineUntouched, AsideOf DEF Register, world
  <2> QED
    BY <2>1, <2>2, QuietMove
<1>9. CASE RecoverCommittedDeath(p)
  <2>1. /\ sup[p].pc # "release" /\ Leave(p) /\ record' = NoRecord /\ lock = NoOne
        /\ \A l \in Launches : l = record.launch => ~Running(l)
    BY <1>9 DEF RecoverCommittedDeath, At, Section, Dead, Running
  <2>2. EngineTame /\ Aside
    BY <1>9, EngineUntouched, AsideOf DEF RecoverCommittedDeath, world
  <2>3. NoRecord \in Record
    BY StartAssumption DEF Record, NoRecord, Owner
  <2> QED
    BY <2>1, <2>2, <2>3, LeaveStep
<1> QED
  BY <1>1, <1>2, <1>3, <1>4, <1>5, <1>6, <1>7, <1>8, <1>9 DEF Acquire

LEMMA AdoptKeepsInv ==
  ASSUME Inv, NEW p \in Supervisors, Adopt(p)
  PROVE  Inv'
<1> USE KnownClaim
<1>1. CASE AdoptHandshake(p)
  <2>1. /\ sup[p].pc = "adopt" /\ Goto(p, "adopt-renew")
        /\ record' = record /\ record \in Record
    BY <1>1 DEF AdoptHandshake, At, Inv, TypeOK
  <2>2. EngineTame /\ Aside
    BY <1>1, EngineUntouched, AsideOf DEF AdoptHandshake, world
  <2>3. CopyOK([sup[p] EXCEPT !.pc = "adopt-renew"])
    BY <2>1 DEF CopyOK, BoundPhase, AttemptPhase, Supervisor
  <2> QED
    BY <2>1, <2>2, <2>3, GotoStep DEF Phases, Adopting, ColdPhase
<1>2. CASE RetireDeadAuthority(p)
  <2>1. /\ sup[p].pc # "release" /\ Leave(p) /\ record' = NoRecord /\ lock = NoOne
        /\ \A l \in Launches : l = record.launch => ~Running(l)
    BY <1>2 DEF RetireDeadAuthority, At, Section, Dead, Running
  <2>2. EngineTame /\ Aside
    BY <1>2, EngineUntouched, AsideOf DEF RetireDeadAuthority, world
  <2>3. NoRecord \in Record
    BY StartAssumption DEF Record, NoRecord, Owner
  <2> QED
    BY <2>1, <2>2, <2>3, LeaveStep
<1>3. CASE AdoptRenew(p)
  <2>1. PICK pc \in {"join", "adopt-acquire"} : Goto(p, pc)
    BY <1>3 DEF AdoptRenew
  <2>2. sup[p].pc # "release" /\ record' = record /\ record \in Record
    BY <1>3 DEF AdoptRenew, At, Inv, TypeOK
  <2>3. EngineTame /\ Aside
    BY <1>3, EngineUntouched, AsideOf DEF AdoptRenew, world
  <2>4. CopyOK([sup[p] EXCEPT !.pc = pc])
    BY <1>3 DEF AdoptRenew, At, CopyOK, BoundPhase, AttemptPhase, Supervisor
  <2> QED
    BY <2>1, <2>2, <2>3, <2>4, GotoStep DEF Phases, Adopting, ColdPhase
<1>4. CASE AdoptAcquire(p)
  <2> DEFINE r == sup[p].record
  <2>1. /\ sup[p].pc = "adopt-acquire" /\ Goto(p, "rotate")
        /\ record' = record /\ record \in Record
        /\ Serving(r.launch) /\ Acquired(r.launch)
    BY <1>4 DEF AdoptAcquire, At, Inv, TypeOK
  <2>2. EngineTame
    BY <2>1, OwnerGranted DEF Serving
  <2>3. Aside
    BY <1>4, AsideOf DEF AdoptAcquire
  <2>4. r.generation < MaxOwner
    BY <1>4 DEF AdoptAcquire, Acquisition, Acquired
  <2>5. CopyOK([sup[p] EXCEPT !.pc = "rotate"])
    BY <2>4 DEF CopyOK, BoundPhase, AttemptPhase, Supervisor
  <2> QED
    BY <2>1, <2>2, <2>3, <2>5, GotoStep DEF Phases, Adopting, ColdPhase
<1>5. CASE CommitRotation(p)
  <2> DEFINE r == [record EXCEPT !.generation = @ + 1]
             s == [[sup[p] EXCEPT !.pc = "join"] EXCEPT !.record = r]
  <2>1. sup[p].pc = "rotate" /\ record = sup[p].record /\ record.generation < MaxOwner
    BY <1>5 DEF CommitRotation, At, CopyOK
  <2>2. r \in Record /\ r.launch = record.launch /\ record' = r
    BY <1>5, <2>1, StartAssumption DEF CommitRotation, Inv, TypeOK, Record, Owner
  <2> HIDE DEF r
  <2>3. s \in Supervisor /\ s.claim = sup[p].claim /\ s.pc = "join"
    BY <2>2 DEF Inv, TypeOK, Supervisor, Adopting
  <2>4. sup' = [sup EXCEPT ![p] = s]
    BY <1>5, <2>2 DEF CommitRotation, Inv, TypeOK, Supervisor
  <2>5. CopyOK(s)
    BY <2>3 DEF CopyOK, BoundPhase, AttemptPhase
  <2>6. EngineTame /\ Aside
    BY <1>5, EngineUntouched, AsideOf DEF CommitRotation, world
  <2> HIDE DEF s
  <2> QED
    BY <2>1, <2>2, <2>3, <2>4, <2>5, <2>6, LocalStep DEF Aside, ColdPhase
<1> QED
  BY <1>1, <1>2, <1>3, <1>4, <1>5 DEF Adopt

LEMMA RestartKeepsInv ==
  ASSUME Inv, NEW p \in Supervisors, Restart(p)
  PROVE  Inv'
<1> USE KnownClaim
<1>1. CASE GiveUp(p)
  <2>1. Leave(p) /\ sup[p].pc # "release" /\ record' = record /\ record \in Record
    BY <1>1 DEF GiveUp, Inv, TypeOK
  <2>2. EngineTame /\ Aside
    BY <1>1, EngineUntouched, AsideOf DEF GiveUp, world
  <2> QED
    BY <2>1, <2>2, LeaveStep
<1>2. CASE StopEngine(p)
  <2> DEFINE l == sup[p].record.launch
  <2>1. /\ sup[p].pc # "release" /\ Goto(p, "stopped")
        /\ record' = record /\ record \in Record
        /\ Serving(l) /\ Process(l, "dead")
    BY <1>2 DEF StopEngine, At, Inv, TypeOK
  <2> DEFINE e == [engine[l] EXCEPT !.process = "dead"]
  <2>2. engine' = [engine EXCEPT ![l] = e]
    BY <2>1 DEF Process
  <2>3. l \in Launches => e \in Engine /\ e.process = "dead" /\ ~(l > launches)
    BY <2>1 DEF Inv, TypeOK, Engine, EngineFollowsClaim, Serving
  <2> HIDE DEF e
  <2>4. EngineTame
    BY <2>2, <2>3, EngineSet
  <2>5. Aside
    BY <1>2, AsideOf DEF StopEngine
  <2> QED
    BY <2>1, <2>4, <2>5, QuietMove
<1>3. CASE RetireObservedExit(p)
  <2>1. /\ sup[p].pc # "release" /\ Goto(p, "reclaim") /\ record' = NoRecord
        /\ lock = NoOne /\ \A l \in Launches : l = record.launch => ~Running(l)
    BY <1>3 DEF RetireObservedExit, At, Section, Dead, Running
  <2>2. EngineTame /\ Aside
    BY <1>3, EngineUntouched, AsideOf DEF RetireObservedExit, world
  <2>3. NoRecord \in Record
    BY StartAssumption DEF Record, NoRecord, Owner
  <2> QED
    BY <2>1, <2>2, <2>3, QuietMove
<1>4. CASE RestartClaim(p)
  BY <1>4, TakeClaimStep, StartAssumption
     DEF RestartClaim, At, Section, Claimable, NoClaim, Inv, TypeOK,
         EngineFollowsClaim, Running
<1> QED
  BY <1>1, <1>2, <1>3, <1>4 DEF Restart

LEMMA EnvironmentKeepsInv ==
  ASSUME Inv, Environment
  PROVE  Inv'
<1>1. ASSUME NEW p \in Supervisors, LoseReply(p) PROVE Inv'
  <2>1. engine' = engine \/ \E k : Serving(k) /\ Acquired(k)
    BY <1>1 DEF LoseReply
  <2>2. EngineTame
    BY <2>1, EngineUntouched, OwnerGranted DEF Serving
  <2>3. /\ sup[p].pc # "release" /\ Leave(p) /\ record' = record /\ record \in Record
        /\ losses' \in 0 .. MaxLosses
        /\ UNCHANGED <<claim, starter, lock, launches, noted>>
    BY <1>1, StartAssumption DEF LoseReply, At, Inv, TypeOK
  <2>4. late' \subseteq [launch : Launches, expected : Owner]
    <3> DEFINE l == IF At(p, "adopt-acquire") THEN sup[p].record.launch
                    ELSE sup[p].claim.launch
               x == IF At(p, "adopt-acquire") THEN sup[p].record.generation
                    ELSE sup[p].claim.attempt - 1
    <3>1. late' = late \/ late' = late \union {[launch |-> l, expected |-> x]}
      BY <1>1 DEF LoseReply
    <3>2. sup[p].pc # "adopt-acquire" =>
            sup[p].claim.stage = "bound" /\ sup[p].claim.attempt >= 1
      BY <1>1, KnownClaim DEF LoseReply, At, CopyOK, BoundPhase, AttemptPhase
    <3>3. x \in Owner
      BY <3>2, KnownClaim, StartAssumption DEF At, Supervisor, Claim, Record, Owner
    <3>4. l \in Launches
      BY <3>2, <1>1, KnownClaim, StartAssumption
         DEF At, Supervisor, Claim, Record, Launches, CopyOK, ShapeOf, LoseReply
    <3> HIDE DEF l, x
    <3> QED
      BY <3>1, <3>3, <3>4 DEF Inv, TypeOK
  <2> QED
    BY <2>2, <2>3, <2>4, LeaveStep DEF Aside
<1>2. ASSUME NEW p \in Supervisors, Crash(p) PROVE Inv'
  BY <1>2, AbandonStep DEF Crash
<1>3. ASSUME NEW l \in Launches, EngineServes(l) PROVE Inv'
  <2> DEFINE e == [engine[l] EXCEPT !.process = "serving"]
  <2>1. engine' = [engine EXCEPT ![l] = e]
    BY <1>3 DEF EngineServes, Process
  <2>2. e \in Engine /\ e.process = "serving" /\ Running(l) /\ ~(l > launches)
    BY <1>3 DEF EngineServes, Inv, TypeOK, Engine, EngineFollowsClaim, Running
  <2> HIDE DEF e
  <2>3. EngineTame
    BY <2>1, <2>2, EngineSet
  <2> QED
    BY <1>3, <2>3, EngineStep DEF EngineServes
<1>4. ASSUME NEW l \in Launches, EngineExits(l) PROVE Inv'
  <2> DEFINE e == [engine[l] EXCEPT !.process = "dead"]
  <2>1. engine' = [engine EXCEPT ![l] = e]
    BY <1>4 DEF EngineExits, Process
  <2>2. e \in Engine /\ e.process = "dead" /\ ~(l > launches)
    BY <1>4 DEF EngineExits, Alive, Inv, TypeOK, Engine, EngineFollowsClaim
  <2> HIDE DEF e
  <2>3. EngineTame
    BY <2>1, <2>2, EngineSet
  <2> QED
    BY <1>4, <2>3, EngineStep DEF EngineExits
<1>5. ASSUME NEW l \in Launches, OwnerLeaseLapses(l) PROVE Inv'
  <2> DEFINE e == [engine[l] EXCEPT !.lapsed = TRUE]
  <2>1. engine' = [engine EXCEPT ![l] = e]
    BY <1>5 DEF OwnerLeaseLapses
  <2>2. e \in Engine /\ e.process = engine[l].process /\ Running(l) /\ ~(l > launches)
    BY <1>5 DEF OwnerLeaseLapses, Serving, Inv, TypeOK, Engine, EngineFollowsClaim, Running
  <2> HIDE DEF e
  <2>3. EngineTame
    BY <2>1, <2>2, EngineSet DEF Running
  <2> QED
    BY <1>5, <2>3, EngineStep DEF OwnerLeaseLapses
<1>6. ASSUME NEW r \in late, LateAcquisition(r) PROVE Inv'
  <2>1. EngineTame
    BY <1>6, EngineUntouched, OwnerGranted DEF LateAcquisition, Serving
  <2> QED
    BY <1>6, <2>1, EngineStep DEF LateAcquisition
<1> QED
  BY <1>1, <1>2, <1>3, <1>4, <1>5, <1>6 DEF Environment

(***************************************************************************)
(* The inductive invariant and what follows from it.                       *)
(***************************************************************************)
LEMMA InitInv == Init => Inv
<1> SUFFICES ASSUME Init PROVE Inv
  OBVIOUS
<1>1. /\ claim = NoClaim /\ starter = NoOne /\ record = NoRecord /\ lock = NoOne
      /\ engine = [l \in Launches |->
                     [process |-> "absent", owner |-> 0, lapsed |-> FALSE]]
      /\ sup = [p \in Supervisors |->
                  [pc |-> "idle", claim |-> NoClaim, record |-> NoRecord]]
      /\ launches = 0 /\ late = {} /\ losses = 0 /\ noted = 0
  BY DEF Init
<1>2. NoClaim \in Claim /\ NoRecord \in Record /\ 0 \in Owner
  BY StartAssumption DEF Claim, NoClaim, Record, NoRecord, Owner
<1>3. \A p \in Supervisors : /\ sup[p] \in Supervisor /\ sup[p].pc = "idle"
                             /\ sup[p].claim = NoClaim
  BY <1>1, <1>2 DEF Supervisor, Owning
<1>4. \A l \in Launches : engine[l] \in Engine /\ engine[l].process = "absent"
  BY <1>1, <1>2 DEF Engine
<1>5. TypeOK
  BY <1>1, <1>2, <1>3, <1>4, StartAssumption DEF TypeOK, NoClaim
<1>6. CopyShape
  BY <1>3 DEF CopyShape, CopyOK, ShapeOf, NoClaim, BoundPhase, AttemptPhase
<1>7. ColdStarterOwnsClaim /\ ReleaseHoldsLock
  BY <1>1, <1>3, StartAssumption DEF ColdStarterOwnsClaim, ColdStarting, ReleaseHoldsLock
<1>8. ClaimShared
  BY <1>1, <1>3 DEF ClaimShared, NoClaim
<1>9. EngineFollowsClaim /\ NoEngineForgotten
  BY <1>1, <1>4 DEF EngineFollowsClaim, NoEngineForgotten, NoClaim, Launches
<1> QED
  BY <1>5, <1>6, <1>7, <1>8, <1>9 DEF Inv

LEMMA NextKeepsInv == Inv /\ [Next]_vars => Inv'
<1> SUFFICES ASSUME Inv, [Next]_vars PROVE Inv'
  OBVIOUS
<1>1. CASE Environment
  BY <1>1, EnvironmentKeepsInv
<1>2. ASSUME NEW p \in Supervisors, Step(p) PROVE Inv'
  BY <1>2, StartKeepsInv, AcquireKeepsInv, AdoptKeepsInv, RestartKeepsInv DEF Step
<1>3. CASE UNCHANGED vars
  BY <1>3, EngineUntouched, EngineStep DEF vars
<1> QED
  BY <1>1, <1>2, <1>3 DEF Next

LEMMA Invariance == Spec => []Inv
BY InitInv, NextKeepsInv, PTL DEF Spec

\* Every reachable state is well formed: in particular the claim has the shape
\* that assertStartClaim demands of the file, in every interleaving of starts,
\* recoveries, adoptions, stops and crashes.
THEOREM TypeCorrect == Spec => []TypeOK
<1>1. Inv => TypeOK
  BY DEF Inv
<1> QED
  BY <1>1, Invariance, PTL

\* However many supervisors connect, crash and restart, at most one is between
\* its claim and a started engine (claimStart, the verifications before every
\* later section of coldStart).
THEOREM ColdStartExclusive == Spec => []OneColdStart
<1>1. Inv => OneColdStart
  BY DEF Inv, ColdStarterOwnsClaim, OneColdStart
<1> QED
  BY <1>1, Invariance, PTL

\* An engine that has its bootstrap credential is named by the claim or the
\* record until it is dead, whatever crashes.
THEOREM EnginesKept == Spec => []NoEngineForgotten
<1>1. Inv => NoEngineForgotten
  BY DEF Inv
<1> QED
  BY <1>1, Invariance, PTL

\* The steps that write or remove the record.
RecordWrite(p) ==
  \/ Commit(p) \/ CommitRotation(p)
  \/ RecoverCommittedDeath(p) \/ RetireDeadAuthority(p) \/ RetireObservedExit(p)

LEMMA RecordWriters ==
  ASSUME Next, \A p \in Supervisors : ~RecordWrite(p)
  PROVE  record' = record
<1>1. ASSUME NEW p \in Supervisors, Start(p) PROVE record' = record
  BY <1>1 DEF Start, ConnectToRecord, ClaimStart, FindPendingStart, ReplaceDeadStart,
     ReplaceUnboundStart, TakeClaim, PrepareStartClaim, AbortUnspawnedStart, Spawn,
     BindStartClaimProcess, DeliverBootstrap, SpawnFails, ResumePendingStart,
     Handshake, FindDead, RecoverStartupDeath
<1>2. ASSUME NEW p \in Supervisors, Acquire(p) PROVE record' = record
  BY <1>2 DEF RecordWrite, Acquire, MarkOwnerAttempt, RollbackOwnerAttempt,
     RenewPending, AcquirePending, ReleaseStartClaim, ReleaseFails, Register
<1>3. ASSUME NEW p \in Supervisors, Adopt(p) PROVE record' = record
  BY <1>3 DEF RecordWrite, Adopt, AdoptHandshake, AdoptRenew, AdoptAcquire
<1>4. ASSUME NEW p \in Supervisors, Restart(p) PROVE record' = record
  BY <1>4 DEF RecordWrite, Restart, GiveUp, StopEngine, RestartClaim, TakeClaim
<1>5. ASSUME Environment PROVE record' = record
  BY <1>5 DEF Environment, LoseReply, Crash, EngineServes, EngineExits,
     OwnerLeaseLapses, LateAcquisition
<1> QED
  BY <1>1, <1>2, <1>3, <1>4, <1>5 DEF Next, Step

\* The record of an engine that is not dead is neither removed nor replaced,
\* and its owner generation never decreases (commit against the expected
\* record, retirement after a confirmed death).
THEOREM RecordStays == Spec => RecordKept
<1> DEFINE Kept == record # NoRecord /\ ~Dead(record.launch) =>
                     /\ record'.launch = record.launch
                     /\ record'.generation >= record.generation
<1>1. Inv /\ [Next]_vars => [Kept]_vars
  <2> SUFFICES ASSUME Inv, Next, record # NoRecord, ~Dead(record.launch)
               PROVE  /\ record'.launch = record.launch
                      /\ record'.generation >= record.generation
    OBVIOUS
  <2>1. record \in Record /\ record.generation \in Nat
    BY StartAssumption DEF Inv, TypeOK, Record, Owner
  <2>2. CASE record' = record
    BY <2>1, <2>2
  <2>3. ASSUME NEW p \in Supervisors, RecordWrite(p)
        PROVE  record' = [record EXCEPT !.generation = @ + 1]
    BY <2>3 DEF RecordWrite, Commit, CommitRotation, RecoverCommittedDeath,
       RetireDeadAuthority, RetireObservedExit
  <2>4. CASE \E p \in Supervisors : RecordWrite(p)
    BY <2>1, <2>3, <2>4 DEF Record
  <2> QED
    BY <2>2, <2>4, RecordWriters
<1>2. Spec => [][Kept]_vars
  BY <1>1, Invariance, PTL DEF Spec
<1> QED
  BY <1>2 DEF RecordKept

=============================================================================
