------------------------ MODULE OwnedStartOwnerProofs ------------------------
(***************************************************************************)
(* Proofs about the owner generations of OwnedStart, for any set of        *)
(* supervisors and any bounds: what the claim and the record say of them.  *)
(*                                                                         *)
(* The claim counts the attempts to acquire the owner lease, and keeps the *)
(* count through the deaths of the processes that made them; every process *)
(* that still acts, and every request still on its way, acts on a count    *)
(* that the claim has had.                                                 *)
(***************************************************************************)
EXTENDS OwnedStartProofs

\* Only an engine that has served has an owner.
OwnerOfServing ==
  \A l \in Launches :
    engine[l].process \in {"absent", "gated", "started"} => engine[l].owner = 0

\* A launch that is not spawned yet has no process.
Unspawned(s, e) ==
  s.pc \in {"prepare", "spawn"} => e[s.claim.launch].process = "absent"

SpawnsOnce == \A p \in Supervisors : Unspawned(sup[p], engine)

\* The claim never counts more than was noted, and no copy of it either.
CopiesNoted ==
  /\ claim.attempt <= noted
  /\ \A p \in Supervisors :
       claim.launch # 0 /\ sup[p].claim.launch = claim.launch =>
         sup[p].claim.attempt <= noted

\* Who has read a record of a launch acts on the record or on a dead engine.
RecordCopies ==
  \A p \in Supervisors : \A l \in Launches :
    sup[p].record.launch = l => l = record.launch \/ Dead(l)

\* An acquisition on its way expects what was attempted, or is of the record.
Asked(r) ==
  /\ r.launch <= launches
  /\ r.launch = claim.launch =>
       r.expected + 1 <= noted \/ r.launch = record.launch \/ Dead(r.launch)

LateNoted == \A r \in late : Asked(r)

\* What a process is about to commit or to publish has been granted.
GrantedTo(s, e) ==
  /\ s.pc = "commit" => s.claim.attempt <= e[s.claim.launch].owner
  /\ s.pc = "unwind" => s.claim.attempt <= e[s.claim.launch].owner + 1
  /\ s.pc = "rotate" => /\ s.record.launch \in Launches
                        /\ s.record.generation < e[s.record.launch].owner

Granted == \A p \in Supervisors : GrantedTo(sup[p], engine)

Own ==
  /\ OwnerOfServing
  /\ SpawnsOnce
  /\ CopiesNoted
  /\ RecordCopies
  /\ LateNoted
  /\ Granted
  /\ OwnerWasAttempted
  /\ RecordNotAhead

(***************************************************************************)
(* What a step does to the engines, the claim, the record and the copies.  *)
(***************************************************************************)
Early == {"absent", "gated", "started"}

\* An owner is never taken back, and only a serving engine grants one.
Grows(l) ==
  /\ engine[l].owner <= engine'[l].owner
  /\ engine'[l].owner # engine[l].owner => Serving(l)
  /\ Dead(l) => engine'[l].process = "dead"
  /\ engine'[l].process \in Early => engine[l].process \in Early

\* Whatever owner a pending start is granted was attempted.
GrantNoted(l) ==
  engine'[l].owner # engine[l].owner =>
    l # claim.launch \/ l = record.launch \/ engine'[l].owner <= noted

\* A process is spawned by who leaves the phase before it.
Spawning ==
  \E p \in Supervisors : ColdStarting(p) /\ sup'[p].pc \notin {"prepare", "spawn"}

EngineMoves ==
  \A l \in Launches :
    /\ Grows(l)
    /\ GrantNoted(l)
    /\ engine[l].process = "absent" => engine'[l].process = "absent" \/ Spawning

ClaimMoves ==
  /\ claim'.attempt <= noted'
  /\ \/ claim'.launch = claim.launch /\ noted <= noted' /\ launches' = launches
     \/ claim'.launch = 0 /\ noted' = noted /\ launches' = launches
     \/ claim'.launch = launches + 1 /\ launches' = launches + 1 /\ engine' = engine

\* A record goes only when its engine is dead, and is written when its
\* generation has been granted.
RecordMoves ==
  /\ \A l \in Launches : l = record.launch => l = record'.launch \/ Dead(l)
  /\ \/ record' = record
     \/ record'.launch \in Launches =>
          record'.generation <= engine'[record'.launch].owner

CopyMoves ==
  \A p \in Supervisors :
    \/ sup'[p] = sup[p]
    \/ /\ sup'[p].claim \in {sup[p].claim, NoClaim, claim'}
       /\ sup'[p].record.launch \in {sup[p].record.launch, 0, record'.launch}
       /\ Unspawned(sup'[p], engine')
       /\ GrantedTo(sup'[p], engine')

LateMoves == \A r \in late' : r \in late \/ Asked(r)

Moves == EngineMoves /\ ClaimMoves /\ RecordMoves /\ CopyMoves /\ LateMoves

(***************************************************************************)
(* The types of the numbers.                                               *)
(***************************************************************************)
LEMMA FileTypes ==
  ASSUME Inv
  PROVE  /\ claim \in Claim /\ record \in Record /\ noted \in Nat /\ launches \in Nat
         /\ claim.attempt \in Nat /\ claim.launch \in Nat /\ record.launch \in Nat
         /\ record.generation \in Nat
BY StartAssumption DEF Inv, TypeOK, Claim, Record, Owner

LEMMA CopyTypes ==
  ASSUME Inv
  PROVE  /\ sup \in [Supervisors -> Supervisor]
         /\ \A p \in Supervisors :
              /\ sup[p] \in Supervisor
              /\ sup[p].claim \in Claim /\ sup[p].claim.attempt \in Nat
              /\ sup[p].claim.launch \in Nat /\ sup[p].claim.launch <= launches
              /\ sup[p].record \in Record /\ sup[p].record.launch \in Nat
              /\ sup[p].record.generation \in Nat
<1>1. sup \in [Supervisors -> Supervisor]
  BY DEF Inv, TypeOK
<1>2. ASSUME NEW p \in Supervisors
      PROVE  /\ sup[p] \in Supervisor
             /\ sup[p].claim \in Claim /\ sup[p].claim.attempt \in Nat
             /\ sup[p].claim.launch \in Nat /\ sup[p].claim.launch <= launches
             /\ sup[p].record \in Record /\ sup[p].record.launch \in Nat
             /\ sup[p].record.generation \in Nat
  <2>1. sup[p] \in Supervisor
    BY <1>1
  <2>2. sup[p].claim \in Claim /\ sup[p].record \in Record
    BY <2>1 DEF Supervisor
  <2>3. sup[p].claim.launch <= launches
    BY DEF Inv, ClaimShared
  <2> QED
    BY <2>1, <2>2, <2>3, StartAssumption DEF Claim, Record, Owner
<1> QED
  BY <1>1, <1>2

LEMMA EngineTypes ==
  ASSUME Inv
  PROVE  /\ engine \in [Launches -> Engine]
         /\ \A l \in Launches :
              /\ engine[l] \in Engine /\ engine[l].owner \in Nat
              /\ l \in Nat \ {0}
              /\ engine[l].process # "absent" => l <= launches
<1>1. engine \in [Launches -> Engine]
  BY DEF Inv, TypeOK
<1>2. \A l \in Launches : l \in Nat \ {0} /\ (l > launches \/ l <= launches)
  BY FileTypes, StartAssumption DEF Launches
<1>3. \A l \in Launches : engine[l] \in Engine /\ engine[l].owner \in Nat
  BY <1>1, StartAssumption DEF Engine, Owner
<1> QED
  BY <1>1, <1>2, <1>3 DEF Inv, EngineFollowsClaim

LEMMA LateTypes ==
  ASSUME Inv
  PROVE  \A r \in late : r.launch \in Launches /\ r.expected \in Nat
BY StartAssumption DEF Inv, TypeOK, Owner

\* The launch of the claim a process works on.
LEMMA OwnLaunch ==
  ASSUME Inv, NEW p \in Supervisors,
         sup[p].pc \in BoundPhase \cup ColdPhase \cup {"unbound"}
  PROVE  sup[p].claim.launch \in Launches
<1>1. sup[p].claim.launch \in 0 .. MaxLaunch
  BY CopyTypes DEF Claim
<1>2. sup[p].claim.stage # "none"
  BY DEF Inv, CopyShape, CopyOK, ColdPhase, BoundPhase
<1>3. sup[p].claim.launch # 0
  BY <1>2 DEF Inv, CopyShape, CopyOK, ShapeOf
<1> QED
  BY <1>1, <1>3 DEF Launches

(***************************************************************************)
(* How the engines move.                                                   *)
(***************************************************************************)
LEMMA EnginesStay ==
  ASSUME Inv, engine' = engine
  PROVE  EngineMoves
BY EngineTypes DEF EngineMoves, Grows, GrantNoted, Dead

\* One engine changes, and its owner stays.
LEMMA EngineBecomes ==
  ASSUME Inv, NEW l \in Launches, NEW e, engine' = [engine EXCEPT ![l] = e],
         e.owner = engine[l].owner, Dead(l) => e.process = "dead",
         e.process \in Early => engine[l].process \in Early,
         engine[l].process = "absent" => e.process = "absent" \/ Spawning
  PROVE  EngineMoves
<1>1. \A k \in Launches : engine'[k] = IF k = l THEN e ELSE engine[k]
  BY EngineTypes
<1>2. \A k \in Launches : engine[k].owner <= engine[k].owner
  BY EngineTypes
<1> QED
  BY <1>1, <1>2 DEF EngineMoves, Grows, GrantNoted, Dead

LEMMA ProcessBecomes ==
  ASSUME Inv, NEW l \in Launches, NEW x, Process(l, x),
         Dead(l) => x = "dead", x \in Early => engine[l].process \in Early,
         engine[l].process = "absent" => Spawning
  PROVE  EngineMoves
<1> DEFINE e == [engine[l] EXCEPT !.process = x]
<1>1. engine' = [engine EXCEPT ![l] = e]
  BY DEF Process
<1>2. e.owner = engine[l].owner /\ e.process = x
  BY EngineTypes DEF Engine
<1> HIDE DEF e
<1> QED
  BY <1>1, <1>2, EngineBecomes

\* A grant goes to the generation after the one that is expected.
LEMMA GrantBecomes ==
  ASSUME Inv, NEW l \in Launches, NEW g \in Int, Serving(l),
         Acquisition(l, g) = "acquired", Acquired(l),
         l # claim.launch \/ l = record.launch \/ g + 1 <= noted
  PROVE  /\ EngineMoves
         /\ engine[l].owner = g /\ engine'[l].owner = g + 1
<1>1. engine[l] \in Engine /\ engine[l].owner \in Nat
  BY EngineTypes
<1>2. engine[l].owner = g
  BY <1>1 DEF Acquisition
<1> DEFINE e == [engine[l] EXCEPT !.owner = engine[l].owner + 1, !.lapsed = FALSE]
<1>3. \A k \in Launches : engine'[k] = IF k = l THEN e ELSE engine[k]
  BY EngineTypes DEF Acquired
<1>4. e.owner = g + 1 /\ e.process = engine[l].process
  BY <1>1, <1>2 DEF Engine
<1> HIDE DEF e
<1>5. \A k \in Launches : engine[k].owner <= engine[k].owner
  BY EngineTypes
<1> QED
  BY <1>1, <1>2, <1>3, <1>4, <1>5
     DEF EngineMoves, Grows, GrantNoted, Dead, Serving, Early

(***************************************************************************)
(* How the copies move.                                                    *)
(***************************************************************************)
LEMMA OneMoves ==
  ASSUME Inv, NEW p \in Supervisors, NEW s, sup' = [sup EXCEPT ![p] = s],
         s.claim \in {sup[p].claim, NoClaim, claim'},
         s.record.launch \in {sup[p].record.launch, 0, record'.launch},
         Unspawned(s, engine'), GrantedTo(s, engine')
  PROVE  CopyMoves
BY CopyTypes DEF CopyMoves

Watched == {"prepare", "spawn", "commit", "unwind", "rotate"}

LEMMA GotoMoves ==
  ASSUME Inv, NEW p \in Supervisors, NEW pc, Goto(p, pc),
         Unspawned([sup[p] EXCEPT !.pc = pc], engine'),
         GrantedTo([sup[p] EXCEPT !.pc = pc], engine')
  PROVE  CopyMoves
<1> DEFINE s == [sup[p] EXCEPT !.pc = pc]
<1>1. s.claim = sup[p].claim /\ s.record = sup[p].record
  BY CopyTypes DEF Supervisor
<1>2. sup' = [sup EXCEPT ![p] = s]
  BY DEF Goto
<1> HIDE DEF s
<1> QED
  BY <1>1, <1>2, OneMoves DEF s

LEMMA QuietGoto ==
  ASSUME Inv, NEW p \in Supervisors, NEW pc, Goto(p, pc), pc \notin Watched
  PROVE  CopyMoves
<1>1. [sup[p] EXCEPT !.pc = pc].pc = pc
  BY CopyTypes DEF Supervisor
<1> QED
  BY <1>1, GotoMoves DEF Watched, Unspawned, GrantedTo

LEMMA LeaveMoves ==
  ASSUME Inv, NEW p \in Supervisors, Leave(p)
  PROVE  CopyMoves
<1> DEFINE s == [pc |-> "idle", claim |-> NoClaim, record |-> NoRecord]
<1>1. sup' = [sup EXCEPT ![p] = s]
  BY DEF Leave
<1>2. s.pc = "idle" /\ s.claim = NoClaim /\ s.record.launch = 0
  BY DEF NoRecord
<1> HIDE DEF s
<1> QED
  BY <1>1, <1>2, OneMoves DEF Unspawned, GrantedTo

\* The claim is written with the copy.
LEMMA WriteMoves ==
  ASSUME Inv, NEW p \in Supervisors, NEW c, NEW pc, WriteClaim(p, c, pc),
         Unspawned([[sup[p] EXCEPT !.claim = c] EXCEPT !.pc = pc], engine'),
         GrantedTo([[sup[p] EXCEPT !.claim = c] EXCEPT !.pc = pc], engine')
  PROVE  CopyMoves
<1> DEFINE s == [[sup[p] EXCEPT !.claim = c] EXCEPT !.pc = pc]
<1>1. s.claim = c /\ s.record = sup[p].record
  BY CopyTypes DEF Supervisor
<1>2. sup' = [sup EXCEPT ![p] = s] /\ claim' = c
  BY CopyTypes DEF WriteClaim, Supervisor
<1> HIDE DEF s
<1> QED
  BY <1>1, <1>2, OneMoves DEF s

LEMMA QuietWrite ==
  ASSUME Inv, NEW p \in Supervisors, NEW c, NEW pc, WriteClaim(p, c, pc),
         pc \notin Watched
  PROVE  CopyMoves
<1>1. [[sup[p] EXCEPT !.claim = c] EXCEPT !.pc = pc].pc = pc
  BY CopyTypes DEF Supervisor
<1> QED
  BY <1>1, WriteMoves DEF Watched, Unspawned, GrantedTo

\* What stays where only the claim, only the record or neither is written.
LEMMA FilesStay ==
  ASSUME Inv, Own
  PROVE  /\ UNCHANGED <<claim, launches, noted>> => ClaimMoves
         /\ UNCHANGED record => RecordMoves
         /\ UNCHANGED late => LateMoves
BY FileTypes DEF Own, CopiesNoted, ClaimMoves, RecordMoves, LateMoves

LEMMA Still ==
  ASSUME Inv, Own, CopyMoves, UNCHANGED <<claim, record, engine, launches, late, noted>>
  PROVE  Moves
BY FilesStay, EnginesStay DEF Moves

\* A claim that is dropped, or written again for the launch it has.
LEMMA Dropped ==
  ASSUME Inv, Own, RemoveClaim, UNCHANGED <<launches, noted>>
  PROVE  ClaimMoves
BY FileTypes DEF ClaimMoves, RemoveClaim, NoClaim

(***************************************************************************)
(* The steps of a start.                                                   *)
(***************************************************************************)
LEMMA TakeClaimMoves ==
  ASSUME Inv, Own, NEW p \in Supervisors, TakeClaim(p)
  PROVE  Moves
<1> DEFINE c == [launch |-> launches + 1, stage |-> "claimed", attempt |-> 0]
           s == [[sup[p] EXCEPT !.claim = c] EXCEPT !.pc = "prepare"]
<1>1. /\ launches < MaxLaunch /\ launches' = launches + 1 /\ noted' = 0
      /\ WriteClaim(p, c, "prepare")
      /\ UNCHANGED <<record, engine, late>>
  BY DEF TakeClaim
<1>2. c.launch = launches + 1 /\ c.attempt = 0 /\ s.claim = c /\ s.pc = "prepare"
  BY CopyTypes DEF Supervisor
<1>3. claim' = c
  BY <1>1 DEF WriteClaim
<1>4. launches + 1 \in Launches /\ launches + 1 > launches
  BY <1>1, FileTypes, StartAssumption DEF Launches
<1>5. Unspawned(s, engine')
  BY <1>1, <1>2, <1>4 DEF Unspawned, Inv, EngineFollowsClaim
<1>6. GrantedTo(s, engine')
  BY <1>2 DEF GrantedTo
<1> HIDE DEF c
<1>7. CopyMoves
  BY <1>1, <1>5, <1>6, WriteMoves
<1>8. ClaimMoves
  BY <1>1, <1>2, <1>3 DEF ClaimMoves
<1> QED
  BY <1>1, <1>7, <1>8, FilesStay, EnginesStay DEF Moves

LEMMA StartMoves ==
  ASSUME Inv, Own, NEW p \in Supervisors, Start(p)
  PROVE  Moves
<1> DEFINE l == sup[p].claim.launch
<1>1. CASE ConnectToRecord(p)
  <2> DEFINE s == [[sup[p] EXCEPT !.pc = "adopt"] EXCEPT !.record = record]
  <2>1. s.claim = sup[p].claim /\ s.record = record /\ s.pc = "adopt"
    BY CopyTypes DEF Supervisor
  <2>2. sup' = [sup EXCEPT ![p] = s]
    BY <1>1, CopyTypes DEF ConnectToRecord, Supervisor
  <2>3. UNCHANGED <<claim, record, engine, launches, late, noted>>
    BY <1>1 DEF ConnectToRecord, world
  <2> HIDE DEF s
  <2>4. CopyMoves
    BY <2>1, <2>2, <2>3, OneMoves DEF Unspawned, GrantedTo
  <2> QED
    BY <2>3, <2>4, Still
<1>2. CASE ClaimStart(p) \/ ReplaceDeadStart(p) \/ ReplaceUnboundStart(p)
  BY <1>2, TakeClaimMoves DEF ClaimStart, ReplaceDeadStart, ReplaceUnboundStart
<1>3. CASE FindPendingStart(p)
  <2>1. UNCHANGED <<claim, record, engine, launches, late, noted>>
    BY <1>3 DEF FindPendingStart, WriteClaim, world
  <2>2. CopyMoves
    BY <1>3, QuietWrite DEF FindPendingStart, Watched
  <2> QED
    BY <2>1, <2>2, Still
<1>4. CASE PrepareStartClaim(p)
  <2> DEFINE c == [claim EXCEPT !.stage = "prepared"]
             s == [[sup[p] EXCEPT !.claim = c] EXCEPT !.pc = "spawn"]
  <2>1. /\ sup[p].pc = "prepare" /\ claim = sup[p].claim /\ WriteClaim(p, c, "spawn")
        /\ UNCHANGED <<record, engine, launches, late, noted>>
    BY <1>4 DEF PrepareStartClaim, At, Verified, world
  <2>2. c.launch = claim.launch /\ c.attempt = claim.attempt
        /\ s.claim = c /\ s.pc = "spawn"
    BY FileTypes, CopyTypes DEF Claim, Supervisor
  <2>3. Unspawned(s, engine') /\ GrantedTo(s, engine')
    <3>1. Unspawned(sup[p], engine)
      BY DEF Own, SpawnsOnce
    <3>2. engine' = engine /\ s.claim.launch = sup[p].claim.launch
      BY <2>1, <2>2
    <3> HIDE DEF s, c
    <3>3. engine[sup[p].claim.launch].process = "absent"
      BY <2>1, <3>1 DEF Unspawned
    <3>4. Unspawned(s, engine')
      BY <3>2, <3>3 DEF Unspawned
    <3>5. GrantedTo(s, engine')
      BY <2>2 DEF GrantedTo
    <3> QED
      BY <3>4, <3>5
  <2>4. claim' = c
    BY <2>1 DEF WriteClaim
  <2> HIDE DEF c
  <2>5. CopyMoves
    BY <2>1, <2>3, WriteMoves
  <2>6. ClaimMoves
    BY <2>1, <2>2, <2>4, FileTypes DEF ClaimMoves, Own, CopiesNoted
  <2> QED
    BY <2>1, <2>5, <2>6, FilesStay, EnginesStay DEF Moves
<1>5. CASE AbortUnspawnedStart(p) \/ RecoverStartupDeath(p)
  <2>1. /\ RemoveClaim /\ Leave(p)
        /\ UNCHANGED <<record, engine, launches, late, noted>>
    BY <1>5 DEF AbortUnspawnedStart, RecoverStartupDeath, world
  <2> QED
    BY <2>1, LeaveMoves, Dropped, FilesStay, EnginesStay DEF Moves
<1>6. CASE Spawn(p)
  <2>1. /\ sup[p].pc = "spawn" /\ Process(l, "gated") /\ Goto(p, "bind")
        /\ UNCHANGED <<claim, record, launches, late, noted>>
    BY <1>6 DEF Spawn, At
  <2>2. engine[l].process = "absent" /\ l \in Launches
    BY <2>1, OwnLaunch DEF Own, SpawnsOnce, Unspawned, ColdPhase
  <2>3. sup'[p].pc = "bind"
    BY <2>1, CopyTypes DEF Goto, Supervisor
  <2>4. EngineMoves
    BY <2>1, <2>2, <2>3, ProcessBecomes DEF Spawning, ColdStarting, Dead, Early
  <2> QED
    BY <2>1, <2>4, QuietGoto, FilesStay DEF Moves, Watched
<1>7. CASE BindStartClaimProcess(p)
  <2> DEFINE c == [claim EXCEPT !.stage = "bound"]
  <2>1. /\ WriteClaim(p, c, "deliver")
        /\ UNCHANGED <<record, engine, launches, late, noted>>
    BY <1>7 DEF BindStartClaimProcess, world
  <2>2. claim' = c /\ c.launch = claim.launch /\ c.attempt = claim.attempt
    BY <2>1, FileTypes DEF Claim, WriteClaim
  <2> HIDE DEF c
  <2>3. CopyMoves
    BY <2>1, QuietWrite DEF Watched
  <2>4. ClaimMoves
    BY <2>1, <2>2, FileTypes DEF ClaimMoves, Own, CopiesNoted
  <2> QED
    BY <2>1, <2>3, <2>4, FilesStay, EnginesStay DEF Moves
<1>8. CASE DeliverBootstrap(p)
  <2>1. /\ sup[p].pc = "deliver" /\ engine[l].process = "gated"
        /\ Process(l, "started") /\ Goto(p, "handshake")
        /\ UNCHANGED <<claim, record, launches, late, noted>>
    BY <1>8 DEF DeliverBootstrap, At
  <2>2. l \in Launches
    BY <2>1, OwnLaunch DEF ColdPhase
  <2>3. EngineMoves
    BY <2>1, <2>2, ProcessBecomes DEF Dead, Early
  <2> QED
    BY <2>1, <2>3, QuietGoto, FilesStay DEF Moves, Watched
<1>9. CASE SpawnFails(p)
  <2>1. /\ sup[p].pc \in {"spawn", "bind", "deliver"}
        /\ engine' = engine \/ Process(l, "dead")
        /\ RemoveClaim \/ UNCHANGED claim
        /\ Leave(p) /\ UNCHANGED <<record, launches, late, noted>>
    BY <1>9 DEF SpawnFails, At
  <2>2. l \in Launches
    BY <2>1, OwnLaunch DEF ColdPhase
  <2>3. sup'[p].pc = "idle"
    BY <2>1, CopyTypes DEF Leave
  <2>4. EngineMoves
    BY <2>1, <2>2, <2>3, ProcessBecomes, EnginesStay DEF Spawning, ColdStarting, Early
  <2>5. ClaimMoves
    BY <2>1, Dropped, FilesStay
  <2> QED
    BY <2>1, <2>4, <2>5, LeaveMoves, FilesStay DEF Moves
<1>10. CASE ResumePendingStart(p) \/ Handshake(p) \/ FindDead(p)
  <2>1. /\ UNCHANGED <<claim, record, engine, launches, late, noted>>
        /\ \E pc \in {"handshake", "mark", "renew", "recover"} : Goto(p, pc)
    BY <1>10 DEF ResumePendingStart, Handshake, FindDead, world
  <2>2. CopyMoves
    BY <2>1, QuietGoto DEF Watched
  <2> QED
    BY <2>1, <2>2, Still
<1> QED
  BY <1>1, <1>2, <1>3, <1>4, <1>5, <1>6, <1>7, <1>8, <1>9, <1>10 DEF Start

(***************************************************************************)
(* The steps of an acquisition.                                            *)
(***************************************************************************)

\* An acquisition for a pending start was noted by who makes it.
LEMMA OwnAttempt ==
  ASSUME Inv, Own, NEW p \in Supervisors, sup[p].pc \in AttemptPhase
  PROVE  /\ sup[p].claim.launch \in Launches /\ sup[p].claim.attempt \in Nat \ {0}
         /\ sup[p].claim.launch = claim.launch => sup[p].claim.attempt <= noted
<1>1. sup[p].claim.launch \in Launches
  BY OwnLaunch DEF AttemptPhase, BoundPhase
<1>2. sup[p].claim.attempt \in Nat /\ sup[p].claim.attempt >= 1
  BY CopyTypes DEF Inv, CopyShape, CopyOK
<1>3. sup[p].claim.launch # 0
  BY <1>1, EngineTypes
<1> QED
  BY <1>1, <1>2, <1>3 DEF Own, CopiesNoted

LEMMA MarkMoves ==
  ASSUME Inv, Own, NEW p \in Supervisors, MarkOwnerAttempt(p)
  PROVE  Moves
<1> DEFINE c == [claim EXCEPT !.attempt = @ + 1]
           pc == IF At(p, "mark") THEN "initial" ELSE "acquire"
<1>1. /\ WriteClaim(p, c, pc)
      /\ noted' = IF claim'.attempt > noted THEN claim'.attempt ELSE noted
      /\ UNCHANGED <<record, engine, launches, late>>
  BY DEF MarkOwnerAttempt
<1>2. claim' = c /\ c.launch = claim.launch /\ c.attempt = claim.attempt + 1
  BY <1>1, FileTypes DEF Claim, WriteClaim
<1>3. pc \notin Watched
  BY DEF Watched
<1> HIDE DEF c, pc
<1>4. CopyMoves
  BY <1>1, <1>3, QuietWrite
<1>5. ClaimMoves
  BY <1>1, <1>2, FileTypes DEF ClaimMoves, Own, CopiesNoted
<1> QED
  BY <1>1, <1>4, <1>5, FilesStay, EnginesStay DEF Moves

LEMMA RollbackMoves ==
  ASSUME Inv, Own, NEW p \in Supervisors, RollbackOwnerAttempt(p)
  PROVE  Moves
<1> DEFINE c == [claim EXCEPT !.attempt = @ - 1]
           pc == IF At(p, "unwind") THEN "commit" ELSE "retry"
           s == [[sup[p] EXCEPT !.claim = c] EXCEPT !.pc = pc]
<1>1. /\ claim = sup[p].claim /\ WriteClaim(p, c, pc)
      /\ UNCHANGED <<record, engine, launches, late, noted>>
      /\ sup[p].pc \in {"unwind", "undo"}
  BY DEF RollbackOwnerAttempt, Verified, At, world
<1>2. /\ c.launch = claim.launch /\ c.attempt = claim.attempt - 1
      /\ s.claim = c /\ s.pc = pc
  BY FileTypes, CopyTypes DEF Claim, Supervisor
<1>3. pc = "retry" \/ (pc = "commit" /\ sup[p].pc = "unwind")
  BY DEF At
<1>4. sup[p].claim.launch \in Launches
  BY <1>1, OwnLaunch DEF BoundPhase
<1>5. Unspawned(s, engine')
  BY <1>2, <1>3 DEF Unspawned
<1>6. GrantedTo(s, engine')
  <2>1. sup[p].pc = "unwind" =>
          claim.attempt <= engine[claim.launch].owner + 1
    BY <1>1 DEF Own, Granted, GrantedTo
  <2>2. engine[claim.launch].owner \in Nat
    BY <1>1, <1>4, EngineTypes
  <2> HIDE DEF c, pc, s
  <2> QED
    BY <1>1, <1>2, <1>3, <2>1, <2>2, FileTypes DEF GrantedTo
<1>7. claim' = c
  BY <1>1 DEF WriteClaim
<1> HIDE DEF c, pc
<1>8. CopyMoves
  BY <1>1, <1>5, <1>6, WriteMoves
<1>9. ClaimMoves
  BY <1>1, <1>2, <1>7, FileTypes DEF ClaimMoves, Own, CopiesNoted
<1> QED
  BY <1>1, <1>8, <1>9, FilesStay, EnginesStay DEF Moves

LEMMA RenewMoves ==
  ASSUME Inv, Own, NEW p \in Supervisors, RenewPending(p)
  PROVE  Moves
<1> DEFINE l == sup[p].claim.launch
           n == sup[p].claim.attempt
<1>1. /\ sup[p].pc \in {"renew", "predecessor", "confirm"}
      /\ UNCHANGED <<claim, record, engine, launches, late, noted>>
  BY DEF RenewPending, world
<1>2. l \in Launches /\ n \in Nat /\ engine[l].owner \in Nat
  BY <1>1, OwnAttempt, EngineTypes DEF AttemptPhase
<1>3. \E pc \in {"commit", "advance", "predecessor", "unwind", "reacquire"} :
        /\ Goto(p, pc)
        /\ pc = "commit" => engine[l].owner = n
        /\ pc = "unwind" => engine[l].owner = n - 1
  BY DEF RenewPending, Renewal
<1>4. PICK pc \in {"commit", "advance", "predecessor", "unwind", "reacquire"} :
        /\ Goto(p, pc)
        /\ pc = "commit" => engine[l].owner = n
        /\ pc = "unwind" => engine[l].owner = n - 1
  BY <1>3
<1> DEFINE s == [sup[p] EXCEPT !.pc = pc]
<1>5. s.pc = pc /\ s.claim = sup[p].claim
  BY CopyTypes DEF Supervisor
<1>6. Unspawned(s, engine')
  BY <1>4, <1>5 DEF Unspawned
<1>7. GrantedTo(s, engine')
  <2> HIDE DEF s
  <2> QED
    BY <1>1, <1>2, <1>4, <1>5 DEF GrantedTo
<1>8. CopyMoves
  BY <1>4, <1>6, <1>7, GotoMoves
<1> QED
  BY <1>1, <1>8, Still

LEMMA AcquirePendingMoves ==
  ASSUME Inv, Own, NEW p \in Supervisors, AcquirePending(p)
  PROVE  Moves
<1> DEFINE l == sup[p].claim.launch
           g == sup[p].claim.attempt - 1
<1>1. /\ sup[p].pc \in {"initial", "acquire", "reacquire", "retry"}
      /\ Serving(l)
      /\ UNCHANGED <<claim, record, launches, late, noted>>
  BY DEF AcquirePending
<1>2. /\ l \in Launches /\ sup[p].claim.attempt \in Nat \ {0}
      /\ l = claim.launch => sup[p].claim.attempt <= noted
  BY <1>1, OwnAttempt DEF AttemptPhase
<1>3. g \in Int /\ g + 1 = sup[p].claim.attempt
  BY <1>2
<1>4. CASE Acquisition(l, g) = "acquired" /\ Acquired(l) /\ Goto(p, "commit")
  <2> DEFINE s == [sup[p] EXCEPT !.pc = "commit"]
  <2>1. EngineMoves /\ engine'[l].owner = g + 1
    <3> HIDE DEF l, g
    <3>1. l # claim.launch \/ g + 1 <= noted
      BY <1>2, <1>3
    <3> QED
      BY <1>1, <1>2, <1>3, <1>4, <3>1, GrantBecomes
  <2>2. s.pc = "commit" /\ s.claim = sup[p].claim
    BY CopyTypes DEF Supervisor
  <2>3. Unspawned(s, engine') /\ GrantedTo(s, engine')
    <3> HIDE DEF s
    <3> QED
      BY <1>2, <1>3, <2>1, <2>2 DEF Unspawned, GrantedTo
  <2>4. CopyMoves
    BY <1>4, <2>3, GotoMoves
  <2> QED
    BY <1>1, <2>1, <2>4, FilesStay DEF Moves
<1>5. CASE UNCHANGED engine /\ (Goto(p, "undo") \/ Goto(p, "confirm"))
  BY <1>1, <1>5, QuietGoto, Still DEF Watched
<1> QED
  BY <1>4, <1>5 DEF AcquirePending

LEMMA CommitMoves ==
  ASSUME Inv, Own, NEW p \in Supervisors, Commit(p)
  PROVE  Moves
<1> DEFINE r == [launch |-> claim.launch, generation |-> claim.attempt]
           s == [[sup[p] EXCEPT !.pc = "release"] EXCEPT !.record = r]
<1>1. /\ sup[p].pc = "commit" /\ claim = sup[p].claim /\ record = NoRecord
      /\ record' = r
      /\ UNCHANGED <<claim, engine, launches, late, noted>>
  BY DEF Commit, At, Verified, world
<1>2. sup' = [sup EXCEPT ![p] = s]
  BY <1>1, CopyTypes DEF Commit, Supervisor
<1>3. s.claim = sup[p].claim /\ s.record = r /\ s.pc = "release"
  BY CopyTypes DEF Supervisor
<1>4. r.launch = claim.launch /\ r.generation = claim.attempt
  OBVIOUS
<1> HIDE DEF s, r
<1>5. CopyMoves
  BY <1>1, <1>2, <1>3, OneMoves DEF Unspawned, GrantedTo
<1>6. claim.attempt <= engine[claim.launch].owner
  BY <1>1 DEF Own, Granted, GrantedTo
<1>7. record.launch = 0
  BY <1>1 DEF NoRecord
<1>8. RecordMoves
  BY <1>1, <1>4, <1>6, <1>7, EngineTypes DEF RecordMoves
<1> QED
  BY <1>1, <1>5, <1>8, FilesStay, EnginesStay DEF Moves

LEMMA ReleaseMoves ==
  ASSUME Inv, Own, NEW p \in Supervisors, ReleaseStartClaim(p)
  PROVE  Moves
<1>1. PICK pc \in {"register", "join"} :
        sup' = [sup EXCEPT ![p] = [@ EXCEPT !.claim = NoClaim, !.pc = pc]]
  BY DEF ReleaseStartClaim
<1> DEFINE s == [[sup[p] EXCEPT !.claim = NoClaim] EXCEPT !.pc = pc]
<1>2. sup' = [sup EXCEPT ![p] = s]
  BY <1>1, CopyTypes DEF Supervisor
<1>3. s.claim = NoClaim /\ s.record = sup[p].record /\ s.pc = pc
  BY CopyTypes DEF Supervisor
<1> HIDE DEF s
<1>4. CopyMoves
  BY <1>2, <1>3, OneMoves DEF Unspawned, GrantedTo
<1>5. RemoveClaim /\ UNCHANGED <<record, engine, launches, late, noted>>
  BY DEF ReleaseStartClaim, world
<1> QED
  BY <1>4, <1>5, Dropped, FilesStay, EnginesStay DEF Moves

\* The record of a dead engine is removed.
LEMMA Retired ==
  ASSUME Inv, record' = NoRecord, Dead(record.launch)
  PROVE  RecordMoves
<1>1. record'.launch = 0 /\ 0 \notin Launches
  BY EngineTypes DEF NoRecord
<1> QED
  BY <1>1 DEF RecordMoves

LEMMA AcquireMoves ==
  ASSUME Inv, Own, NEW p \in Supervisors, Acquire(p)
  PROVE  Moves
<1>1. CASE ReleaseFails(p) \/ Register(p)
  <2>1. /\ UNCHANGED <<claim, record, engine, launches, late, noted>>
        /\ Leave(p) \/ Goto(p, "ready")
    BY <1>1 DEF ReleaseFails, Register, world
  <2>2. CopyMoves
    BY <2>1, LeaveMoves, QuietGoto DEF Watched
  <2> QED
    BY <2>1, <2>2, Still
<1>2. CASE RecoverCommittedDeath(p)
  <2>1. /\ record' = NoRecord /\ Dead(record.launch) /\ Leave(p)
        /\ UNCHANGED <<claim, engine, launches, late, noted>>
    BY <1>2 DEF RecoverCommittedDeath, world
  <2> QED
    BY <2>1, Retired, LeaveMoves, FilesStay, EnginesStay DEF Moves
<1> QED
  BY <1>1, <1>2, MarkMoves, RollbackMoves, RenewMoves, AcquirePendingMoves,
     CommitMoves, ReleaseMoves DEF Acquire

(***************************************************************************)
(* The steps of an adoption, a stop and a restart.                         *)
(***************************************************************************)

\* The record a process works on is the record while its engine serves.
LEMMA OwnRecord ==
  ASSUME Inv, Own, NEW p \in Supervisors, sup[p].record.launch \in Launches,
         Serving(sup[p].record.launch)
  PROVE  sup[p].record.launch = record.launch
BY DEF Own, RecordCopies, Serving, Dead

LEMMA AdoptMoves ==
  ASSUME Inv, Own, NEW p \in Supervisors, Adopt(p)
  PROVE  Moves
<1> DEFINE l == sup[p].record.launch
           g == sup[p].record.generation
<1>1. CASE AdoptHandshake(p) \/ AdoptRenew(p)
  <2>1. /\ UNCHANGED <<claim, record, engine, launches, late, noted>>
        /\ \E pc \in {"adopt-renew", "join", "adopt-acquire"} : Goto(p, pc)
    BY <1>1 DEF AdoptHandshake, AdoptRenew, world
  <2>2. CopyMoves
    BY <2>1, QuietGoto DEF Watched
  <2> QED
    BY <2>1, <2>2, Still
<1>2. CASE RetireDeadAuthority(p)
  <2>1. /\ record' = NoRecord /\ Dead(record.launch) /\ Leave(p)
        /\ UNCHANGED <<claim, engine, launches, late, noted>>
    BY <1>2 DEF RetireDeadAuthority, world
  <2> QED
    BY <2>1, Retired, LeaveMoves, FilesStay, EnginesStay DEF Moves
<1>3. CASE AdoptAcquire(p)
  <2> DEFINE s == [sup[p] EXCEPT !.pc = "rotate"]
  <2>1. /\ sup[p].pc = "adopt-acquire" /\ Serving(l)
        /\ Acquisition(l, g) = "acquired" /\ Acquired(l) /\ Goto(p, "rotate")
        /\ UNCHANGED <<claim, record, launches, late, noted>>
    BY <1>3 DEF AdoptAcquire, At
  <2>2. l \in Launches /\ g \in Nat /\ l = record.launch
    <3>1. l \in Launches
      BY <2>1 DEF Inv, CopyShape, CopyOK
    <3> QED
      BY <2>1, <3>1, OwnRecord, CopyTypes
  <2>3. EngineMoves /\ engine'[l].owner = g + 1
    <3> HIDE DEF l, g
    <3> QED
      BY <2>1, <2>2, GrantBecomes
  <2>4. s.pc = "rotate" /\ s.record = sup[p].record
    BY CopyTypes DEF Supervisor
  <2>5. Unspawned(s, engine') /\ GrantedTo(s, engine')
    <3> HIDE DEF s
    <3> QED
      BY <2>2, <2>3, <2>4 DEF Unspawned, GrantedTo
  <2>6. CopyMoves
    BY <2>1, <2>5, GotoMoves
  <2> QED
    BY <2>1, <2>3, <2>6, FilesStay DEF Moves
<1>4. CASE CommitRotation(p)
  <2> DEFINE r == [record EXCEPT !.generation = @ + 1]
             s == [[sup[p] EXCEPT !.pc = "join"] EXCEPT !.record = r]
  <2>1. /\ sup[p].pc = "rotate" /\ record = sup[p].record /\ record' = r
        /\ UNCHANGED <<claim, engine, launches, late, noted>>
    BY <1>4 DEF CommitRotation, At, world
  <2>2. sup' = [sup EXCEPT ![p] = s]
    BY <1>4, <2>1, CopyTypes DEF CommitRotation, Supervisor
  <2>3. s.claim = sup[p].claim /\ s.record = r /\ s.pc = "join"
    BY CopyTypes DEF Supervisor
  <2>4. r.launch = record.launch /\ r.generation = record.generation + 1
    BY FileTypes DEF Record
  <2> HIDE DEF s, r
  <2>5. CopyMoves
    BY <2>1, <2>2, <2>3, OneMoves DEF Unspawned, GrantedTo
  <2>6. record.generation < engine[record.launch].owner
    BY <2>1 DEF Own, Granted, GrantedTo
  <2>7. RecordMoves
    BY <2>1, <2>4, <2>6, FileTypes, EngineTypes DEF RecordMoves
  <2> QED
    BY <2>1, <2>5, <2>7, FilesStay, EnginesStay DEF Moves
<1> QED
  BY <1>1, <1>2, <1>3, <1>4 DEF Adopt

LEMMA RestartMoves ==
  ASSUME Inv, Own, NEW p \in Supervisors, Restart(p)
  PROVE  Moves
<1>1. CASE GiveUp(p)
  <2>1. UNCHANGED <<claim, record, engine, launches, late, noted>> /\ Leave(p)
    BY <1>1 DEF GiveUp, world
  <2> QED
    BY <2>1, LeaveMoves, Still
<1>2. CASE StopEngine(p)
  <2> DEFINE l == record.launch
  <2>1. /\ record = sup[p].record /\ Serving(l) /\ Process(l, "dead")
        /\ Renewal(l, record.generation) = "renewed" /\ Goto(p, "stopped")
        /\ UNCHANGED <<claim, record, launches, late, noted>>
    BY <1>2 DEF StopEngine
  <2>2. EngineMoves
    <3>1. CASE l \in Launches
      <4> HIDE DEF l
      <4> QED
        BY <2>1, <3>1, ProcessBecomes DEF Serving, Early
    <3>2. CASE l \notin Launches
      BY <2>1, <3>2, EngineTypes, EnginesStay DEF Process
    <3> QED
      BY <3>1, <3>2
  <2> QED
    BY <2>1, <2>2, QuietGoto, FilesStay DEF Moves, Watched
<1>3. CASE RetireObservedExit(p)
  <2>1. /\ record' = NoRecord /\ Dead(record.launch) /\ Goto(p, "reclaim")
        /\ UNCHANGED <<claim, engine, launches, late, noted>>
    BY <1>3 DEF RetireObservedExit, world
  <2> QED
    BY <2>1, Retired, QuietGoto, FilesStay, EnginesStay DEF Moves, Watched
<1>4. CASE RestartClaim(p)
  BY <1>4, TakeClaimMoves DEF RestartClaim
<1> QED
  BY <1>1, <1>2, <1>3, <1>4 DEF Restart

(***************************************************************************)
(* The steps of the engines, of lost replies and of crashes.               *)
(***************************************************************************)
LEMMA LoseReplyMoves ==
  ASSUME Inv, Own, NEW p \in Supervisors, LoseReply(p)
  PROVE  Moves
<1> DEFINE l == IF At(p, "adopt-acquire") THEN sup[p].record.launch
                ELSE sup[p].claim.launch
           g == IF At(p, "adopt-acquire") THEN sup[p].record.generation
                ELSE sup[p].claim.attempt - 1
           r == [launch |-> l, expected |-> g]
<1>1. /\ sup[p].pc \in {"initial", "acquire", "reacquire", "retry", "adopt-acquire"}
      /\ Serving(l) /\ Leave(p) /\ UNCHANGED <<claim, record, launches, noted>>
      /\ \/ Acquisition(l, g) = "acquired" /\ Acquired(l) /\ UNCHANGED late
         \/ late' = late \union {r} /\ UNCHANGED engine
  BY DEF LoseReply
<1>2. /\ l \in Launches /\ g \in Int
      /\ l # claim.launch \/ l = record.launch \/ g + 1 <= noted
  <2>1. CASE At(p, "adopt-acquire")
    <3>1. l = sup[p].record.launch /\ g = sup[p].record.generation
      BY <2>1
    <3>2. l \in Launches
      BY <2>1, <3>1 DEF At, Inv, CopyShape, CopyOK
    <3> QED
      BY <1>1, <3>1, <3>2, OwnRecord, CopyTypes
  <2>2. CASE ~At(p, "adopt-acquire")
    <3>1. l = sup[p].claim.launch /\ g = sup[p].claim.attempt - 1
      BY <2>2
    <3>2. sup[p].pc \in AttemptPhase
      BY <1>1, <2>2 DEF At, AttemptPhase
    <3> HIDE DEF l, g
    <3> QED
      BY <3>1, <3>2, OwnAttempt
  <2> QED
    BY <2>1, <2>2
<1>3. r.launch = l /\ r.expected = g
  OBVIOUS
<1>4. l <= launches
  BY <1>1, <1>2, EngineTypes DEF Serving
<1> HIDE DEF l, g, r
<1>5. CASE Acquisition(l, g) = "acquired" /\ Acquired(l) /\ UNCHANGED late
  <2>1. EngineMoves
    BY <1>1, <1>2, <1>5, GrantBecomes
  <2> QED
    BY <1>1, <1>5, <2>1, LeaveMoves, FilesStay DEF Moves
<1>6. CASE late' = late \union {r} /\ UNCHANGED engine
  <2>1. LateMoves
    BY <1>2, <1>3, <1>4, <1>6 DEF LateMoves, Asked
  <2> QED
    BY <1>1, <1>6, <2>1, LeaveMoves, FilesStay, EnginesStay DEF Moves
<1> QED
  BY <1>1, <1>5, <1>6

LEMMA EnvironmentMoves ==
  ASSUME Inv, Own, Environment
  PROVE  Moves
<1>1. ASSUME NEW p \in Supervisors, Crash(p) PROVE Moves
  <2>1. UNCHANGED <<claim, record, engine, launches, late, noted>> /\ Leave(p)
    BY <1>1 DEF Crash, world
  <2> QED
    BY <2>1, LeaveMoves, Still
<1>2. ASSUME UNCHANGED sup PROVE CopyMoves
  BY <1>2 DEF CopyMoves
<1>3. ASSUME NEW l \in Launches, EngineServes(l) \/ EngineExits(l) PROVE Moves
  <2>1. /\ UNCHANGED <<claim, record, sup, launches, late, noted>>
        /\ \/ engine[l].process = "started" /\ Process(l, "serving")
           \/ engine[l].process \in {"gated", "started", "serving"} /\ Process(l, "dead")
    BY <1>3 DEF EngineServes, EngineExits, Alive
  <2>2. EngineMoves
    BY <2>1, ProcessBecomes DEF Dead, Early
  <2> QED
    BY <1>2, <2>1, <2>2, FilesStay DEF Moves
<1>4. ASSUME NEW l \in Launches, OwnerLeaseLapses(l) PROVE Moves
  <2> DEFINE e == [engine[l] EXCEPT !.lapsed = TRUE]
  <2>1. /\ engine' = [engine EXCEPT ![l] = e]
        /\ UNCHANGED <<claim, record, sup, launches, late, noted>>
    BY <1>4 DEF OwnerLeaseLapses
  <2>2. e.owner = engine[l].owner /\ e.process = engine[l].process
    BY EngineTypes DEF Engine
  <2> HIDE DEF e
  <2>3. EngineMoves
    BY <2>1, <2>2, EngineBecomes DEF Dead
  <2> QED
    BY <1>2, <2>1, <2>3, FilesStay DEF Moves
<1>5. ASSUME NEW r \in late, LateAcquisition(r) PROVE Moves
  <2>1. UNCHANGED <<claim, record, sup, launches, noted>> /\ late' \subseteq late
    BY <1>5 DEF LateAcquisition
  <2>2. r.launch \in Launches /\ r.expected \in Int /\ Asked(r)
    BY LateTypes DEF Own, LateNoted
  <2>3. EngineMoves
    <3>1. CASE UNCHANGED engine
      BY <3>1, EnginesStay
    <3>2. CASE Serving(r.launch) /\ Acquisition(r.launch, r.expected) = "acquired"
               /\ Acquired(r.launch)
      BY <2>2, <3>2, GrantBecomes DEF Asked, Dead, Serving
    <3> QED
      BY <1>5, <3>1, <3>2 DEF LateAcquisition
  <2>4. LateMoves
    BY <2>1 DEF LateMoves
  <2> QED
    BY <1>2, <2>1, <2>3, <2>4, FilesStay DEF Moves
<1> QED
  BY <1>1, <1>3, <1>4, <1>5, LoseReplyMoves DEF Environment

LEMMA NextMoves ==
  ASSUME Inv, Own, [Next]_vars
  PROVE  Moves
<1>1. CASE UNCHANGED vars
  <2>1. CopyMoves
    BY <1>1 DEF CopyMoves, vars
  <2> QED
    BY <1>1, <2>1, Still DEF vars
<1>2. ASSUME NEW p \in Supervisors, Step(p) PROVE Moves
  BY <1>2, StartMoves, AcquireMoves, AdoptMoves, RestartMoves DEF Step
<1> QED
  BY <1>1, <1>2, EnvironmentMoves DEF Next

(***************************************************************************)
(* Each part of the invariant, from the moves.                             *)
(***************************************************************************)
LEMMA OwnerStaysServing ==
  ASSUME Inv, Inv', Own, Moves
  PROVE  OwnerOfServing'
BY EngineTypes DEF Own, OwnerOfServing, Moves, EngineMoves, Grows, Serving, Early

LEMMA UnspawnedStays ==
  ASSUME Inv, Inv', Own, Moves
  PROVE  SpawnsOnce'
<1> SUFFICES ASSUME NEW p \in Supervisors, sup'[p].pc \in {"prepare", "spawn"}
             PROVE  engine'[sup'[p].claim.launch].process = "absent"
  BY DEF SpawnsOnce, Unspawned
<1>1. CASE sup'[p] = sup[p]
  <2> DEFINE l == sup[p].claim.launch
  <2>1. ColdStarting(p) /\ l \in Launches
    BY <1>1, OwnLaunch DEF ColdStarting, ColdPhase
  <2>2. engine[l].process = "absent"
    BY <1>1 DEF Own, SpawnsOnce, Unspawned
  <2>3. ~Spawning
    BY <2>1 DEF Spawning, Inv, ColdStarterOwnsClaim
  <2> QED
    BY <1>1, <2>1, <2>2, <2>3 DEF Moves, EngineMoves
<1>2. CASE sup'[p] # sup[p]
  BY <1>2 DEF Moves, CopyMoves, Unspawned
<1> QED
  BY <1>1, <1>2

\* A claim that stays is counted no lower, and another one is new.
LEMMA SameClaim ==
  ASSUME Inv, Moves, NEW l \in Nat, l # 0, l <= launches, claim'.launch = l
  PROVE  claim.launch = l /\ noted <= noted' /\ launches' = launches
BY FileTypes DEF Moves, ClaimMoves

LEMMA CopiesStayNoted ==
  ASSUME Inv, Inv', Own, Moves
  PROVE  CopiesNoted'
<1>1. claim'.attempt <= noted'
  BY DEF Moves, ClaimMoves
<1>2. ASSUME NEW p \in Supervisors, claim'.launch # 0,
             sup'[p].claim.launch = claim'.launch
      PROVE  sup'[p].claim.attempt <= noted'
  <2>1. sup'[p].claim \in {sup[p].claim, NoClaim, claim'}
    BY DEF Moves, CopyMoves
  <2>2. CASE sup'[p].claim = sup[p].claim
    <3>1. claim.launch = sup[p].claim.launch /\ noted <= noted' /\ launches' = launches
      BY <1>2, <2>2, CopyTypes, SameClaim
    <3>2. sup[p].claim.attempt <= noted
      BY <1>2, <2>2, <3>1 DEF Own, CopiesNoted
    <3>3. noted' \in Nat
      BY StartAssumption DEF Inv, TypeOK, Owner
    <3> QED
      BY <2>2, <3>1, <3>2, <3>3, CopyTypes, FileTypes
  <2> QED
    BY <1>1, <1>2, <2>1, <2>2 DEF NoClaim
<1> QED
  BY <1>1, <1>2 DEF CopiesNoted

LEMMA RecordCopiesStay ==
  ASSUME Inv, Inv', Own, Moves
  PROVE  RecordCopies'
<1> SUFFICES ASSUME NEW p \in Supervisors, NEW l \in Launches,
                    sup'[p].record.launch = l
             PROVE  l = record'.launch \/ Dead(l)'
  BY DEF RecordCopies
<1>1. l # 0
  BY EngineTypes
<1>2. Dead(l) => Dead(l)'
  BY DEF Moves, EngineMoves, Grows, Dead
<1>3. sup'[p].record.launch \in {sup[p].record.launch, 0, record'.launch}
  BY DEF Moves, CopyMoves
<1>4. CASE sup[p].record.launch = l
  BY <1>2, <1>4 DEF Own, RecordCopies, Moves, RecordMoves
<1> QED
  BY <1>1, <1>3, <1>4

LEMMA LateStaysNoted ==
  ASSUME Inv, Inv', Own, Moves
  PROVE  LateNoted'
<1> SUFFICES ASSUME NEW r \in late' PROVE Asked(r)'
  BY DEF LateNoted
<1>1. Asked(r)
  BY DEF Moves, LateMoves, Own, LateNoted
<1>2. r.launch \in Launches /\ r.expected \in Nat /\ noted' \in Nat
  BY StartAssumption DEF Inv, TypeOK, Owner
<1>3. r.launch \in Nat /\ r.launch # 0
  BY <1>2, EngineTypes
<1>4. r.launch <= launches'
  BY <1>1, <1>3, FileTypes DEF Asked, Moves, ClaimMoves
<1>5. ASSUME r.launch = claim'.launch
      PROVE  r.expected + 1 <= noted' \/ r.launch = record'.launch \/ Dead(r.launch)'
  <2>1. claim.launch = r.launch /\ noted <= noted'
    BY <1>1, <1>3, <1>5, SameClaim DEF Asked
  <2>2. CASE r.expected + 1 <= noted
    BY <1>2, <2>1, <2>2, FileTypes
  <2>3. Dead(r.launch) => Dead(r.launch)'
    BY <1>2 DEF Moves, EngineMoves, Grows, Dead
  <2>4. r.launch = record.launch => r.launch = record'.launch \/ Dead(r.launch)
    BY <1>2 DEF Moves, RecordMoves
  <2> QED
    BY <1>1, <2>1, <2>2, <2>3, <2>4 DEF Asked
<1> QED
  BY <1>4, <1>5 DEF Asked

LEMMA GrantedStays ==
  ASSUME Inv, Inv', Own, Moves
  PROVE  Granted'
<1> SUFFICES ASSUME NEW p \in Supervisors PROVE GrantedTo(sup'[p], engine')
  BY DEF Granted
<1>1. CASE sup'[p] # sup[p]
  BY <1>1 DEF Moves, CopyMoves
<1>2. CASE sup'[p] = sup[p]
  <2> DEFINE c == sup[p].claim
             r == sup[p].record
  <2>1. GrantedTo(sup[p], engine)
    BY DEF Own, Granted
  <2>2. \A l \in Launches : /\ engine[l].owner \in Nat /\ engine'[l].owner \in Nat
                            /\ engine[l].owner <= engine'[l].owner
    <3>1. \A l \in Launches : engine'[l].owner \in Nat
      BY StartAssumption DEF Inv, TypeOK, Engine, Owner
    <3> QED
      BY <3>1, EngineTypes DEF Moves, EngineMoves, Grows
  <2>3. c.attempt \in Nat /\ r.generation \in Nat
    BY CopyTypes
  <2>4. sup[p].pc \in {"commit", "unwind"} => c.launch \in Launches
    BY OwnLaunch DEF BoundPhase
  <2>5. sup[p].pc = "rotate" => r.launch \in Launches
    BY <2>1 DEF GrantedTo
  <2> QED
    BY <1>2, <2>1, <2>2, <2>3, <2>4, <2>5 DEF GrantedTo
<1> QED
  BY <1>1, <1>2

LEMMA AttemptedStays ==
  ASSUME Inv, Inv', Own, Moves
  PROVE  OwnerWasAttempted'
<1> SUFFICES ASSUME NEW l \in Launches, l = claim'.launch, l # record'.launch, Alive(l)'
             PROVE  engine'[l].owner <= noted'
  BY DEF OwnerWasAttempted
<1>1. l \in Nat /\ l # 0 /\ engine[l] \in Engine /\ engine[l].owner \in Nat
  BY EngineTypes
<1>2. noted' \in Nat /\ engine'[l].owner \in Nat
  BY StartAssumption DEF Inv, TypeOK, Engine, Owner
<1>3. Grows(l) /\ GrantNoted(l)
  BY DEF Moves, EngineMoves
<1>4. l # record.launch
  BY <1>3 DEF Moves, RecordMoves, Grows, Alive
<1>5. CASE l <= launches
  <2>1. l = claim.launch /\ noted <= noted'
    BY <1>1, <1>5, SameClaim
  <2>2. engine[l].owner <= noted
    <3>1. CASE Alive(l)
      BY <1>4, <2>1, <3>1 DEF Own, OwnerWasAttempted
    <3>2. CASE engine[l].process = "absent"
      BY <3>2, FileTypes DEF Own, OwnerOfServing
    <3>3. ~Dead(l)
      BY <1>3 DEF Grows, Alive
    <3> QED
      BY <1>1, <3>1, <3>2, <3>3 DEF Alive, Dead, Engine
  <2>3. engine'[l].owner <= noted
    BY <1>3, <1>4, <2>1, <2>2 DEF GrantNoted
  <2> QED
    BY <1>2, <2>1, <2>3, FileTypes
<1>6. CASE ~(l <= launches)
  <2>1. engine' = engine
    BY <1>1, <1>6, FileTypes DEF Moves, ClaimMoves, Inv, EngineFollowsClaim
  <2>2. engine[l].process = "absent"
    BY <1>6, EngineTypes
  <2> QED
    BY <2>1, <2>2 DEF Alive
<1> QED
  BY <1>5, <1>6

LEMMA RecordStaysBehind ==
  ASSUME Inv, Inv', Own, Moves
  PROVE  RecordNotAhead'
<1> SUFFICES ASSUME NEW l \in Launches, l = record'.launch
             PROVE  record'.generation <= engine'[l].owner
  BY DEF RecordNotAhead
<1>1. CASE record' = record
  <2>1. record.generation <= engine[l].owner /\ engine[l].owner <= engine'[l].owner
    BY <1>1 DEF Own, RecordNotAhead, Moves, EngineMoves, Grows
  <2>2. engine'[l].owner \in Nat
    BY StartAssumption DEF Inv, TypeOK, Engine, Owner
  <2> QED
    BY <1>1, <2>1, <2>2, FileTypes, EngineTypes
<1>2. CASE record' # record
  BY <1>2 DEF Moves, RecordMoves
<1> QED
  BY <1>1, <1>2

(***************************************************************************)
(* The inductive invariant and what follows from it.                       *)
(***************************************************************************)
LEMMA InitOwn == Init => Own
<1> SUFFICES ASSUME Init PROVE Own
  OBVIOUS
<1>1. /\ claim.launch = 0 /\ claim.attempt = 0 /\ record.launch = 0
      /\ noted = 0 /\ late = {}
      /\ \A p \in Supervisors : sup[p].pc = "idle" /\ sup[p].record.launch = 0
      /\ \A l \in Launches : engine[l].owner = 0 /\ engine[l].process = "absent"
  BY DEF Init, NoClaim, NoRecord
<1>2. 0 \notin Launches
  BY DEF Launches
<1> QED
  BY <1>1, <1>2
     DEF Own, OwnerOfServing, SpawnsOnce, Unspawned, CopiesNoted, RecordCopies, LateNoted,
         Granted, GrantedTo, OwnerWasAttempted, RecordNotAhead

LEMMA NextKeepsOwn == Inv /\ Own /\ [Next]_vars => Inv' /\ Own'
<1> SUFFICES ASSUME Inv, Own, [Next]_vars PROVE Inv' /\ Own'
  OBVIOUS
<1>1. Inv' /\ Moves
  BY NextKeepsInv, NextMoves
<1> QED
  BY <1>1, OwnerStaysServing, UnspawnedStays, CopiesStayNoted, RecordCopiesStay,
     LateStaysNoted, GrantedStays, AttemptedStays, RecordStaysBehind DEF Own

LEMMA OwnInvariance == Spec => [](Inv /\ Own)
BY InitInv, InitOwn, NextKeepsOwn, PTL DEF Spec

\* The living engine of a pending start has no owner generation that the claim
\* had not durably recorded as an attempt, however many processes mark, roll
\* back, crash and recover, and whenever a lost acquisition arrives
\* (#acquirePendingOwner marks before it acquires).
THEOREM OwnersAttempted == Spec => []OwnerWasAttempted
<1>1. Inv /\ Own => OwnerWasAttempted
  BY DEF Own
<1> QED
  BY <1>1, OwnInvariance, PTL

\* The record never names a generation that its engine has not granted: what
\* is committed after marks and rollbacks, and what an adoption publishes, has
\* been acquired (commitStartClaim, rotateAuthority).
THEOREM RecordBehindEngine == Spec => []RecordNotAhead
<1>1. Inv /\ Own => RecordNotAhead
  BY DEF Own
<1> QED
  BY <1>1, OwnInvariance, PTL

=============================================================================
