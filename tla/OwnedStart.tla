----------------------------- MODULE OwnedStart -----------------------------
(***************************************************************************)
(* Starting, recovering and adopting the engine of one endpoint: what the  *)
(* local-owned strategy of every supervisor process does from connect to   *)
(* ready, and from a controlled stop to the start of a successor.          *)
(*                                                                         *)
(* The files are the start claim and the authority record.  A section of   *)
(* withExclusiveLock is one step here, because AuthorityStore shows each   *)
(* operation to be one step of the registers; only the section that        *)
(* publishes the record and then drops the claim is two, for a crash may   *)
(* part the two files.  Between sections every interleaving is allowed.    *)
(*                                                                         *)
(* A process that crashes comes back as a new process: what it leaves is   *)
(* its claim, whose starter is then no one.  Launches number the claims    *)
(* and the engines started under them.                                     *)
(***************************************************************************)
EXTENDS Integers, FiniteSets

CONSTANTS
  Supervisors,  \* the supervisor processes
  NoOne,        \* no process: the starter of a claim has died, the lock is free
  MaxLaunch,    \* how many claims are ever taken
  MaxOwner,     \* the highest owner generation
  MaxLosses     \* how many replies of an acquisition are lost

ASSUME StartAssumption ==
  /\ NoOne \notin Supervisors
  /\ MaxLaunch \in Nat \ {0}
  /\ MaxOwner \in Nat \ {0}
  /\ MaxLosses \in Nat

VARIABLES
  claim,     \* the start claim: its launch (0: no claim), stage, owner attempt
  starter,   \* the process that made the claim, NoOne once it has died
  record,    \* the authority record: launch (0: no record), owner generation
  lock,      \* who is inside the two-file section
  engine,    \* per launch: the process, its owner generation, a lapsed lease
  sup,       \* per supervisor: where it stands, its claim, its record
  launches,  \* how many launches there have been
  late,      \* acquisitions whose caller gave up and that may still arrive
  losses,    \* how many replies have been lost
  noted      \* history: the highest owner attempt the claim ever recorded

vars == <<claim, starter, record, lock, engine, sup, launches, late, losses,
          noted>>
world == <<engine, launches, late, losses, noted>>

Launches == 1 .. MaxLaunch
Owner == 0 .. MaxOwner
Claim == [launch : 0 .. MaxLaunch,
          stage : {"none", "claimed", "prepared", "bound"}, attempt : Owner]
NoClaim == [launch |-> 0, stage |-> "none", attempt |-> 0]
Record == [launch : 0 .. MaxLaunch, generation : Owner]
NoRecord == [launch |-> 0, generation |-> 0]

\* "gated": spawned and waiting for the bootstrap credential; "started": has
\* it; "serving": answers at the endpoint.
Engine == [process : {"absent", "gated", "started", "serving", "dead"},
           owner : Owner, lapsed : BOOLEAN]

Starting == {"prepare", "spawn", "bind", "deliver", "handshake", "mark",
             "initial", "commit", "release"}
Recovering == {"unbound", "resume", "recover", "renew", "predecessor",
               "unwind", "reacquire", "confirm", "advance", "acquire",
               "undo", "retry"}
Adopting == {"adopt", "adopt-renew", "adopt-acquire", "rotate", "join",
             "register", "committed"}
Owning == {"idle", "ready", "stopped", "reclaim"}

Supervisor == [pc : Starting \union Recovering \union Adopting \union Owning,
               claim : Claim, record : Record]

Init ==
  /\ claim = NoClaim /\ starter = NoOne /\ record = NoRecord /\ lock = NoOne
  /\ engine = [l \in Launches |->
                 [process |-> "absent", owner |-> 0, lapsed |-> FALSE]]
  /\ sup = [p \in Supervisors |->
              [pc |-> "idle", claim |-> NoClaim, record |-> NoRecord]]
  /\ launches = 0 /\ late = {} /\ losses = 0 /\ noted = 0

-----------------------------------------------------------------------------
(* Observations.                                                           *)

Alive(l) == engine[l].process \in {"gated", "started", "serving"}
Dead(l) == engine[l].process = "dead"
Serving(l) == engine[l].process = "serving"

\* The endpoint refuses the connection: no engine answers there.
Absent == \A l \in Launches : ~Serving(l)

At(p, pc) == sup[p].pc = pc
Goto(p, pc) == sup' = [sup EXCEPT ![p] = [@ EXCEPT !.pc = pc]]
Leave(p) ==
  sup' = [sup EXCEPT ![p] = [pc |-> "idle", claim |-> NoClaim,
                             record |-> NoRecord]]

\* The process of launch l becomes s.
Process(l, s) == engine' = [engine EXCEPT ![l] = [@ EXCEPT !.process = s]]

\* A section of withExclusiveLock runs when no one is inside another.
Section == lock = NoOne

\* verifyStartClaim: the published claim is the one this process knows.
Verified(p) == claim = sup[p].claim

WriteClaim(p, c, pc) ==
  /\ claim' = c
  /\ sup' = [sup EXCEPT ![p] = [@ EXCEPT !.claim = c, !.pc = pc]]

RemoveClaim == claim' = NoClaim /\ starter' = NoOne

-----------------------------------------------------------------------------
(* The engine's owner lease, as the supervisor's error handling and the     *)
(* tests of the repository describe it.                                     *)

\* An engine that never had an owner answers expired, a generation that is
\* not the owner's conflicts, and a lapsed lease cannot be renewed.
Renewal(l, g) ==
  CASE engine[l].owner = 0 -> "expired"
    [] engine[l].owner # g -> "conflict"
    [] engine[l].lapsed    -> "expired"
    [] OTHER               -> "renewed"

\* Expecting generation 0 presents the bootstrap credential, which is good
\* for one owner; a later owner is acquired from the lapsed one.
Acquisition(l, g) ==
  CASE g = 0 /\ engine[l].owner = 0              -> "acquired"
    [] g > 0 /\ engine[l].owner = 0              -> "expired"
    [] g = engine[l].owner /\ engine[l].lapsed   -> "acquired"
    [] OTHER                                     -> "conflict"

Acquired(l) ==
  /\ engine[l].owner < MaxOwner
  /\ engine' = [engine EXCEPT ![l] = [@ EXCEPT !.owner = engine[l].owner + 1,
                                               !.lapsed = FALSE]]

-----------------------------------------------------------------------------
(* connect: one section decides between adoption, recovery and a new start. *)

\* Mutant: an unprepared claim is taken over while its starter lives.
ClaimableFromLiving == claim.stage \in {"none", "claimed"}

\* A new claim is taken over no claim, or over one whose starter died before
\* it recorded anything.
Claimable ==
  \/ claim = NoClaim
  \/ starter = NoOne /\ claim.stage = "claimed"

\* Mutant: the new claim keeps the owner attempt of the claim it replaces.
TakeClaimKeepingAttempt(p) ==
  /\ launches < MaxLaunch
  /\ launches' = launches + 1
  /\ starter' = p
  /\ WriteClaim(p, [launch |-> launches + 1, stage |-> "claimed",
                    attempt |-> claim.attempt], "prepare")
  /\ noted' = 0
  /\ UNCHANGED <<record, lock, engine, late, losses>>

TakeClaim(p) ==
  /\ launches < MaxLaunch
  /\ launches' = launches + 1
  /\ starter' = p
  /\ WriteClaim(p, [launch |-> launches + 1, stage |-> "claimed",
                    attempt |-> 0], "prepare")
  /\ noted' = 0
  /\ UNCHANGED <<record, lock, engine, late, losses>>

Connecting(p) == At(p, "idle") /\ Section

ConnectToRecord(p) ==
  /\ Connecting(p)
  /\ record.launch # 0
  /\ sup' = [sup EXCEPT ![p] = [@ EXCEPT !.pc = "adopt", !.record = record]]
  /\ UNCHANGED <<claim, starter, record, lock, world>>

ClaimStart(p) ==
  /\ Connecting(p)
  /\ record = NoRecord
  /\ Claimable
  /\ TakeClaim(p)

\* The starter is dead and its claim says how far it came.
FindPendingStart(p) ==
  /\ Connecting(p)
  /\ record = NoRecord
  /\ starter = NoOne
  /\ \/ claim.stage = "prepared" /\ WriteClaim(p, claim, "unbound")
     \/ claim.stage = "bound" /\ Alive(claim.launch)
          /\ WriteClaim(p, claim, "resume")
  /\ UNCHANGED <<starter, record, lock, world>>

\* A bound engine that is dead is retired with its claim, and a new claim
\* taken, in one section.
ReplaceDeadStart(p) ==
  /\ Connecting(p)
  /\ record = NoRecord
  /\ starter = NoOne
  /\ claim.stage = "bound"
  /\ ~Alive(claim.launch)
  /\ Absent
  /\ TakeClaim(p)

\* #resumeUnboundPendingStart, when no engine answered until the deadline.
\* Its other branch, an engine that answers under an unbound claim, does not
\* arise: the bootstrap credential is delivered after the bind.
ReplaceUnboundStart(p) ==
  /\ At(p, "unbound")
  /\ Section
  /\ Verified(p)
  /\ Absent
  /\ TakeClaim(p)

-----------------------------------------------------------------------------
(* The cold start.                                                         *)

PrepareStartClaim(p) ==
  /\ At(p, "prepare")
  /\ Section
  /\ Verified(p)
  /\ WriteClaim(p, [claim EXCEPT !.stage = "prepared"], "spawn")
  /\ UNCHANGED <<starter, record, lock, world>>

AbortUnspawnedStart(p) ==
  /\ At(p, "prepare") \/ At(p, "spawn")
  /\ Section
  /\ Verified(p)
  /\ RemoveClaim
  /\ Leave(p)
  /\ UNCHANGED <<record, lock, world>>

\* Mutant: the child is started with its bootstrap, before it is bound.
SpawnUngated(p) ==
  /\ At(p, "spawn")
  /\ Process(sup[p].claim.launch, "started")
  /\ Goto(p, "bind")
  /\ UNCHANGED <<claim, starter, record, lock, launches, late, losses, noted>>

Spawn(p) ==
  /\ At(p, "spawn")
  /\ Process(sup[p].claim.launch, "gated")
  /\ Goto(p, "bind")
  /\ UNCHANGED <<claim, starter, record, lock, launches, late, losses, noted>>

BindStartClaimProcess(p) ==
  /\ At(p, "bind")
  /\ Section
  /\ Verified(p)
  /\ WriteClaim(p, [claim EXCEPT !.stage = "bound"], "deliver")
  /\ UNCHANGED <<starter, record, lock, world>>

DeliverBootstrap(p) ==
  /\ At(p, "deliver")
  /\ engine[sup[p].claim.launch].process = "gated"
  /\ Process(sup[p].claim.launch, "started")
  /\ Goto(p, "handshake")
  /\ UNCHANGED <<claim, starter, record, lock, launches, late, losses, noted>>

\* A spawn that fails kills its gated child and drops the claim, which a
\* bound child keeps when its cleanup could not be reconciled.
SpawnFails(p) ==
  /\ sup[p].pc \in {"spawn", "bind", "deliver"}
  /\ Section
  /\ IF At(p, "spawn") THEN UNCHANGED engine
     ELSE Process(sup[p].claim.launch, "dead")
  /\ \/ claim.launch = sup[p].claim.launch /\ RemoveClaim
     \/ At(p, "deliver") /\ UNCHANGED <<claim, starter>>
  /\ Leave(p)
  /\ UNCHANGED <<record, lock, launches, late, losses, noted>>

\* #resumePendingStart verifies the claim and reads the pending credentials.
ResumePendingStart(p) ==
  /\ At(p, "resume")
  /\ Alive(sup[p].claim.launch)
  /\ Section
  /\ Verified(p)
  /\ Goto(p, "handshake")
  /\ UNCHANGED <<claim, starter, record, lock, world>>

Handshake(p) ==
  /\ At(p, "handshake")
  /\ Serving(sup[p].claim.launch)
  /\ Goto(p, IF sup[p].claim.attempt = 0 THEN "mark" ELSE "renew")
  /\ UNCHANGED <<claim, starter, record, lock, world>>

FindDead(p) ==
  /\ At(p, "handshake") \/ At(p, "resume")
  /\ Dead(sup[p].claim.launch)
  /\ Goto(p, "recover")
  /\ UNCHANGED <<claim, starter, record, lock, world>>

\* #recoverStartupDeath; the restart that follows is a connect.
RecoverStartupDeath(p) ==
  /\ At(p, "recover")
  /\ Section
  /\ Verified(p)
  /\ Dead(claim.launch)
  /\ Absent
  /\ RemoveClaim
  /\ Leave(p)
  /\ UNCHANGED <<record, lock, world>>

-----------------------------------------------------------------------------
(* Acquiring the owner lease.  The claim records an attempt before the      *)
(* acquisition it stands for, and is rolled back when the engine shows that *)
(* it did not happen.  Attempt n always goes with the owner generation n:   *)
(* it is acquired expecting n - 1, and committed as n.                      *)

\* Mutant: the attempt is counted in memory and not written to the claim.
MarkOwnerAttemptInMemory(p) ==
  /\ At(p, "mark") \/ At(p, "advance")
  /\ Section
  /\ Verified(p)
  /\ claim.attempt < MaxOwner
  /\ sup' = [sup EXCEPT ![p] =
               [@ EXCEPT !.claim = [claim EXCEPT !.attempt = @ + 1],
                         !.pc = IF @ = "mark" THEN "initial" ELSE "acquire"]]
  /\ UNCHANGED <<claim, starter, record, lock, world>>

MarkOwnerAttempt(p) ==
  /\ At(p, "mark") \/ At(p, "advance")
  /\ Section
  /\ Verified(p)
  /\ claim.attempt < MaxOwner
  /\ WriteClaim(p, [claim EXCEPT !.attempt = @ + 1],
                IF At(p, "mark") THEN "initial" ELSE "acquire")
  /\ noted' = IF claim'.attempt > noted THEN claim'.attempt ELSE noted
  /\ UNCHANGED <<starter, record, lock, engine, launches, late, losses>>

\* Mutant: the attempt that did not happen is left in the claim.
RollbackOwnerAttemptForgotten(p) ==
  /\ At(p, "unwind") \/ At(p, "undo")
  /\ Section
  /\ Verified(p)
  /\ Goto(p, IF At(p, "unwind") THEN "commit" ELSE "retry")
  /\ UNCHANGED <<claim, starter, record, lock, world>>

RollbackOwnerAttempt(p) ==
  /\ At(p, "unwind") \/ At(p, "undo")
  /\ Section
  /\ Verified(p)
  /\ claim.attempt >= 2
  /\ WriteClaim(p, [claim EXCEPT !.attempt = @ - 1],
                IF At(p, "unwind") THEN "commit" ELSE "retry")
  /\ UNCHANGED <<starter, record, lock, world>>

RenewPending(p) ==
  LET l == sup[p].claim.launch
      n == sup[p].claim.attempt
  IN /\ sup[p].pc \in {"renew", "predecessor", "confirm"}
     /\ Serving(l)
     /\ \/ /\ At(p, "renew") \/ At(p, "confirm")
           /\ Renewal(l, n) = "renewed"
           /\ Goto(p, "commit")
        \/ /\ At(p, "renew")
           /\ Renewal(l, n) = "expired"
           /\ Goto(p, "advance")
        \/ /\ At(p, "renew")
           /\ Renewal(l, n) = "conflict"
           /\ n >= 2
           /\ Goto(p, "predecessor")
        \/ /\ At(p, "predecessor")
           /\ Renewal(l, n - 1) = "renewed"
           /\ Goto(p, "unwind")
        \/ /\ At(p, "predecessor")
           /\ Renewal(l, n - 1) = "expired"
           /\ Goto(p, "reacquire")
     /\ UNCHANGED <<claim, starter, record, lock, world>>

AcquirePending(p) ==
  LET l == sup[p].claim.launch
      expected == sup[p].claim.attempt - 1
  IN /\ sup[p].pc \in {"initial", "acquire", "reacquire", "retry"}
     /\ Serving(l)
     /\ \/ /\ Acquisition(l, expected) = "acquired"
           /\ Acquired(l)
           /\ Goto(p, "commit")
        \/ /\ At(p, "acquire")
           /\ Acquisition(l, expected) = "expired"
           /\ Goto(p, "undo")
           /\ UNCHANGED engine
        \/ /\ At(p, "reacquire") \/ At(p, "retry")
           /\ Acquisition(l, expected) = "conflict"
           /\ Goto(p, "confirm")
           /\ UNCHANGED engine
     /\ UNCHANGED <<claim, starter, record, lock, launches, late, losses, noted>>

-----------------------------------------------------------------------------
(* Publishing the record and dropping the claim, in one section.           *)

\* Mutant: the record is published over any other.
CommitOverAny(p) ==
  /\ At(p, "commit")
  /\ Section
  /\ Verified(p)
  /\ starter = p \/ Alive(claim.launch)
  /\ record' = [launch |-> claim.launch, generation |-> claim.attempt]
  /\ lock' = p
  /\ sup' = [sup EXCEPT ![p] = [@ EXCEPT !.pc = "release",
                                        !.record = record']]
  /\ UNCHANGED <<claim, starter, world>>

Commit(p) ==
  /\ At(p, "commit")
  /\ Section
  /\ Verified(p)
  /\ starter = p \/ Alive(claim.launch)
  /\ record = NoRecord
  /\ record' = [launch |-> claim.launch, generation |-> claim.attempt]
  /\ lock' = p
  /\ sup' = [sup EXCEPT ![p] = [@ EXCEPT !.pc = "release",
                                        !.record = record']]
  /\ UNCHANGED <<claim, starter, world>>

ReleaseStartClaim(p) ==
  /\ At(p, "release")
  /\ lock = p
  /\ RemoveClaim
  /\ lock' = NoOne
  /\ sup' = [sup EXCEPT ![p] =
               [@ EXCEPT !.claim = NoClaim,
                         !.pc = IF starter = p THEN "register" ELSE "join"]]
  /\ UNCHANGED <<record, world>>

\* The record is published and dropping the claim fails.
ReleaseFails(p) ==
  /\ At(p, "release")
  /\ lock = p
  /\ lock' = NoOne
  /\ Leave(p)
  /\ UNCHANGED <<claim, starter, record, world>>

Register(p) ==
  /\ At(p, "register") \/ At(p, "join")
  /\ Serving(sup[p].record.launch)
  /\ Goto(p, "ready")
  /\ UNCHANGED <<claim, starter, record, lock, world>>

\* #recoverCommittedStartupDeath
RecoverCommittedDeath(p) ==
  /\ At(p, "register")
  /\ Section
  /\ record = sup[p].record
  /\ Dead(record.launch)
  /\ Absent
  /\ record' = NoRecord
  /\ Leave(p)
  /\ UNCHANGED <<claim, starter, lock, world>>

-----------------------------------------------------------------------------
(* Adopting the engine of a record.                                        *)

AdoptHandshake(p) ==
  /\ At(p, "adopt")
  /\ Serving(sup[p].record.launch)
  /\ Goto(p, "adopt-renew")
  /\ UNCHANGED <<claim, starter, record, lock, world>>

\* #retireDeadAuthority; connect starts over.
RetireDeadAuthority(p) ==
  /\ At(p, "adopt")
  /\ Dead(sup[p].record.launch)
  /\ Section
  /\ record = sup[p].record
  /\ Absent
  /\ record' = NoRecord
  /\ Leave(p)
  /\ UNCHANGED <<claim, starter, lock, world>>

AdoptRenew(p) ==
  LET r == sup[p].record
  IN /\ At(p, "adopt-renew")
     /\ Serving(r.launch)
     /\ \/ Renewal(r.launch, r.generation) = "renewed" /\ Goto(p, "join")
        \/ Renewal(r.launch, r.generation) = "expired"
             /\ Goto(p, "adopt-acquire")
     /\ UNCHANGED <<claim, starter, record, lock, world>>

AdoptAcquire(p) ==
  LET r == sup[p].record
  IN /\ At(p, "adopt-acquire")
     /\ Serving(r.launch)
     /\ Acquisition(r.launch, r.generation) = "acquired"
     /\ Acquired(r.launch)
     /\ Goto(p, "rotate")
     /\ UNCHANGED <<claim, starter, record, lock, launches, late, losses, noted>>

CommitRotation(p) ==
  /\ At(p, "rotate")
  /\ Section
  /\ record = sup[p].record
  /\ record' = [record EXCEPT !.generation = @ + 1]
  /\ sup' = [sup EXCEPT ![p] = [@ EXCEPT !.pc = "join",
                                        !.record = record']]
  /\ UNCHANGED <<claim, starter, lock, world>>

-----------------------------------------------------------------------------
(* Leaving, stopping, restarting.                                          *)

\* A failed or refused step returns or throws and leaves the files as they
\* are: an abort, a deadline, a transport error, a generation conflict, a
\* store error.  A ready supervisor drops its context when a lease renewal
\* fails, when its engine exits and when it detaches.
GiveUp(p) ==
  /\ sup[p].pc \notin {"idle", "spawn", "bind", "deliver", "release"}
  /\ Leave(p)
  /\ UNCHANGED <<claim, starter, record, lock, world>>

\* #controlledStop, as far as it ends in the death of the engine: the record
\* is still the context's and its owner lease was renewed.
StopEngine(p) ==
  LET r == sup[p].record
  IN /\ At(p, "ready")
     /\ Section
     /\ record = r
     /\ Serving(r.launch)
     /\ Renewal(r.launch, r.generation) = "renewed"
     /\ Process(r.launch, "dead")
     /\ Goto(p, "stopped")
     /\ UNCHANGED <<claim, starter, record, lock, launches, late, losses, noted>>

RetireObservedExit(p) ==
  /\ At(p, "stopped")
  /\ Section
  /\ record = sup[p].record
  /\ Dead(record.launch)
  /\ record' = NoRecord
  /\ Goto(p, "reclaim")
  /\ UNCHANGED <<claim, starter, lock, world>>

\* restart claims the start of the successor without reading the record.
RestartClaim(p) ==
  /\ At(p, "reclaim")
  /\ Section
  /\ Claimable
  /\ TakeClaim(p)

\* The caller of an acquisition sees no reply: it was carried out, or may
\* still be.
LoseReply(p) ==
  LET l == IF At(p, "adopt-acquire") THEN sup[p].record.launch
           ELSE sup[p].claim.launch
      expected == IF At(p, "adopt-acquire") THEN sup[p].record.generation
                  ELSE sup[p].claim.attempt - 1
  IN /\ sup[p].pc \in {"initial", "acquire", "reacquire", "retry",
                       "adopt-acquire"}
     /\ Serving(l)
     /\ losses < MaxLosses
     /\ losses' = losses + 1
     /\ Leave(p)
     /\ \/ Acquisition(l, expected) = "acquired" /\ Acquired(l)
             /\ UNCHANGED late
        \/ late' = late \union {[launch |-> l, expected |-> expected]}
             /\ UNCHANGED engine
     /\ UNCHANGED <<claim, starter, record, lock, launches, noted>>

Crash(p) ==
  /\ ~At(p, "idle") \/ starter = p
  /\ Leave(p)
  /\ starter' = IF starter = p THEN NoOne ELSE starter
  /\ lock' = IF lock = p THEN NoOne ELSE lock
  /\ UNCHANGED <<claim, record, world>>

-----------------------------------------------------------------------------
(* The engine.                                                             *)

EngineServes(l) ==
  /\ engine[l].process = "started"
  /\ Absent
  /\ Process(l, "serving")
  /\ UNCHANGED <<claim, starter, record, lock, sup, launches, late, losses, noted>>

EngineExits(l) ==
  /\ Alive(l)
  /\ Process(l, "dead")
  /\ UNCHANGED <<claim, starter, record, lock, sup, launches, late, losses, noted>>

OwnerLeaseLapses(l) ==
  /\ Serving(l)
  /\ engine[l].owner > 0
  /\ ~engine[l].lapsed
  /\ engine' = [engine EXCEPT ![l] = [@ EXCEPT !.lapsed = TRUE]]
  /\ UNCHANGED <<claim, starter, record, lock, sup, launches, late, losses, noted>>

LateAcquisition(r) ==
  /\ late' = late \ {r}
  /\ IF Serving(r.launch) /\ Acquisition(r.launch, r.expected) = "acquired"
     THEN Acquired(r.launch)
     ELSE UNCHANGED engine
  /\ UNCHANGED <<claim, starter, record, lock, sup, launches, losses, noted>>

-----------------------------------------------------------------------------
Start(p) ==
  \/ ConnectToRecord(p) \/ ClaimStart(p) \/ FindPendingStart(p)
  \/ ReplaceDeadStart(p) \/ ReplaceUnboundStart(p)
  \/ PrepareStartClaim(p) \/ AbortUnspawnedStart(p) \/ Spawn(p)
  \/ BindStartClaimProcess(p) \/ DeliverBootstrap(p) \/ SpawnFails(p)
  \/ ResumePendingStart(p) \/ Handshake(p) \/ FindDead(p)
  \/ RecoverStartupDeath(p)

Acquire(p) ==
  \/ MarkOwnerAttempt(p) \/ RollbackOwnerAttempt(p)
  \/ RenewPending(p) \/ AcquirePending(p)
  \/ Commit(p) \/ ReleaseStartClaim(p) \/ ReleaseFails(p) \/ Register(p)
  \/ RecoverCommittedDeath(p)

Adopt(p) ==
  \/ AdoptHandshake(p) \/ RetireDeadAuthority(p) \/ AdoptRenew(p)
  \/ AdoptAcquire(p) \/ CommitRotation(p)

Restart(p) ==
  \/ GiveUp(p) \/ StopEngine(p) \/ RetireObservedExit(p) \/ RestartClaim(p)

Step(p) == Start(p) \/ Acquire(p) \/ Adopt(p) \/ Restart(p)

Environment ==
  \/ \E p \in Supervisors : LoseReply(p) \/ Crash(p)
  \/ \E l \in Launches : EngineServes(l) \/ EngineExits(l)
                           \/ OwnerLeaseLapses(l)
  \/ \E r \in late : LateAcquisition(r)

Next == (\E p \in Supervisors : Step(p)) \/ Environment

Spec == Init /\ [][Next]_vars

-----------------------------------------------------------------------------
(* Properties.                                                             *)

\* Every variable has its type; a claim without an engine has no attempt, and
\* a claim that is gone has no starter (assertStartClaim).
TypeOK ==
  /\ claim \in Claim /\ record \in Record
  /\ claim.stage = "none" <=> claim.launch = 0
  /\ claim.attempt > 0 => claim.stage = "bound"
  /\ starter \in Supervisors \union {NoOne}
  /\ claim.stage = "none" => starter = NoOne
  /\ lock \in Supervisors \union {NoOne}
  /\ engine \in [Launches -> Engine]
  /\ sup \in [Supervisors -> Supervisor]
  /\ launches \in 0 .. MaxLaunch /\ losses \in 0 .. MaxLosses
  /\ noted \in Owner
  /\ late \subseteq [launch : Launches, expected : Owner]

\* An engine that has its bootstrap credential is never lost sight of: while
\* it runs, the claim or the record names it, whichever processes crash
\* (bindStartClaimProcess before the bootstrap, record before release, death
\* confirmed before retirement).
NoEngineForgotten ==
  \A l \in Launches :
    engine[l].process \in {"started", "serving"} =>
      l \in {claim.launch, record.launch}

\* At most one process at a time is on its way from a claim to a started
\* engine (claimStart leaves the claim of a living starter alone).
ColdStarting(p) == sup[p].pc \in {"prepare", "spawn", "bind", "deliver"}

OneColdStart ==
  \A p, q \in Supervisors : ColdStarting(p) /\ ColdStarting(q) => p = q

\* The record of a living engine stays, and its owner generation never
\* decreases, whoever recovers, adopts, stops or restarts (commit against the
\* expected record; retirement after a confirmed death).
RecordKept ==
  [][record # NoRecord /\ ~Dead(record.launch) =>
       /\ record'.launch = record.launch
       /\ record'.generation >= record.generation]_vars

\* The living engine of a pending start has no owner generation that the claim had
\* not durably recorded as an attempt before, so a recovery knows which
\* generations can exist (#acquirePendingOwner marks before it acquires).
OwnerWasAttempted ==
  \A l \in Launches :
    l = claim.launch /\ l # record.launch /\ Alive(l) =>
      engine[l].owner <= noted

\* No record names a generation the engine has not granted, through all the
\* marks and rollbacks that precede its publication.
RecordNotAhead ==
  \A l \in Launches :
    l = record.launch => record.generation <= engine[l].owner

\* The next recovery can reach the owner of a pending start that no process
\* is working on: the recorded attempt or the generation before it ("falls
\* back only after definitive lower-generation proof").
PendingOwnerReachable ==
  /\ claim.stage = "bound" /\ Alive(claim.launch)
  /\ \A p \in Supervisors : sup[p].claim.launch # claim.launch
  => claim.attempt <= engine[claim.launch].owner + 1

\* The record of a living engine names its owner generation, or a process is
\* about to publish the next one.
AdoptableRecord ==
  record # NoRecord /\ Alive(record.launch) =>
    \/ record.generation = engine[record.launch].owner
    \/ \E p \in Supervisors : At(p, "rotate") /\ sup[p].record = record
=============================================================================
