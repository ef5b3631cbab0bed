--------------------------- MODULE AuthorityStore ---------------------------
(***************************************************************************)
(* The local authority store of one endpoint                               *)
(* (lifecycle/local-authority-store.ts) at the granularity of the file     *)
(* operations it performs, used by several supervisor processes that may   *)
(* crash, or see an operation throw, between any two of them.              *)
(*                                                                         *)
(* The store keeps three public files - the authority record, the start    *)
(* claim, the control attempt - and one secret file for each, in a         *)
(* directory shared by every supervisor.  Each operation runs inside       *)
(* withExclusiveLock, an flock the kernel releases when its holder dies.   *)
(* A file is its contents, or None when it does not exist; a random id is  *)
(* the next number of a counter, since the code's ids never repeat.  A     *)
(* launch id is made once per start claim, so the claim's token stands for *)
(* the launch and for the one engine process launched with it.             *)
(*                                                                         *)
(* What a process passes as the `expected` argument of an operation is     *)
(* what it saw in an earlier lock section (seenRecord, seenClaim,          *)
(* seenControl), however stale that is by now.                             *)
(***************************************************************************)
EXTENDS Naturals

CONSTANTS
  Proc,                 \* supervisor processes (a process never comes back)
  None,                 \* a file that does not exist, nobody, nothing seen
  Torn,                 \* a start claim created but never filled
  MaxLaunch,            \* bound: start claims made in a behaviour
  MaxRevision,          \* bound: record revisions
  MaxRequest,           \* bound: control requests
  MaxGeneration,        \* bound: owner generations
  DirectorySyncMayFail  \* whether fsync of the directory may fail after a rename

Phase == {"begin-pending", "draining", "graceful-accepted",
          "hard-signal-pending", "hard-signal-commit-pending"}
Operation == {"stop", "restart"}

AuthorityRecord == [revision : Nat, launch : Nat, generation : Nat]
StartClaim      == [token : Nat, starter : Proc, prepared : BOOLEAN,
                    bound : BOOLEAN, attempt : Nat]
ControlAttempt  == [request : Nat, revision : Nat, launch : Nat,
                    generation : Nat, operation : Operation, phase : Phase]

(* Where the holder of the lock is inside an operation of several steps.   *)
Step == {"none", "claim-sweep", "claim-fill",
         "prepare-publish", "prepare-undo", "claim-unlink",
         "commit-publish", "commit-undo", "commit-clean",
         "control-publish", "control-undo", "control-clean",
         "retire-control", "retire-control-secret", "retire-secret"}

ASSUME StoreAssumption ==
  /\ None \notin Proc /\ None # Torn
  /\ None \notin AuthorityRecord /\ None \notin ControlAttempt
  /\ None \notin StartClaim /\ Torn \notin StartClaim
  /\ MaxLaunch \in Nat /\ MaxRevision \in Nat /\ MaxRequest \in Nat
  /\ MaxGeneration \in Nat
  /\ DirectorySyncMayFail \in BOOLEAN

VARIABLES
  authority, claim, control,                   \* the public files
  ownerSecret, pendingSecret, controlSecret,   \* secret files, by revision, token, request
  lock, step, draft, draftControl,             \* the lock, its holder's progress and arguments
  live, seenRecord, seenClaim, seenControl,    \* the processes and what they remember
  spawned, running,                            \* engines launched, engines alive
  launches, revisions, requests                \* random ids drawn so far, per kind

publicFiles == <<authority, claim, control>>
secretFiles == <<ownerSecret, pendingSecret, controlSecret>>
files       == <<publicFiles, secretFiles>>
progress    == <<step, draft, draftControl>>
seen        == <<seenRecord, seenClaim, seenControl>>
engines     == <<spawned, running>>
ids         == <<launches, revisions, requests>>
vars == <<files, lock, progress, live, seen, engines, ids>>

TypeOK ==
  /\ authority \in AuthorityRecord \cup {None}
  /\ claim \in StartClaim \cup {None, Torn}
  /\ control \in ControlAttempt \cup {None}
  /\ ownerSecret \subseteq Nat /\ pendingSecret \subseteq Nat /\ controlSecret \subseteq Nat
  /\ lock \in Proc \cup {None}
  /\ step \in Step
  /\ draft \in AuthorityRecord \cup {None}
  /\ draftControl \in ControlAttempt \cup {None}
  /\ live \subseteq Proc
  /\ seenRecord \in [Proc -> AuthorityRecord \cup {None}]
  /\ seenClaim \in [Proc -> StartClaim \cup {None}]
  /\ seenControl \in [Proc -> ControlAttempt \cup {None}]
  /\ spawned \subseteq Nat /\ running \subseteq Nat
  /\ launches \in Nat /\ revisions \in Nat /\ requests \in Nat

Init ==
  /\ authority = None /\ claim = None /\ control = None
  /\ ownerSecret = {} /\ pendingSecret = {} /\ controlSecret = {}
  /\ lock = None /\ step = "none" /\ draft = None /\ draftControl = None
  /\ live = Proc
  /\ seenRecord = [p \in Proc |-> None]
  /\ seenClaim = [p \in Proc |-> None]
  /\ seenControl = [p \in Proc |-> None]
  /\ spawned = {} /\ running = {}
  /\ launches = 0 /\ revisions = 0 /\ requests = 0

-----------------------------------------------------------------------------
(* Helpers.                                                                *)

HasClaim == claim \notin {None, Torn}

(* p holds the lock and is between two operations.                         *)
Free(p) == lock = p /\ step = "none"

Goto(s) == step' = s
Finish  == step' = "none" /\ draft' = None /\ draftControl' = None

(* A single atomicWrite of the claim or of the control attempt returns the *)
(* new value to its caller; it may also throw after the rename took effect.*)
WriteClaim(p, new) ==
  /\ claim' = new
  /\ \/ seenClaim' = [seenClaim EXCEPT ![p] = claim']
     \/ DirectorySyncMayFail /\ UNCHANGED seenClaim
  /\ UNCHANGED <<authority, control, secretFiles, lock, progress, live,
                 seenRecord, seenControl, engines, ids>>

(* Mutant: the write of the attempt is not atomic.                         *)
WriteControlInPlace(p, new) ==
  /\ control' \in {new, Torn}
  /\ seenControl' = [seenControl EXCEPT ![p] = new]
  /\ UNCHANGED <<authority, claim, secretFiles, lock, progress, live,
                 seenRecord, seenClaim, engines, ids>>

WriteControl(p, new) ==
  /\ control' = new
  /\ \/ seenControl' = [seenControl EXCEPT ![p] = control']
     \/ DirectorySyncMayFail /\ UNCHANGED seenControl
  /\ UNCHANGED <<authority, claim, secretFiles, lock, progress, live,
                 seenRecord, seenClaim, engines, ids>>

(* readControlAttempt throws when the attempt is not of this authority; a  *)
(* pending begin must also be of this very revision and generation.        *)
Readable(c, r) ==
  /\ c.launch = r.launch
  /\ c.phase = "begin-pending" => c.revision = r.revision /\ c.generation = r.generation

ControlReadable == control # None => Readable(control, authority)

PhaseStep == {<<"draining", "graceful-accepted">>,
              <<"graceful-accepted", "hard-signal-pending">>,
              <<"hard-signal-pending", "hard-signal-commit-pending">>}

-----------------------------------------------------------------------------
(* Processes, the lock and the engines.                                    *)

Acquire(p) ==
  /\ p \in live /\ lock = None
  /\ lock' = p
  /\ UNCHANGED <<files, progress, live, seen, engines, ids>>

Unlock(p) ==
  /\ Free(p)
  /\ lock' = None
  /\ UNCHANGED <<files, progress, live, seen, engines, ids>>

(* The kernel drops the flock of a dead process; the files stay as they    *)
(* are, whatever step its operation had reached.                           *)
Crash(p) ==
  /\ p \in live
  /\ live' = live \ {p}
  /\ seenRecord' = [seenRecord EXCEPT ![p] = None]
  /\ seenClaim' = [seenClaim EXCEPT ![p] = None]
  /\ seenControl' = [seenControl EXCEPT ![p] = None]
  /\ IF lock = p THEN lock' = None /\ Finish ELSE UNCHANGED <<lock, progress>>
  /\ UNCHANGED <<files, engines, ids>>

(* The operation rejects: the finally of withExclusiveLock releases the    *)
(* lock, and the caller gives up its attempt and what it knew of it.       *)
Reject(p) ==
  /\ lock' = None /\ Finish
  /\ seenClaim' = [seenClaim EXCEPT ![p] = None]
  /\ seenControl' = [seenControl EXCEPT ![p] = None]
  /\ UNCHANGED seenRecord

(* A file operation throws and nothing catches it: the files stay as they  *)
(* are.  The steps whose failure is caught have actions of their own.      *)
Throw(p) ==
  /\ lock = p
  /\ step \notin {"none", "prepare-publish", "commit-publish", "control-publish"}
  /\ Reject(p)
  /\ UNCHANGED <<files, live, engines, ids>>

(* The starter launches the engine for its prepared claim, outside the     *)
(* lock; the engine exits whenever it does.                                *)
Spawn(p) ==
  /\ p \in live /\ lock # p
  /\ seenClaim[p] # None /\ seenClaim[p].starter = p
  /\ seenClaim[p].prepared /\ ~seenClaim[p].bound
  /\ seenClaim[p].token \notin spawned
  /\ spawned' = spawned \cup {seenClaim[p].token}
  /\ running' = running \cup {seenClaim[p].token}
  /\ UNCHANGED <<files, lock, progress, live, seen, ids>>

EngineExits(e) ==
  /\ e \in running
  /\ running' = running \ {e}
  /\ UNCHANGED <<files, lock, progress, live, seen, spawned, ids>>

(* readCurrentForRecovery: the caller remembers the record it read.        *)
ReadCurrent(p) ==
  /\ Free(p) /\ seenRecord[p] # authority
  /\ seenRecord' = [seenRecord EXCEPT ![p] = authority]
  /\ UNCHANGED <<files, lock, progress, live, seenClaim, seenControl, engines, ids>>

-----------------------------------------------------------------------------
(* The start claim.                                                        *)

(* Mutant: a claim is taken over without asking whether its starter lives. *)
ClaimStartFromAnyone(p) ==
  /\ Free(p)
  /\ claim = None \/ (HasClaim /\ ~claim.prepared)
  /\ launches < MaxLaunch
  /\ claim' = None
  /\ Goto("claim-sweep")
  /\ UNCHANGED <<authority, control, secretFiles, lock, draft, draftControl,
                 live, seen, engines, ids>>

(* claimStart when nothing stands in its way: there is no claim, or only   *)
(* one its dead starter never prepared, which is renamed aside.  connect   *)
(* calls it after finding no record; the second lock section of restart    *)
(* calls it without looking, hence no guard on authority.                  *)
ClaimStart(p) ==
  /\ Free(p)
  /\ claim = None \/ (HasClaim /\ claim.starter \notin live /\ ~claim.prepared)
  /\ launches < MaxLaunch
  /\ claim' = None
  /\ Goto("claim-sweep")
  /\ UNCHANGED <<authority, control, secretFiles, lock, draft, draftControl,
                 live, seen, engines, ids>>

(* With no record, claimStart first unlinks, in directory order, every     *)
(* owner secret, control attempt and control secret left behind.           *)
Orphans == ownerSecret # {} \/ controlSecret # {} \/ control # None

SweepOrphan(p) ==
  /\ lock = p /\ step = "claim-sweep" /\ authority = None
  /\ \/ /\ control # None /\ control' = None
        /\ UNCHANGED <<ownerSecret, controlSecret>>
     \/ \E s \in ownerSecret :
          /\ ownerSecret' = ownerSecret \ {s}
          /\ UNCHANGED <<control, controlSecret>>
     \/ \E s \in controlSecret :
          /\ controlSecret' = controlSecret \ {s}
          /\ UNCHANGED <<control, ownerSecret>>
  /\ UNCHANGED <<authority, claim, pendingSecret, lock, progress, live, seen,
                 engines, ids>>

(* exclusiveWrite creates the file and only then writes its contents.      *)
CreateClaim(p) ==
  /\ lock = p /\ step = "claim-sweep" /\ (authority # None \/ ~Orphans)
  /\ claim' = Torn
  /\ Goto("claim-fill")
  /\ UNCHANGED <<authority, control, secretFiles, lock, draft, draftControl,
                 live, seen, engines, ids>>

FillClaim(p) ==
  /\ lock = p /\ step = "claim-fill"
  /\ launches' = launches + 1
  /\ claim' = [token |-> launches', starter |-> p, prepared |-> FALSE,
               bound |-> FALSE, attempt |-> 0]
  /\ seenClaim' = [seenClaim EXCEPT ![p] = claim']
  /\ Finish
  /\ UNCHANGED <<authority, control, secretFiles, lock, live, seenRecord,
                 seenControl, engines, revisions, requests>>

(* claimStart returns the prepared claim of a dead starter: "unbound",     *)
(* "recoverable" or "dead-bound".                                          *)
FindDeadStart(p) ==
  /\ Free(p)
  /\ HasClaim /\ claim.starter \notin live /\ claim.prepared
  /\ seenClaim[p] # claim
  /\ seenClaim' = [seenClaim EXCEPT ![p] = claim]
  /\ UNCHANGED <<files, lock, progress, live, seenRecord, seenControl, engines, ids>>

(* prepareStartClaim: the pending credentials first, then the claim that   *)
(* refers to them; if the second write fails the credentials are removed.  *)
PrepareStartClaim(p) ==
  /\ Free(p) /\ HasClaim /\ seenClaim[p] # None
  /\ seenClaim[p].starter = p /\ claim.token = seenClaim[p].token
  /\ ~claim.prepared
  /\ pendingSecret' = pendingSecret \cup {claim.token}
  /\ Goto("prepare-publish")
  /\ UNCHANGED <<publicFiles, ownerSecret, controlSecret, lock, draft,
                 draftControl, live, seen, engines, ids>>

PreparePublish(p) ==
  /\ lock = p /\ step = "prepare-publish"
  /\ claim' = [claim EXCEPT !.prepared = TRUE]
  /\ \/ seenClaim' = [seenClaim EXCEPT ![p] = claim'] /\ Finish
     \/ DirectorySyncMayFail /\ Goto("prepare-undo")
        /\ UNCHANGED <<draft, draftControl, seenClaim>>
  /\ UNCHANGED <<authority, control, secretFiles, lock, live, seenRecord,
                 seenControl, engines, ids>>

PrepareFails(p) ==
  /\ lock = p /\ step = "prepare-publish"
  /\ Goto("prepare-undo")
  /\ UNCHANGED <<files, lock, draft, draftControl, live, seen, engines, ids>>

PrepareUndo(p) ==
  /\ lock = p /\ step = "prepare-undo"
  /\ pendingSecret' = pendingSecret \ {claim.token}
  /\ Reject(p)
  /\ UNCHANGED <<publicFiles, ownerSecret, controlSecret, live, engines, ids>>

(* bindStartClaimProcess, by the starter from the spawn callback or by the *)
(* successor of a dead one that observed the engine alive under the lock.  *)
BindStartClaimProcess(p) ==
  /\ Free(p) /\ HasClaim /\ seenClaim[p] = claim
  /\ claim.prepared /\ ~claim.bound
  /\ claim.token \in (IF claim.starter = p THEN spawned ELSE running)
  /\ WriteClaim(p, [claim EXCEPT !.bound = TRUE])

MarkOwnerAttempt(p) ==
  /\ Free(p) /\ HasClaim /\ seenClaim[p] = claim
  /\ claim.bound /\ claim.attempt < MaxGeneration
  /\ WriteClaim(p, [claim EXCEPT !.attempt = @ + 1])

RollbackOwnerAttempt(p) ==
  /\ Free(p) /\ HasClaim /\ seenClaim[p] = claim
  /\ claim.bound /\ claim.attempt >= 2
  /\ WriteClaim(p, [claim EXCEPT !.attempt = @ - 1])

(* Mutant: the claim is released although its engine runs uncommitted.     *)
DropClaimOfRunning(p) ==
  /\ Free(p) /\ HasClaim /\ seenClaim[p] # None
  /\ seenClaim[p].token = claim.token
  /\ claim.starter \in {p} \cup (Proc \ live)
  /\ pendingSecret' = pendingSecret \ {claim.token}
  /\ Goto("claim-unlink")
  /\ UNCHANGED <<publicFiles, ownerSecret, controlSecret, lock, draft,
                 draftControl, live, seen, engines, ids>>

(* releaseStartClaim by the holder of the token and retireDeadStartClaim   *)
(* by the successor of a dead starter: the pending secret goes first.  The *)
(* callers reach it right after committing the record of this launch, or   *)
(* once the launch has no engine (never spawned, spawn undone, observed    *)
(* dead).                                                                  *)
DropClaim(p) ==
  /\ Free(p) /\ HasClaim /\ seenClaim[p] # None
  /\ seenClaim[p].token = claim.token
  /\ claim.starter \in {p} \cup (Proc \ live)
  /\ \/ authority # None /\ authority.launch = claim.token
     \/ claim.token \notin running
  /\ pendingSecret' = pendingSecret \ {claim.token}
  /\ Goto("claim-unlink")
  /\ UNCHANGED <<publicFiles, ownerSecret, controlSecret, lock, draft,
                 draftControl, live, seen, engines, ids>>

UnlinkClaim(p) ==
  /\ lock = p /\ step = "claim-unlink"
  /\ claim' = None
  /\ seenClaim' = [seenClaim EXCEPT ![p] = None]
  /\ Finish
  /\ UNCHANGED <<authority, control, secretFiles, lock, live, seenRecord,
                 seenControl, engines, ids>>

-----------------------------------------------------------------------------
(* The authority record.                                                   *)

(* commit: the owner secret of the new revision first, then the record.    *)
BeginCommit(p, r) ==
  /\ revisions < MaxRevision
  /\ revisions' = r.revision
  /\ ownerSecret' = ownerSecret \cup {r.revision}
  /\ draft' = r
  /\ Goto("commit-publish")
  /\ UNCHANGED <<publicFiles, pendingSecret, controlSecret, lock, draftControl,
                 live, seen, engines, launches, requests>>

(* Mutant: the first record does not wait for the durable process binding. *)
CommitFirstUnbound(p, generation) ==
  /\ Free(p) /\ authority = None
  /\ HasClaim /\ seenClaim[p] = claim
  /\ claim.starter = p \/ claim.token \in running
  /\ BeginCommit(p, [revision |-> revisions + 1, launch |-> claim.token,
                     generation |-> generation])

(* The first commit of a launch, under its verified bound claim; the       *)
(* successor of a dead starter also observes the engine alive.             *)
CommitFirst(p, generation) ==
  /\ Free(p) /\ authority = None
  /\ HasClaim /\ seenClaim[p] = claim /\ claim.bound /\ claim.attempt >= 1
  /\ claim.starter = p \/ claim.token \in running
  /\ BeginCommit(p, [revision |-> revisions + 1, launch |-> claim.token,
                     generation |-> generation])

(* Mutant: the generation of a rotation is not compared.                   *)
CommitRotationAnyGeneration(p, generation) ==
  /\ Free(p) /\ authority # None /\ seenRecord[p] = authority
  /\ BeginCommit(p, [revision |-> revisions + 1, launch |-> authority.launch,
                     generation |-> generation])

(* The commit of adoptOrRecover after the owner lease was taken over.      *)
CommitRotation(p, generation) ==
  /\ Free(p) /\ authority # None /\ seenRecord[p] = authority
  /\ generation > authority.generation
  /\ BeginCommit(p, [revision |-> revisions + 1, launch |-> authority.launch,
                     generation |-> generation])

CommitPublish(p) ==
  /\ lock = p /\ step = "commit-publish"
  /\ authority' = draft
  /\ \/ /\ authority = None /\ Finish
        /\ seenRecord' = [seenRecord EXCEPT ![p] = draft]
     \/ /\ authority # None /\ draft' = authority /\ Goto("commit-clean")
        /\ UNCHANGED <<draftControl, seenRecord>>
     \/ /\ DirectorySyncMayFail /\ Goto("commit-undo")
        /\ UNCHANGED <<draft, draftControl, seenRecord>>
  /\ UNCHANGED <<claim, control, secretFiles, lock, live, seenClaim, seenControl,
                 engines, ids>>

CommitFails(p) ==
  /\ lock = p /\ step = "commit-publish"
  /\ Goto("commit-undo")
  /\ UNCHANGED <<files, lock, draft, draftControl, live, seen, engines, ids>>

CommitUndo(p) ==
  /\ lock = p /\ step = "commit-undo"
  /\ ownerSecret' = ownerSecret \ {draft.revision}
  /\ Reject(p)
  /\ UNCHANGED <<publicFiles, pendingSecret, controlSecret, live, engines, ids>>

(* Mutant: the secret just published is removed, not the replaced one.     *)
CommitCleanCurrent(p) ==
  /\ lock = p /\ step = "commit-clean"
  /\ ownerSecret' = ownerSecret \ {authority.revision}
  /\ seenRecord' = [seenRecord EXCEPT ![p] = authority]
  /\ Finish
  /\ UNCHANGED <<publicFiles, pendingSecret, controlSecret, lock, live,
                 seenClaim, seenControl, engines, ids>>

(* After a rotation the secret of the replaced revision is removed.        *)
CommitClean(p) ==
  /\ lock = p /\ step = "commit-clean"
  /\ ownerSecret' = ownerSecret \ {draft.revision}
  /\ seenRecord' = [seenRecord EXCEPT ![p] = authority]
  /\ Finish
  /\ UNCHANGED <<publicFiles, pendingSecret, controlSecret, lock, live,
                 seenClaim, seenControl, engines, ids>>

(* Mutant: retirement without observing the engine dead under the lock.    *)
RetireAuthorityUnobserved(p) ==
  /\ Free(p) /\ authority # None /\ seenRecord[p] = authority
  /\ ControlReadable /\ authority.revision \in ownerSecret
  /\ authority' = None
  /\ draft' = authority /\ draftControl' = control
  /\ Goto("retire-control")
  /\ UNCHANGED <<claim, control, secretFiles, lock, live, seen, engines, ids>>

(* retireDeadGeneration, by a process that observed the engine dead: both  *)
(* secrets must be in order, then the record is renamed aside, and only    *)
(* then the control attempt, its secret and the owner secret are removed.  *)
RetireAuthority(p) ==
  /\ Free(p) /\ authority # None /\ seenRecord[p] = authority
  /\ authority.launch \notin running
  /\ ControlReadable /\ authority.revision \in ownerSecret
  /\ authority' = None
  /\ draft' = authority /\ draftControl' = control
  /\ Goto("retire-control")
  /\ UNCHANGED <<claim, control, secretFiles, lock, live, seen, engines, ids>>

RetireControl(p) ==
  /\ lock = p /\ step = "retire-control"
  /\ control' = None
  /\ Goto(IF draftControl = None THEN "retire-secret" ELSE "retire-control-secret")
  /\ UNCHANGED <<authority, claim, secretFiles, lock, draft, draftControl,
                 live, seen, engines, ids>>

RetireControlSecret(p) ==
  /\ lock = p /\ step = "retire-control-secret"
  /\ controlSecret' = controlSecret \ {draftControl.request}
  /\ Goto("retire-secret")
  /\ UNCHANGED <<publicFiles, ownerSecret, pendingSecret, lock, draft,
                 draftControl, live, seen, engines, ids>>

RetireSecret(p) ==
  /\ lock = p /\ step = "retire-secret"
  /\ ownerSecret' = ownerSecret \ {draft.revision}
  /\ seenRecord' = [seenRecord EXCEPT ![p] = None]
  /\ Finish
  /\ UNCHANGED <<publicFiles, pendingSecret, controlSecret, lock, live,
                 seenClaim, seenControl, engines, ids>>

-----------------------------------------------------------------------------
(* The control attempt.                                                    *)

(* Mutant: the cleanup does not spare the secret of the pending attempt.   *)
ResumeControlAttemptSweepAll(p, operation) ==
  /\ Free(p) /\ authority # None /\ seenRecord[p] = authority
  /\ control # None /\ ControlReadable
  /\ controlSecret' = {}
  /\ seenControl' = IF control.operation = operation THEN [seenControl EXCEPT ![p] = control]
                    ELSE seenControl
  /\ UNCHANGED <<publicFiles, ownerSecret, pendingSecret, lock, progress, live,
                 seenRecord, seenClaim, engines, ids>>

(* prepareControlAttempt removes the secrets that the pending attempt does *)
(* not refer to, and returns that attempt if it is for the same operation; *)
(* replaceExpiredBeginControlAttempt does so too when another process      *)
(* replaced the expired one first.                                         *)
ResumeControlAttempt(p, operation) ==
  /\ Free(p) /\ authority # None /\ seenRecord[p] = authority
  /\ control # None /\ ControlReadable
  /\ controlSecret' = controlSecret \cap {control.request}
  /\ seenControl' = IF control.operation = operation THEN [seenControl EXCEPT ![p] = control]
                    ELSE seenControl
  /\ UNCHANGED <<publicFiles, ownerSecret, pendingSecret, lock, progress, live,
                 seenRecord, seenClaim, engines, ids>>

(* Otherwise it removes every unreferenced control secret, writes the new  *)
(* requester secret and then the attempt that refers to it.                *)
PrepareControlAttempt(p, operation) ==
  /\ Free(p) /\ authority # None /\ seenRecord[p] = authority
  /\ control = None
  /\ requests < MaxRequest
  /\ requests' = requests + 1
  /\ controlSecret' = {requests'}
  /\ draftControl' = [request |-> requests', revision |-> authority.revision,
                      launch |-> authority.launch,
                      generation |-> authority.generation,
                      operation |-> operation, phase |-> "begin-pending"]
  /\ Goto("control-publish")
  /\ UNCHANGED <<publicFiles, ownerSecret, pendingSecret, lock, draft, live,
                 seen, engines, launches, revisions>>

ControlPublish(p) ==
  /\ lock = p /\ step = "control-publish"
  /\ control' = draftControl
  /\ \/ seenControl' = [seenControl EXCEPT ![p] = draftControl] /\ Finish
     \/ /\ DirectorySyncMayFail /\ Goto("control-undo")
        /\ UNCHANGED <<draft, draftControl, seenControl>>
  /\ UNCHANGED <<authority, claim, secretFiles, lock, live, seenRecord,
                 seenClaim, engines, ids>>

ControlFails(p) ==
  /\ lock = p /\ step = "control-publish"
  /\ Goto("control-undo")
  /\ UNCHANGED <<files, lock, draft, draftControl, live, seen, engines, ids>>

ControlUndo(p) ==
  /\ lock = p /\ step = "control-undo"
  /\ controlSecret' = controlSecret \ {draftControl.request}
  /\ Reject(p)
  /\ UNCHANGED <<publicFiles, ownerSecret, pendingSecret, live, engines, ids>>

MarkControlAttemptDraining(p) ==
  /\ Free(p) /\ control # None /\ seenControl[p] = control
  /\ control.phase = "begin-pending"
  /\ WriteControl(p, [control EXCEPT !.phase = "draining"])

AdvanceControlAttempt(p, phase) ==
  /\ Free(p) /\ control # None /\ seenControl[p] = control
  /\ <<control.phase, phase>> \in PhaseStep
  /\ WriteControl(p, [control EXCEPT !.phase = phase])

(* clearControlAttempt: the attempt first, then its secret.  With a new    *)
(* PrepareControlAttempt in the same lock section it is also               *)
(* replaceExpiredBeginControlAttempt.                                      *)
ClearControlAttempt(p) ==
  /\ Free(p) /\ control # None /\ seenControl[p] = control
  /\ control' = None
  /\ draftControl' = control
  /\ Goto("control-clean")
  /\ UNCHANGED <<authority, claim, secretFiles, lock, draft, live, seen, engines, ids>>

ControlClean(p) ==
  /\ lock = p /\ step = "control-clean"
  /\ controlSecret' = controlSecret \ {draftControl.request}
  /\ seenControl' = [seenControl EXCEPT ![p] = None]
  /\ Finish
  /\ UNCHANGED <<publicFiles, ownerSecret, pendingSecret, lock, live,
                 seenRecord, seenClaim, engines, ids>>

-----------------------------------------------------------------------------
ClaimOperation(p) ==
  \/ ClaimStart(p) \/ SweepOrphan(p) \/ CreateClaim(p) \/ FillClaim(p)
  \/ FindDeadStart(p)
  \/ PrepareStartClaim(p) \/ PreparePublish(p) \/ PrepareFails(p) \/ PrepareUndo(p)
  \/ BindStartClaimProcess(p) \/ MarkOwnerAttempt(p) \/ RollbackOwnerAttempt(p)
  \/ DropClaim(p) \/ UnlinkClaim(p)

AuthorityOperation(p) ==
  \/ ReadCurrent(p)
  \/ \E g \in 1..MaxGeneration : CommitFirst(p, g) \/ CommitRotation(p, g)
  \/ CommitPublish(p) \/ CommitFails(p) \/ CommitUndo(p) \/ CommitClean(p)
  \/ RetireAuthority(p) \/ RetireControl(p) \/ RetireControlSecret(p) \/ RetireSecret(p)

ControlOperation(p) ==
  \/ \E o \in Operation : ResumeControlAttempt(p, o) \/ PrepareControlAttempt(p, o)
  \/ ControlPublish(p) \/ ControlFails(p) \/ ControlUndo(p)
  \/ MarkControlAttemptDraining(p)
  \/ \E ph \in Phase : AdvanceControlAttempt(p, ph)
  \/ ClearControlAttempt(p) \/ ControlClean(p)

Next ==
  \/ \E p \in Proc : \/ Acquire(p) \/ Unlock(p) \/ Crash(p) \/ Throw(p) \/ Spawn(p)
                     \/ ClaimOperation(p) \/ AuthorityOperation(p) \/ ControlOperation(p)
  \/ \E e \in running : EngineExits(e)

Spec == Init /\ [][Next]_vars

-----------------------------------------------------------------------------
(* Properties.                                                             *)

(* The current record always has its owner credential: whatever step of a  *)
(* commit, rotation, sweep or retirement is interrupted, a successor that  *)
(* reads the record finds the secret of that very revision.                *)
RecordHasSecret == authority # None => authority.revision \in ownerSecret

(* A pending control attempt can be replayed: while there is a record, the *)
(* attempt found beside it has its requester credential.                   *)
ControlHasSecret ==
  authority # None /\ control # None => control.request \in controlSecret

(* A start interrupted after its engine was launched can be resumed: as    *)
(* long as that engine runs and nothing was committed, the claim's pending *)
(* credentials exist.                                                      *)
PendingStartHasSecret ==
  /\ authority = None /\ HasClaim
  /\ claim.prepared /\ claim.token \in running
  => claim.token \in pendingSecret

(* A control attempt against a running engine is always an attempt of the  *)
(* current authority: no retirement, rotation or new start leaves one that *)
(* aims at an engine the record does not name.                             *)
LiveControlIsCurrent ==
  control # None /\ control.launch \in running
    => authority # None /\ authority.launch = control.launch

(* Compare-and-swap of the record: it changes in place only to a higher    *)
(* owner generation of the same launch, disappears only when its engine is *)
(* dead, and appears only for a launch that a claim holds.                 *)
RecordStep ==
  /\ authority # None /\ authority' # None /\ authority' # authority
     => authority'.launch = authority.launch /\ authority'.generation > authority.generation
  /\ authority # None /\ authority' = None => authority.launch \notin running
  /\ authority = None /\ authority' # None
     => HasClaim /\ claim.token = authority'.launch
RecordAdvances == [][RecordStep]_vars

(* Nobody but the starter itself replaces or drops the claim of a live     *)
(* starter, and nobody drops the claim of a launch whose engine runs       *)
(* before the record of that launch is committed.                          *)
ClaimStep ==
  HasClaim /\ (claim' \in {None, Torn} \/ claim'.token # claim.token)
    => /\ claim.starter \in live => lock = claim.starter
       /\ claim.token \in running => authority # None /\ authority.launch = claim.token
ClaimNotStolen == [][ClaimStep]_vars

(* A failed commit removes an unreferenced secret: undoing a commit never  *)
(* takes the secret of the record that is published.                       *)
UndoStep ==
  \A s \in ownerSecret \ ownerSecret' :
    step = "commit-undo" => ~(authority # None /\ authority.revision = s)
UndoRemovesUnreferenced == [][UndoStep]_vars

(* A control attempt whose begin was never answered can be recovered: with *)
(* a record beside it, readControlAttempt accepts it.                      *)
PendingControlReadable == authority # None => ControlReadable

(* The store implements three atomic registers: every lock section, however*)
(* many file operations it takes and wherever it is cut short, changes the *)
(* public files as single entitled steps of AuthorityRegister.             *)
Register == INSTANCE AuthorityRegister WITH holder <- lock
ImplementsRegister == Register!Spec
=============================================================================
