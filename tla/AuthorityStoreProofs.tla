------------------------ MODULE AuthorityStoreProofs ------------------------
(***************************************************************************)
(* Proofs about AuthorityStore, for any set of processes and any bounds:   *)
(* its types, that a record keeps its secret, and that the store           *)
(* implements AuthorityRegister.                                           *)
(***************************************************************************)
EXTENDS AuthorityStore, TLAPS

(* The argument of an interrupted operation is there when a step needs it. *)
StepShape ==
  /\ step # "none" => lock # None
  /\ step \in {"prepare-publish", "prepare-undo", "claim-unlink"} => HasClaim
  /\ step \in {"commit-publish", "commit-undo", "commit-clean", "retire-control",
               "retire-control-secret", "retire-secret"} => draft # None
  /\ step \in {"control-publish", "control-undo", "control-clean",
               "retire-control-secret"} => draftControl # None

TypeInv == TypeOK /\ StepShape

LEMMA TypeInit == Init => TypeInv
  BY StoreAssumption DEF Init, TypeInv, TypeOK, StepShape, Step

LEMMA TypeProcess ==
  ASSUME TypeInv, NEW p \in Proc,
         Acquire(p) \/ Unlock(p) \/ Crash(p) \/ Throw(p) \/ Spawn(p)
  PROVE  TypeInv'
<1> USE StoreAssumption DEF TypeInv, TypeOK, StepShape, HasClaim, Free, files, publicFiles, secretFiles,
      progress, seen, engines, ids
<1>1. CASE Acquire(p)
  BY <1>1 DEF Acquire
<1>2. CASE Unlock(p)
  BY <1>2 DEF Unlock
<1>3. CASE Crash(p)
  BY <1>3 DEF Crash, Finish, Step
<1>4. CASE Throw(p)
  BY <1>4 DEF Throw, Reject, Finish, Step
<1>5. CASE Spawn(p)
  <2>1. seenClaim[p] \in StartClaim /\ seenClaim[p].token \in Nat
    BY <1>5 DEF Spawn, StartClaim
  <2>2. spawned' \subseteq Nat /\ running' \subseteq Nat
    BY <1>5, <2>1 DEF Spawn
  <2>3. /\ UNCHANGED <<authority, claim, control, ownerSecret, pendingSecret, controlSecret, lock>>
        /\ UNCHANGED <<step, draft, draftControl, live, seenRecord, seenClaim, seenControl>>
        /\ UNCHANGED <<launches, revisions, requests>>
    BY <1>5 DEF Spawn
  <2> QED
    BY <2>2, <2>3
<1> QED
  BY <1>1, <1>2, <1>3, <1>4, <1>5

LEMMA TypeClaim ==
  ASSUME TypeInv, NEW p \in Proc, ClaimOperation(p)
  PROVE  TypeInv'
<1> USE StoreAssumption DEF TypeInv, TypeOK, StepShape, HasClaim, Free, files, publicFiles, secretFiles,
      progress, seen, engines, ids
<1>1. CASE ClaimStart(p)
  BY <1>1 DEF ClaimStart, Goto, Step
<1>2. CASE SweepOrphan(p)
  BY <1>2 DEF SweepOrphan
<1>3. CASE CreateClaim(p)
  BY <1>3 DEF CreateClaim, Goto, Step
<1>4. CASE FillClaim(p)
  BY <1>4 DEF FillClaim, Finish, Step, StartClaim
<1>5. CASE FindDeadStart(p)
  BY <1>5 DEF FindDeadStart
<1>6. CASE PrepareStartClaim(p)
  BY <1>6 DEF PrepareStartClaim, Goto, Step, StartClaim
<1>7. CASE PreparePublish(p)
  <2>1. claim' \in StartClaim
    BY <1>7 DEF PreparePublish, StartClaim
  <2>2. claim' \notin {None, Torn}
    BY <2>1
  <2>3. seenClaim' \in [Proc -> StartClaim \cup {None}]
    <3>1. seenClaim' = [seenClaim EXCEPT ![p] = claim'] \/ seenClaim' = seenClaim
      BY <1>7 DEF PreparePublish
    <3>2. seenClaim \in [Proc -> StartClaim \cup {None}]
      OBVIOUS
    <3> QED
      BY <2>1, <3>1, <3>2
  <2>4. step' \in {"none", "prepare-undo"} /\ UNCHANGED <<authority, control, secretFiles, lock>>
        /\ draft' \in {draft, None} /\ draftControl' \in {draftControl, None}
        /\ UNCHANGED <<live, seenRecord, seenControl, engines, ids>> /\ lock = p
    BY <1>7 DEF PreparePublish, Goto, Finish
  <2> QED
    BY <2>1, <2>2, <2>3, <2>4 DEF Step
<1>8. CASE PrepareFails(p)
  BY <1>8 DEF PrepareFails, Goto, Step
<1>9. CASE PrepareUndo(p)
  BY <1>9 DEF PrepareUndo, Reject, Finish, Step
<1>10. CASE BindStartClaimProcess(p)
  <2>1. claim' \in StartClaim
    BY <1>10 DEF BindStartClaimProcess, WriteClaim, StartClaim
  <2>2. seenClaim' \in [Proc -> StartClaim \cup {None}]
    BY <1>10, <2>1 DEF BindStartClaimProcess, WriteClaim
  <2> QED
    BY <1>10, <2>1, <2>2 DEF BindStartClaimProcess, WriteClaim
<1>11. CASE MarkOwnerAttempt(p)
  BY <1>11 DEF MarkOwnerAttempt, WriteClaim, StartClaim
<1>12. CASE RollbackOwnerAttempt(p)
  BY <1>12 DEF RollbackOwnerAttempt, WriteClaim, StartClaim
<1>13. CASE DropClaim(p)
  BY <1>13 DEF DropClaim, Goto, Step
<1>14. CASE UnlinkClaim(p)
  BY <1>14 DEF UnlinkClaim, Finish, Step
<1> QED
  BY <1>1, <1>2, <1>3, <1>4, <1>5, <1>6, <1>7, <1>8, <1>9, <1>10, <1>11, <1>12,
     <1>13, <1>14 DEF ClaimOperation

LEMMA TypeAuthority ==
  ASSUME TypeInv, NEW p \in Proc, AuthorityOperation(p)
  PROVE  TypeInv'
<1> USE StoreAssumption DEF TypeInv, TypeOK, StepShape, HasClaim, Free, files, publicFiles, secretFiles,
      progress, seen, engines, ids
<1>1. CASE ReadCurrent(p)
  BY <1>1 DEF ReadCurrent
<1>2. ASSUME NEW g \in 1..MaxGeneration, CommitFirst(p, g)
      PROVE  TypeInv'
  BY <1>2 DEF CommitFirst, BeginCommit, Goto, Step, AuthorityRecord, StartClaim
<1>3. ASSUME NEW g \in 1..MaxGeneration, CommitRotation(p, g)
      PROVE  TypeInv'
  <2>1. draft' \in AuthorityRecord
    BY <1>3 DEF CommitRotation, BeginCommit, AuthorityRecord
  <2> QED
    BY <1>3, <2>1 DEF CommitRotation, BeginCommit, Goto, Step, AuthorityRecord
<1>4. CASE CommitPublish(p)
  BY <1>4 DEF CommitPublish, Goto, Finish, Step
<1>5. CASE CommitFails(p)
  BY <1>5 DEF CommitFails, Goto, Step
<1>6. CASE CommitUndo(p)
  BY <1>6 DEF CommitUndo, Reject, Finish, Step
<1>7. CASE CommitClean(p)
  BY <1>7 DEF CommitClean, Finish, Step
<1>8. CASE RetireAuthority(p)
  BY <1>8 DEF RetireAuthority, Goto, Step
<1>9. CASE RetireControl(p)
  BY <1>9 DEF RetireControl, Goto, Step
<1>10. CASE RetireControlSecret(p)
  BY <1>10 DEF RetireControlSecret, Goto, Step
<1>11. CASE RetireSecret(p)
  BY <1>11 DEF RetireSecret, Finish, Step
<1> QED
  BY <1>1, <1>2, <1>3, <1>4, <1>5, <1>6, <1>7, <1>8, <1>9, <1>10, <1>11
  DEF AuthorityOperation

LEMMA TypeControl ==
  ASSUME TypeInv, NEW p \in Proc, ControlOperation(p)
  PROVE  TypeInv'
<1> USE StoreAssumption DEF TypeInv, TypeOK, StepShape, HasClaim, Free, files, publicFiles, secretFiles,
      progress, seen, engines, ids
<1>1. ASSUME NEW o \in Operation, ResumeControlAttempt(p, o)
      PROVE  TypeInv'
  BY <1>1 DEF ResumeControlAttempt
<1>2. ASSUME NEW o \in Operation, PrepareControlAttempt(p, o)
      PROVE  TypeInv'
  BY <1>2 DEF PrepareControlAttempt, Goto, Step, Phase, AuthorityRecord, ControlAttempt
<1>3. CASE ControlPublish(p)
  BY <1>3 DEF ControlPublish, Goto, Finish, Step
<1>4. CASE ControlFails(p)
  BY <1>4 DEF ControlFails, Goto, Step
<1>5. CASE ControlUndo(p)
  BY <1>5 DEF ControlUndo, Reject, Finish, Step
<1>6. CASE MarkControlAttemptDraining(p)
  BY <1>6 DEF MarkControlAttemptDraining, WriteControl, ControlAttempt, Phase
<1>7. ASSUME NEW ph \in Phase, AdvanceControlAttempt(p, ph)
      PROVE  TypeInv'
  BY <1>7 DEF AdvanceControlAttempt, WriteControl, ControlAttempt
<1>8. CASE ClearControlAttempt(p)
  BY <1>8 DEF ClearControlAttempt, Goto, Step
<1>9. CASE ControlClean(p)
  BY <1>9 DEF ControlClean, Finish, Step
<1> QED
  BY <1>1, <1>2, <1>3, <1>4, <1>5, <1>6, <1>7, <1>8, <1>9 DEF ControlOperation

LEMMA TypeStep == TypeInv /\ [Next]_vars => TypeInv'
<1> SUFFICES ASSUME TypeInv, [Next]_vars PROVE TypeInv'
  OBVIOUS
<1>1. CASE UNCHANGED vars
  BY <1>1 DEF TypeInv, TypeOK, StepShape, HasClaim, vars, files, publicFiles,
       secretFiles, progress, seen, engines, ids
<1>2. ASSUME NEW e \in running, EngineExits(e) PROVE TypeInv'
  BY <1>2 DEF EngineExits, TypeInv, TypeOK, StepShape, HasClaim, files, publicFiles,
       secretFiles, progress, seen, engines, ids
<1> QED
  BY <1>1, <1>2, TypeProcess, TypeClaim, TypeAuthority, TypeControl DEF Next

(* Every file, argument and remembered value of the store stays what its   *)
(* type says, whatever operation is interrupted where.                     *)
THEOREM TypeCorrect == Spec => []TypeOK
<1>1. TypeInv => TypeOK
  BY DEF TypeInv
<1> QED
  BY <1>1, TypeInit, TypeStep, PTL DEF Spec

-----------------------------------------------------------------------------
(* RecordHasSecret is not inductive: an interrupted commit must still be   *)
(* known to remove another secret than the one the record refers to.       *)

Retiring == {"retire-control", "retire-control-secret", "retire-secret"}

SecretInv ==
  /\ RecordHasSecret
  /\ authority # None => authority.revision <= revisions
  /\ step = "commit-publish" => draft.revision \in ownerSecret
  /\ step \in {"commit-publish", "commit-undo", "commit-clean"} /\ authority # None
       => draft.revision # authority.revision
  /\ step = "commit-publish" => draft.revision <= revisions
  /\ step \in Retiring => authority = None

LEMMA SecretInit == Init => SecretInv
  BY DEF Init, SecretInv, RecordHasSecret, Retiring

(* An action that touches neither the record nor what a commit has done.   *)
LEMMA SecretUntouched ==
  ASSUME SecretInv, UNCHANGED <<authority, ownerSecret, revisions>>,
         \/ UNCHANGED <<step, draft>>
         \/ step' \notin Retiring \cup {"commit-publish", "commit-undo", "commit-clean"}
  PROVE  SecretInv'
  BY DEF SecretInv, RecordHasSecret, Retiring

LEMMA SecretProcess ==
  ASSUME SecretInv, NEW p \in Proc,
         Acquire(p) \/ Unlock(p) \/ Crash(p) \/ Throw(p) \/ Spawn(p)
  PROVE  SecretInv'
  BY SecretUntouched
  DEF Acquire, Unlock, Crash, Throw, Reject, Spawn, Finish, Retiring,
      files, publicFiles, secretFiles, progress, ids

LEMMA SecretClaim ==
  ASSUME SecretInv, NEW p \in Proc, ClaimOperation(p)
  PROVE  SecretInv'
<1> USE DEF Retiring, files, publicFiles, secretFiles, progress, ids
<1>1. CASE SweepOrphan(p)
  BY <1>1 DEF SweepOrphan, SecretInv, RecordHasSecret
<1>2. CASE ClaimStart(p) \/ CreateClaim(p) \/ FillClaim(p) \/ FindDeadStart(p)
  BY <1>2, SecretUntouched DEF ClaimStart, CreateClaim, FillClaim, FindDeadStart, Goto, Finish
<1>3. CASE PrepareStartClaim(p) \/ PreparePublish(p) \/ PrepareFails(p) \/ PrepareUndo(p)
  BY <1>3, SecretUntouched
  DEF PrepareStartClaim, PreparePublish, PrepareFails, PrepareUndo, Goto, Finish, Reject
<1>4. CASE BindStartClaimProcess(p) \/ MarkOwnerAttempt(p) \/ RollbackOwnerAttempt(p)
  BY <1>4, SecretUntouched
  DEF BindStartClaimProcess, MarkOwnerAttempt, RollbackOwnerAttempt, WriteClaim
<1>5. CASE DropClaim(p) \/ UnlinkClaim(p)
  BY <1>5, SecretUntouched DEF DropClaim, UnlinkClaim, Goto, Finish
<1> QED
  BY <1>1, <1>2, <1>3, <1>4, <1>5 DEF ClaimOperation

LEMMA SecretControl ==
  ASSUME SecretInv, NEW p \in Proc, ControlOperation(p)
  PROVE  SecretInv'
<1> USE DEF Retiring, files, publicFiles, secretFiles, progress, ids
<1>1. ASSUME NEW o \in Operation, ResumeControlAttempt(p, o) \/ PrepareControlAttempt(p, o)
      PROVE  SecretInv'
  BY <1>1, SecretUntouched DEF ResumeControlAttempt, PrepareControlAttempt, Goto
<1>2. CASE ControlPublish(p) \/ ControlFails(p) \/ ControlUndo(p)
  BY <1>2, SecretUntouched DEF ControlPublish, ControlFails, ControlUndo, Goto, Finish, Reject
<1>3. ASSUME NEW ph \in Phase, MarkControlAttemptDraining(p) \/ AdvanceControlAttempt(p, ph)
      PROVE  SecretInv'
  BY <1>3, SecretUntouched DEF MarkControlAttemptDraining, AdvanceControlAttempt, WriteControl
<1>4. CASE ClearControlAttempt(p) \/ ControlClean(p)
  BY <1>4, SecretUntouched DEF ClearControlAttempt, ControlClean, Goto, Finish
<1> QED
  BY <1>1, <1>2, <1>3, <1>4 DEF ControlOperation, Phase

LEMMA SecretAuthority ==
  ASSUME ~DirectorySyncMayFail, TypeInv, SecretInv, NEW p \in Proc, AuthorityOperation(p)
  PROVE  SecretInv'
<1> USE DEF Retiring, files, publicFiles, secretFiles, progress, ids
<1>1. CASE ReadCurrent(p)
  BY <1>1, SecretUntouched DEF ReadCurrent
<1>2. ASSUME NEW g \in 1..MaxGeneration, CommitFirst(p, g) \/ CommitRotation(p, g)
      PROVE  SecretInv'
  <2>1. PICK r : r.revision = revisions + 1 /\ BeginCommit(p, r)
    BY <1>2 DEF CommitFirst, CommitRotation
  <2>2. revisions \in Nat /\ (authority # None => authority.revision \in Nat)
    BY DEF TypeInv, TypeOK, AuthorityRecord
  <2> QED
    BY <2>1, <2>2 DEF BeginCommit, Goto, SecretInv, RecordHasSecret
<1>3. CASE CommitPublish(p)
  BY <1>3 DEF CommitPublish, Goto, Finish, SecretInv, RecordHasSecret
<1>4. CASE CommitFails(p)
  BY <1>4 DEF CommitFails, Goto, SecretInv, RecordHasSecret
<1>5. CASE CommitUndo(p) \/ CommitClean(p)
  BY <1>5 DEF CommitUndo, CommitClean, Reject, Finish, SecretInv, RecordHasSecret
<1>6. CASE RetireAuthority(p) \/ RetireControl(p) \/ RetireControlSecret(p)
  BY <1>6 DEF RetireAuthority, RetireControl, RetireControlSecret, Goto, SecretInv, RecordHasSecret
<1>7. CASE RetireSecret(p)
  BY <1>7 DEF RetireSecret, Finish, SecretInv, RecordHasSecret
<1> QED
  BY <1>1, <1>2, <1>3, <1>4, <1>5, <1>6, <1>7 DEF AuthorityOperation

LEMMA SecretStep ==
  ASSUME ~DirectorySyncMayFail
  PROVE  TypeInv /\ SecretInv /\ [Next]_vars => SecretInv'
<1> SUFFICES ASSUME TypeInv, SecretInv, [Next]_vars PROVE SecretInv'
  OBVIOUS
<1>1. CASE UNCHANGED vars
  BY <1>1, SecretUntouched DEF vars, files, publicFiles, secretFiles, progress, ids
<1>2. ASSUME NEW e \in running, EngineExits(e) PROVE SecretInv'
  BY <1>2, SecretUntouched DEF EngineExits, files, publicFiles, secretFiles, progress, ids
<1> QED
  BY <1>1, <1>2, SecretProcess, SecretClaim, SecretControl, SecretAuthority DEF Next

(* Whatever commit, rotation, sweep or retirement is interrupted, the      *)
(* published record keeps its owner credential, as long as no directory    *)
(* sync fails after the rename it follows.                                 *)
THEOREM RecordKeepsSecret ==
  ASSUME ~DirectorySyncMayFail
  PROVE  Spec => []RecordHasSecret
<1>1. SecretInv => RecordHasSecret
  BY DEF SecretInv
<1> QED
  BY <1>1, TypeInit, TypeStep, SecretInit, SecretStep, PTL DEF Spec

--------------------------------------------------------------------------------
(* AuthorityStore implements AuthorityRegister: what the lock, the         *)
(* comparison with `expected` and the order of the file operations are     *)
(* for.  The mapping is the identity on the public files, and the holder   *)
(* is who has the lock.                                                    *)

(* What the steps before have made sure of when a step changes a public    *)
(* file in the middle of an operation.                                     *)
Entitled(p) == p \in live /\ (claim.starter = p \/ claim.starter \notin live)

PreparedShape == step = "prepare-publish" => claim.starter = lock /\ ~claim.prepared

UnlinkShape ==
  step = "claim-unlink" =>
    /\ Entitled(lock)
    /\ claim.token \in running => authority # None /\ authority.launch = claim.token

CommitShape ==
  step = "commit-publish" =>
    \/ authority = None /\ HasClaim /\ claim.bound /\ claim.token = draft.launch /\ Entitled(lock)
    \/ authority # None /\ draft.launch = authority.launch /\ draft.generation > authority.generation

ControlShape ==
  step = "control-publish" =>
    /\ control = None /\ authority # None
    /\ draftControl.revision = authority.revision
    /\ draftControl.launch = authority.launch
    /\ draftControl.generation = authority.generation
    /\ draftControl.phase = "begin-pending"

(* A process remembers its own claim, which is then the current one, or    *)
(* the claim of a dead starter.                                            *)
OwnClaim ==
  \A p \in live : seenClaim[p] # None /\ seenClaim[p].starter = p =>
    /\ HasClaim /\ claim.starter = p /\ claim.token = seenClaim[p].token
    /\ seenClaim[p].prepared => claim.prepared

SeenClaimOwnedOrDead ==
  \A p \in live : seenClaim[p] # None => seenClaim[p].starter \in {p} \cup (Proc \ live)

RefInv ==
  /\ lock # None => lock \in live
  /\ step = "claim-sweep" => claim = None
  /\ step = "claim-fill" => claim = Torn
  /\ step \in Retiring => authority = None
  /\ PreparedShape /\ UnlinkShape /\ CommitShape /\ ControlShape
  /\ OwnClaim /\ SeenClaimOwnedOrDead
  /\ running \subseteq spawned
  /\ HasClaim /\ claim.bound => claim.token \in spawned

LEMMA RefInit == Init => RefInv /\ Register!Init
  BY DEF Init, RefInv, PreparedShape, UnlinkShape, CommitShape, ControlShape, OwnClaim,
     SeenClaimOwnedOrDead, HasClaim, Retiring, Register!Init

Mapped == [Register!Next]_(Register!vars)

LEMMA RefProcess ==
  ASSUME TypeInv, RefInv, NEW p \in Proc,
         Acquire(p) \/ Unlock(p) \/ Crash(p) \/ Throw(p) \/ Spawn(p)
  PROVE  RefInv' /\ Mapped
<1> USE DEF files, publicFiles, secretFiles, progress, seen, engines, ids, RefInv, PreparedShape,
      UnlinkShape, CommitShape, ControlShape, SeenClaimOwnedOrDead, Entitled, Retiring, HasClaim, Mapped,
      Register!vars, Register!registers, Free
<1>0. seenClaim \in [Proc -> StartClaim \cup {None}] /\ live \subseteq Proc /\ None \notin Proc
  BY StoreAssumption DEF TypeInv, TypeOK
<1>1. CASE Acquire(p)
  <2>1. step = "none"
    BY <1>1 DEF Acquire, TypeInv, StepShape
  <2> QED
    BY <1>1, <2>1, <1>0 DEF Acquire, OwnClaim, Register!Next, Register!Enter
<1>2. CASE Unlock(p)
  BY <1>2 DEF Unlock, OwnClaim, Register!Next, Register!Leave
<1>3. CASE Crash(p)
  <2>1. OwnClaim'
    BY <1>3, <1>0 DEF Crash, OwnClaim
  <2>2. Register!SupervisorDies(p)
    BY <1>3 DEF Crash, Register!SupervisorDies
  <2> QED
    BY <1>3, <1>0, <2>1, <2>2 DEF Crash, Finish, Register!Next
<1>4. CASE Throw(p)
  <2>1. OwnClaim'
    BY <1>4, <1>0 DEF Throw, Reject, OwnClaim
  <2> QED
    BY <1>4, <2>1, <1>0 DEF Throw, Reject, Finish, Register!Next, Register!Leave
<1>5. CASE Spawn(p)
  <2>1. /\ HasClaim /\ claim.prepared /\ ~claim.bound
        /\ claim.token = seenClaim[p].token /\ claim.starter = p
    BY <1>5, <1>0 DEF Spawn, OwnClaim
  <2>2. Register!EngineStarts
    BY <1>5, <2>1 DEF Spawn, Register!EngineStarts, Register!HasClaim
  <2>3. OwnClaim'
    BY <1>5 DEF Spawn, OwnClaim
  <2>4. UnlinkShape'
    BY <1>5, <2>1 DEF Spawn
  <2> QED
    BY <1>5, <2>2, <2>3, <2>4 DEF Spawn, Register!Next
<1> QED
  BY <1>1, <1>2, <1>3, <1>4, <1>5

(* A step inside an operation that leaves the public files and what is     *)
(* remembered of them alone.                                               *)
LEMMA RefPrivate ==
  ASSUME RefInv, UNCHANGED <<authority, claim, control, live, spawned, running>>,
         UNCHANGED seenClaim \/ \E p \in Proc : seenClaim' = [seenClaim EXCEPT ![p] = None],
         TypeInv,
         UNCHANGED lock \/ lock' = None,
         step' \notin {"claim-sweep", "claim-fill", "prepare-publish", "claim-unlink",
                       "commit-publish", "control-publish"} \cup Retiring
  PROVE  RefInv' /\ Mapped
  BY DEF RefInv, TypeInv, TypeOK, PreparedShape, UnlinkShape, CommitShape, ControlShape, OwnClaim,
     SeenClaimOwnedOrDead, Entitled, HasClaim, Mapped, Register!vars, Register!registers, Register!Next, Register!Leave

LEMMA RefClaim ==
  ASSUME TypeInv, RefInv, NEW p \in Proc, ClaimOperation(p)
  PROVE  RefInv' /\ Mapped
<1> USE DEF files, publicFiles, secretFiles, progress, seen, engines, ids, RefInv, PreparedShape,
      UnlinkShape, CommitShape, ControlShape, SeenClaimOwnedOrDead, Entitled, Retiring, HasClaim, Mapped,
      Register!vars, Register!registers, Free, Goto, Finish
<1>0. /\ seenClaim \in [Proc -> StartClaim \cup {None}]
      /\ claim \in StartClaim \cup {None, Torn} /\ live \subseteq Proc
      /\ None \notin Proc /\ None \notin StartClaim /\ Torn \notin StartClaim /\ None # Torn
      /\ step # "none" => lock # None
      /\ step \in {"prepare-publish", "prepare-undo", "claim-unlink"} => HasClaim
      /\ launches \in Nat
  BY StoreAssumption DEF TypeInv, TypeOK, StepShape
<1>a. ASSUME Register!ClaimStep PROVE Mapped
  BY <1>a DEF Register!Next
<1>b. Register!HasClaim <=> HasClaim
  BY DEF Register!HasClaim
<1>c. lock = p => p \in live /\ (claim.starter \in {p} \cup (Proc \ live) => Register!Entitled)
  BY <1>0 DEF Register!Entitled
<1>1. CASE ClaimStart(p)
  <2>1. Mapped
    <3>1. CASE claim = None
      BY <1>1, <3>1 DEF ClaimStart
    <3>2. CASE HasClaim /\ claim.starter \notin live /\ ~claim.prepared
      BY <1>1, <3>2, <1>0, <1>a, <1>b, <1>c DEF ClaimStart, Register!ClaimStep, Register!Entitled
    <3> QED
      BY <1>1, <3>1, <3>2 DEF ClaimStart
  <2>2. OwnClaim'
    BY <1>1, <1>0 DEF ClaimStart, OwnClaim
  <2> QED
    BY <1>1, <2>1, <2>2 DEF ClaimStart
<1>2. CASE SweepOrphan(p)
  <2>1. Mapped
    BY <1>2, <1>0 DEF SweepOrphan, Register!Next, Register!ControlStep
  <2> QED
    BY <1>2, <2>1 DEF SweepOrphan, OwnClaim
<1>3. CASE CreateClaim(p)
  <2>1. Mapped
    BY <1>3, <1>a DEF CreateClaim, Register!ClaimStep
  <2>2. OwnClaim'
    BY <1>3 DEF CreateClaim, OwnClaim
  <2> QED
    BY <1>3, <2>1, <2>2 DEF CreateClaim
<1>4. CASE FillClaim(p)
  <2>1. claim' \in StartClaim /\ claim'.starter = p /\ ~claim'.bound
    BY <1>4, <1>0 DEF FillClaim, StartClaim
  <2>2. Mapped
    BY <1>4, <1>a, <1>c, <1>0 DEF FillClaim, Register!ClaimStep
  <2>3. OwnClaim'
    BY <1>4, <1>0, <2>1 DEF FillClaim, OwnClaim
  <2> QED
    BY <1>4, <1>0, <2>1, <2>2, <2>3 DEF FillClaim
<1>5. CASE FindDeadStart(p)
  <2>1. OwnClaim'
    BY <1>5, <1>0, <1>c DEF FindDeadStart, OwnClaim
  <2> QED
    BY <1>5, <1>0, <2>1 DEF FindDeadStart, StartClaim
<1>6. CASE PrepareStartClaim(p)
  BY <1>6, <1>0 DEF PrepareStartClaim, OwnClaim
<1>7. CASE PreparePublish(p)
  <2>1. claim' = [claim EXCEPT !.prepared = TRUE] /\ claim \in StartClaim
    BY <1>7, <1>0 DEF PreparePublish
  <2>2. /\ claim' \in StartClaim /\ claim'.starter = claim.starter /\ claim'.bound = claim.bound
        /\ claim'.token = claim.token /\ claim'.prepared
    BY <2>1 DEF StartClaim
  <2>3. Mapped
    BY <1>7, <2>1, <1>a, <1>b, <1>c, <1>0 DEF PreparePublish, Register!ClaimStep
  <2>4. seenClaim' = [seenClaim EXCEPT ![p] = claim'] \/ seenClaim' = seenClaim
    BY <1>7 DEF PreparePublish
  <2>5. claim.starter = p /\ p \in live /\ HasClaim
    BY <1>7, <1>0 DEF PreparePublish
  <2>6. OwnClaim' /\ SeenClaimOwnedOrDead'
    <3>1. UNCHANGED live
      BY <1>7 DEF PreparePublish
    <3>2. claim' \notin {None, Torn}
      BY <1>0, <2>2
    <3> QED
      BY <1>0, <2>2, <2>4, <2>5, <3>1, <3>2 DEF OwnClaim
  <2>7. /\ UNCHANGED <<lock, live, authority, control, running, spawned>>
        /\ step' \in {"none", "prepare-undo"}
    BY <1>7 DEF PreparePublish
  <2> HIDE DEF SeenClaimOwnedOrDead
  <2> QED
    BY <1>0, <2>2, <2>3, <2>5, <2>6, <2>7
<1>8. CASE PrepareFails(p)
  BY <1>8, RefPrivate DEF PrepareFails
<1>9. CASE PrepareUndo(p)
  <2>1. /\ UNCHANGED <<authority, claim, control, live, spawned, running>>
        /\ seenClaim' = [seenClaim EXCEPT ![p] = None]
        /\ lock' = None /\ step' = "none"
    BY <1>9 DEF PrepareUndo, Reject
  <2> QED
    BY <2>1, RefPrivate
<1>10. ASSUME NEW new, WriteClaim(p, new), new = claim', HasClaim, seenClaim[p] = claim, Free(p),
              new \in StartClaim, new.starter = claim.starter, new.token = claim.token,
              new.prepared = claim.prepared, new.bound => claim.token \in spawned
       PROVE  RefInv'
  <2>1. OwnClaim'
    BY <1>10, <1>0 DEF WriteClaim, OwnClaim
  <2> QED
    BY <1>10, <1>0, <2>1 DEF WriteClaim
<1>11. CASE BindStartClaimProcess(p)
  <2> DEFINE new == [claim EXCEPT !.bound = TRUE]
  <2>1. /\ new \in StartClaim /\ new.starter = claim.starter /\ new.token = claim.token
        /\ new.prepared = claim.prepared /\ claim.token \in spawned
    BY <1>11, <1>0 DEF BindStartClaimProcess, StartClaim
  <2>2. Mapped
    <3>1. Register!Entitled
      BY <1>11, <1>0, <1>c DEF BindStartClaimProcess
    <3> QED
      BY <1>11, <3>1, <1>a, <1>b DEF BindStartClaimProcess, WriteClaim, Register!ClaimStep
  <2> QED
    BY <1>11, <2>1, <2>2, <1>10 DEF BindStartClaimProcess, WriteClaim
<1>12. CASE MarkOwnerAttempt(p)
  <2> DEFINE new == [claim EXCEPT !.attempt = @ + 1]
  <2>1. /\ new \in StartClaim /\ new.starter = claim.starter /\ new.token = claim.token
        /\ new.prepared = claim.prepared /\ claim.token \in spawned
    BY <1>12, <1>0 DEF MarkOwnerAttempt, StartClaim
  <2>2. Mapped
    <3>1. Register!Entitled
      BY <1>12, <1>0, <1>c DEF MarkOwnerAttempt
    <3> QED
      BY <1>12, <3>1, <1>a, <1>b DEF MarkOwnerAttempt, WriteClaim, Register!ClaimStep
  <2> QED
    BY <1>12, <2>1, <2>2, <1>10 DEF MarkOwnerAttempt, WriteClaim
<1>13. CASE RollbackOwnerAttempt(p)
  <2> DEFINE new == [claim EXCEPT !.attempt = @ - 1]
  <2>1. /\ new \in StartClaim /\ new.starter = claim.starter /\ new.token = claim.token
        /\ new.prepared = claim.prepared /\ claim.token \in spawned
    BY <1>13, <1>0 DEF RollbackOwnerAttempt, StartClaim
  <2>2. Mapped
    <3>1. Register!Entitled
      BY <1>13, <1>0, <1>c DEF RollbackOwnerAttempt
    <3> QED
      BY <1>13, <3>1, <1>a, <1>b DEF RollbackOwnerAttempt, WriteClaim, Register!ClaimStep
  <2> QED
    BY <1>13, <2>1, <2>2, <1>10 DEF RollbackOwnerAttempt, WriteClaim
<1>14. CASE DropClaim(p)
  <2>1. claim.starter \in {p} \cup (Proc \ live) /\ lock = p
    BY <1>14 DEF DropClaim
  <2> QED
    BY <1>14, <2>1, <1>0, <1>c DEF DropClaim, OwnClaim
<1>15. CASE UnlinkClaim(p)
  <2>1. Mapped
    BY <1>15, <1>0, <1>a, <1>b DEF UnlinkClaim, Register!ClaimStep, Register!Entitled
  <2>2. OwnClaim'
    BY <1>15, <1>0 DEF UnlinkClaim, OwnClaim
  <2> QED
    BY <1>15, <2>1, <2>2 DEF UnlinkClaim
<1> QED
  BY <1>1, <1>2, <1>3, <1>4, <1>5, <1>6, <1>7, <1>8, <1>9, <1>11, <1>12, <1>13, <1>14, <1>15
  DEF ClaimOperation

LEMMA RefAuthority ==
  ASSUME TypeInv, RefInv, NEW p \in Proc, AuthorityOperation(p)
  PROVE  RefInv' /\ Mapped
<1> USE DEF files, publicFiles, secretFiles, progress, seen, engines, ids, RefInv, PreparedShape,
      UnlinkShape, CommitShape, ControlShape, SeenClaimOwnedOrDead, Entitled, Retiring, HasClaim, Mapped,
      Register!vars, Register!registers, Free, Goto, Finish
<1>0. /\ authority \in AuthorityRecord \cup {None} /\ draft \in AuthorityRecord \cup {None}
      /\ claim \in StartClaim \cup {None, Torn} /\ live \subseteq Proc /\ None \notin Proc
      /\ None \notin AuthorityRecord
      /\ step # "none" => lock # None
      /\ step = "commit-publish" => draft # None
      /\ revisions \in Nat
  BY StoreAssumption DEF TypeInv, TypeOK, StepShape
<1>a. ASSUME Register!RecordStep PROVE Mapped
  BY <1>a DEF Register!Next
<1>1. CASE ReadCurrent(p)
  BY <1>1 DEF ReadCurrent, OwnClaim
<1>2. ASSUME NEW g \in 1..MaxGeneration, CommitFirst(p, g)
      PROVE  RefInv' /\ Mapped
  <2>1. Entitled(p)
    BY <1>2, <1>0 DEF CommitFirst, OwnClaim, TypeInv, TypeOK
  <2> QED
    BY <1>2, <2>1 DEF CommitFirst, BeginCommit, OwnClaim
<1>3. ASSUME NEW g \in 1..MaxGeneration, CommitRotation(p, g)
      PROVE  RefInv' /\ Mapped
  BY <1>3 DEF CommitRotation, BeginCommit, OwnClaim
<1>4. CASE CommitPublish(p)
  <2>1. draft \in AuthorityRecord /\ authority' = draft
    BY <1>4, <1>0 DEF CommitPublish
  <2>2. CASE authority = None
    <3>1. Register!RecordStep
      BY <1>4, <1>0, <2>1, <2>2
      DEF CommitPublish, Register!RecordStep, Register!HasClaim, Register!Entitled, AuthorityRecord
    <3> QED
      BY <1>4, <2>2, <3>1, <1>a DEF CommitPublish, OwnClaim
  <2>3. CASE authority # None
    <3>1. Register!RecordStep
      BY <1>4, <1>0, <2>1, <2>3 DEF CommitPublish, Register!RecordStep, AuthorityRecord
    <3> QED
      BY <1>4, <2>3, <3>1, <1>a DEF CommitPublish, OwnClaim
  <2> QED
    BY <2>2, <2>3
<1>5. CASE CommitFails(p)
  BY <1>5, RefPrivate DEF CommitFails
<1>6. CASE CommitUndo(p)
  <2>1. /\ UNCHANGED <<authority, claim, control, live, spawned, running>>
        /\ seenClaim' = [seenClaim EXCEPT ![p] = None]
        /\ lock' = None /\ step' = "none"
    BY <1>6 DEF CommitUndo, Reject
  <2> QED
    BY <2>1, RefPrivate
<1>7. CASE CommitClean(p)
  BY <1>7, RefPrivate DEF CommitClean
<1>8. CASE RetireAuthority(p)
  <2>1. Register!RecordStep
    BY <1>8, <1>0 DEF RetireAuthority, Register!RecordStep
  <2> QED
    BY <1>8, <2>1, <1>a DEF RetireAuthority, OwnClaim
<1>9. CASE RetireControl(p)
  <2>1. Mapped
    BY <1>9, <1>0 DEF RetireControl, Register!Next, Register!ControlStep
  <2> QED
    BY <1>9, <2>1 DEF RetireControl, OwnClaim
<1>10. CASE RetireControlSecret(p)
  BY <1>10 DEF RetireControlSecret, OwnClaim
<1>11. CASE RetireSecret(p)
  BY <1>11, RefPrivate DEF RetireSecret
<1> QED
  BY <1>1, <1>2, <1>3, <1>4, <1>5, <1>6, <1>7, <1>8, <1>9, <1>10, <1>11 DEF AuthorityOperation

LEMMA RefControl ==
  ASSUME TypeInv, RefInv, NEW p \in Proc, ControlOperation(p)
  PROVE  RefInv' /\ Mapped
<1> USE DEF files, publicFiles, secretFiles, progress, seen, engines, ids, RefInv, PreparedShape,
      UnlinkShape, CommitShape, ControlShape, SeenClaimOwnedOrDead, Entitled, Retiring, HasClaim, Mapped,
      Register!vars, Register!registers, Free, Goto, Finish
<1>0. /\ p # None
      /\ control \in ControlAttempt \cup {None} /\ draftControl \in ControlAttempt \cup {None}
      /\ None \notin ControlAttempt
      /\ step = "control-publish" => draftControl # None
  BY StoreAssumption DEF TypeInv, TypeOK, StepShape
<1>a. ASSUME Register!ControlStep PROVE Mapped
  BY <1>a DEF Register!Next
<1>1. ASSUME NEW o \in Operation, ResumeControlAttempt(p, o)
      PROVE  RefInv' /\ Mapped
  BY <1>1 DEF ResumeControlAttempt, OwnClaim
<1>2. ASSUME NEW o \in Operation, PrepareControlAttempt(p, o)
      PROVE  RefInv' /\ Mapped
  BY <1>2 DEF PrepareControlAttempt, OwnClaim
<1>3. CASE ControlPublish(p)
  <2>1. draftControl \in ControlAttempt
    BY <1>3, <1>0 DEF ControlPublish
  <2>2. Register!ControlStep
    BY <1>3, <1>0, <2>1 DEF ControlPublish, Register!ControlStep, ControlAttempt
  <2> QED
    BY <1>3, <2>2, <1>a DEF ControlPublish, OwnClaim
<1>4. CASE ControlFails(p)
  BY <1>4, RefPrivate DEF ControlFails
<1>5. CASE ControlUndo(p)
  <2>1. /\ UNCHANGED <<authority, claim, control, live, spawned, running>>
        /\ seenClaim' = [seenClaim EXCEPT ![p] = None]
        /\ lock' = None /\ step' = "none"
    BY <1>5 DEF ControlUndo, Reject
  <2> QED
    BY <2>1, RefPrivate
<1>6. CASE MarkControlAttemptDraining(p)
  <2>1. Register!ControlStep
    BY <1>6, <1>0 DEF MarkControlAttemptDraining, WriteControl, Register!ControlStep
  <2> QED
    BY <1>6, <2>1, <1>a DEF MarkControlAttemptDraining, WriteControl, OwnClaim
<1>7. ASSUME NEW ph \in Phase, AdvanceControlAttempt(p, ph)
      PROVE  RefInv' /\ Mapped
  <2>1. Register!ControlStep
    BY <1>7, <1>0 DEF AdvanceControlAttempt, WriteControl, Register!ControlStep
  <2> QED
    BY <1>7, <2>1, <1>a DEF AdvanceControlAttempt, WriteControl, OwnClaim
<1>8. CASE ClearControlAttempt(p)
  <2>1. Register!ControlStep
    BY <1>8, <1>0 DEF ClearControlAttempt, Register!ControlStep
  <2> QED
    BY <1>8, <2>1, <1>a DEF ClearControlAttempt, OwnClaim
<1>9. CASE ControlClean(p)
  BY <1>9, RefPrivate DEF ControlClean
<1> QED
  BY <1>1, <1>2, <1>3, <1>4, <1>5, <1>6, <1>7, <1>8, <1>9 DEF ControlOperation

LEMMA RefStep == TypeInv /\ RefInv /\ [Next]_vars => RefInv' /\ Mapped
<1> SUFFICES ASSUME TypeInv, RefInv, [Next]_vars PROVE RefInv' /\ Mapped
  OBVIOUS
<1> USE DEF files, publicFiles, secretFiles, progress, seen, engines, ids, RefInv, PreparedShape,
      UnlinkShape, CommitShape, ControlShape, SeenClaimOwnedOrDead, Entitled, Retiring, HasClaim, Mapped,
      Register!vars, Register!registers, OwnClaim
<1>1. CASE UNCHANGED vars
  BY <1>1 DEF vars
<1>2. ASSUME NEW e \in running, EngineExits(e) PROVE RefInv' /\ Mapped
  <2>1. Register!EnginesExit
    BY <1>2 DEF EngineExits, Register!EnginesExit
  <2> QED
    BY <1>2, <2>1 DEF EngineExits, Register!Next
<1> QED
  BY <1>1, <1>2, RefProcess, RefClaim, RefAuthority, RefControl DEF Next

(* The store is three atomic registers: whatever is interrupted, and even  *)
(* when a directory sync fails, a lock section changes the public files by *)
(* single steps that its caller is entitled to.                            *)
THEOREM Refinement == Spec => ImplementsRegister
<1>1. Init => Register!Init
  BY RefInit
<1> QED
  BY <1>1, TypeInit, TypeStep, RefInit, RefStep, PTL
  DEF Spec, ImplementsRegister, Register!Spec, Mapped

LEMMA RecordStepFromRegister ==
  ASSUME TypeInv, Mapped PROVE RecordStep
<1>1. CASE UNCHANGED authority
  BY <1>1 DEF RecordStep
<1>2. CASE Register!RecordStep
  <2>1. authority # None => authority \in AuthorityRecord
    BY DEF TypeInv, TypeOK
  <2>2. ASSUME authority # None,
               authority' \in [revision : Nat, launch : {authority.launch}, generation : Nat]
        PROVE  authority' # None
    BY <2>1, <2>2, StoreAssumption DEF AuthorityRecord
  <2> QED
    BY <1>2, <2>2 DEF Register!RecordStep, Register!HasClaim, RecordStep, HasClaim
<1> QED
  BY <1>1, <1>2
  DEF Mapped, Register!Next, Register!Enter, Register!Leave, Register!EngineStarts,
      Register!EnginesExit, Register!SupervisorDies, Register!ClaimStep, Register!ControlStep,
      Register!vars, Register!registers

(* The record is a compare-and-swap register: stale arguments, crashes and *)
(* failed operations never move it back to a lower owner generation, to    *)
(* another launch, or away from under a running engine.                    *)
THEOREM RecordNeverRegresses == Spec => RecordAdvances
<1>1. TypeInv /\ RefInv /\ [Next]_vars => [RecordStep]_vars
  BY RefStep, RecordStepFromRegister
<1> QED
  BY <1>1, TypeInit, TypeStep, RefInit, RefStep, PTL DEF Spec, RecordAdvances
=============================================================================
