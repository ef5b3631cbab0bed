-------------------- MODULE AuthorityStoreCredentialProofs --------------------
(***************************************************************************)
(* What the store keeps of claims and control attempts, for any set of     *)
(* processes and any bounds: that a running engine's start and a pending   *)
(* control attempt keep the secrets they need, that an attempt aims at the *)
(* engine of the record, and that nobody takes another's claim.            *)
(*                                                                         *)
(* The public files change as the refinement says, so only the secrets and *)
(* the engines are followed operation by operation.                        *)
(***************************************************************************)
EXTENDS AuthorityStoreProofs

Preparing == {"prepare-publish", "prepare-undo"}

(* Only the starter of a prepared claim spawns its engine, and it has not  *)
(* while the claim is being prepared.                                      *)
SpawnedPrepared ==
  /\ HasClaim => claim.token <= launches
  /\ \A s \in spawned : s <= launches
  /\ HasClaim /\ claim.token \in spawned => claim.prepared
  /\ step \in Preparing => claim.starter = lock /\ claim.token \notin spawned

(* The pending credentials exist from before the starter learns that its   *)
(* claim is prepared until it drops the claim, and until the record of its *)
(* engine is committed.                                                    *)
PendingKept ==
  /\ step = "prepare-publish" => claim.token \in pendingSecret
  /\ \A p \in live :
       seenClaim[p] # None /\ seenClaim[p].starter = p /\ seenClaim[p].prepared =>
         claim.token \in pendingSecret \/ (step = "claim-unlink" /\ lock = p)
  /\ HasClaim /\ claim.token \in running =>
       claim.token \in pendingSecret \/ (authority # None /\ authority.launch = claim.token)

(* The record and the attempt name launches that were spawned.             *)
LaunchesKept ==
  /\ authority # None => authority.launch \in spawned
  /\ control # None => control.launch \in spawned
  /\ LiveControlIsCurrent

(* An attempt without its secret is one that a sweep is about to remove.   *)
AttemptKept ==
  /\ control # None =>
       control.request \in controlSecret \/ (authority = None /\ claim = None)
  /\ step = "control-publish" => draftControl.request \in controlSecret
  /\ step \in {"control-undo", "control-clean", "retire-control-secret",
               "retire-secret"} => control = None

ClaimKept == SpawnedPrepared /\ PendingKept

(* The invariants of the store and the steps of its registers.             *)
Known == TypeInv /\ RefInv /\ TypeInv' /\ RefInv' /\ Mapped /\ RecordStep

LEMMA StepKnown == TypeInv /\ RefInv /\ [Next]_vars => Known
BY TypeStep, RefStep, RecordStepFromRegister DEF Known

LEMMA ClaimTypes ==
  ASSUME TypeInv
  PROVE  /\ claim \in StartClaim \cup {None, Torn}
         /\ HasClaim => claim \in StartClaim
         /\ HasClaim => claim.token \in Nat
         /\ launches \in Nat /\ spawned \subseteq Nat
         /\ live \subseteq Proc /\ None \notin Proc /\ None # Torn
         /\ None \notin StartClaim /\ Torn \notin StartClaim
         /\ seenClaim \in [Proc -> StartClaim \cup {None}]
         /\ step \in Preparing \cup {"claim-unlink"} => HasClaim /\ lock # None
         /\ step # "none" => lock # None
<1>1. /\ claim \in StartClaim \cup {None, Torn} /\ launches \in Nat /\ spawned \subseteq Nat
      /\ live \subseteq Proc /\ seenClaim \in [Proc -> StartClaim \cup {None}]
      /\ step # "none" => lock # None
      /\ step \in Preparing \cup {"claim-unlink"} => HasClaim
  BY DEF TypeInv, TypeOK, StepShape, Preparing
<1>2. None \notin Proc /\ None # Torn /\ None \notin StartClaim /\ Torn \notin StartClaim
  BY StoreAssumption
<1>3. HasClaim => claim \in StartClaim
  BY <1>1 DEF HasClaim
<1> QED
  BY <1>1, <1>2, <1>3 DEF StartClaim, Preparing

(***************************************************************************)
(* Claims and their pending credentials.                                   *)
(***************************************************************************)

(* An action that leaves the claim and its credentials alone; who gives up *)
(* inside an operation forgets its claim.                                  *)
LEMMA ClaimUntouched ==
  ASSUME Known, ClaimKept,
         UNCHANGED <<claim, pendingSecret, launches, spawned>>,
         running' \subseteq running, live' \subseteq live,
         \A p \in live' : seenClaim'[p] \in {seenClaim[p], None},
         \/ UNCHANGED <<step, lock>>
         \/ /\ step' \notin Preparing
            /\ step = "claim-unlink" /\ lock \in live' => seenClaim'[lock] = None
  PROVE  ClaimKept'
<1>1. SpawnedPrepared'
  BY DEF ClaimKept, SpawnedPrepared, Preparing, HasClaim
<1>2. HasClaim /\ claim.token \in running =>
        claim.token \in pendingSecret \/ (authority' # None /\ authority'.launch = claim.token)
  BY DEF Known, RecordStep, ClaimKept, PendingKept
<1>3. ASSUME NEW p \in live',
             seenClaim'[p] # None, seenClaim'[p].starter = p, seenClaim'[p].prepared
      PROVE  claim.token \in pendingSecret \/ (step' = "claim-unlink" /\ lock' = p)
  BY <1>3 DEF ClaimKept, PendingKept
<1> QED
  BY <1>1, <1>2, <1>3 DEF ClaimKept, PendingKept, Preparing, HasClaim

LEMMA ClaimProcess ==
  ASSUME Known, ClaimKept, NEW p \in Proc,
         Acquire(p) \/ Unlock(p) \/ Crash(p) \/ Throw(p) \/ Spawn(p)
  PROVE  ClaimKept'
<1> USE DEF files, publicFiles, secretFiles, progress, seen, engines, ids
<1>0. TypeInv /\ RefInv
  BY DEF Known
<1>1. CASE Acquire(p)
  <2>1. step' \notin Preparing /\ step # "claim-unlink"
    BY <1>0, <1>1 DEF Acquire, TypeInv, StepShape, Preparing
  <2> QED
    BY <1>1, <2>1, ClaimUntouched DEF Acquire
<1>2. CASE Unlock(p)
  BY <1>2, ClaimUntouched DEF Unlock, Free, Preparing
<1>3. CASE Crash(p)
  <2>1. \A q \in live' : seenClaim'[q] = seenClaim[q]
    BY <1>0, <1>3, ClaimTypes DEF Crash
  <2> QED
    BY <1>3, <2>1, ClaimUntouched DEF Crash, Finish, Preparing
<1>4. CASE Throw(p)
  <2>1. \A q \in live' : seenClaim'[q] = IF q = p THEN None ELSE seenClaim[q]
    BY <1>0, <1>4, ClaimTypes DEF Throw, Reject
  <2> QED
    BY <1>4, <2>1, ClaimUntouched DEF Throw, Reject, Finish, Preparing
<1>5. CASE Spawn(p)
  <2>1. /\ HasClaim /\ claim.prepared /\ claim.token = seenClaim[p].token
        /\ claim.starter = p /\ lock # p /\ p \in live
        /\ seenClaim[p] # None /\ seenClaim[p].prepared /\ seenClaim[p].starter = p
    BY <1>0, <1>5 DEF Spawn, RefInv, OwnClaim
  <2>2. /\ spawned' = spawned \cup {claim.token} /\ running' = running \cup {claim.token}
        /\ UNCHANGED <<claim, pendingSecret, launches, step, lock, live, seenClaim, authority>>
    BY <1>5, <2>1 DEF Spawn
  <2>3. claim.token \in pendingSecret
    BY <2>1 DEF ClaimKept, PendingKept
  <2>4. step \notin Preparing
    BY <2>1 DEF ClaimKept, SpawnedPrepared
  <2>5. SpawnedPrepared'
    BY <2>1, <2>2, <2>4 DEF ClaimKept, SpawnedPrepared, HasClaim
  <2>6. PendingKept'
    BY <2>2, <2>3 DEF ClaimKept, PendingKept, HasClaim
  <2> QED
    BY <2>5, <2>6 DEF ClaimKept
<1> QED
  BY <1>1, <1>2, <1>3, <1>4, <1>5

(* No live process but the holder of the lock knows a claim being prepared *)
(* as its own.                                                             *)
LEMMA OwnedByStarter ==
  ASSUME TypeInv, RefInv, NEW p \in live, seenClaim[p] # None, seenClaim[p].starter = p
  PROVE  /\ HasClaim /\ claim.starter = p /\ claim.token = seenClaim[p].token
         /\ seenClaim[p].prepared => claim.prepared
BY DEF RefInv, OwnClaim

(* The claim is written again, with the same starter and token.            *)
LEMMA ClaimRewritten ==
  ASSUME Known, ClaimKept, NEW p \in Proc, NEW new, WriteClaim(p, new), Free(p), HasClaim,
         seenClaim[p] = claim, new \in StartClaim, new.token = claim.token,
         new.starter = claim.starter, new.prepared = claim.prepared
  PROVE  ClaimKept'
<1>0. TypeInv /\ TypeInv'
  BY DEF Known
<1>1. /\ claim' = new /\ step = "none" /\ lock = p
      /\ UNCHANGED <<authority, pendingSecret, launches, spawned, running, step, lock, live>>
  BY DEF WriteClaim, Free, secretFiles, progress, engines, ids
<1>2. HasClaim'
  BY <1>0, <1>1, ClaimTypes DEF HasClaim
<1>3. \A q \in live : seenClaim'[q] = seenClaim[q] \/ (q = p /\ seenClaim'[q] = new)
  BY <1>0, <1>1, ClaimTypes DEF WriteClaim
<1>4. SpawnedPrepared'
  BY <1>1, <1>2 DEF ClaimKept, SpawnedPrepared, Preparing
<1>5. PendingKept'
  <2>1. ASSUME NEW q \in live, seenClaim'[q] # None, seenClaim'[q].starter = q,
               seenClaim'[q].prepared
        PROVE  claim.token \in pendingSecret
    BY <1>1, <1>3, <2>1, <1>0, ClaimTypes DEF ClaimKept, PendingKept, HasClaim
  <2> QED
    BY <1>1, <1>2, <2>1 DEF ClaimKept, PendingKept
<1> QED
  BY <1>4, <1>5 DEF ClaimKept

LEMMA ClaimOperations ==
  ASSUME Known, ClaimKept, NEW p \in Proc, ClaimOperation(p)
  PROVE  ClaimKept'
<1> USE DEF files, publicFiles, secretFiles, progress, seen, engines, ids
<1>0. TypeInv /\ RefInv /\ TypeInv' /\ RefInv'
  BY DEF Known
<1>1. CASE ClaimStart(p)
  <2>1. /\ claim' = None /\ step' = "claim-sweep"
        /\ UNCHANGED <<pendingSecret, launches, spawned, running, seenClaim, live>>
    BY <1>1 DEF ClaimStart, Goto
  <2>2. ~HasClaim'
    BY <2>1 DEF HasClaim
  <2>3. ASSUME NEW q \in live, seenClaim[q] # None, seenClaim[q].starter = q
        PROVE  FALSE
    BY <1>0, <2>1, <2>2, <2>3 DEF RefInv, OwnClaim
  <2> QED
    BY <2>1, <2>2, <2>3 DEF ClaimKept, SpawnedPrepared, PendingKept, Preparing
<1>2. CASE SweepOrphan(p)
  BY <1>2, ClaimUntouched DEF SweepOrphan
<1>3. CASE CreateClaim(p)
  <2>1. /\ claim' = Torn /\ step' = "claim-fill"
        /\ UNCHANGED <<pendingSecret, launches, spawned, running, seenClaim, live>>
    BY <1>3 DEF CreateClaim, Goto
  <2>2. ~HasClaim'
    BY <2>1 DEF HasClaim
  <2>3. ASSUME NEW q \in live, seenClaim[q] # None, seenClaim[q].starter = q
        PROVE  FALSE
    BY <1>0, <2>1, <2>2, <2>3 DEF RefInv, OwnClaim
  <2> QED
    BY <2>1, <2>2, <2>3 DEF ClaimKept, SpawnedPrepared, PendingKept, Preparing
<1>4. CASE FillClaim(p)
  <2>1. /\ claim' = [token |-> launches + 1, starter |-> p, prepared |-> FALSE,
                     bound |-> FALSE, attempt |-> 0]
        /\ launches' = launches + 1 /\ seenClaim' = [seenClaim EXCEPT ![p] = claim']
        /\ step' = "none" /\ claim = Torn
        /\ UNCHANGED <<pendingSecret, spawned, running, live>>
    BY <1>0, <1>4 DEF FillClaim, Finish, RefInv
  <2>2. \A q \in live : seenClaim'[q] = IF q = p THEN claim' ELSE seenClaim[q]
    BY <1>0, <2>1, ClaimTypes
  <2>3. \A q \in live : ~(seenClaim[q] # None /\ seenClaim[q].starter = q)
    BY <1>0, <2>1 DEF RefInv, OwnClaim, HasClaim
  <2>4. \A s \in spawned : s \in Nat /\ s <= launches
    BY <1>0, ClaimTypes DEF ClaimKept, SpawnedPrepared
  <2>5. claim'.token \notin spawned /\ launches \in Nat
    BY <1>0, <2>1, <2>4, ClaimTypes
  <2>6. running \subseteq spawned
    BY <1>0 DEF RefInv
  <2>7. SpawnedPrepared'
    BY <2>1, <2>4, <2>5 DEF SpawnedPrepared, Preparing
  <2>8. PendingKept'
    BY <2>1, <2>2, <2>3, <2>5, <2>6 DEF PendingKept
  <2> QED
    BY <2>7, <2>8 DEF ClaimKept
<1>5. CASE FindDeadStart(p)
  <2>1. /\ seenClaim' = [seenClaim EXCEPT ![p] = claim] /\ lock = p /\ step = "none"
        /\ claim.starter \notin live
        /\ UNCHANGED <<claim, authority, pendingSecret, launches, spawned, running, live,
                       step, lock>>
    BY <1>5 DEF FindDeadStart, Free
  <2>2. \A q \in live : seenClaim'[q] = IF q = p THEN claim ELSE seenClaim[q]
    BY <1>0, <2>1, ClaimTypes
  <2> QED
    BY <2>1, <2>2 DEF ClaimKept, SpawnedPrepared, PendingKept, HasClaim
<1>6. CASE PrepareStartClaim(p)
  <2>1. /\ HasClaim /\ claim.starter = p /\ lock = p /\ ~claim.prepared
        /\ pendingSecret' = pendingSecret \cup {claim.token} /\ step' = "prepare-publish"
        /\ UNCHANGED <<claim, authority, launches, spawned, running, live, lock, seenClaim>>
    <3>1. p \in live
      BY <1>0, <1>6, ClaimTypes DEF PrepareStartClaim, Free, RefInv
    <3> QED
      BY <1>0, <1>6, <3>1, OwnedByStarter DEF PrepareStartClaim, Free, Goto
  <2> QED
    BY <2>1 DEF ClaimKept, SpawnedPrepared, PendingKept, HasClaim
<1>7. CASE PreparePublish(p)
  <2>1. /\ lock = p /\ step = "prepare-publish" /\ claim' = [claim EXCEPT !.prepared = TRUE]
        /\ seenClaim' = [seenClaim EXCEPT ![p] = claim'] \/ seenClaim' = seenClaim
        /\ step' \in {"none", "prepare-undo"}
        /\ UNCHANGED <<authority, pendingSecret, launches, spawned, running, live, lock>>
    BY <1>7 DEF PreparePublish, Goto, Finish
  <2>2. HasClaim /\ claim \in StartClaim /\ claim.starter = p /\ claim.token \notin spawned
    BY <1>0, <2>1, ClaimTypes DEF ClaimKept, SpawnedPrepared, Preparing
  <2>3. claim'.token = claim.token /\ claim'.prepared /\ claim'.starter = p
    BY <2>1, <2>2 DEF StartClaim
  <2>4. claim.token \in pendingSecret
    BY <2>1 DEF ClaimKept, PendingKept
  <2>5. SpawnedPrepared'
    BY <2>1, <2>2, <2>3 DEF ClaimKept, SpawnedPrepared
  <2>6. PendingKept'
    BY <2>1, <2>3, <2>4 DEF PendingKept
  <2> QED
    BY <2>5, <2>6 DEF ClaimKept
<1>8. CASE PrepareFails(p)
  <2>1. /\ step = "prepare-publish" /\ step' = "prepare-undo"
        /\ UNCHANGED <<claim, authority, pendingSecret, launches, spawned, running, live,
                       lock, seenClaim>>
    BY <1>8 DEF PrepareFails, Goto
  <2> QED
    BY <2>1 DEF ClaimKept, SpawnedPrepared, PendingKept, Preparing, HasClaim
<1>9. CASE PrepareUndo(p)
  <2>1. /\ lock = p /\ step = "prepare-undo" /\ step' = "none"
        /\ pendingSecret' = pendingSecret \ {claim.token}
        /\ seenClaim' = [seenClaim EXCEPT ![p] = None]
        /\ UNCHANGED <<claim, authority, launches, spawned, running, live>>
    BY <1>9 DEF PrepareUndo, Reject, Finish
  <2>2. HasClaim /\ claim.starter = p /\ claim.token \notin spawned
    BY <1>0, <2>1, ClaimTypes DEF ClaimKept, SpawnedPrepared, Preparing
  <2>3. \A q \in live : seenClaim'[q] = IF q = p THEN None ELSE seenClaim[q]
    BY <1>0, <2>1, ClaimTypes
  <2>4. \A q \in live : ~(seenClaim'[q] # None /\ seenClaim'[q].starter = q)
    BY <1>0, <2>2, <2>3, OwnedByStarter
  <2>5. running \subseteq spawned
    BY <1>0 DEF RefInv
  <2> QED
    BY <2>1, <2>2, <2>4, <2>5
       DEF ClaimKept, SpawnedPrepared, PendingKept, Preparing, HasClaim
<1>10. CASE BindStartClaimProcess(p)
  <2> DEFINE new == [claim EXCEPT !.bound = TRUE]
  <2>1. /\ new \in StartClaim /\ new.token = claim.token /\ new.starter = claim.starter
        /\ new.prepared = claim.prepared
    BY <1>0, <1>10, ClaimTypes DEF BindStartClaimProcess, StartClaim
  <2> QED
    BY <1>10, <2>1, ClaimRewritten DEF BindStartClaimProcess
<1>11. CASE MarkOwnerAttempt(p)
  <2> DEFINE new == [claim EXCEPT !.attempt = @ + 1]
  <2>1. /\ new \in StartClaim /\ new.token = claim.token /\ new.starter = claim.starter
        /\ new.prepared = claim.prepared
    BY <1>0, <1>11, ClaimTypes DEF MarkOwnerAttempt, StartClaim
  <2> QED
    BY <1>11, <2>1, ClaimRewritten DEF MarkOwnerAttempt
<1>12. CASE RollbackOwnerAttempt(p)
  <2> DEFINE new == [claim EXCEPT !.attempt = @ - 1]
  <2>1. /\ new \in StartClaim /\ new.token = claim.token /\ new.starter = claim.starter
        /\ new.prepared = claim.prepared
    BY <1>0, <1>12, ClaimTypes DEF RollbackOwnerAttempt, StartClaim
  <2> QED
    BY <1>12, <2>1, ClaimRewritten DEF RollbackOwnerAttempt
<1>13. CASE DropClaim(p)
  <2>1. /\ HasClaim /\ lock = p /\ claim.starter \in {p} \cup (Proc \ live)
        /\ \/ authority # None /\ authority.launch = claim.token
           \/ claim.token \notin running
        /\ pendingSecret' = pendingSecret \ {claim.token} /\ step' = "claim-unlink"
        /\ UNCHANGED <<claim, authority, launches, spawned, running, live, lock, seenClaim>>
    BY <1>13 DEF DropClaim, Free, Goto
  <2>2. \A q \in live : seenClaim[q] # None /\ seenClaim[q].starter = q => q = p
    BY <1>0, <2>1, OwnedByStarter
  <2> QED
    BY <2>1, <2>2 DEF ClaimKept, SpawnedPrepared, PendingKept, Preparing, HasClaim
<1>14. CASE UnlinkClaim(p)
  <2>1. /\ claim' = None /\ step' = "none"
        /\ UNCHANGED <<pendingSecret, launches, spawned, running, live>>
    BY <1>14 DEF UnlinkClaim, Finish
  <2>2. ~HasClaim'
    BY <2>1 DEF HasClaim
  <2>3. \A q \in live : ~(seenClaim'[q] # None /\ seenClaim'[q].starter = q)
    BY <1>0, <2>1, <2>2 DEF RefInv, OwnClaim
  <2> QED
    BY <2>1, <2>2, <2>3 DEF ClaimKept, SpawnedPrepared, PendingKept, Preparing
<1> QED
  BY <1>1, <1>2, <1>3, <1>4, <1>5, <1>6, <1>7, <1>8, <1>9, <1>10, <1>11, <1>12, <1>13,
     <1>14 DEF ClaimOperation

(* An operation on the record or the attempt gives up what it knows of a   *)
(* claim only as a whole.                                                  *)
LEMMA ClaimAside ==
  ASSUME Known, ClaimKept, NEW p \in Proc,
         UNCHANGED <<claim, pendingSecret, launches, spawned, running, live>>,
         step \notin {"claim-unlink"} \cup Preparing, step' \notin Preparing,
         seenClaim' = seenClaim \/ seenClaim' = [seenClaim EXCEPT ![p] = None]
  PROVE  ClaimKept'
<1>1. TypeInv
  BY DEF Known
<1>2. \A q \in live' : seenClaim'[q] \in {seenClaim[q], None}
  BY <1>1, ClaimTypes
<1> QED
  BY <1>2, ClaimUntouched

LEMMA ClaimAuthority ==
  ASSUME Known, ClaimKept, NEW p \in Proc, AuthorityOperation(p)
  PROVE  ClaimKept'
<1> USE DEF files, publicFiles, secretFiles, progress, seen, engines, ids, Preparing, Goto,
      Finish, Free
<1>1. CASE ReadCurrent(p)
  BY <1>1, ClaimAside DEF ReadCurrent
<1>2. ASSUME NEW g \in 1..MaxGeneration, CommitFirst(p, g) \/ CommitRotation(p, g)
      PROVE  ClaimKept'
  <2>1. step = "none" /\ \E r : BeginCommit(p, r)
    BY <1>2 DEF CommitFirst, CommitRotation
  <2> QED
    BY <2>1, ClaimAside DEF BeginCommit
<1>3. CASE CommitPublish(p)
  BY <1>3, ClaimAside DEF CommitPublish
<1>4. CASE CommitFails(p) \/ CommitUndo(p)
  BY <1>4, ClaimAside DEF CommitFails, CommitUndo, Reject
<1>5. CASE CommitClean(p) \/ RetireAuthority(p)
  BY <1>5, ClaimAside DEF CommitClean, RetireAuthority
<1>6. CASE RetireControl(p) \/ RetireControlSecret(p) \/ RetireSecret(p)
  BY <1>6, ClaimAside DEF RetireControl, RetireControlSecret, RetireSecret
<1> QED
  BY <1>1, <1>2, <1>3, <1>4, <1>5, <1>6 DEF AuthorityOperation

LEMMA ClaimControl ==
  ASSUME Known, ClaimKept, NEW p \in Proc, ControlOperation(p)
  PROVE  ClaimKept'
<1> USE DEF files, publicFiles, secretFiles, progress, seen, engines, ids, Preparing, Goto,
      Finish, Free
<1>1. ASSUME NEW o \in Operation, ResumeControlAttempt(p, o) \/ PrepareControlAttempt(p, o)
      PROVE  ClaimKept'
  BY <1>1, ClaimAside DEF ResumeControlAttempt, PrepareControlAttempt
<1>2. CASE ControlPublish(p) \/ ControlFails(p)
  BY <1>2, ClaimAside DEF ControlPublish, ControlFails
<1>3. CASE ControlUndo(p)
  BY <1>3, ClaimAside DEF ControlUndo, Reject
<1>4. ASSUME NEW ph \in Phase, MarkControlAttemptDraining(p) \/ AdvanceControlAttempt(p, ph)
      PROVE  ClaimKept'
  BY <1>4, ClaimAside DEF MarkControlAttemptDraining, AdvanceControlAttempt, WriteControl
<1>5. CASE ClearControlAttempt(p) \/ ControlClean(p)
  BY <1>5, ClaimAside DEF ClearControlAttempt, ControlClean
<1> QED
  BY <1>1, <1>2, <1>3, <1>4, <1>5 DEF ControlOperation, Phase

LEMMA ClaimStays == TypeInv /\ RefInv /\ ClaimKept /\ [Next]_vars => ClaimKept'
<1> SUFFICES ASSUME TypeInv, RefInv, ClaimKept, [Next]_vars PROVE ClaimKept'
  OBVIOUS
<1>1. Known
  BY StepKnown
<1>2. CASE UNCHANGED vars
  <2>1. UNCHANGED <<claim, pendingSecret, launches, spawned, running, live, seenClaim, step,
                    lock>>
    BY <1>2 DEF vars, files, publicFiles, secretFiles, progress, seen, engines, ids
  <2> QED
    BY <1>1, <2>1, ClaimUntouched
<1>3. ASSUME NEW e \in running, EngineExits(e) PROVE ClaimKept'
  <2>1. /\ running' \subseteq running
        /\ UNCHANGED <<claim, pendingSecret, launches, spawned, live, seenClaim, step, lock>>
    BY <1>3 DEF EngineExits, files, publicFiles, secretFiles, progress, seen, ids
  <2> QED
    BY <1>1, <2>1, ClaimUntouched
<1> QED
  BY <1>1, <1>2, <1>3, ClaimProcess, ClaimOperations, ClaimAuthority, ClaimControl DEF Next

LEMMA ClaimInit == Init => ClaimKept
BY DEF Init, ClaimKept, SpawnedPrepared, PendingKept, HasClaim, Preparing

LEMMA ClaimInvariance == Spec => [](TypeInv /\ RefInv /\ ClaimKept)
BY TypeInit, TypeStep, RefInit, RefStep, ClaimInit, ClaimStays, PTL DEF Spec

(* A start that was interrupted after its engine was launched finds its    *)
(* pending credentials: they are written before the claim that refers to   *)
(* them is published, and removed only after the record of that launch is  *)
(* or when its engine is dead - also when a directory sync fails and the   *)
(* write of the claim is undone (prepareStartClaim, releaseStartClaim,     *)
(* retireDeadStartClaim).                                                  *)
THEOREM PendingStartKeepsSecret == Spec => []PendingStartHasSecret
<1>1. ClaimKept => PendingStartHasSecret
  BY DEF ClaimKept, PendingKept, PendingStartHasSecret
<1> QED
  BY <1>1, ClaimInvariance, PTL

(***************************************************************************)
(* Who takes a claim away: a step of the registers that its holder is      *)
(* entitled to.                                                            *)
(***************************************************************************)
LEMMA ClaimStepFromRegister ==
  ASSUME TypeInv, RefInv, ClaimKept, Mapped
  PROVE  ClaimStep
<1> SUFFICES ASSUME HasClaim, claim' \in {None, Torn} \/ claim'.token # claim.token
             PROVE  /\ claim.starter \in live => lock = claim.starter
                    /\ claim.token \in running =>
                         authority # None /\ authority.launch = claim.token
  BY DEF ClaimStep
<1>1. claim \in StartClaim /\ claim \notin {None, Torn}
  BY ClaimTypes DEF HasClaim
<1>2. claim' # claim
  BY <1>1
<1>3. Register!ClaimStep
  BY <1>2
  DEF Mapped, Register!Next, Register!Enter, Register!Leave, Register!EngineStarts,
      Register!EnginesExit, Register!SupervisorDies, Register!RecordStep,
      Register!ControlStep, Register!vars, Register!registers
<1>4. ASSUME NEW c \in StartClaim, c.token = claim.token PROVE claim' # c
  BY <1>1, <1>4, ClaimTypes
<1>5. /\ [claim EXCEPT !.prepared = TRUE] \in StartClaim
      /\ [claim EXCEPT !.prepared = TRUE].token = claim.token
  BY <1>1 DEF StartClaim
<1>6. /\ [claim EXCEPT !.bound = TRUE] \in StartClaim
      /\ [claim EXCEPT !.bound = TRUE].token = claim.token
  BY <1>1 DEF StartClaim
<1>7. /\ [claim EXCEPT !.attempt = @ + 1] \in StartClaim
       /\ [claim EXCEPT !.attempt = @ + 1].token = claim.token
  BY <1>1 DEF StartClaim
<1>8. claim.attempt >= 2 => /\ [claim EXCEPT !.attempt = @ - 1] \in StartClaim
                             /\ [claim EXCEPT !.attempt = @ - 1].token = claim.token
  BY <1>1 DEF StartClaim
<1>9. /\ Register!Entitled
      /\ \/ authority # None /\ authority.launch = claim.token
         \/ claim.token \notin running
         \/ ~claim.prepared
  BY <1>1, <1>3, <1>4, <1>5, <1>6, <1>7, <1>8 DEF Register!ClaimStep
<1>10. claim.starter \in live => lock = claim.starter
  BY <1>9 DEF Register!Entitled
<1>11. claim.token \in running => claim.prepared
  BY DEF RefInv, ClaimKept, SpawnedPrepared
<1> QED
  BY <1>9, <1>10, <1>11

(* The claim of a live starter is its own to replace or drop, and while    *)
(* the engine of a claim runs nobody drops it before the record of that    *)
(* launch is committed (claimStart, releaseStartClaim,                     *)
(* retireDeadStartClaim).                                                  *)
THEOREM ClaimsKept == Spec => ClaimNotStolen
<1>1. TypeInv /\ RefInv /\ ClaimKept /\ [Next]_vars => [ClaimStep]_vars
  BY StepKnown, ClaimStepFromRegister DEF Known
<1>2. Spec => [][ClaimStep]_vars
  BY <1>1, ClaimInvariance, PTL DEF Spec
<1> QED
  BY <1>2 DEF ClaimNotStolen

(***************************************************************************)
(* The engines that the record and the attempt name.                       *)
(***************************************************************************)
LEMMA EnginesMove ==
  ASSUME TypeInv, RefInv, [Next]_vars
  PROVE  \/ spawned' = spawned /\ running' \subseteq running
         \/ \E s \in Nat : /\ s \notin spawned
                           /\ spawned' = spawned \cup {s} /\ running' = running \cup {s}
                           /\ UNCHANGED <<authority, control>>
<1> USE DEF files, publicFiles, secretFiles, progress, seen, engines, ids
<1>1. CASE UNCHANGED vars
  BY <1>1 DEF vars
<1>2. ASSUME NEW e \in running, EngineExits(e) PROVE spawned' = spawned /\ running' \subseteq running
  BY <1>2 DEF EngineExits
<1>3. ASSUME NEW p \in Proc, Spawn(p)
      PROVE  \E s \in Nat : /\ s \notin spawned
                            /\ spawned' = spawned \cup {s} /\ running' = running \cup {s}
                            /\ UNCHANGED <<authority, control>>
  <2>1. seenClaim[p].token \in Nat
    BY <1>3, ClaimTypes DEF Spawn, StartClaim
  <2> QED
    BY <1>3, <2>1 DEF Spawn
<1>4. ASSUME NEW p \in Proc, Acquire(p) \/ Unlock(p) \/ Crash(p) \/ Throw(p)
      PROVE  spawned' = spawned /\ running' = running
  BY <1>4 DEF Acquire, Unlock, Crash, Throw
<1>5. ASSUME NEW p \in Proc, ClaimOperation(p)
      PROVE  spawned' = spawned /\ running' = running
  BY <1>5
  DEF ClaimOperation, ClaimStart, SweepOrphan, CreateClaim, FillClaim, FindDeadStart,
      PrepareStartClaim, PreparePublish, PrepareFails, PrepareUndo, BindStartClaimProcess,
      MarkOwnerAttempt, RollbackOwnerAttempt, WriteClaim, DropClaim, UnlinkClaim
<1>6. ASSUME NEW p \in Proc, AuthorityOperation(p)
      PROVE  spawned' = spawned /\ running' = running
  BY <1>6
  DEF AuthorityOperation, ReadCurrent, CommitFirst, CommitRotation, BeginCommit,
      CommitPublish, CommitFails, CommitUndo, CommitClean, RetireAuthority, RetireControl,
      RetireControlSecret, RetireSecret
<1>7. ASSUME NEW p \in Proc, ControlOperation(p)
      PROVE  spawned' = spawned /\ running' = running
  BY <1>7
  DEF ControlOperation, ResumeControlAttempt, PrepareControlAttempt, ControlPublish,
      ControlFails, ControlUndo, MarkControlAttemptDraining, AdvanceControlAttempt,
      WriteControl, ClearControlAttempt, ControlClean
<1> QED
  BY <1>1, <1>2, <1>3, <1>4, <1>5, <1>6, <1>7 DEF Next

(* What a step of the registers does to the launches they name.            *)
LEMMA LaunchMoves ==
  ASSUME TypeInv, RefInv, Mapped
  PROVE  /\ authority' # None =>
              \/ authority # None /\ authority'.launch = authority.launch
              \/ authority = None /\ authority'.launch \in spawned
         /\ control' # None =>
              \/ control # None /\ control'.launch = control.launch
              \/ authority # None /\ authority' = authority
                 /\ control'.launch = authority.launch
<1>1. ASSUME authority' # authority
      PROVE  /\ control' = control
             /\ authority' # None =>
                  \/ authority # None /\ authority'.launch = authority.launch
                  \/ authority = None /\ authority'.launch \in spawned
  <2>1. Register!RecordStep
    BY <1>1
    DEF Mapped, Register!Next, Register!Enter, Register!Leave, Register!EngineStarts,
        Register!EnginesExit, Register!SupervisorDies, Register!ClaimStep,
        Register!ControlStep, Register!vars, Register!registers
  <2> QED
    BY <2>1 DEF Register!RecordStep, Register!HasClaim, RefInv, HasClaim
<1>2. ASSUME control' # control, control' # None
      PROVE  /\ authority' = authority
             /\ \/ control # None /\ control'.launch = control.launch
                \/ authority # None /\ control'.launch = authority.launch
  <2>1. Register!ControlStep
    BY <1>2
    DEF Mapped, Register!Next, Register!Enter, Register!Leave, Register!EngineStarts,
        Register!EnginesExit, Register!SupervisorDies, Register!ClaimStep,
        Register!RecordStep, Register!vars, Register!registers
  <2>2. control # None => control \in ControlAttempt
    BY DEF TypeInv, TypeOK
  <2> QED
    BY <1>2, <2>1, <2>2 DEF Register!ControlStep, ControlAttempt
<1> QED
  BY <1>1, <1>2

LEMMA LaunchesStay ==
  TypeInv /\ RefInv /\ LaunchesKept /\ [Next]_vars => LaunchesKept'
<1> SUFFICES ASSUME TypeInv, RefInv, LaunchesKept, [Next]_vars PROVE LaunchesKept'
  OBVIOUS
<1>1. Mapped /\ RecordStep
  BY StepKnown DEF Known
<1>2. CASE \E s \in Nat : /\ s \notin spawned
                          /\ spawned' = spawned \cup {s} /\ running' = running \cup {s}
                          /\ UNCHANGED <<authority, control>>
  BY <1>2 DEF LaunchesKept, LiveControlIsCurrent
<1>3. CASE spawned' = spawned /\ running' \subseteq running
  <2>1. (authority' # None => authority'.launch \in spawned)
        /\ (control' # None => control'.launch \in spawned)
    BY <1>1, LaunchMoves DEF LaunchesKept
  <2>2. ASSUME control' # None, control'.launch \in running
        PROVE  authority' # None /\ authority'.launch = control'.launch
    <3>1. CASE control # None /\ control'.launch = control.launch
      BY <1>1, <2>2, <3>1 DEF LaunchesKept, LiveControlIsCurrent, RecordStep
    <3> QED
      BY <1>1, <2>2, <3>1, LaunchMoves
  <2> QED
    BY <1>3, <2>1, <2>2 DEF LaunchesKept, LiveControlIsCurrent
<1> QED
  BY <1>2, <1>3, EnginesMove

LEMMA LaunchesInit == Init => LaunchesKept
BY DEF Init, LaunchesKept, LiveControlIsCurrent

(* No retirement, rotation or new start leaves an attempt that aims at a   *)
(* running engine which the record does not name, also when attempts       *)
(* outlive the record they were made for (retireDeadGeneration, the sweep  *)
(* of claimStart).                                                         *)
THEOREM LiveControlsCurrent == Spec => []LiveControlIsCurrent
<1>1. LaunchesKept => LiveControlIsCurrent
  BY DEF LaunchesKept
<1> QED
  BY <1>1, TypeInit, TypeStep, RefInit, RefStep, LaunchesInit, LaunchesStay, PTL DEF Spec

(***************************************************************************)
(* The secret of a control attempt.                                        *)
(***************************************************************************)
ControlSteps == {"control-publish", "control-undo", "control-clean",
                 "retire-control-secret", "retire-secret"}

(* The attempt and its secret stay, and no claim is made beside an attempt *)
(* that a sweep left without its secret.                                   *)
LEMMA AttemptUntouched ==
  ASSUME Known, AttemptKept, UNCHANGED <<control, controlSecret>>,
         claim' = claim \/ claim' = None \/ HasClaim \/ control = None \/ claim = Torn,
         UNCHANGED <<step, draftControl>> \/ step' \notin ControlSteps
  PROVE  AttemptKept'
<1>1. TypeInv
  BY DEF Known
<1>2. authority = None /\ claim = None => authority' = None
  BY DEF Known, RecordStep, HasClaim
<1>3. ASSUME control # None, control.request \notin controlSecret
      PROVE  authority' = None /\ claim' = None
  BY <1>1, <1>2, <1>3, StoreAssumption DEF AttemptKept, HasClaim
<1> QED
  BY <1>3 DEF AttemptKept, ControlSteps

LEMMA AttemptProcess ==
  ASSUME Known, AttemptKept, NEW p \in Proc,
         Acquire(p) \/ Unlock(p) \/ Crash(p) \/ Throw(p) \/ Spawn(p)
  PROVE  AttemptKept'
  BY AttemptUntouched
  DEF Acquire, Unlock, Crash, Throw, Reject, Spawn, Finish, ControlSteps,
      files, publicFiles, secretFiles, progress

LEMMA AttemptClaim ==
  ASSUME Known, AttemptKept, NEW p \in Proc, ClaimOperation(p)
  PROVE  AttemptKept'
<1> USE DEF files, publicFiles, secretFiles, progress, seen, engines, ids, ControlSteps, Goto,
      Finish, Free
<1>0. TypeInv /\ RefInv
  BY DEF Known
<1>1. CASE SweepOrphan(p)
  <2>1. /\ step = "claim-sweep" /\ authority = None /\ claim = None
        /\ UNCHANGED <<authority, claim, step>> /\ control' \in {control, None}
    BY <1>0, <1>1 DEF SweepOrphan, RefInv
  <2> QED
    BY <2>1 DEF AttemptKept
<1>2. CASE ClaimStart(p)
  BY <1>2, AttemptUntouched DEF ClaimStart
<1>3. CASE CreateClaim(p)
  <2>1. /\ authority # None \/ control = None
        /\ UNCHANGED <<authority, control, controlSecret>> /\ step' = "claim-fill"
    BY <1>3 DEF CreateClaim, Orphans
  <2> QED
    BY <2>1 DEF AttemptKept
<1>4. CASE FillClaim(p)
  BY <1>0, <1>4, AttemptUntouched DEF FillClaim, RefInv
<1>5. CASE PrepareStartClaim(p) \/ PrepareFails(p) \/ PrepareUndo(p) \/ FindDeadStart(p)
  BY <1>5, AttemptUntouched
  DEF PrepareStartClaim, PrepareFails, PrepareUndo, FindDeadStart, Reject
<1>6. CASE PreparePublish(p)
  <2>1. HasClaim
    BY <1>0, <1>6, ClaimTypes DEF PreparePublish, Preparing
  <2> QED
    BY <1>6, <2>1, AttemptUntouched DEF PreparePublish
<1>7. CASE BindStartClaimProcess(p) \/ MarkOwnerAttempt(p) \/ RollbackOwnerAttempt(p)
  BY <1>7, AttemptUntouched
  DEF BindStartClaimProcess, MarkOwnerAttempt, RollbackOwnerAttempt, WriteClaim
<1>8. CASE DropClaim(p) \/ UnlinkClaim(p)
  BY <1>8, AttemptUntouched DEF DropClaim, UnlinkClaim
<1> QED
  BY <1>1, <1>2, <1>3, <1>4, <1>5, <1>6, <1>7, <1>8 DEF ClaimOperation

LEMMA AttemptAuthority ==
  ASSUME Known, AttemptKept, NEW p \in Proc, AuthorityOperation(p)
  PROVE  AttemptKept'
<1> USE DEF files, publicFiles, secretFiles, progress, seen, engines, ids, ControlSteps, Goto,
      Finish, Free
<1>1. CASE ReadCurrent(p)
  BY <1>1, AttemptUntouched DEF ReadCurrent
<1>2. ASSUME NEW g \in 1..MaxGeneration, CommitFirst(p, g) \/ CommitRotation(p, g)
      PROVE  AttemptKept'
  <2>1. \E r : BeginCommit(p, r)
    BY <1>2 DEF CommitFirst, CommitRotation
  <2> QED
    BY <2>1, AttemptUntouched DEF BeginCommit
<1>3. CASE CommitPublish(p) \/ CommitFails(p) \/ CommitUndo(p) \/ CommitClean(p)
  BY <1>3, AttemptUntouched DEF CommitPublish, CommitFails, CommitUndo, CommitClean, Reject
<1>4. CASE RetireAuthority(p)
  BY <1>4, AttemptUntouched DEF RetireAuthority
<1>5. CASE RetireControl(p)
  <2>1. control' = None /\ step' \in {"retire-secret", "retire-control-secret"}
    BY <1>5 DEF RetireControl
  <2> QED
    BY <2>1 DEF AttemptKept
<1>6. CASE RetireControlSecret(p)
  <2>1. step = "retire-control-secret" /\ step' = "retire-secret" /\ UNCHANGED control
    BY <1>6 DEF RetireControlSecret
  <2> QED
    BY <2>1 DEF AttemptKept
<1>7. CASE RetireSecret(p)
  BY <1>7, AttemptUntouched DEF RetireSecret
<1> QED
  BY <1>1, <1>2, <1>3, <1>4, <1>5, <1>6, <1>7 DEF AuthorityOperation

LEMMA AttemptControl ==
  ASSUME ~DirectorySyncMayFail, Known, AttemptKept, NEW p \in Proc, ControlOperation(p)
  PROVE  AttemptKept'
<1> USE DEF files, publicFiles, secretFiles, progress, seen, engines, ids, ControlSteps, Goto,
      Finish, Free
<1>0. TypeInv /\ RefInv
  BY DEF Known
<1>1. ASSUME NEW o \in Operation, ResumeControlAttempt(p, o) PROVE AttemptKept'
  <2>1. /\ authority # None /\ UNCHANGED <<authority, control, step, draftControl>>
        /\ step = "none" /\ controlSecret' = controlSecret \cap {control.request}
    BY <1>1 DEF ResumeControlAttempt
  <2> QED
    BY <2>1 DEF AttemptKept
<1>2. ASSUME NEW o \in Operation, PrepareControlAttempt(p, o) PROVE AttemptKept'
  <2>1. /\ control = None /\ UNCHANGED control /\ step' = "control-publish"
        /\ controlSecret' = {requests + 1} /\ draftControl'.request = requests + 1
    BY <1>2 DEF PrepareControlAttempt
  <2> QED
    BY <2>1 DEF AttemptKept
<1>3. CASE ControlPublish(p)
  <2>1. /\ step = "control-publish" /\ control' = draftControl /\ step' = "none"
        /\ UNCHANGED controlSecret
    BY <1>3 DEF ControlPublish
  <2> QED
    BY <2>1 DEF AttemptKept
<1>4. CASE ControlFails(p)
  <2>1. control = None /\ UNCHANGED control /\ step' = "control-undo"
    BY <1>0, <1>4 DEF ControlFails, RefInv, ControlShape
  <2> QED
    BY <2>1 DEF AttemptKept
<1>5. CASE ControlUndo(p) \/ ControlClean(p)
  <2>1. control = None /\ UNCHANGED control /\ step' = "none"
    BY <1>5 DEF ControlUndo, ControlClean, Reject, AttemptKept
  <2> QED
    BY <2>1 DEF AttemptKept
<1>6. ASSUME NEW ph \in Phase, MarkControlAttemptDraining(p) \/ AdvanceControlAttempt(p, ph)
      PROVE  AttemptKept'
  <2>1. /\ control # None /\ step = "none"
        /\ \E x : control' = [control EXCEPT !.phase = x]
        /\ UNCHANGED <<authority, claim, controlSecret, step>>
    BY <1>6 DEF MarkControlAttemptDraining, AdvanceControlAttempt, WriteControl
  <2>2. control \in ControlAttempt
    BY <1>0, <2>1 DEF TypeInv, TypeOK
  <2>3. control'.request = control.request
    BY <2>1, <2>2 DEF ControlAttempt
  <2> QED
    BY <2>1, <2>3 DEF AttemptKept
<1>7. CASE ClearControlAttempt(p)
  <2>1. control' = None /\ step' = "control-clean"
    BY <1>7 DEF ClearControlAttempt
  <2> QED
    BY <2>1 DEF AttemptKept
<1> QED
  BY <1>1, <1>2, <1>3, <1>4, <1>5, <1>6, <1>7 DEF ControlOperation, Phase

LEMMA AttemptStays ==
  ASSUME ~DirectorySyncMayFail
  PROVE  TypeInv /\ RefInv /\ AttemptKept /\ [Next]_vars => AttemptKept'
<1> SUFFICES ASSUME TypeInv, RefInv, AttemptKept, [Next]_vars PROVE AttemptKept'
  OBVIOUS
<1>1. Known
  BY StepKnown
<1>2. CASE UNCHANGED vars
  BY <1>1, <1>2, AttemptUntouched DEF vars, files, publicFiles, secretFiles, progress
<1>3. ASSUME NEW e \in running, EngineExits(e) PROVE AttemptKept'
  BY <1>1, <1>3, AttemptUntouched DEF EngineExits, files, publicFiles, secretFiles, progress
<1> QED
  BY <1>1, <1>2, <1>3, AttemptProcess, AttemptClaim, AttemptAuthority, AttemptControl
  DEF Next

LEMMA AttemptInit == Init => AttemptKept
BY DEF Init, AttemptKept

(* A control attempt beside a record can be replayed, as long as no        *)
(* directory sync fails after the rename it follows: its requester         *)
(* credential is written first and removed after it, whatever preparation, *)
(* replacement, sweep or retirement is interrupted (prepareControlAttempt, *)
(* clearControlAttempt, retireDeadGeneration, claimStart).                 *)
THEOREM ControlKeepsSecret ==
  ASSUME ~DirectorySyncMayFail
  PROVE  Spec => []ControlHasSecret
<1>1. AttemptKept => ControlHasSecret
  BY DEF AttemptKept, ControlHasSecret
<1> QED
  BY <1>1, TypeInit, TypeStep, RefInit, RefStep, AttemptInit, AttemptStays, PTL DEF Spec

=============================================================================
