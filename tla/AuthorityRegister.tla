------------------------- MODULE AuthorityRegister -------------------------
(***************************************************************************)
(* What the local authority store promises to the supervisors of one       *)
(* endpoint: three registers - the authority record, the start claim and   *)
(* the control attempt - changed by one holder at a time, in atomic steps  *)
(* the holder is entitled to.  There is no secret here, no step in between *)
(* and nothing stale: AuthorityStore reaches the same changes with several *)
(* file operations for each, arguments that were read earlier, and a lock  *)
(* that a crash or an error gives up in the middle of an operation.        *)
(***************************************************************************)
EXTENDS Naturals

CONSTANTS Proc, None, Torn, Operation, Phase, PhaseStep

VARIABLES authority, claim, control,  \* the registers
          holder,                     \* the supervisor acting on them
          live, running               \* supervisors and engines that are alive

registers == <<authority, claim, control>>
vars == <<registers, holder, live, running>>

Init ==
  /\ authority = None /\ claim = None /\ control = None
  /\ holder = None /\ live = Proc /\ running = {}

HasClaim == claim \notin {None, Torn}

(* A claim belongs to its starter, and to any live holder after its death. *)
Entitled == holder # None /\ (claim.starter = holder \/ claim.starter \notin live)

Enter == holder = None /\ holder' \in live /\ UNCHANGED <<registers, live, running>>
Leave == holder' = None /\ UNCHANGED <<registers, live, running>>

SupervisorDies(p) ==
  /\ p \in live /\ live' = live \ {p}
  /\ holder' = IF holder = p THEN None ELSE holder
  /\ UNCHANGED <<registers, running>>

(* An engine is only ever started for the prepared, not yet bound claim.   *)
EngineStarts ==
  /\ HasClaim /\ claim.prepared /\ ~claim.bound
  /\ running' = running \cup {claim.token}
  /\ UNCHANGED <<registers, holder, live>>

EnginesExit ==
  /\ running' \subseteq running
  /\ UNCHANGED <<registers, holder, live>>

-----------------------------------------------------------------------------
ClaimStep ==
  /\ UNCHANGED <<authority, control, holder, live, running>>
  /\ \/ claim = None /\ claim' = Torn
     \/ /\ claim = Torn
        /\ claim' \in [token : Nat, starter : {holder}, prepared : {FALSE},
                       bound : {FALSE}, attempt : {0}]
     \/ /\ HasClaim /\ Entitled
        /\ \/ ~claim.prepared /\ claim' = [claim EXCEPT !.prepared = TRUE]
           \/ claim.prepared /\ ~claim.bound /\ claim' = [claim EXCEPT !.bound = TRUE]
           \/ claim.bound /\ claim' = [claim EXCEPT !.attempt = @ + 1]
           \/ claim.attempt >= 2 /\ claim' = [claim EXCEPT !.attempt = @ - 1]
     \/ /\ HasClaim /\ Entitled
        /\ \/ authority # None /\ authority.launch = claim.token
           \/ claim.token \notin running
           \/ ~claim.prepared
        /\ claim' = None

(* The first record of a launch needs the bound claim of that launch; a    *)
(* rotation keeps the launch and raises the owner generation; only the     *)
(* record of a dead engine goes away.                                      *)
RecordStep ==
  /\ holder # None
  /\ UNCHANGED <<claim, control, holder, live, running>>
  /\ \/ /\ authority = None /\ HasClaim /\ claim.bound /\ Entitled
        /\ authority' \in [revision : Nat, launch : {claim.token}, generation : Nat]
     \/ /\ authority # None
        /\ authority' \in [revision : Nat, launch : {authority.launch}, generation : Nat]
        /\ authority'.generation > authority.generation
     \/ authority # None /\ authority.launch \notin running /\ authority' = None

(* One attempt at a time, of the authority it was begun under, through its *)
(* phases in order.                                                        *)
ControlStep ==
  /\ holder # None
  /\ UNCHANGED <<authority, claim, holder, live, running>>
  /\ \/ /\ control = None /\ authority # None
        /\ control' \in [request : Nat, revision : {authority.revision},
                         launch : {authority.launch}, generation : {authority.generation},
                         operation : Operation, phase : {"begin-pending"}]
     \/ /\ control # None /\ control.phase = "begin-pending"
        /\ control' = [control EXCEPT !.phase = "draining"]
     \/ /\ control # None
        /\ \E ph \in Phase : /\ <<control.phase, ph>> \in PhaseStep
                             /\ control' = [control EXCEPT !.phase = ph]
     \/ control # None /\ control' = None

Next ==
  \/ Enter \/ Leave \/ EngineStarts \/ EnginesExit
  \/ \E p \in Proc : SupervisorDies(p)
  \/ ClaimStep \/ RecordStep \/ ControlStep

Spec == Init /\ [][Next]_vars
=============================================================================
