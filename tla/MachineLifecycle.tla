--------------------------- MODULE MachineLifecycle ---------------------------
(***************************************************************************)
(* What the actuator promises the machine controller about one Machine    *)
(* and its ECS instances (spec sections 3 and 4.4), with the API calls,   *)
(* the describe results and the steps of each operation hidden:           *)
(*  - an instance is launched only for a Machine that has no provider ID  *)
(*    yet and has not been removed (Create is idempotent, Update never    *)
(*    re-creates);                                                        *)
(*  - the provider ID is set to an instance that is live; it may be set  *)
(*    again to another live instance (Update re-points it when the        *)
(*    lookup by ID failed and the tag search found a newer duplicate);    *)
(*  - instances are terminated only for a Machine being deleted;          *)
(*  - the Machine is removed only after its deletion was requested.       *)
(* Stopping an instance, the cloud's own progress, tag changes and a      *)
(* failed Machine are stuttering steps here.                              *)
(***************************************************************************)
EXTENDS FiniteSets

CONSTANTS Ids, NONE

VARIABLES
    launched,    \* instances ever launched for the Machine
    live,        \* launched instances not yet terminated
    providerID,  \* the Machine's provider ID, or NONE
    deleting,    \* the Machine has a deletion timestamp
    removed      \* the Machine is gone

vars == <<launched, live, providerID, deleting, removed>>

TypeOK ==
    /\ launched \subseteq Ids /\ live \subseteq launched
    /\ providerID \in Ids \cup {NONE}
    /\ deleting \in BOOLEAN /\ removed \in BOOLEAN

Init ==
    /\ launched = {} /\ live = {} /\ providerID = NONE
    /\ deleting = FALSE /\ removed = FALSE

Launch(i) ==
    /\ ~removed /\ providerID = NONE /\ i \notin launched
    /\ launched' = launched \cup {i} /\ live' = live \cup {i}
    /\ UNCHANGED <<providerID, deleting, removed>>

Provision(i) ==
    /\ providerID # i /\ i \in live
    /\ providerID' = i
    /\ UNCHANGED <<launched, live, deleting, removed>>

Terminate(S) ==
    /\ deleting /\ S # {} /\ S \subseteq live
    /\ live' = live \ S
    /\ UNCHANGED <<launched, providerID, deleting, removed>>

MarkDeleted ==
    /\ ~deleting /\ deleting' = TRUE
    /\ UNCHANGED <<launched, live, providerID, removed>>

Remove ==
    /\ deleting /\ ~removed /\ removed' = TRUE
    /\ UNCHANGED <<launched, live, providerID, deleting>>

Next ==
    \/ \E i \in Ids : Launch(i) \/ Provision(i)
    \/ \E S \in SUBSET Ids : Terminate(S)
    \/ MarkDeleted \/ Remove

Spec == Init /\ [][Next]_vars
=============================================================================
