--------------------------- MODULE MC_TwoMachines ---------------------------
(***************************************************************************)
(* Two Machines of one cluster reconciled against one ECS account: each   *)
(* is a copy of Reconciler with its own Machine state and operation, and  *)
(* both share the cloud's instances.  The machine controller reconciles   *)
(* different Machines concurrently (spec section 5), so the steps of the  *)
(* two interleave freely; only the getInstances tag filter (cluster tag   *)
(* and Name tag) and the recorded instance ID keep them apart.            *)
(***************************************************************************)
EXTENDS TLC

CONSTANTS
    i1, i2, i3, NONE, PollBudget, EmptyStopRejected, VisibilityLag, MaxDrift,
    ClusterID, PerIterationLoopVar

MC_Ids == {i1, i2, i3}
Name1 == "machine1"
Name2 == "machine2"

\* The usable provider spec of MC_Reconciler, shared by both Machines.
MC_ProviderConfig ==
    [image   |-> "Available",
     sgs     |-> <<[type |-> "Tags", set |-> TRUE, matches |-> 1]>>,
     vswitch |-> [type |-> "Tags", set |-> TRUE, matches |-> 1],
     label   |-> TRUE,
     rg      |-> [type |-> "Name", set |-> TRUE, matches |-> 1],
     tenancy |-> ""]

VARIABLES
    status, visible, itags, startTime, launches, drifts, owner,
    providerID1, statusID1, addresses1, deleting1, failed1, removed1,
    pc1, found1, target1, newID1, polls1,
    providerID2, statusID2, addresses2, deleting2, failed2, removed2,
    pc2, found2, target2, newID2, polls2

m1vars == <<providerID1, statusID1, addresses1, deleting1, failed1, removed1,
            pc1, found1, target1, newID1, polls1>>
m2vars == <<providerID2, statusID2, addresses2, deleting2, failed2, removed2,
            pc2, found2, target2, newID2, polls2>>
cloud  == <<status, visible, itags, startTime, launches, drifts, owner>>

M1 == INSTANCE Reconciler WITH
        MachineName <- Name1, Ids <- MC_Ids, ProviderConfig <- MC_ProviderConfig,
        providerID <- providerID1, statusID <- statusID1, addresses <- addresses1,
        deleting <- deleting1, failed <- failed1, removed <- removed1,
        pc <- pc1, found <- found1, target <- target1, newID <- newID1, polls <- polls1

M2 == INSTANCE Reconciler WITH
        MachineName <- Name2, Ids <- MC_Ids, ProviderConfig <- MC_ProviderConfig,
        providerID <- providerID2, statusID <- statusID2, addresses <- addresses2,
        deleting <- deleting2, failed <- failed2, removed <- removed2,
        pc <- pc2, found <- found2, target <- target2, newID <- newID2, polls <- polls2

Init == M1!Init /\ M2!Init

Next ==
    \/ M1!MachineStep /\ UNCHANGED m2vars
    \/ M2!MachineStep /\ UNCHANGED m1vars
    \/ M1!CloudNext /\ UNCHANGED <<m1vars, m2vars>>

Spec == Init /\ [][Next]_<<cloud, m1vars, m2vars>>

MC_Symmetry == Permutations(MC_Ids)

---------------------------------------------------------------------------
\* For either Machine, through timeouts, lost patches and an identity tag
\* removed from outside: at most one live instance the tag search finds,
\* so a duplicate launch needs an instance hidden by the tag removal.
AtMostOneFindableInstance ==
    M1!AtMostOneFindableInstance /\ M2!AtMostOneFindableInstance

\* Once the controller has dropped a Machine, while the other goes on, the
\* only instance of it that can still be live is one hidden from the tag
\* search by the tag removal: Delete released every other.
NoFindableInstanceOutlivesMachine ==
    M1!NoFindableInstanceOutlivesMachine /\ M2!NoFindableInstanceOutlivesMachine

\* The Machines stay apart: a Machine records only an instance launched
\* for it, and an instance is released only when the Machine it was
\* launched for is being deleted, never by the other Machine's Delete.
MachinesStayApart ==
    \A i \in MC_Ids :
        /\ i \in {providerID1, statusID1} => owner[i] = Name1
        /\ i \in {providerID2, statusID2} => owner[i] = Name2
        /\ status[i] \in {"Released", "Gone"} =>
               /\ owner[i] = Name1 => deleting1
               /\ owner[i] = Name2 => deleting2
=============================================================================
