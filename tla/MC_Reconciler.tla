--------------------------- MODULE MC_Reconciler ---------------------------
(***************************************************************************)
(* Model-checking instance of Reconciler: instance IDs are model values.  *)
(***************************************************************************)
EXTENDS Reconciler, TLC

CONSTANTS i1, i2, i3

MC_Ids == {i1, i2, i3}

\* Two IDs: enough for one duplicate, small enough for liveness checking.
MC_Ids2 == {i1, i2}

\* A usable provider spec: security groups and vswitch found by tags, the
\* resource group by name, so each of them makes one API call that may fail.
MC_ProviderConfig ==
    [image   |-> "Available",
     sgs     |-> <<[type |-> "Tags", set |-> TRUE, matches |-> 1]>>,
     vswitch |-> [type |-> "Tags", set |-> TRUE, matches |-> 1],
     label   |-> TRUE,
     rg      |-> [type |-> "Name", set |-> TRUE, matches |-> 1],
     tenancy |-> ""]

MC_Symmetry == Permutations(MC_Ids)
=============================================================================
