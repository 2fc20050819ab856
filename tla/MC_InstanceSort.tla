--------------------------- MODULE MC_InstanceSort ---------------------------
(***************************************************************************)
(* sortInstances over every list of up to MaxInstances start times drawn  *)
(* from StartTimes: empty or well-formed.  The list is chosen in Init.    *)
(***************************************************************************)
EXTENDS InstanceSort, FiniteSets

CONSTANTS
    MaxInstances,   \* length of the lists sorted
    StartTimes      \* start times a list may hold (0 = empty)

VARIABLE starts

\* Empty and well-formed start times, ties included.
WellFormedStartTimes == {0, 1, 2, 3}

\* The instances, with distinct IDs, in DescribeInstances order.
Input == [k \in DOMAIN starts |-> [id |-> k, start |-> starts[k]]]
Sorted == SortInstances(Input)

Init == starts \in BoundedSeq(StartTimes, MaxInstances)
Next == UNCHANGED starts
Spec == Init /\ [][Next]_starts

---------------------------------------------------------------------------
\* Reference order (spec 8 and instances_test.go): empty start times first,
\* then newest first, as in [empty, 2024, 2022, 2020].
SortKey(x) == IF x.start = 0 THEN 1000 ELSE x.start

\* With well-formed start times, sort.Sort over instanceList.Less returns a
\* permutation of the instances in the reference order.
SortsInReferenceOrder ==
    (\A k \in DOMAIN starts : starts[k] = 0 \/ Parses(starts[k])) =>
        /\ ToSet(Sorted) = ToSet(Input)
        /\ \A j, k \in DOMAIN Sorted : j < k => SortKey(Sorted[j]) >= SortKey(Sorted[k])
=============================================================================
