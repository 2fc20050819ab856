------------------------------ MODULE Instances ------------------------------
(***************************************************************************)
(* The read side of the instance lifecycle driver (instances.go, utils.go):*)
(* what describeInstances, getInstances, getInstanceByID, sortInstances    *)
(* and getRunningFromInstances return, given the cloud state.  Results are *)
(* sequences of snapshots (Snap), because the code keeps the ecs.Instance  *)
(* values a describe call returned and decides on them later.              *)
(***************************************************************************)
EXTENDS EcsCloud, InstanceSort

CONSTANT
    PerIterationLoopVar \* Go >= 1.22: each range iteration has its own variable

\* Mutants: supportedInstanceStates missing a status.
SupportedInstanceStatesNoPending == {Starting, Running, Stopping, Stopped}
SupportedInstanceStatesNoStopped == {Pending, Starting, Running, Stopping}

\* supportedInstanceStates (utils.go)
SupportedInstanceStates == {Pending, Starting, Running, Stopping, Stopped}

\* instanceHasSupportedState: an empty allow-list accepts every status.  The
\* nil-ID and nil-state errors cannot arise: ECS always returns both.
InstanceHasSupportedState(snap, states) == states = {} \/ snap.status \in states

\* Every order DescribeInstances may list the given IDs in.
Responses(ids) == { [k \in DOMAIN p |-> Snap(p[k])] : p \in SetToSeqs(ids) }

\* getInstances: filter the tag-matched response by state.  Each kept element
\* is &instance of the range variable: with a shared loop variable every
\* element finally points at the last instance of the response.
GetInstancesResult(resp, states) ==
    LET kept == SelectSeq(resp, LAMBDA s : InstanceHasSupportedState(s, states))
    IN  IF PerIterationLoopVar \/ kept = <<>>
        THEN kept
        ELSE [k \in DOMAIN kept |-> resp[Len(resp)]]

\* The IDs the getInstances request (cluster and Name tag filter) returns.
OwnerFilterIds == { i \in Ids : Listed(i) /\ MatchesOwnerFilter(i) }

\* getExistingInstances: getInstances with every supported state allowed,
\* over each order the tag-filtered DescribeInstances may answer in.
GetExistingInstancesResults ==
    { GetInstancesResult(r, SupportedInstanceStates) : r \in Responses(OwnerFilterIds) }

\* getInstanceByID: the outcomes of describeInstances of one ID.  An API
\* error, an answer other than exactly one instance, or one in a state not
\* allowed is an error, here <<>>; the API error is possible whatever the
\* cloud holds.
GetInstanceByID(id, states) ==
    {<<>>} \cup
    {IF Listed(id) /\ InstanceHasSupportedState(Snap(id), states)
     THEN <<Snap(id)>> ELSE <<>>}

\* getRunningFromInstances: the snapshots whose status was Running.
GetRunningFromInstances(s) == SelectSeq(s, LAMBDA x : x.status = Running)

IdsOf(s) == { s[k].id : k \in DOMAIN s }
=============================================================================
