------------------------------ MODULE EcsCloud ------------------------------
(***************************************************************************)
(* The ECS side of the system, as the actuator observes it through the    *)
(* Alibaba Cloud API: a pool of instance IDs, the lifecycle status of     *)
(* each, whether DescribeInstances already returns it (an instance just   *)
(* created may not be listed yet), its start time and its identity tags.  *)
(* This is the external collaborator of spec section 6; its steps are the *)
(* cloud's own progress, not code of the repository.                      *)
(***************************************************************************)
EXTENDS Naturals, Sequences, SequencesExt, Tags

CONSTANTS
    Ids,            \* instance IDs the cloud may hand out (bounds the launches)
    VisibilityLag,  \* TRUE: a new instance is not listed by DescribeInstances at once
    MaxDrift        \* bound on external removals of identity tags

\* ECS instance statuses (instances.go ECSInstanceStatus*), plus "Absent" for
\* an ID never launched, "Released" for a deleted instance still listed and
\* "Gone" for one no longer listed.
Pending  == "Pending"
Starting == "Starting"
Running  == "Running"
Stopping == "Stopping"
Stopped  == "Stopped"
Statuses == {"Absent", Pending, Starting, Running, Stopping, Stopped, "Released", "Gone"}

\* The three tags correctExistingTags maintains, and the full launch tag set.
IdentityTags == { Tag(clusterFilterName, MachineName),
                  Tag(ClusterKey(ClusterID), clusterFilterValue),
                  Tag(clusterOwnedKey, clusterOwnedValue) }
LaunchTags   == ToSet(BuildTagList(MachineName, ClusterID, <<>>))
AllTags      == LaunchTags

VARIABLES
    status,      \* [Ids -> Statuses]
    visible,     \* [Ids -> BOOLEAN]: DescribeInstances lists the instance
    itags,       \* [Ids -> SUBSET AllTags]: the instance's tags
    startTime,   \* [Ids -> Nat]: 0 is the empty StartTime of a never-started instance
    launches,    \* start-time clock: number of instances that reached Running
    drifts,      \* number of identity tags removed from outside
    owner        \* history: the Machine whose RunInstances created the instance ("" for none)

cloudVars == <<status, visible, itags, startTime, launches, drifts, owner>>

CloudTypeOK ==
    /\ status \in [Ids -> Statuses]
    /\ visible \in [Ids -> BOOLEAN]
    /\ itags \in [Ids -> SUBSET AllTags]
    /\ startTime \in [Ids -> 0..Cardinality(Ids)]
    /\ launches \in 0..Cardinality(Ids)
    /\ drifts \in 0..MaxDrift
    /\ owner \in [Ids -> {"", MachineName}]

CloudInit ==
    /\ status = [i \in Ids |-> "Absent"]
    /\ visible = [i \in Ids |-> FALSE]
    /\ itags = [i \in Ids |-> {}]
    /\ startTime = [i \in Ids |-> 0]
    /\ launches = 0
    /\ drifts = 0
    /\ owner = [i \in Ids |-> ""]

Live(i)   == status[i] \in {Pending, Starting, Running, Stopping, Stopped}
\* DescribeInstances returns the instance (deleted ones for a while too).
Listed(i) == visible[i] /\ status[i] \notin {"Absent", "Gone"}
\* Mutant: the filter without the Name tag (every instance of the cluster).
MatchesOwnerFilterClusterOnly(i) ==
    Tag(ClusterKey(ClusterID), clusterFilterValue) \in itags[i]

\* The DescribeInstances tag filter of getInstances: cluster and Name tags.
MatchesOwnerFilter(i) ==
    {Tag(ClusterKey(ClusterID), clusterFilterValue), Tag(clusterFilterName, MachineName)}
        \subseteq itags[i]

\* A snapshot of an instance as a describe call returns it.
Snap(i) == [id |-> i, status |-> status[i], start |-> startTime[i], tags |-> itags[i]]
Snapshots == [id : Ids, status : Statuses, start : 0..Cardinality(Ids), tags : SUBSET AllTags]

---------------------------------------------------------------------------
\* The cloud's own steps.

\* Pending -> Starting -> Running; the start time is stamped on Running.
Progress(i) ==
    \/ /\ status[i] = Pending
       /\ status' = [status EXCEPT ![i] = Starting]
       /\ UNCHANGED <<startTime, launches>>
    \/ /\ status[i] = Starting
       /\ status' = [status EXCEPT ![i] = Running]
       /\ launches' = launches + 1
       /\ startTime' = [startTime EXCEPT ![i] = launches + 1]
    \/ /\ status[i] = Stopping
       /\ status' = [status EXCEPT ![i] = Stopped]
       /\ UNCHANGED <<startTime, launches>>

ProgressStep(i) == Progress(i) /\ UNCHANGED <<visible, itags, drifts, owner>>

\* The listing catches up with a newly created instance.
BecomeVisible(i) ==
    /\ ~visible[i]
    /\ status[i] # "Absent"
    /\ visible' = [visible EXCEPT ![i] = TRUE]
    /\ UNCHANGED <<status, itags, startTime, launches, drifts, owner>>

\* A released instance drops out of the listing.
Purge(i) ==
    /\ status[i] = "Released"
    /\ status' = [status EXCEPT ![i] = "Gone"]
    /\ UNCHANGED <<visible, itags, startTime, launches, drifts, owner>>

\* Someone outside the actuator removes an identity tag from an instance.
DriftTag(i) ==
    /\ drifts < MaxDrift
    /\ Live(i)
    /\ \E t \in itags[i] \cap IdentityTags :
          itags' = [itags EXCEPT ![i] = @ \ {t}]
    /\ drifts' = drifts + 1
    /\ UNCHANGED <<status, visible, startTime, launches, owner>>

CloudNext == \E i \in Ids : ProgressStep(i) \/ BecomeVisible(i) \/ Purge(i) \/ DriftTag(i)

---------------------------------------------------------------------------
\* Effects of the mutating API calls the actuator makes.

\* Mutant: RunInstances with Amount = 2 (a second ID is launched too).
LaunchInstanceAmountTwo(i) ==
    \E j \in Ids \ {i} :
        /\ status[j] = "Absent"
        /\ status' = [status EXCEPT ![i] = Pending, ![j] = Pending]
        /\ visible' = [visible EXCEPT ![i] = ~VisibilityLag, ![j] = ~VisibilityLag]
        /\ itags' = [itags EXCEPT ![i] = LaunchTags, ![j] = LaunchTags]
        /\ owner' = [owner EXCEPT ![i] = MachineName, ![j] = MachineName]
        /\ UNCHANGED <<startTime, launches, drifts>>

\* RunInstances with Amount = MinAmount = 1 launches one tagged instance.
LaunchInstance(i) ==
    /\ status' = [status EXCEPT ![i] = Pending]
    /\ visible' = [visible EXCEPT ![i] = ~VisibilityLag]
    /\ itags' = [itags EXCEPT ![i] = LaunchTags]
    /\ owner' = [owner EXCEPT ![i] = MachineName]
    /\ UNCHANGED <<startTime, launches, drifts>>

\* StopInstances: the given Running instances start stopping.
StopEffect(ids) ==
    /\ status' = [i \in Ids |-> IF i \in ids /\ status[i] = Running THEN Stopping ELSE status[i]]
    /\ UNCHANGED <<visible, itags, startTime, launches, drifts, owner>>

\* DeleteInstances: the given instances are released.
DeleteEffect(ids) ==
    /\ status' = [i \in Ids |-> IF i \in ids /\ Live(i) THEN "Released" ELSE status[i]]
    /\ UNCHANGED <<visible, itags, startTime, launches, drifts, owner>>

\* TagResources: add or replace the identity tags, leave the others alone.
TagEffect(i) ==
    /\ itags' = [itags EXCEPT ![i] = @ \cup IdentityTags]
    /\ UNCHANGED <<status, visible, startTime, launches, drifts, owner>>
=============================================================================
