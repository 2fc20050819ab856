\* Liveness under Reconciler!Fairness: no listing lag, one external tag
\* removal, StopInstances accepting an empty list, two instance IDs, no
\* symmetry (unsound with liveness).
CONSTANTS
    i1 = i1
    i2 = i2
    i3 = i3
    Ids <- MC_Ids2
    NONE = NONE
    MachineName = "machine0"
    ClusterID = "cluster0"
    VisibilityLag = FALSE
    PerIterationLoopVar = TRUE
    MaxDrift = 1
    PollBudget = 2
    ProviderConfig <- MC_ProviderConfig
    EmptyStopRejected = FALSE
SPECIFICATION FairSpec
PROPERTIES EventuallyRunningRecorded DriftedTagsRepaired DeleteEventuallyRemoves
