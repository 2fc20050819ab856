\* Liveness of Delete under Reconciler!Fairness, when StopInstances rejects
\* an empty instance list: no lag, no drift, two instance IDs, no symmetry (unsound with
\* liveness).
CONSTANTS
    i1 = i1
    i2 = i2
    i3 = i3
    Ids <- MC_Ids2
    NONE = NONE
    MachineName = "machine0"
    ClusterID = "cluster0"
    VisibilityLag = FALSE
    PerIterationLoopVar = TRUE
    MaxDrift = 0
    PollBudget = 2
    ProviderConfig <- MC_ProviderConfig
    EmptyStopRejected = TRUE
SPECIFICATION FairSpec
PROPERTY DeleteEventuallyRemoves
