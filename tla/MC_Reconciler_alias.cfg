\* As MC_Reconciler_lag, built with a Go release before 1.22, where the range
\* variable of getInstances is shared by all iterations.
CONSTANTS
    i1 = i1
    i2 = i2
    i3 = i3
    Ids <- MC_Ids
    NONE = NONE
    MachineName = "machine0"
    ClusterID = "cluster0"
    VisibilityLag = TRUE
    PerIterationLoopVar = FALSE
    MaxDrift = 0
    PollBudget = 2
    ProviderConfig <- MC_ProviderConfig
    EmptyStopRejected = TRUE
SYMMETRY MC_Symmetry
SPECIFICATION Spec
PROPERTY UpdateSparesKeptInstance
