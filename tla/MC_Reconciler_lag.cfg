\* New instances are listed late, Go >= 1.22 loop variables, one tag drift:
\* duplicate instances appear and Update has to stop the extra ones.
CONSTANTS
    i1 = i1
    i2 = i2
    i3 = i3
    Ids <- MC_Ids
    NONE = NONE
    MachineName = "machine0"
    ClusterID = "cluster0"
    VisibilityLag = TRUE
    PerIterationLoopVar = TRUE
    MaxDrift = 1
    PollBudget = 2
    ProviderConfig <- MC_ProviderConfig
    EmptyStopRejected = TRUE
SYMMETRY MC_Symmetry
SPECIFICATION Spec
INVARIANT TypeOK
PROPERTIES UpdateSparesKeptInstance ImplementsMachineLifecycle
