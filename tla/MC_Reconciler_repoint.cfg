\* Listing lag and a transient error of the lookup by instance ID: Update
\* falls back to the tag search, which may return a newer duplicate.
CONSTANTS
    i1 = i1
    i2 = i2
    i3 = i3
    Ids <- MC_Ids
    NONE = NONE
    MachineName = "machine0"
    ClusterID = "cluster0"
    VisibilityLag = TRUE
    PerIterationLoopVar = TRUE
    MaxDrift = 0
    PollBudget = 2
    ProviderConfig <- MC_ProviderConfig
    EmptyStopRejected = TRUE
SYMMETRY MC_Symmetry
SPECIFICATION Spec
PROPERTY ProviderIDKeptWhileLive
