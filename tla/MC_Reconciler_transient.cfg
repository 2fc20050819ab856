\* A usable provider spec and a transient API error during resolution.
\* Create must not put the Machine in phase Failed.
CONSTANTS
    i1 = i1
    i2 = i2
    i3 = i3
    Ids <- MC_Ids
    NONE = NONE
    MachineName = "machine0"
    ClusterID = "cluster0"
    VisibilityLag = FALSE
    PerIterationLoopVar = TRUE
    MaxDrift = 0
    PollBudget = 2
    ProviderConfig <- MC_ProviderConfig
    EmptyStopRejected = TRUE
SYMMETRY MC_Symmetry
SPECIFICATION Spec
PROPERTY CreateFailsOnlyOnBadConfig
