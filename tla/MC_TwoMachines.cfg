\* Two Machines of one cluster, listing without lag, Go >= 1.22 loop
\* variables, one identity tag removed from outside: create errors,
\* timeouts, lost patches, update and delete of each, interleaved over one
\* ECS account.
CONSTANTS
    i1 = i1
    i2 = i2
    i3 = i3
    NONE = NONE
    ClusterID = "cluster0"
    VisibilityLag = FALSE
    PerIterationLoopVar = TRUE
    MaxDrift = 1
    PollBudget = 2
    EmptyStopRejected = TRUE
SYMMETRY MC_Symmetry
SPECIFICATION Spec
INVARIANTS AtMostOneFindableInstance NoFindableInstanceOutlivesMachine MachinesStayApart
