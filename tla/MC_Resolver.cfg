\* Every provider config with up to two security group references, each
\* Created repeatedly with its conditions recorded.
CONSTANTS
    MaxSecurityGroupRefs = 2
SPECIFICATION Spec
INVARIANTS TypeOK ResolveSucceedsIffUsable ConditionReflectsLastCreate
PROPERTY TransitionTimeTracksStatus
