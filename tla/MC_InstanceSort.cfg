\* Empty and well-formed start times: the order of spec 8.
SPECIFICATION Spec
CONSTANTS
    MaxInstances = 4
    StartTimes <- WellFormedStartTimes
INVARIANT SortsInReferenceOrder
