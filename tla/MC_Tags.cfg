CONSTANTS
    MachineName = "machine0"
    ClusterID = "cluster0"
    OtherClusterID = "cluster1"
    UserValues = {"v", "ownedValue"}
    MaxUserTags = 3
SPECIFICATION Spec
INVARIANTS DedupMatchesReference IdentityTagsFixed
