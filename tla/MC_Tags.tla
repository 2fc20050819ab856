------------------------------- MODULE MC_Tags -------------------------------
(***************************************************************************)
(* Checks the tag utilities over every user tag list of up to MaxUserTags *)
(* tags drawn from keys that include the reserved ones.  The state is the *)
(* user tag list of the machine's provider spec, fixed in a behaviour.    *)
(***************************************************************************)
EXTENDS Tags, Naturals, FiniteSets

CONSTANTS MaxUserTags, OtherClusterID, UserValues

VARIABLE machineTags

UserKeys ==
    { clusterFilterName, ClusterKey(ClusterID), ClusterKey(OtherClusterID),
      clusterOwnedKey, machineTagKeyFrom, Key("plain", "good") }

UserTags == { Tag(k, v) : k \in UserKeys, v \in UserValues }

Init == machineTags \in SeqOf(UserTags, MaxUserTags)
Next == UNCHANGED machineTags
Spec == Init /\ [][Next]_machineTags

Launched == BuildTagList(MachineName, ClusterID, machineTags)

\* Reference definition of de-duplication: the subsequence of the positions
\* whose key does not occur at any earlier position.
DedupRef(s) ==
    LET firsts == {i \in DOMAIN s : \A j \in 1..(i - 1) : s[j].key # s[i].key}
        idx    == SetToSortSeq(firsts, <)
    IN  [k \in DOMAIN idx |-> s[idx[k]]]

\* removeDuplicatedTags keeps exactly the first occurrence of every key, in
\* the order of first occurrence, for every list buildTagList feeds it.
DedupMatchesReference ==
    LET raw == machineTags \o DefaultTags(MachineName, ClusterID)
    IN  /\ RemoveDuplicatedTags(raw) = DedupRef(raw)
        /\ RemoveDuplicatedTags(machineTags) = DedupRef(machineTags)

\* buildTagList: whatever the user supplies, the launched instance carries
\* exactly one Name tag and one tag per cluster key, and they are
\* Name=<machine name> and kubernetes.io/cluster/<cluster ID>=owned only.
IdentityTagsFixed ==
    /\ {t \in ToSet(Launched) : t.key = clusterFilterName}
          = {Tag(clusterFilterName, MachineName)}
    /\ {t \in ToSet(Launched) : HasClusterFilterKeyPrefix(t.key)}
          = {Tag(ClusterKey(ClusterID), clusterFilterValue)}
    /\ Len(Launched) = Cardinality({Launched[i].key : i \in DOMAIN Launched})

\* Spec section 8: the tag list contains the fixed owned and provenance tags
\* regardless of conflicting user tags, so an instance launched with it
\* passes correctExistingTags and is never re-tagged by an update.
LaunchTagsPassCorrectExistingTags ==
    ExistingTagsCorrect(ToSet(Launched), MachineName, ClusterID)
=============================================================================
