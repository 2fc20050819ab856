-------------------------------- MODULE Tags --------------------------------
(***************************************************************************)
(* The tag utilities of the machine actuator (instances.go): the tag list *)
(* a new ECS instance is launched with, its de-duplication, and the check *)
(* correctExistingTags makes of an existing instance's tags.              *)
(*                                                                         *)
(* A tag key is a record: cls = "cluster" for a key that starts with the  *)
(* reserved prefix "kubernetes.io/cluster/" (id is the cluster ID after   *)
(* it), cls = "plain" otherwise (id is the whole key).  Values are        *)
(* strings; only equality of keys and values matters to the code.        *)
(***************************************************************************)
EXTENDS Sequences, SequencesExt

CONSTANTS
    MachineName,   \* machine.Name
    ClusterID      \* the machine's cluster-ID label

Key(cls, id) == [cls |-> cls, id |-> id]
Tag(k, v)    == [key |-> k, value |-> v]

\* The reserved keys and values of instances.go (clusterFilter*, clusterOwned*,
\* machineTag*); their string values live outside src/, only their roles matter.
clusterFilterName          == Key("plain", "Name")
clusterFilterValue         == "owned"
clusterOwnedKey            == Key("plain", "ownedKey")
clusterOwnedValue          == "ownedValue"
machineTagKeyFrom          == Key("plain", "fromKey")
machineIsvIntegrationTagKey == Key("plain", "isvKey")
machineTagValueFrom        == "fromValue"
ClusterKey(cid)            == Key("cluster", cid)

HasClusterFilterKeyPrefix(k) == k.cls = "cluster"

\* Mutant: a later tag with the same key replaces the earlier one.
RemoveDuplicatedTagsLastWins(tags) ==
    LET step(acc, t) == Append(SelectSeq(acc, LAMBDA x : x.key # t.key), t)
    IN  FoldLeft(step, <<>>, tags)

\* removeDuplicatedTags: scan in order, keep the first tag seen with each key.
RemoveDuplicatedTags(tags) ==
    LET step(acc, t) ==
            IF \E i \in DOMAIN acc : acc[i].key = t.key THEN acc ELSE Append(acc, t)
    IN  FoldLeft(step, <<>>, tags)

\* The tags buildTagList appends after the user's tags, in this order.
DefaultTags(machineName, clusterID) ==
    << Tag(ClusterKey(clusterID), clusterFilterValue),
       Tag(clusterFilterName, machineName),
       Tag(clusterOwnedKey, clusterOwnedValue),
       Tag(machineTagKeyFrom, machineTagValueFrom),
       Tag(machineIsvIntegrationTagKey, machineTagValueFrom) >>

\* Mutant: only the cluster-prefixed user tags are dropped.
BuildTagListNoNameFilter(machineName, clusterID, machineTags) ==
    LET kept == SelectSeq(machineTags, LAMBDA t : ~HasClusterFilterKeyPrefix(t.key))
    IN  RemoveDuplicatedTags(kept \o DefaultTags(machineName, clusterID))

\* buildTagList: drop user tags with the cluster prefix or the Name key,
\* append the default tags, de-duplicate.
BuildTagList(machineName, clusterID, machineTags) ==
    LET kept == SelectSeq(machineTags,
                   LAMBDA t : ~HasClusterFilterKeyPrefix(t.key) /\ t.key # clusterFilterName)
    IN  RemoveDuplicatedTags(kept \o DefaultTags(machineName, clusterID))

\* covertToRunInstancesTag copies every (key, value) pair into the request.
CovertToRunInstancesTag(tags) == [i \in DOMAIN tags |-> [Key |-> tags[i].key, Value |-> tags[i].value]]

\* Mutant: only the Name tag checked.
ExistingTagsCorrectNameOnly(instanceTags, machineName, clusterID) ==
    \E t \in instanceTags : t.value # "" /\ t.key = clusterFilterName /\ t.value = machineName

\* correctExistingTags: are Name, cluster-ownership and owned tag all present
\* with the right values?  Tags with an empty value are skipped; an empty key
\* never equals one of the three reserved keys, so its test is implied.
ExistingTagsCorrect(instanceTags, machineName, clusterID) ==
    LET ok(k, v) == \E t \in instanceTags : t.value # "" /\ t.key = k /\ t.value = v
    IN  /\ ok(clusterFilterName, machineName)
        /\ ok(ClusterKey(clusterID), clusterFilterValue)
        /\ ok(clusterOwnedKey, clusterOwnedValue)

=============================================================================
