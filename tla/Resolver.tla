------------------------------ MODULE Resolver ------------------------------
(***************************************************************************)
(* The resource resolution runInstances does before it calls RunInstances *)
(* (instances.go 70-229): image, security groups, vswitch, cluster ID,    *)
(* resource group and tenancy, in that order; the first failure ends it.   *)
(*                                                                         *)
(* A resolver is an operator giving the SET of outcomes it can have: every *)
(* cloud call may fail (an API error) or answer with what the cloud holds. *)
(* An outcome is Ok or an error with the class the code gives it ("Plain" *)
(* for a fmt/errors error, "Invalid" for InvalidMachineConfiguration,      *)
(* "Create" for CreateMachine) and its cause: the configuration ("config"),*)
(* a failing API call ("api"), an empty answer ("notfound") or an image    *)
(* that is not Available ("status").                                       *)
(*                                                                         *)
(* A ResourceReference is [type, set, matches]: type ID, Tags or Name;     *)
(* set says the ID/name is non-empty or the tag list non-nil; matches is   *)
(* how many cloud resources the tag or name search finds (0 or more).      *)
(***************************************************************************)
EXTENDS Naturals, Sequences

Ok == [class |-> "None", cause |-> "none"]
Err(class, cause) == [class |-> class, cause |-> cause]

\* Outcomes of one describe/list call that selects resources: an API error,
\* an empty answer, or at least one match.
SearchCall(matches) ==
    {Err("Plain", "api")} \cup {IF matches = 0 THEN Err("Plain", "notfound") ELSE Ok}

\* Run B only after A succeeded: the code returns at the first error.
Then(A, B) == {a \in A : a # Ok} \cup (IF Ok \in A THEN B ELSE {})

\* runInstances wraps every error a resolver returns as
\* InvalidMachineConfiguration; Ok (and anything not an error) passes.
AsInvalid(A) ==
    {IF a.class \in {"Plain", "Invalid"} THEN Err("Invalid", a.cause) ELSE a : a \in A}

---------------------------------------------------------------------------
\* The mutant of GetImageID below drops the check for an empty answer and
\* indexes Images.Image[0]: a panic, an outcome of no error class.
GetImageIDNoEmptyCheck(imageStatus) ==
    {Err("Plain", "api")} \cup
    {CASE imageStatus = "Missing"   -> [class |-> "Panic", cause |-> "notfound"]
       [] imageStatus = "Available" -> Ok
       [] OTHER                     -> Err("Plain", "status")}

\* getImageID: DescribeImages of the configured ID; the first image must be
\* Available.  imageStatus is "Available", another status, or "Missing".
GetImageID(imageStatus) ==
    {Err("Plain", "api")} \cup
    {CASE imageStatus = "Missing"   -> Err("Plain", "notfound")
       [] imageStatus = "Available" -> Ok
       [] OTHER                     -> Err("Plain", "status")}

\* getSecurityGroupIDByTags: nil tags are a configuration error, else one
\* DescribeSecurityGroups; no group found is an error.
GetSecurityGroupIDByTags(ref) ==
    IF ~ref.set THEN {Err("Invalid", "config")} ELSE SearchCall(ref.matches)

\* Mutant: an ID reference used without the check that the ID is non-empty.
SecurityGroupRefNoEmptyID(ref) ==
    CASE ref.type = "ID"   -> {Ok}
      [] ref.type = "Tags" -> GetSecurityGroupIDByTags(ref)
      [] OTHER             -> {Err("Invalid", "config")}

\* One reference of the security group loop.
SecurityGroupRef(ref) ==
    CASE ref.type = "ID"   -> IF ref.set THEN {Ok} ELSE {Err("Invalid", "config")}
      [] ref.type = "Tags" -> GetSecurityGroupIDByTags(ref)
      [] OTHER             -> {Err("Invalid", "config")}

\* getSecurityGroupIDs: no reference at all is an error; each reference in
\* order adds its IDs (one for an ID, every match for Tags).  The final
\* check for an empty ID list cannot fire: every reference that succeeds
\* adds at least one ID.
RECURSIVE SecurityGroupLoop(_)
SecurityGroupLoop(refs) ==
    IF refs = <<>> THEN {Ok}
    ELSE Then(SecurityGroupRef(Head(refs)), SecurityGroupLoop(Tail(refs)))

GetSecurityGroupIDs(refs) ==
    IF refs = <<>> THEN {Err("Plain", "config")} ELSE SecurityGroupLoop(refs)

\* getVSwitchID: a non-empty ID is used as is; Tags go to
\* getVSwitchIDFromTags (nil tags invalid, else DescribeVSwitches and the
\* first match); any other type is invalid.
GetVSwitchID(ref) ==
    CASE ref.type = "ID"   -> IF ref.set THEN {Ok} ELSE {Err("Invalid", "config")}
      [] ref.type = "Tags" -> IF ref.set THEN SearchCall(ref.matches)
                              ELSE {Err("Invalid", "config")}
      [] OTHER             -> {Err("Invalid", "config")}

\* getClusterID: the openshift or the upstream cluster label is present.
GetClusterID(hasClusterLabel) ==
    IF hasClusterLabel THEN {Ok} ELSE {Err("Invalid", "config")}

\* getResourceGroupId: a non-empty ID is used as is; Name goes to
\* getResourceGroupIdFromName (empty name invalid, else ListResourceGroups
\* and the first match); any other type is invalid.
GetResourceGroupId(ref) ==
    CASE ref.type = "ID"   -> IF ref.set THEN {Ok} ELSE {Err("Invalid", "config")}
      [] ref.type = "Name" -> IF ref.set THEN SearchCall(ref.matches)
                              ELSE {Err("Invalid", "config")}
      [] OTHER             -> {Err("Invalid", "config")}

\* The tenancy switch: empty, default or host; anything else is a
\* CreateMachine error.
TenancyCheck(tenancy) ==
    IF tenancy \in {"", "default", "host"} THEN {Ok} ELSE {Err("Create", "config")}

\* runInstances up to the RunInstances call, for a provider config cfg
\* (image status, security group references, vswitch, cluster label,
\* resource group, tenancy).  Building the request and the tag list cannot
\* fail and is left out.
RunInstancesResolve(cfg) ==
    Then(AsInvalid(GetImageID(cfg.image)),
    Then(AsInvalid(GetSecurityGroupIDs(cfg.sgs)),
    Then(AsInvalid(GetVSwitchID(cfg.vswitch)),
    Then(GetClusterID(cfg.label),
    Then(AsInvalid(GetResourceGroupId(cfg.rg)),
         TenancyCheck(cfg.tenancy))))))
---------------------------------------------------------------------------
\* Reference definition (spec 4.1): a reference resolves when its type is
\* one the resource accepts, its ID/tags/name is given, and a search finds
\* at least one resource; the image must be Available; the cluster label
\* present; the tenancy one of the allowed values.
RefUsable(ref, modes) ==
    /\ ref.type \in modes
    /\ ref.set
    /\ ref.type = "ID" \/ ref.matches > 0

Usable(c) ==
    /\ c.image = "Available"
    /\ c.sgs # <<>>
    /\ \A i \in DOMAIN c.sgs : RefUsable(c.sgs[i], {"ID", "Tags"})
    /\ RefUsable(c.vswitch, {"ID", "Tags"})
    /\ c.label
    /\ RefUsable(c.rg, {"ID", "Name"})
    /\ c.tenancy \in {"", "default", "host"}
=============================================================================
