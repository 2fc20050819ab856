----------------------------- MODULE MC_Resolver -----------------------------
(***************************************************************************)
(* Every provider config over a small space of references, checked        *)
(* against the contract of spec section 4.1.  The config is chosen in Init *)
(* and never changes; the invariants range over all outcomes of           *)
(* RunInstancesResolve for it, so each state checks every combination of  *)
(* API errors and cloud answers.                                           *)
(*                                                                         *)
(* Each step is one Create of the Machine with that config, and records   *)
(* its outcome in the MachineCreation condition of the provider status as *)
(* the reconciler does (Conditions).                                       *)
(***************************************************************************)
EXTENDS Resolver, Conditions, FiniteSets, SequencesExt

CONSTANT MaxSecurityGroupRefs   \* references in the security group list

VARIABLES
    cfg,         \* the Machine's provider config
    conditions,  \* providerStatus.Conditions
    last         \* outcome of the latest Create, or NoCreate

vars == <<cfg, conditions, last>>

NoCreate == [class |-> "NoCreate", cause |-> "none"]

RefTypes == {"ID", "Tags", "Name"}

\* A reference: type, non-empty/non-nil, and how many resources its search
\* finds (only searches use it).
References ==
    {[type |-> "ID", set |-> s, matches |-> 0] : s \in BOOLEAN}
    \cup {[type |-> t, set |-> TRUE, matches |-> m] : t \in {"Tags", "Name"}, m \in 0..1}
    \cup {[type |-> t, set |-> FALSE, matches |-> 0] : t \in {"Tags", "Name"}}

ProviderConfigs ==
    [image   : {"Available", "Deprecated", "Missing"},
     sgs     : BoundedSeq(References, MaxSecurityGroupRefs),
     vswitch : References,
     label   : BOOLEAN,
     rg      : References,
     tenancy : {"", "host", "dedicated"}]

Outcomes == {Ok} \cup [class : {"Plain", "Invalid", "Create"},
                       cause : {"config", "api", "notfound", "status"}]

\* What runInstances does after the resolution: RunInstances and the wait
\* for Running, each failing with a CreateMachine error.
RunInstancesCall == {Ok, Err("Create", "api")}

\* Time passes between two reconciles: every stamp becomes an earlier one.
Age(conds) == [k \in DOMAIN conds |->
                  [conds[k] EXCEPT !.ltt = IF @ = "now" THEN "earlier" ELSE @]]

\* The condition Create records for an outcome: conditionSuccess, or
\* conditionFailed with the error as its message.
ConditionFor(o) ==
    IF o = Ok THEN ConditionSuccess ELSE [ConditionFailed EXCEPT !.message = o.cause]

\* reconciler.create: runInstances, then setProviderStatus with the
\* condition for its outcome.
Create ==
    \E o \in Then(RunInstancesResolve(cfg), RunInstancesCall) :
        /\ conditions' = SetMachineProviderCondition(ConditionFor(o), Age(conditions), "now")
        /\ last' = o
        /\ UNCHANGED cfg

Init == cfg \in ProviderConfigs /\ conditions = <<>> /\ last = NoCreate
Next == Create
Spec == Init /\ [][Next]_vars

---------------------------------------------------------------------------
\* Every outcome of the resolution is Ok or a classified error.
TypeOK ==
    /\ cfg \in ProviderConfigs
    /\ RunInstancesResolve(cfg) \subseteq Outcomes
    /\ RunInstancesResolve(cfg) # {}
    /\ conditions \in Seq([type : {MachineCreation}, status : {"True", "False"},
                            reason : {ConditionSuccess.reason, ConditionFailed.reason},
                            message : {ConditionSuccess.message} \cup {o.cause : o \in Outcomes},
                            ltt : {"earlier", "now"}])
    /\ last \in Outcomes \cup {NoCreate}

\* runInstances reaches its RunInstances call (when no API call fails)
\* exactly for the configs the contract calls usable, and a failing API
\* call can always stop it: the resolvers of getImageID, getSecurityGroupIDs,
\* getVSwitchID, getClusterID and getResourceGroupId neither accept a
\* malformed reference nor reject a good one.  How the failing call is
\* classified is not stated here.
ResolveSucceedsIffUsable ==
    /\ (Ok \in RunInstancesResolve(cfg)) <=> Usable(cfg)
    /\ Usable(cfg) => \E o \in RunInstancesResolve(cfg) : o.cause = "api"

\* The provider status shows the latest Create: exactly one MachineCreation
\* condition, True with the success message after a success, False with
\* the error after a failure; the update of an existing condition
\* (shouldUpdateCondition compares reason and message only) never leaves
\* the message of an earlier, different failure.
ConditionReflectsLastCreate ==
    last # NoCreate =>
        /\ Len(conditions) = 1
        /\ conditions[1].status = ConditionFor(last).status
        /\ conditions[1].message = ConditionFor(last).message

\* LastTransitionTime moves exactly when the condition is added or its
\* status flips: a repeated failure with another error, or a repeated
\* success, keeps the time of the original transition.
TransitionTimeTracksStatus ==
    [][\A k \in DOMAIN conditions' :
          conditions'[k].ltt = "now" <=>
              k > Len(conditions) \/ conditions'[k].status # conditions[k].status]_vars
=============================================================================
