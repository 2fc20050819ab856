----------------------------- MODULE Reconciler -----------------------------
(***************************************************************************)
(* One Machine reconciled against ECS.  The machine controller (outside   *)
(* this repository) calls Exists, then Create or Update, or Delete when   *)
(* the Machine is being deleted; one reconcile of a Machine runs at a     *)
(* time.  Each operation is split into steps at its cloud API calls, so   *)
(* the cloud may move between two calls of the same operation; a step's   *)
(* disjuncts are the outcomes of its call, errors included.               *)
(*                                                                         *)
(* Create is runInstances + waitForInstancesStatus + WaitForResult; the    *)
(* Create/Update/Delete/Exists control itself (reconciler.go) is not in   *)
(* src/ and follows spec section 4.4 and reconciler_test.go.              *)
(***************************************************************************)
EXTENDS Instances, Resolver, FiniteSets

CONSTANTS
    NONE,        \* no instance ID / no snapshot
    PollBudget,  \* predicate calls of WaitForResult before its timeout (900s / 5s)
    ProviderConfig, \* the Machine's provider spec, as Resolver abstracts it
    EmptyStopRejected \* StopInstances with no instance ID is an API error

VARIABLES
    providerID,  \* machine.Spec.ProviderID (persisted)
    statusID,    \* providerStatus.InstanceID (persisted)
    addresses,   \* machine.Status.Addresses is non-empty (persisted)
    deleting,    \* the Machine has a deletion timestamp
    failed,      \* the controller put the Machine in phase Failed
    removed,     \* the controller dropped the finalizer: the Machine is gone
    pc,          \* the step of the running reconcile
    found,       \* instances an operation holds between two calls
    target,      \* the instance Update keeps (a snapshot) or NONE
    newID,       \* the instance runInstances launched and waits for
    polls        \* WaitForResult predicate calls so far

machineVars == <<providerID, statusID, addresses, deleting, failed, removed>>
opVars      == <<pc, found, target, newID, polls>>
vars        == <<cloudVars, machineVars, opVars>>

Steps == {"Idle", "Exists", "CreateResolve", "CreateRun", "CreateWait",
          "UpdateGet", "UpdateStop", "UpdateTag",
          "DeleteGet", "DeleteStop", "DeleteRelease", "DeleteExists", "Done"}

TypeOK ==
    /\ CloudTypeOK
    /\ providerID \in Ids \cup {NONE}
    /\ statusID \in Ids \cup {NONE}
    /\ {addresses, deleting, failed, removed} \subseteq BOOLEAN
    /\ pc \in Steps
    /\ found \in Seq(Snapshots)
    /\ target \in Snapshots \cup {NONE}
    /\ newID \in Ids \cup {NONE}
    /\ polls \in 0..PollBudget

Init ==
    /\ CloudInit
    /\ providerID = NONE /\ statusID = NONE /\ addresses = FALSE
    /\ deleting = FALSE /\ failed = FALSE /\ removed = FALSE
    /\ pc = "Idle" /\ found = <<>> /\ target = NONE /\ newID = NONE /\ polls = 0

---------------------------------------------------------------------------
\* Mutant: no fallback to the tag search when the lookup by ID fails.
MachineInstancesResultsByIDOnly ==
    IF statusID = NONE THEN {<<>>} ELSE GetInstanceByID(statusID, SupportedInstanceStates)

\* getMachineInstances: the instance found by the recorded instance ID, or,
\* when there is none or the lookup returns any error (an API error
\* included), getExistingInstances by the ownership tags.
MachineInstancesResults ==
    LET byID == IF statusID = NONE THEN {<<>>}
                ELSE GetInstanceByID(statusID, SupportedInstanceStates)
    IN  UNION { IF b # <<>> THEN {b} ELSE GetExistingInstancesResults : b \in byID }

\* Exists: an instance was found; none found while a provider ID is set and
\* no address is known is a requeue (creation may not be visible yet).
ExistsOutcome(res) ==
    IF res # <<>> THEN "true"
    ELSE IF providerID # NONE /\ ~addresses THEN "requeue"
    ELSE "false"

Provisioned == providerID # NONE \/ addresses

\* patchMachine at the end of a reconcile either stores the scope's changes
\* or hits an update conflict and loses them.
Persist(pid, sid, addr) ==
    \/ providerID' = pid /\ statusID' = sid /\ addresses' = addr
    \/ UNCHANGED <<providerID, statusID, addresses>>

Finish == pc' = "Idle" /\ found' = <<>> /\ target' = NONE /\ newID' = NONE /\ polls' = 0
---------------------------------------------------------------------------
\* The machine controller: start a reconcile, or mark the Machine deleted.
StartReconcile ==
    /\ pc = "Idle"
    /\ ~removed
    /\ IF deleting THEN pc' = "DeleteGet" ELSE ~failed /\ pc' = "Exists"
    /\ UNCHANGED <<cloudVars, machineVars, found, target, newID, polls>>

RequestDelete ==
    /\ ~deleting
    /\ deleting' = TRUE
    /\ UNCHANGED <<cloudVars, providerID, statusID, addresses, failed, removed, opVars>>

\* Exists, and the controller's choice that follows it: Update an existing
\* instance; a provisioned Machine without one goes Failed; else Create.
Exists ==
    /\ pc = "Exists"
    /\ \/ Finish                                   \* DescribeInstances error
          /\ UNCHANGED failed
       \/ \E res \in MachineInstancesResults :
            CASE ExistsOutcome(res) = "true" ->
                    pc' = "UpdateGet" /\ UNCHANGED <<failed, found, target, newID, polls>>
              [] ExistsOutcome(res) = "requeue" ->
                    Finish /\ UNCHANGED failed
              [] Provisioned ->
                    Finish /\ failed' = TRUE
              [] OTHER ->
                    pc' = "CreateResolve" /\ UNCHANGED <<failed, found, target, newID, polls>>
    /\ UNCHANGED <<cloudVars, providerID, statusID, addresses, deleting, removed>>

\* Create: the user data secret, then runInstances' resolution (Resolver).
\* The machine controller puts the Machine in phase Failed when Create
\* returns an InvalidMachineConfiguration and retries any other error.
GetUserData == {Ok, Err("Plain", "api")}

CreateResolve ==
    /\ pc = "CreateResolve"
    /\ \E o \in Then(GetUserData, RunInstancesResolve(ProviderConfig)) :
          IF o = Ok
          THEN pc' = "CreateRun" /\ UNCHANGED <<failed, found, target, newID, polls>>
          ELSE Finish /\ failed' = (o.class = "Invalid")
    /\ UNCHANGED <<cloudVars, providerID, statusID, addresses, deleting, removed>>

\* RunInstances for one instance; on success runInstances sleeps and starts
\* waitForInstancesStatus(Running).  The call may also fail after ECS
\* launched the instance (a response lost to a client timeout, or an
\* unexpected reservation): a CreateMachine error with nothing recorded.
\* With every ID of the pool used the call can only fail (the bound on
\* launches).
CreateRun ==
    /\ pc = "CreateRun"
    /\ \/ Finish /\ UNCHANGED cloudVars
       \/ \E i \in Ids : status[i] = "Absent" /\ LaunchInstance(i) /\ Finish
       \/ \E i \in Ids :
            /\ status[i] = "Absent"
            /\ LaunchInstance(i)
            /\ newID' = i /\ polls' = 0 /\ pc' = "CreateWait"
            /\ UNCHANGED <<found, target>>
    /\ UNCHANGED machineVars

\* One WaitForResult round of waitForInstancesStatus: DescribeInstances of
\* newID.  An error or a status other than Running does not stop the loop,
\* which times out after PollBudget rounds.  An empty response stops it with
\* a nil result, so runInstances fails with "instance not found".  Running
\* ends Create: provider ID, instance ID and addresses are set and patched.
\* Mutant: the deadline test of WaitForResult dropped (a negative timeout).
KeepPollingNoTimeout ==
    /\ polls' = polls + 1 /\ UNCHANGED <<pc, found, target, newID>>
    /\ UNCHANGED machineVars

KeepPolling ==
    /\ IF polls + 1 >= PollBudget
       THEN Finish
       ELSE polls' = polls + 1 /\ UNCHANGED <<pc, found, target, newID>>
    /\ UNCHANGED machineVars

CreateWait ==
    /\ pc = "CreateWait"
    /\ \/ KeepPolling                                   \* DescribeInstances error
       \/ Listed(newID) /\ status[newID] # Running /\ KeepPolling
       \/ ~Listed(newID) /\ Finish /\ UNCHANGED machineVars
       \/ /\ Listed(newID) /\ status[newID] = Running
          /\ Persist(newID, newID, TRUE)
          /\ Finish /\ UNCHANGED <<deleting, failed, removed>>
    /\ UNCHANGED cloudVars

\* Mutant: stopInstances sending a DeleteInstances request in place of the
\* StopInstances one.
StopInstancesCallDeletes(snaps, onSuccess) ==
    LET existing == { i \in IdsOf(snaps) : Listed(i) }
        need     == { i \in existing : status[i] = Running }
    IN  \/ Finish /\ UNCHANGED cloudVars
        \/ existing = {} /\ Finish /\ UNCHANGED cloudVars
        \/ existing # {} /\ Finish /\ UNCHANGED cloudVars
        \/ existing # {} /\ (need # {} \/ ~EmptyStopRejected)
           /\ DeleteEffect(need) /\ onSuccess

\* Mutant: stopInstances treating "nothing to stop" as an error.
StopInstancesCallNeedRequired(snaps, onSuccess) ==
    LET existing == { i \in IdsOf(snaps) : Listed(i) }
        need     == { i \in existing : status[i] = Running }
    IN  \/ Finish /\ UNCHANGED cloudVars
        \/ need = {} /\ Finish /\ UNCHANGED cloudVars
        \/ need # {} /\ StopEffect(need) /\ onSuccess

\* stopInstances: re-describe the instances (none found is an error), then
\* one StopInstances call for those whose current status is Running, made
\* even when none is (an empty InstanceId list).
StopInstancesCall(snaps, onSuccess) ==
    LET existing == { i \in IdsOf(snaps) : Listed(i) }
        need     == { i \in existing : status[i] = Running }
    IN  \/ Finish /\ UNCHANGED cloudVars                \* DescribeInstances error
        \/ existing = {} /\ Finish /\ UNCHANGED cloudVars
        \/ existing # {} /\ Finish /\ UNCHANGED cloudVars \* StopInstances error
        \/ existing # {} /\ (need # {} \/ ~EmptyStopRejected)
           /\ StopEffect(need) /\ onSuccess

\* Mutant: every Running instance counted as extra, the kept one included.
ExtraRunningAll(running) == running

\* The Running instances Update stops: all but the first (the newest).
ExtraRunning(running) == Tail(running)

\* Update: look the instances up; none is a requeue while a provider ID is
\* set, else the status is cleared.  Otherwise keep the newest Running one
\* (or the newest if none runs), stop the other Running ones, correct the
\* kept one's tags and record it.
UpdateGet ==
    /\ pc = "UpdateGet"
    /\ \/ Finish /\ UNCHANGED machineVars
       \/ \E res \in MachineInstancesResults :
            IF res = <<>>
            THEN /\ Finish
                 /\ IF providerID # NONE THEN UNCHANGED machineVars
                    ELSE /\ Persist(providerID, NONE, addresses)
                         /\ UNCHANGED <<deleting, failed, removed>>
            ELSE LET sorted  == SortInstances(res)
                     running == GetRunningFromInstances(sorted)
                 IN  /\ target' = IF running # <<>> THEN running[1] ELSE sorted[1]
                     /\ IF Len(running) > 1
                        THEN pc' = "UpdateStop" /\ found' = ExtraRunning(running)
                        ELSE pc' = "UpdateTag" /\ found' = <<>>
                     /\ UNCHANGED <<machineVars, newID, polls>>
    /\ UNCHANGED cloudVars

UpdateStop ==
    /\ pc = "UpdateStop"
    /\ StopInstancesCall(found,
           pc' = "UpdateTag" /\ found' = <<>> /\ UNCHANGED <<target, newID, polls>>)
    /\ UNCHANGED machineVars

\* correctExistingTags on the kept snapshot, then setProviderStatus.
UpdateTag ==
    /\ pc = "UpdateTag"
    /\ LET record == Persist(target.id, target.id, TRUE)
                     /\ Finish /\ UNCHANGED <<deleting, failed, removed>>
       IN  \/ /\ ExistingTagsCorrect(target.tags, MachineName, ClusterID)
              /\ record /\ UNCHANGED cloudVars
           \/ /\ ~ExistingTagsCorrect(target.tags, MachineName, ClusterID)
              /\ Finish /\ UNCHANGED <<cloudVars, machineVars>>     \* TagResources error
           \/ /\ ~ExistingTagsCorrect(target.tags, MachineName, ClusterID)
              /\ Live(target.id)
              /\ TagEffect(target.id) /\ record

\* Delete: look the instances up; none found is success.  Otherwise stop
\* them, then DeleteInstances them.
DeleteGet ==
    /\ pc = "DeleteGet"
    /\ \/ Finish
       \/ \E res \in MachineInstancesResults :
            IF res = <<>>
            THEN pc' = "DeleteExists" /\ UNCHANGED <<found, target, newID, polls>>
            ELSE pc' = "DeleteStop" /\ found' = res /\ UNCHANGED <<target, newID, polls>>
    /\ UNCHANGED <<cloudVars, machineVars>>

DeleteStop ==
    /\ pc = "DeleteStop"
    /\ StopInstancesCall(found,
           pc' = "DeleteRelease" /\ UNCHANGED <<found, target, newID, polls>>)
    /\ UNCHANGED machineVars

DeleteRelease ==
    /\ pc = "DeleteRelease"
    /\ \/ Finish /\ UNCHANGED cloudVars                 \* DeleteInstances error
       \/ DeleteEffect(IdsOf(found)) /\ pc' = "DeleteExists"
          /\ found' = <<>> /\ UNCHANGED <<target, newID, polls>>
    /\ UNCHANGED machineVars

\* After a successful Delete the controller calls Exists and drops the
\* finalizer only when it reports no instance.
DeleteExists ==
    /\ pc = "DeleteExists"
    /\ \/ Finish /\ UNCHANGED removed
       \/ \E res \in MachineInstancesResults :
            IF ExistsOutcome(res) = "false"
            THEN removed' = TRUE /\ pc' = "Done" /\ UNCHANGED <<found, target, newID, polls>>
            ELSE Finish /\ UNCHANGED removed
    /\ UNCHANGED <<cloudVars, providerID, statusID, addresses, deleting, failed>>

\* The Machine is gone; nothing more happens to it.
Gone == pc = "Done" /\ UNCHANGED vars

\* A step of this Machine alone: the controller's and the actuator's.
MachineStep ==
    \/ StartReconcile \/ RequestDelete
    \/ Exists \/ CreateResolve \/ CreateRun \/ CreateWait
    \/ UpdateGet \/ UpdateStop \/ UpdateTag
    \/ DeleteGet \/ DeleteStop \/ DeleteRelease \/ DeleteExists
    \/ Gone

Next ==
    \/ MachineStep
    \/ CloudNext /\ UNCHANGED <<machineVars, opVars>>

Spec == Init /\ [][Next]_vars

\* A step of the reconcile in progress.
ReconcileStep ==
    \/ Exists \/ CreateResolve \/ CreateRun \/ CreateWait
    \/ UpdateGet \/ UpdateStop \/ UpdateTag
    \/ DeleteGet \/ DeleteStop \/ DeleteRelease \/ DeleteExists

\* Each call of a step succeeds, with what the cloud then holds.
CallSucceeds ==
    \/ Exists /\ pc' \in {"UpdateGet", "CreateResolve"}
    \/ CreateResolve /\ pc' = "CreateRun"
    \/ CreateRun /\ pc' = "CreateWait"
    \/ CreateWait /\ statusID' # statusID
    \/ UpdateGet /\ pc' \in {"UpdateStop", "UpdateTag"}
    \/ UpdateStop /\ pc' = "UpdateTag"
    \/ UpdateTag /\ statusID' = target.id
                 /\ (ExistingTagsCorrect(target.tags, MachineName, ClusterID) \/ itags' # itags)
    \/ DeleteGet /\ pc' # "Idle"
    \/ DeleteStop /\ pc' = "DeleteRelease"
    \/ DeleteRelease /\ pc' = "DeleteExists"
    \/ DeleteExists /\ removed'

\* ECS acting on its own, tag drift aside.  Each instance only moves forward
\* (Pending .. Stopped, invisible to visible, Released to Gone), so weak
\* fairness on the disjunction makes every instance progress.
CloudProgress == \E i \in Ids : ProgressStep(i) \/ BecomeVisible(i) \/ Purge(i)

\* Fairness the controller and the cloud justify:
\*  - the machine controller requeues every Machine, so a reconcile is
\*    eventually started, and a started one runs its calls to the end;
\*  - cloud API errors and patch conflicts are transient: a call retried
\*    infinitely often eventually succeeds (strong fairness on success);
\*  - ECS moves every instance through its states, its listing catches up
\*    and released instances disappear.
\* Tag drift gets no fairness: it is bounded by MaxDrift and need not happen.
Fairness ==
    /\ WF_vars(StartReconcile)
    /\ WF_vars(ReconcileStep)
    /\ \A step \in {"Exists", "CreateResolve", "CreateRun", "CreateWait",
                     "UpdateGet", "UpdateStop", "UpdateTag", "DeleteGet",
                     "DeleteStop", "DeleteRelease", "DeleteExists"} :
          SF_vars(pc = step /\ CallSucceeds)
    /\ WF_vars(CloudProgress /\ UNCHANGED <<machineVars, opVars>>)

FairSpec == Spec /\ Fairness

---------------------------------------------------------------------------
\* Properties.

\* The Machine's live instances that the getInstances tag filter (cluster
\* and Name tag) finds.
FindableInstances == {i \in Ids : Live(i) /\ owner[i] = MachineName /\ MatchesOwnerFilter(i)}

\* No duplicate the tag search can see: whatever fails between RunInstances
\* and the patch of the Machine (a timeout while Pending, a describe error,
\* a lost patch), the next reconcile finds the launched instance by its
\* tags.  A second live instance is launched only when the tag search
\* missed the first because its identity tags were removed from outside.
AtMostOneFindableInstance == Cardinality(FindableInstances) <= 1

\* No leak: once the controller has dropped the Machine, Delete has released
\* every instance launched for it.
NoInstanceOutlivesMachine == removed => \A i \in Ids : owner[i] = MachineName => ~Live(i)

\* What can outlive a dropped Machine is only an instance the tag search
\* cannot find: Delete and the Exists after it release or see every
\* instance that still carries the Machine's cluster and Name tags.
NoFindableInstanceOutlivesMachine == removed => FindableInstances = {}

\* Update stops the extra Running instances, never the one it keeps and
\* records as the Machine's instance.
UpdateSparesKeptInstance ==
    [][pc = "UpdateStop" /\ pc' # "UpdateStop" => status'[target.id] = status[target.id]]_vars

\* Spec 7: a transient cloud error is retried by the reconcile loop; only a
\* configuration the user must fix puts the Machine in phase Failed.  So a
\* Create of a Machine whose provider spec is usable never fails it.
CreateFailsOnlyOnBadConfig ==
    [][pc = "CreateResolve" /\ failed' => ~Usable(ProviderConfig)]_vars

---------------------------------------------------------------------------
\* Refinement: the abstract lifecycle of MachineLifecycle, seen through the
\* cloud's instances and the persisted Machine.  An instance is launched
\* once it left "Absent" and is live until DeleteInstances released it.
LaunchedIds == {i \in Ids : status[i] # "Absent"}
LiveIds     == {i \in Ids : Live(i)}

Lifecycle == INSTANCE MachineLifecycle WITH launched <- LaunchedIds, live <- LiveIds

\* The reconciler implements the lifecycle: through listing lag, tag drift,
\* timeouts and lost patches, RunInstances is called only while the Machine
\* has no provider ID, the provider ID is only ever set to a live instance,
\* and only Delete terminates instances.
ImplementsMachineLifecycle == Lifecycle!Spec

\* Spec 4.4: with a provider ID set, Update keeps the existing instance
\* unless it is verified stale or missing.  So the provider ID, once set,
\* moves to another instance only when the recorded one is no longer live.
ProviderIDKeptWhileLive ==
    [][providerID # NONE /\ providerID' # providerID => providerID \notin LiveIds]_vars

---------------------------------------------------------------------------
\* Liveness, under Fairness.

\* Instance the Machine records and that runs.
RunningRecorded == statusID # NONE /\ status[statusID] = Running

\* Create/Update converge: unless the Machine is deleted or Failed, it ends
\* up for good recording a Running instance, through timeouts of the wait,
\* lost patches, listing lag and duplicates that Update stops.
EventuallyRunningRecorded == <>[](deleting \/ failed \/ RunningRecorded)

\* The instance carries the Name, cluster and owned tags of this Machine.
TagsOK(i) == IdentityTags \subseteq itags[i]

\* correctExistingTags tests the tags of the snapshot UpdateGet took: an
\* identity tag removed from the recorded instance is still put back by a
\* later Update (the lookup by instance ID does not need the tags).
DriftedTagsRepaired ==
    \A i \in Ids :
        (i = statusID /\ Live(i) /\ ~TagsOK(i))
            ~> (TagsOK(i) \/ i # statusID \/ ~Live(i) \/ deleting \/ failed)

\* Delete converges: a Machine marked for deletion is eventually removed.
DeleteEventuallyRemoves == deleting ~> removed
=============================================================================
