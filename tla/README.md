# TLA+ models of the Alibaba Cloud machine actuator

This directory holds TLC-checkable models of the machine actuator in
`src/pkg/actuators/machine/`. The machine controller of machine-api-operator
drives that actuator. For each Machine it calls `Exists`, then `Create` or
`Update`, or `Delete` once the Machine has a deletion timestamp. It reconciles
one Machine at a time, different Machines concurrently, and retries a failed
call after a requeue.

## 1. Inventory

| Part | Code | State it touches | Operations |
|---|---|---|---|
| Resource resolver | `instances.go` 70-229, 321-514, 797-841; `utils.go` 27-44 | none; it reads ECS/VPC/ResourceManager through the client | getImageID, getSecurityGroupIDs(ByTags), getVSwitchID(FromTags), getResourceGroupId(FromName), getClusterID, the tenancy switch |
| Instance lifecycle driver | `instances.go` 70-319, 536-795 | ECS instances: status, tags, start time | runInstances + waitForInstancesStatus, getInstanceByID, getInstances, stopInstances, sortInstances, getRunningFromInstances, correctExistingTags |
| Poll helper | `utils.go` 111-134 | none | WaitForResult |
| Reconciler (not under `src/`) | reconciler.go, actuator.go, machine_scope.go | Machine `spec.providerID`, `providerStatus.instanceId`, addresses | Create, Update, Delete, Exists, getMachineInstances, patchMachine |
| Tag utilities | `instances.go` 487-534 | none | buildTagList, removeDuplicatedTags, covertToRunInstancesTag |
| Machine conditions | `utils.go` 46-109 | `providerStatus.conditions` | conditionSuccess, conditionFailed, setMachineProviderCondition, findProviderCondition, updateExistingCondition, shouldUpdateCondition |

The parts interact only through two things. One is the ECS API, which is
eventually consistent: a new instance may not be listed yet. All Machines
of a cluster share it, and only the Name tag in the owner filter tells
their instances apart. The other is the Machine object, which is patched
after the call and may fail to save.

The hard behaviours are these:
- **Failure between RunInstances and the Machine patch.** The instance
  exists, but nothing records it. The next reconcile must find it by its tags,
  through the owner filter `kubernetes.io/cluster/<id>=owned` plus
  `Name=<machine>`.
- **Listing lag.** A describe call right after RunInstances or before
  Delete may miss the new instance.
- **Duplicates.** When Update finds several instances, it keeps the newest
  Running one and stops the others. Stopping re-describes the instances and
  stops whatever is Running at that moment.
- **Range-variable pointers.** `&instance` of a range variable appears at
  `instances.go:297` and `:639`.
- **Tag precedence.** Tag precedence depends on the order in which the user
  tags and the fixed tags are concatenated before duplicates are removed.

The properties that make the system correct are these:
- at most one live instance per Machine that the tag search can find; a
  second one is launched only when an identity tag removed from outside
  hid the first (`instances.go:621`);
- no live instance once the Machine is removed, except one hidden from the
  tag search in that way;
- Update never stops the instance it keeps;
- the launch tags always carry the Machine's identity;
- a Create of a usable provider spec never fails the Machine;
- the resolver accepts exactly the usable provider specs, and a failing
  API call can always stop it;
- once the Machine has a provider ID, it is moved only off an instance that
  is gone (spec §4.4; this does not hold, see `provider_id_rewritten`);
- the MachineCreation condition shows the latest Create, and its transition
  time moves only when its status flips;
- two Machines never record or release each other's instances;
- a Machine eventually records a Running instance, drifted tags are
  eventually repaired, and Delete eventually removes the Machine.

## 2. Modules

| Module | Models | State / actions |
|---|---|---|
| `Tags` | buildTagList, removeDuplicatedTags, covertToRunInstancesTag, the tag test of correctExistingTags | pure operators. A key is a record `[cls, id]`, and cls `"cluster"` is the `kubernetes.io/cluster/` prefix. |
| `MC_Tags` | checks `Tags` over all user tag lists of up to `MaxUserTags` tags | `machineTags` is chosen in Init |
| `EcsCloud` | the ECS side | `status, visible, itags, startTime, launches, drifts`, and the history variable `owner` (the Machine whose RunInstances created the instance), which only the properties read. Cloud steps: `Progress` (Pending→Starting→Running, Stopping→Stopped), `BecomeVisible` (listing lag), `Purge`, `DriftTag` (an identity tag removed from outside). API effects: `LaunchInstance`, `StopEffect`, `DeleteEffect`, `TagEffect`. |
| `Instances` | the describe helpers | `GetInstanceByID` (the set of its outcomes; a failing describeInstances call is always one), `GetInstancesResult`, `GetExistingInstancesResults` (with the `PerIterationLoopVar` switch for Go < 1.22), `GetRunningFromInstances` |
| `InstanceSort` | sortInstances | `Less` exactly as the comparator is written, malformed start times included. `SortInstances` is a fold of `Sink`, which is Go's insertion sort over `instanceList`'s Len, Swap and Less (sort.Sort for n < 12). |
| `MC_InstanceSort` | checks `SortInstances` over all start-time sequences of up to `MaxInstances` | the sequence is chosen in Init |
| `Resolver` | runInstances up to its RunInstances call | pure operators. Each resolver gives the SET of its outcomes (Ok, or an error with its class and cause). `Then` short-circuits at the first error, and `AsInvalid` is the InvalidMachineConfiguration wrapping. |
| `Conditions` | the condition helpers of `utils.go` | pure operators. LastTransitionTime is abstracted to `unset`, `earlier` or `now`. |
| `MC_Resolver` | every provider spec over small reference sets, each Created repeatedly | the spec is chosen in Init; `Usable` is the reference contract of spec §4.1. `Create` records each outcome (resolution, then RunInstances) with `SetMachineProviderCondition`, as reconciler.create does; `Age` makes earlier stamps `earlier`. |
| `Reconciler` | the actuator calls on one Machine | `pc` is the step of the current call. Each action is one cloud call with its success and error outcomes. `Persist` either saves the Machine or loses the patch. |
| `MachineLifecycle` | the promise of spec §3 and §4.4 to the machine controller | `launched, live, providerID, deleting, removed`. `Launch` only without a provider ID, `Provision` sets the provider ID to a live instance (again to another one, see Refinement), `Terminate` only while deleting, `Remove` only after `MarkDeleted`. |
| `MC_Reconciler` | three instance ids as model values (two for liveness), and one usable provider spec | symmetry over the ids in the safety runs |
| `MC_TwoMachines` | two Machines of one cluster over one cloud | two `INSTANCE Reconciler` copies with their own Machine variables and shared cloud variables. A step is a `MachineStep` of one Machine or a cloud step. |

These parts follow the code literally:
- **CreateRun.** RunInstances either fails with nothing launched, fails
  after ECS launched the instance (a client timeout, or a response without
  exactly one instance ID, `instances.go:231-244`), or succeeds and starts
  the wait.
- **CreateWait.** Each step is one call of the WaitForResult predicate.
  An error or a non-Running status continues the wait. An empty response
  stops it, which gives the "not found" failure at `instances.go:263`.
  After `PollBudget` calls the wait times out.
- **StopInstancesCall.** It re-describes the instances. Finding none is an
  error. Otherwise it stops the ones that are Running at that moment.
- **UpdateTag.** It tests the snapshot's tags. When they are wrong it calls
  TagResources, then records the Machine (provider ID and instance ID).
- **CreateResolve.** getUserData, then every outcome of `RunInstancesResolve`
  for the Machine's provider spec. Every error ends the call. Only
  InvalidMachineConfiguration fails the Machine.
- **UpdateGet.** It sorts the describe result with `SortInstances` and takes
  its Running instances.
- **StopInstancesCall.** With no Running instance, it still calls
  StopInstances with an empty list. The constant `EmptyStopRejected` says
  whether ECS rejects that call; the SDK's behaviour is not in the
  repository.

The code for Create/Update/Delete/Exists is absent from `src/`, so those
actions are modelled from the spec and `reconciler_test.go` and marked
`spec_modelled`:
- look up by `providerStatus.instanceId` first, and fall back to the tag
  search on error;
- Exists requeues when a provider ID is set, nothing is found, and no
  addresses are set;
- Update keeps `running[0]` after sorting and stops the rest;
- Delete stops, then releases, then checks Exists.

## 3. Runs

| Run | Expect | Shows |
|---|---|---|
| `tags_identity` | pass | removeDuplicatedTags equals a reference dedup (first occurrence wins). The launch list has exactly one Name tag and one cluster tag, with the Machine's values. |
| `tags_owned_override` | violation | A user tag with the owned key displaces the fixed owned tag, so the launched instance fails correctExistingTags (finding F1). |
| `resolver_contract` | pass | Over about 84 000 provider specs, the resolution reaches RunInstances exactly when the spec is usable, and a failing API call can always stop it, however that error is classified. Over repeated Creates, the MachineCreation condition is the only one, shows the latest outcome, and moves its LastTransitionTime only when the status flips. |
| `sort_reference_order` | pass | With well-formed start times, the insertion sort keeps every instance and orders them newest first, with instances that have no start time last. |
| `two_machines_drift` | pass | Two Machines are reconciled concurrently with an up-to-date listing and one identity tag removed from outside. No failed wait, lost RunInstances answer, describe error or lost patch gives either Machine a second instance the tag search finds (`AtMostOneFindableInstance`). The only instance that can outlive a removed Machine is one the tag removal hid (`NoFindableInstanceOutlivesMachine`). Neither Machine records or releases the other's instance (`MachinesStayApart`). 573 618 states, about 1 min. |
| `reconcile_lag` | pass | With listing lag and one tag drift, duplicates appear, and Update stops the extra Running instances without ever stopping the kept one. The reconciler refines `MachineLifecycle` (`ImplementsMachineLifecycle`). Every action fires. |
| `provider_id_rewritten` | violation | A failing DescribeInstances of the recorded ID sends getMachineInstances to the tag search. Update then keeps a duplicate and moves the provider ID off an instance that is still live (`ProviderIDKeptWhileLive`, spec §4.4 "unless verified stale/missing"; F5). |
| `update_loopvar_alias` | violation | With the Go < 1.22 range variable, Update stops the instance it keeps (F3). |
| `delete_lag_leak` | violation | Delete of a Machine whose Create failed before its instance was listed removes the Machine and leaks the instance (F4). |
| `create_transient_fails_machine` | violation | A transient describe error in the resolver is wrapped as InvalidMachineConfiguration and fails a Machine whose spec is usable (F6). |
| `reconcile_liveness` | pass | Under the fairness below, a Machine eventually records a Running instance, drifted identity tags are repaired, and Delete removes the Machine. This assumes StopInstances accepts an empty list. |
| `delete_stuck_on_stopped` | violation | If ECS rejects StopInstances with an empty list, Delete of a Machine whose instance is already Stopped never finishes (F7). |

Bounds and why they are enough:
- **Three instance ids.** This is one more than a duplicate needs, so Update
  can meet two Running instances plus one that is being created. With two
  Machines, each gets its own instance plus one spare. The
  liveness runs use two ids, which is enough for one duplicate.
- **`PollBudget = 2`.** It stands for the 900 s / 5 s of the real wait: the
  model only needs to tell "a poll that continues" from "the last poll".
- **`MaxDrift = 1`.** One external tag removal is enough to make UpdateTag
  call TagResources and to hide an instance from the tag search. In
  `two_machines_drift` it produces the duplicate of `instances.go:621`: a
  wait timeout leaves the instance unrecorded, the Name tag is removed, and
  the next Exists finds nothing and launches again. With the plain "at most
  one live instance" in place of the findable one, TLC reports this trace.
- **User tags.** They range over every reserved key, one other cluster's key
  and one plain key.
- **Resolver.** Each reference has every type, empty or set, and 0 or 1
  search matches. The search result's size beyond 1 does not change any
  branch. Up to two security group references exercise the loop's
  short-circuit.
- **Conditions.** The number of Creates is not bounded. The condition and
  its abstract transition time take finitely many values, so TLC explores
  every sequence of outcomes the spec allows. That includes a new
  condition, a status flip, and a repeated failure with another message.
- **Sort.** Up to four instances, start times 0 (none) to 3 with ties, which
  covers every branch of `Less` for well-formed times. A malformed time
  makes `Less` no strict weak order, and the spec does not say which order
  is then right, so it is not checked.

## Refinement

`Reconciler` defines `Lifecycle == INSTANCE MachineLifecycle WITH launched
<- LaunchedIds, live <- LiveIds`, and the other variables map by name:
- `LaunchedIds` is the set of instances whose status left `Absent`.
- `LiveIds` is the set of instances in one of the five ECS statuses, up to
  Stopped.

Every reconciler step is a step of `MachineLifecycle` or a stutter:
- CreateRun is `Launch`.
- A saved patch that sets the provider ID is `Provision`.
- DeleteRelease is `Terminate`.
- RequestDelete is `MarkDeleted`.
- DeleteExists is `Remove`.
- Every other step stutters. These include stopping an instance, the
  cloud's progress, tag drift and a lost patch.

The refinement is checked with lag and drift, where duplicates do occur.
So it allows several live instances, but it forbids launching once the
Machine has a provider ID. It also forbids a termination outside Delete.
A stopInstances that sends DeleteInstances is the mutant of this property.
`Provision` may move the provider ID to another live instance. The code does
this: getInstanceByID returns the error of a failing describeInstances call,
getMachineInstances falls back to the tag search on any error, and Update
records the duplicate it keeps. `provider_id_rewritten` checks the stronger
promise of spec §4.4 and shows the trace.

## Fairness

`Fairness` in `Reconciler` states four assumptions:
- **StartReconcile and ReconcileStep are weakly fair.** The machine
  controller requeues every Machine, so a reconcile that can start, or a
  call in progress, goes on.
- **Each call eventually succeeds (strong fairness per step).** An API error
  or a patch conflict is transient, and the requeue retries it, so a call
  that can succeed infinitely often eventually does. The success condition
  `CallSucceeds` is precise. A TagResources error or a lost patch does not
  count as success.
- **`CloudProgress` is weakly fair.** ECS moves a Pending instance to
  Running, lists a new instance and purges a released one. The cloud
  lifecycle of each instance is acyclic, so fairness of the disjunction
  gives every instance its steps.
- **DriftTag gets no fairness.** It is an outside edit that may never
  happen.

Faults are part of every run. Every cloud call can fail, and every Machine
patch can be lost. A controller restart between two calls is the same as
an error at the next call, because the operation state (`pc`, `found`,
`target`) lives only in memory.

Deadlock checking is on in every run. The model stops only in `Gone`, after
the Machine is removed.

## 4. Not modelled

These parts are not modelled:
- `machineset/ecs_instance_types.go`: one DescribeInstanceTypes call and a
  field copy, with no state. It also imports packages of another module
  path and an older API.
- `validateMachine` (`utils.go` 28-34): its caller is not under `src/`;
- the Update of the conditions (setProviderStatus with conditionSuccess)
  and the lost patch of the conditions, which `Reconciler` already covers
  for the provider ID;
- the credentials client and the termination handler, of which only tests
  are present;
- the test stubs;
- the vendored SDK;
- DeriveNodeAddresses, which is reduced to "has addresses";
- a tag-based reference with an empty but non-nil tag list. The resolver
  model's reference is either set or unset. The spec calls such a reference
  invalid, while the code searches with no tag filter and accepts it.

One hazard is kept as a note without a run of its own: waitForInstancesStatus
stops at the first empty listing, though its comment says it waits until the
timeout. Under listing lag the early stop leads to a second launch, and
`reconcile_lag` checks that Update stops that duplicate without touching the
kept one. `AtMostOneFindableInstance` is checked only without lag.

The tenancy switch of `instances.go:225` runs only after the lookups and
returns a retryable CreateMachine error for a bad field. `TenancyCheck`
models it, but no property states it.

The duplicate of `instances.go:621` is stated as a passing property, not as
a violation run. It follows from the tag-based discovery that spec section
4.4 prescribes, and the run states its limit precisely.

## 5. Further work

1. **Liveness of the abstract spec.** Give `MachineLifecycle` fairness
   and check the refinement under `FairSpec`.
2. **Two Machines with lag.** Add lag to the two-Machine run. With lag,
   `AtMostOneFindableInstance` no longer holds, so check only
   `MachinesStayApart`.
3. **DeriveNodeAddresses.** Model it, and the Exists requeue that depends on
   the addresses, once `machine_scope.go` is in the repository.
