# A verification project for the RabbitMQ cluster operator

The repository is a showcase of event streaming with RabbitMQ. Its one program
with a control logic of its own is the Kubernetes operator under
`src/deployment/cloud/k8/data-services/rabbitmq/install_commericial/cluster-operator`
(called `op/` below); the rest is demonstration applications, manifests and
scripts. This project models the operator in TLA+, checks the models with TLC
on small instances and proves the main safety properties with TLAPS for every
value of the constants.

## 1. Inventory

| Component | Code | State | Operations |
|---|---|---|---|
| Reconciler | `op/controllers/rabbitmqcluster_controller.go` and `reconcile_*.go` | none between passes: everything is read again from informer caches and written to the API server | one pass: pause check, operator defaults, finalizer, status conditions, TLS check, rebalance marker, builders in order (scale-down and volume checks before the StatefulSet), restart, binding, CLI commands, final status |
| Persistence scaling | `op/internal/scaling/scaling.go`, `reconcile_persistence.go` | claims, StatefulSet | capacity check, list claims, delete StatefulSet, await, grow each claim |
| Deletion | `op/controllers/reconcile_finalizer.go` | finalizer, deletion marker of the Pods | add finalizer, label Pods, delete StatefulSet by UID, remove finalizer |
| Post-deploy work | `reconcile_cli.go`, `reconcile_rabbitmq_configurations.go` | annotations used as markers on ConfigMaps, StatefulSet and RabbitmqCluster | annotate after a change, restart, `rabbitmq-plugins set`, enable feature flags, rebalance queues |
| Status conditions | `op/internal/status`, `op/api/v1beta1/rabbitmqcluster_status.go` | conditions in the status | compute, set, keep transition times |
| Resource builders | `op/internal/resource` | none | spec to StatefulSet, ConfigMaps, Services, Secrets, RBAC |
| Labels and annotations | `op/internal/metadata` | none | merge and filter maps |
| API types | `op/api/v1beta1` | the spec | helpers on the spec |
| Manager | `op/main.go`, `op/pkg/profiling`, `pod_executor.go` | leader election | start, stop |
| Applications, .NET examples, manifests | `src/applications`, `src/deployment` | in libraries | not modelled, see section 8 |

**How they interact.** A pass is woken by the workqueue. Requests get there from
watches on the RabbitmqCluster and the children it owns (`SetupWithManager`), from
returned errors and from `RequeueAfter`. One worker handles a key at a time, so two
passes over one cluster never overlap. All the concurrency is with the outside:
users, the StatefulSet controller, the garbage collector, and the caches that trail
behind the API server. Writes use optimistic locking, so a stale copy is refused
when it is written, but nothing refuses a *decision* taken from a stale copy.

**What is hard here.** Caches of different objects lag independently; steps of a pass
fail or the process dies between any two writes; conflicts are retried in some places,
returned in others and swallowed in two; some failures requeue and some do not; markers
are written by a second update, after the change they are about; the StatefulSet is
deleted and recreated to grow volumes. `PROJECT.json` lists each hazard at its line.

**What makes the components correct.**
Reconciler: no change is lost, the operator comes to rest in the desired state, nothing
exists without a finalizer, what is reported is what was done.
Scaling: no claim shrinks, every Pod gets its size, an interrupted scaling is resumed.
Deletion: it completes, and touches the objects of the deleted cluster only.
Builders: what is rendered in several places agrees.

## 2. Modules

| Module | What it is |
|---|---|
| `ReconcileLoop` | one RabbitmqCluster, a whole pass of `Reconcile` step by step, caches, workqueue, users, drift, crashes |
| `PersistenceScaling` | the part of a pass about volumes, one action per API call |
| `Deletion` | deletion and re-creation under one name, caches that go back in time |
| `Rollout` | what is promised about a change of configuration: an abstract specification |
| `ConfigRollout` | how a change of configuration, plugins or image reaches the Pods; implements `Rollout` |
| `Listeners` | pure: listeners, ports and memory that the builders derive from a spec |
| `PodTemplate` | pure, extends `Listeners`: volumes, mounts, environment, Vault's files, overrides |
| `ChildObjects` | extends `PodTemplate`: the children of a cluster, rendered builder by builder |
| `MC*` | the constants for TLC |
| `*Proofs` | the theorems of each, extending the module and `TLAPS` |

The modules overlap on purpose where two questions need different detail of the same
code. `ReconcileLoop` composes all steps of a pass with stale caches and conflicts and
leaves the content of children and the times in annotations open; `PersistenceScaling`,
`ConfigRollout` and `ChildObjects` each take one of those apart.

### ReconcileLoop

`rmq`, `child`, `mark`, `phase` are the API server: the RabbitmqCluster, what the
operator manages of each child, the operator's marker annotation on it and the status
of the StatefulSet. `cRmq`, `cChild`, `cMark`, `cPhase` are the informer caches.
`inst` is the variable `rabbitmqCluster` of `Reconcile`, `pc` and `k` where the pass is,
`queued` the workqueue.

| Action | Code |
|---|---|
| `Start`, `PausedExit` | `Reconcile`, beginning; pause label |
| `ReconcileOperatorDefaults` | `reconcile_operator_defaults.go` |
| `AddFinalizerIfNeeded` | `reconcile_finalizer.go` |
| `UpdateStatusConditions` | `updateStatusConditions` |
| `ReconcileTLS` | `reconcile_tls.go` |
| `MarkForQueueRebalance` | `markForQueueRebalance` and `statefulSetNeedsQueueRebalance` |
| `ScaleDown`, `ReconcilePVC` | `reconcile_scale_down.go`, `reconcile_persistence.go` |
| `CreateOrUpdate`, `AnnotateIfNeeded` | one round of the builders' loop |
| `RestartStatefulSetIfNeeded` | `reconcile_rabbitmq_configurations.go` |
| `ReconcileStatus` | `reconcile_status.go` |
| `RunRabbitmqCLICommands`, `RunSetPlugins`, `RunEnableFeatureFlags`, `RunQueueRebalance` | `reconcile_cli.go` |
| `Finish` | the last status update |
| `SyncCluster`, `SyncChild` | the watches of `SetupWithManager` |
| `Crash`, `RestartAfterPanic` | the manager process |

Abstractions, each with its reason:

* *Versions.* The optimistic lock compares a copy's resourceVersion with the object's.
  The model keeps that comparison (`rmqFresh`, `cFresh`, `instFresh`, `held`) and not
  the numbers. Storing an equal object makes no new version, as in Kubernetes.
  `Put` stores the pass's own copy both for an `Update` and for a `Status().Update`:
  it applies to the latest version only, and then the copy is the object
  (`PassOK`, proved).
* *Children.* Children before the StatefulSet are opaque: only their order, which two
  are the plugins and server-conf ConfigMaps, and whether they are as desired matters.
  Theorems hold for any number of them, the runs have those two.
* *The defaults.* Image, pull secrets and updater image are filled in by three updates;
  the model has one that an error may leave half done. A conflict is turned by the code
  into "requeue, no error", and the caller looks at the error only, so the pass goes on
  with defaults in memory that were not stored. The model does the same.
* *Retries inside a call* (`RetryOnConflict`) re-read the cache; waiting in the model
  until the cache is fresh is a successful retry, giving up is the conflict branch.
* *Failing calls.* At most one of the calls inside one action fails with an error other
  than a conflict, and the write it belongs to may or may not have been stored.
* *Timestamps.* Whether a marked server-conf asks for a restart, and whether a plugin
  update is recent, are choices, as often as `left` allows.
* *Volumes.* The claims have the size of the template and are grown in one step;
  `PersistenceScaling` has the detail.
* *Restart.* A new process lists the current objects; `Deletion` has the restart from
  an API server that lags behind.
* *Commands owed.* The ghost `owed` follows the two commands that a marker announces, set plugins
  and enable feature flags: "due" from the write of `CreateOrUpdate` that calls for the command until it
  has run, "lost" if the marker, a second write, did not follow: the write was stored but
  reported as failed, the annotation failed or ran out of retries, the operator stopped between the two,
  or somebody deleted the marked ConfigMap. No guard reads it. `NoLostWork` says that at rest no command
  is due; a lost one is never run, and this is the code's behaviour (`restart_lost` shows it for
  the restart). The two markers read for other purposes are not in `owed`: that of server-conf asks for a
  restart, which `ConfigRollout` follows, and the queue rebalance is asked for by the RabbitmqCluster.
* `Starts` are the specs a behaviour starts with, each with the number of edits, faults, drifts,
  crashes and of the two choices above it may meet, which `left` counts down; `Edits` says which spec a user
  may turn into which. The operator's own steps are not bounded.

### PersistenceScaling

`spec`, `sts`, `pvc` are the API server, `cSpec` and `cSts` the caches the pass reads;
`Scale` itself reads the API server through a clientset, so its actions
look at `sts` and `pvc`. `pods` is the number of replicas after
`spec.override.statefulSet`, which the StatefulSet has; `replicas` is the one `Scale`
uses. `going` is a deletion with orphaning that has not come to its end. `AwaitDeleted`
is `retryWithInterval`: the StatefulSet is gone in time or it is not. `Stop` is a failing
call or a crash. Passes start at any time: that none is missed is what `ReconcileLoop`
shows. Claim templates given in the override are not modelled.

### Deletion

Three objects (`cr`, `sts`, `pod`), each as the API server has it, as a lagging API
server has it (`o...`) and as the cache has it (`c...`). UIDs are given out in order and never
again. `StatefulSetUID`, `ListPods`, `AddRabbitmqDeletionLabel`, `DeleteSts` are the block
under `RetryOnConflict` in `prepareForDeletion`: a conflict runs it again or, after too many,
leaves it; any other error leaves it and is only logged; `RemoveFinalizer` follows in
every case. No object returns to an earlier content here, so a copy is the latest version
exactly if it equals the object. `CatchUp` moves the lagging server forward, as long as a
restart may still use it.

### Rollout and ConfigRollout

`Rollout` has what users want, what is published, what each Pod runs, and whether the operator
has forgotten the last publication. It says that Pods take over only what is published, one at
a time, and that each does so eventually unless the change is forgotten. It does not mention
annotations, restarts or passes.

`ConfigRollout` has them. `want` is the spec, `conf` and `plugins` are the two ConfigMaps,
`image` stands for the rest of the Pod template. `pod[p]` is what a Pod read when it started or
was told by `rabbitmq-plugins set`, and whether it belongs to an old template.

| Action | Code |
|---|---|
| `Start`, `UpdateStatusConditions`, `MarkForQueueRebalance` | the beginning of `Reconcile` |
| `ApplyPlugins`, `ApplyConf`, `ApplyStatefulSet` | `CreateOrUpdate` in the builders' loop |
| `AnnotatePlugins`, `AnnotateConf` | `annotateIfNeeded`: a second update |
| `RestartStatefulSetIfNeeded` | the same, in `reconcile_rabbitmq_configurations.go` |
| `RunRabbitmqCLICommands`, `RunSetPlugins`, `DeletePluginsAnnotation`, `RunQueueRebalance` | `reconcile_cli.go`, one Pod at a time |
| `NoticeTemplate`, `RollPod`, `StartPod`, `PodBecomesReady`, `UpdateStatus` | external: StatefulSet controller, kubelet |
| `PodFails`, `UserEdit`, `Crash`, `Tick` | external |

* *Times.* The code writes times with a resolution of a second and compares them as strings.
  All that can be told from a comparison is kept: `confAt` and `restartAt` say whether the clock
  is still in the second of the annotation, `order` which of the two is later, `pluginsAge` the
  seconds since the plugins were updated, up to the two of `pluginsConfigUpdatedRecently`. A
  clock that goes back, or two operators in different time zones, are not modelled.
* *A Pod takes longer than a second to become ready* (`Tick` separates "starting" from "started").
  The readiness probe waits 10 s before it starts. Without this a restart in the second of a
  restart would be skipped and nobody would try again.
* *Update of the StatefulSet in the same second.* Writing the same time again makes no new
  version, so no restart: the guard `restartAt = "now"`.
* *Ghosts.* `lost`, `restarts`, `seen`, `stirred` record history for the properties; no
  action of the operator reads them.
* The operator reads the latest objects here; lagging caches are in `ReconcileLoop`. An
  annotation that fails because `updateAnnotation` ran out of retries is the failure branch.

### Listeners, PodTemplate and ChildObjects

A listener is a protocol with "tcp" or "ssl"; the numbers of ports are in bijection with these
and left out. `Served` is RabbitMQ: which listeners a node opens for a set of plugins and a
configuration. It is external, taken from what the comments in `configmap.go` say of the defaults. A plugin
starts the plugins it depends on (`Dependencies`, external too): `rabbitmq_multi_dc_replication` starts the
stream plugin, as `StreamNeeded` knows, `rabbitmq_web_mqtt` and `rabbitmq_web_stomp` start `rabbitmq_mqtt` and
`rabbitmq_stomp`, which `configmap.go` does not know: it looks at the plugins that are listed.
The operators keep the names and, above all, the *conditions* of the code: `generateServicePortsMap`
asks `StreamNeeded` where the server configuration asks for the plugin itself,
`SecretPorts` asks for the TLS Secret where the others ask for TLS, and so on. A configuration
is the set of its keys that have to do with listeners, the certificates it names, the two
optional files and the memory.
Additional configuration is opaque text to the operator and does not touch listeners here.

`ChildObjects` applies the builders in the order of `ResourceBuilders`, one action each, with the
object that is there as the starting point: ports keep their place and node port, credentials
that are there are taken over (after their Secret is deleted new ones are drawn), annotations are only added. Go's random order of a map is a choice among `Orders`. The API
server allocates node ports and refuses node ports on a ClusterIP Service and changed claim
templates. The headless Service, service account, role and role binding depend on the cluster's
name only and are left out. Strategic merge is modelled for lists with a merge key, the only use
the three overridden lists (containers, variables, mounts) make of it. `patchPodSpec` sorts the lists of
`Containers[0]`, which is rabbitmq unless the override lists another container before it, so a spec has the
order of the containers in the override and the lists of a container of the user's own, and the template says
which container is `first`. That container is otherwise not followed: nothing but the sorting touches it. If its lists
are too short for the swaps, the operator panics (`PatchPanics`): that pass fails and the next one, in a new
process, does the same. The loops over lists (`Filter`, the merge, the swaps of `sortEnvVar`
and `sortVolumeMounts`) are written as recursive functions of how far the loop has come, as the Go loops
run, so that the proofs can follow them step by step.

Assumptions on the constants: no list of an override has two elements with one merge key (the API server
refuses those), and its variables and mounts for rabbitmq are in a container of that name; storage and claim templates are not edited (`PersistenceScaling` has the first, a changed
claim template is refused); every order of the map has every listener; null is no object.

## 3. Runs

| Run | Shows | Bounds |
|---|---|---|
| `reconcile_edits` | `NoLostWork`, `FinalizerBeforeChildren`, `ObservedIsCurrent`, `Convergence`, `TypeOK` with an edit, a pause or a change of the TLS Secret at any point | TLS with a Secret: 2 edits, 1 fault, 1 crash; TLS misconfigured: 2 edits; volumes to be shrunk: 1 edit |
| `reconcile_drift` | `NoLostWork`, `Convergence` with a child edited or deleted by others, a restart, a deferred plugin update, a panic, volumes that grow | 1 drift; 1 drift, restart and deferral; 1 edit and 1 fault |
| `volumes_grow` | `NoShrink`, `EachPodGetsItsSize`, `TypeOK` | 2 Pods, capacities 0, 1, 2; 2 edits, 2 stops, 1 lost claim |
| `children` | `PortsAgree`, `NonTLSListenersClosed`, `BindingUsable`, `PodCanStart`, `MountsInOrder`, `EnvDefinedFirst`, `HeadroomLeft`, `NodePortsKept`, `NeverJustReordered`, `Settles`, `TypeOK` | 493 specs in families, 1 edit, failure or deletion (2 for four specs), two orders of the map |
| `rollout` | `NoChangeLost`, `RestartsBounded`, `RebalancedAfterRoll`, `ConditionCurrent`, `ComesToRest`, `ImplementsRollout`, `TypeOK` | 2 Pods, 2 values of each field, 2 events (edits, failing calls, crashes, failing Pods) |
| `deletion_stale` | `LiveStsSurvives`, `DeletionCompletes`, `TypeOK` | 4 UIDs: two clusters, two StatefulSets; 1 fault or restart |

Why these bounds: a pass is lost, if at all, to *one* change at the wrong moment, and each
run has that change at every moment together with all delays of all caches; the bounds of
a run are the kinds of event it is about. The two runs of `ReconcileLoop` have families of behaviours, each with its
own events, since the product of all events is out of reach: about a million states each. Edits of
the configuration, which reach every child at once, are too many for them: `rollout` has these, drift
takes the same way through the builders, and the safety properties are proved for all edits. Three children give the loop a first, a middle
and the special last round. Two Pods separate "the first claim", "the last claim" and
"half of the claims". Four UIDs are the least with which both incarnations of a cluster
have had a StatefulSet. In `children` the specs are crossed within a family (all TLS settings with
all plugin sets and Service types; Vault with TLS and updater; extra files with storage; all lists
of up to three overridden mounts or variables, out of four of the operator's seven and one of the user's;
a container of the user's own or the operator's sidecar before and after rabbitmq, with lists of
different lengths; edits lead to the lists of up to two) and default across families, since no builder's
condition relates fields of two families. The memory limits, with a GiB of 2 units, are those around
0, multiples of 5 and the point where a fifth is 2 GiB. In `rollout` two Pods separate first and last
and two events are an edit that meets another edit, a failure or a crash anywhere. The safety properties are proved without bounds (section 5).
`CHECK_DEADLOCK FALSE` is set in the runs of `ReconcileLoop`, `ChildObjects`, `ConfigRollout`
and `Deletion`, whose systems come to rest; in `PersistenceScaling` there is always a next pass and deadlock is checked.

### Disagreements

Six runs check what a comment or message of the repository says and find it violated.

| Run | Said | Done |
|---|---|---|
| `scale_down_guard` | scale down is not supported | the cache does not have the StatefulSet yet, so the check is skipped; the cache catches up, `CreateOrUpdate` reads it again, finds the StatefulSet with more replicas and lowers them |
| `success_reported` | ReconcileSuccess is set after all steps have finished | the status update's error is logged and the pass ends well: at rest, everything done, not reported |
| `restart_lost` | changing the additional configuration triggers a rolling restart | the ConfigMap is updated first and annotated after; if the annotation fails or the operator stops between the two, no later pass restarts anything |
| `deletion_marks` | the marker is for the Pods of the cluster | Pods are listed by name without a namespace, so those of namesakes get it. The same happens inside one namespace after a restart from a lagging API server |
| `non_tls_disabled` | `disableNonTLSListeners` disables the listeners without TLS of web_mqtt and web_stomp, if enabled (`rabbitmqcluster_types.go:333`) | `configmap.go` turns these two off inside the branch for mutual TLS only; without a CA they stay open |
| `env_first` | `sortEnvVar` ensures that the three variables come first (`statefulset.go:294`), in the rabbitmq container (`:268`) | it swaps each into its place while going through the list once, so one that is swapped to the front of it is not looked at again; and with a sidecar listed before rabbitmq it sorts the sidecar's list |

### Seen while modelling, without a run of their own

* `runRabbitmqCLICommandsIfAnnotated` ignores a missing plugins ConfigMap and
  `pluginsConfigUpdatedRecently` then dereferences nil (`reconcile_cli.go:29`). `ReconcileLoop`
  has this panic, and `NoLostWork` and `Convergence` hold with it: the operator is restarted.
* Claims above `spec.replicas` are not grown when `spec.override` has more replicas
  (`scaling.go:82`). `EachPodGetsItsSize` speaks of the ordinals below `spec.replicas`.
* While the StatefulSet is deleted for growing its volumes there is no capacity to compare with
  (`scaling.go:50`), so a smaller one goes through; no claim shrinks (`NoShrink`).
* With `disableNonTLSListeners` the plugins that start as a dependency only keep their listeners without TLS:
  `rabbitmq_mqtt` with `rabbitmq_web_mqtt`, `rabbitmq_stomp` with `rabbitmq_web_stomp`, the stream plugin with
  `rabbitmq_multi_dc_replication`. `configmap.go` looks at the listed plugins. `NonTLSListenersClosed` names
  these, and the web plugins of `non_tls_disabled`, as the only listeners that stay open. The stream plugin's is also the
  exception in `PortsAgree`.
* With TLS from Vault and the other listeners disabled the default-user Secret names a port that
  is closed (`default_user_secret.go:125`): the exception in `BindingUsable`.
* `VariablesDefinedFirst` proves what it takes for the disagreement `env_first`: an override that lists the operator's
  own variables in another order than the operator, or another container before rabbitmq. These are the
  premises of `EnvDefinedFirst`.
* What `env_first` shows of the variables holds of the mounts too: with a container listed before rabbitmq
  (`op/docs/examples/sidecar` adds a sidecar by such an override, without rabbitmq in it) the sidecar's mounts are sorted, not rabbitmq's
  (`statefulset.go:276`), and a data directory overridden by the user is mounted before `/var/lib/rabbitmq/`. If the
  sidecar's lists are too short, the swap is out of range and the operator panics on every pass over this
  cluster, until the override is changed: the exception in `Settles`.
* `sortVolumeMounts` "always returns '/var/lib/rabbitmq/' and '/var/lib/rabbitmq/mnesia/' first"
  (`statefulset.go:312`). It goes by the name of the volume, not by the path: if an override mounts the volume of
  the Erlang cookie at a second path after the first, that mount is the one that ends up first, and the data
  directory comes before `/var/lib/rabbitmq/`. Hence the other premise of `MountsInOrder`.
* The plugins ConfigMap is marked when it is updated, not when it is created (`reconcile_rabbitmq_configurations.go:40`). If
  somebody deletes it before its command has run, the re-created one is not marked: one of the ways to be "lost" in `owed`.
* Annotations for Vault's injector stay on the template after Vault is removed from the spec.

## 4. Fairness

Only liveness uses it. `ReconcileLoop`: weak fairness of the pass together with the restart after a
panic (controller-runtime's worker takes every queued request, each step is code that runs, and the
operator is a Deployment), of the watch on the cluster, of the watches on the children taken together
and of the StatefulSet controller bringing Pods up. No fairness for users, faults, drift or crashes; they are bounded, so
`Convergence` speaks of the time after the last of them. `PersistenceScaling`: the same,
with the StatefulSet's deletion coming to its end and the controller creating missing
claims. `Deletion`: the pass and the watches, not the garbage collector. `ChildObjects`: the pass.
`ConfigRollout`: the pass, the StatefulSet controller and kubelet together, and the clock. The choice
inside a step, success or another conflict, is *not* fair; a pass may hit the conflict
branch again and again as long as a cache is behind, and the fairness of the watches is what
ends that.

## 5. Proofs

TLAPS proves, for all values of the constants that satisfy the named assumptions:

| Theorem | Statement |
|---|---|
| `ReconcileLoopProofs!TypeCorrect` | `Spec => []TypeOK` |
| `ReconcileLoopProofs!FinalizerFirst` | `Spec => []FinalizerBeforeChildren` |
| `ReconcileLoopProofs!ObservedGenerationIsCurrent` | `Spec => ObservedIsCurrent` |
| `ReconcileLoopProofs!NothingLost` | `Spec => []NoLostWork` |
| `PersistenceScalingProofs!ScalingTypeCorrect` | `Spec => []TypeOK` |
| `PersistenceScalingProofs!ClaimsNeverShrink` | `Spec => NoShrink` |
| `DeletionProofs!DeletionTypeCorrect` | `Spec => []TypeOK` |
| `DeletionProofs!StaleDeletionIsHarmless` | `Spec => LiveStsSurvives` |
| `ConfigRolloutProofs!NoRolloutLost` | `Spec => []NoChangeLost` |
| `ConfigRolloutProofs!RestartsEnd` | `Spec => []RestartsBounded` |
| `ConfigRolloutProofs!QueuesRebalanced` | `Spec => []RebalancedAfterRoll` |
| `ConfigRolloutProofs!ConditionNeverBehind` | `Spec => []ConditionCurrent` |
| `ConfigRolloutProofs!RolloutTypeCorrect` | `Spec => []TypeOK` |
| `ConfigRolloutProofs!RefinesRollout` | `Spec => Abs!Spec` |
| `ChildObjectsProofs!HeadroomAlwaysLeft` | `Spec => []HeadroomLeft` |
| `ChildObjectsProofs!NonTLSListenersStayClosed` | `Spec => []NonTLSListenersClosed` |
| `ChildObjectsProofs!TypeCorrect` | `Spec => []TypeOK` |
| `ChildObjectsProofs!PortsAlwaysAgree` | `Spec => []PortsAgree` |
| `ChildObjectsProofs!BindingAlwaysUsable` | `Spec => []BindingUsable` |
| `ChildObjectsProofs!PodCanAlwaysStart` | `Spec => []PodCanStart` |
| `ChildObjectsProofs!MountsAlwaysInOrder` | `Spec => []MountsInOrder` |
| `ChildObjectsProofs!EnvAlwaysDefinedFirst` | `Spec => []EnvDefinedFirst` |
| `ChildObjectsProofs!NodePortsAlwaysKept` | `Spec => NodePortsKept` |
| `ChildObjectsProofs!NeverOnlyReordered` | `Spec => NeverJustReordered` |
| `PodTemplateProofs!MountsSorted` | if rabbitmq is the first container, its merged and sorted mounts have /var/lib/rabbitmq/ before the data directory, for lists of any length |
| `PodTemplateProofs!VariablesDefinedFirst` | if rabbitmq is the first container and the override keeps the order of the operator's seven variables, the merged and sorted variables begin with the three that others refer to, for lists of any length |
| `ChildObjectsProofs!OfferedPortsServed` | for every spec, the ports of the Service are ports of the container and, but for the exception, served |

Assumptions: a positive number of children among which are the two ConfigMaps, specs of
the right type, edits between specs, null values that are no objects, natural numbers of events. Nothing is assumed of the
environment beyond the actions of the module.

*ReconcileLoop.* `NoLostWork` says something of the states at rest, so the invariant `IInv`
has to say what a running pass has achieved. The key is that it need say so only while
nothing is pending: no request queued and no event under way. Then the pass works on the
latest RabbitmqCluster (`PassOK`), the builders before the one it is at have left their
children as desired, after the loop all are, after the CLI checks the Pods are ready, and
one by one the markers are gone (`ChildrenOK`). A marker is written after the change it is
about, so `ReadsOK` keeps that an event is still under way at that point and that copies
read for the CLI commands are the latest unless one is. Any write of anybody makes something
pending again, so most actions preserve the invariant for that reason. `FinalizerOK` and
`Reached` carry the finalizer through stale copies: it is never removed, so a copy that has it
shows the object has it. All this gives `Settled`, `NoLostWork` without the ghost: at rest no marker is left.
`OwedOK` adds where the marker of a command that is due can be: on its object, about to be written, or
on a StatefulSet that is absent while its volumes grow. At rest it is in none of these places,
so nothing is due. `ObservedBounded` and `PassOK` give `ObservedIsCurrent`.

*PersistenceScaling.* The capacity check looks at the StatefulSet only, and at the start.
`TemplateBelow`: from the check on no StatefulSet has a template above the pass's capacity,
since nobody but this pass writes one. `ChosenBelow`: so a claim chosen for growth stays below it,
even one that was lost and created again meanwhile.

*Deletion.* UIDs are not reused, so a copy of a StatefulSet with the UID of the current one
names its owner (`SameOwner`), and a cluster once seen being deleted still is
(`StillDeleting`). So the UID a deleting pass holds is that of a StatefulSet owned by a
cluster that is being deleted or gone (`DeletesOwn`), however old the caches are.

*ConfigRollout.* All properties speak of rest, so `IInv` follows a change on its way. A Pod without
the published configuration is one of: lost, to be annotated, waiting for a restart, in a template
not noticed, old or down (`ConfUnderWay`). A pending restart has something that wakes the operator
(`RestartComes`), and the one case in which a restart is put off is covered because the roll that
is under way outlasts its second (`RollTakesTime`). Plugins have two ways to a Pod, and
`PluginsUnderWay` says how far the loop over the Pods has come, with Pods that are down exempt: they
will read the file. `RestartCount` ties the number of restarts to the order of the two times,
`RebalanceUnderWay` the rebalance mark to the Pods that are left, `ConditionUnderWay` the condition
to the status. The refinement maps `run` to the Pods' configuration, `pub` to the ConfigMap
and `forgotten` to the ghost; its proof needs only typing and goes action by action. Fairness of
`Rollout`, the promise that Pods do take over, is part of `ImplementsRollout` and is checked by TLC.

*PodTemplate.* What a loop leaves behind is proved by induction on how far it has come. The induction
theorem of the library has an operator as a parameter, which the provers cannot instantiate;
`NatSetInduction` states it with a set instead, which the provers can (a set that has 0 and, with each
number, its successor, has them all; it follows from the well-foundedness of `<`), and `UpTo` and `Iteration`
make it fit loops of n rounds and the recursive functions of the model. With it: what `Filter` keeps and in which order (`FilterElements`, `FilterKeepsOrder`,
`FilterSuffix`); that the merge goes through both lists to their ends, loses nothing, and keeps each in its
order (`MergeProgress`, `MergedElements`, `MergedInOrder`); that the swaps keep the elements
(`SwapElements`), leave the cookie's mount first (`CookieMountFirst`) and put the three variables in
front if the list has them in their order (`VariablesFirst`), which `InOperatorOrder` guarantees for
the merged list. Both results are about the rabbitmq container's lists where the code sorts them, that is with
`RabbitmqIsFirst`.

*ChildObjects.* `IInv` says that each object is one a builder makes (`SvcOK`, `DrawnOK`, `BuiltOK`), and
`Rendered`: if nothing is queued, what the pass has gone through is rendered from the spec. At rest
that is everything, and the properties become facts about a single spec: the conditions of
`generateServicePortsMap`, `updateContainerPorts`, `TLSKeys` and `Served` compared (`PortsAgree`,
`NonTLSListenersClosed`, `BindingUsable`), the volumes and paths behind each mount through merge and sort
(`PodCanStart`), `removeHeadroom`. A stored StatefulSet that is not yet rendered anew still has the template of *some*
spec, and says whether rabbitmq is its first container: all that `MountsInOrder` needs. The Service is followed through its update: what `updatePorts`
keeps and adds (`UpdatedPorts`), what the override adds in front (`SentPorts`), what the API server fills in
(`StoredPorts`). `SvcOK` carries what the two action properties need from one update to the next: names
determine ports, a user's port is the first, and outside ClusterIP no node port is missing. So a port that
stays keeps its number, and if the set of ports is the same, nothing is appended, the filter drops at most the user's
port, which the override puts back, and the list is the same too.

Every safety invariant and action property of the passing runs is proved. Only model-checked:
`Convergence`, `EachPodGetsItsSize`, `DeletionCompletes`, `Settles`, `ComesToRest` and the fairness in
`ImplementsRollout`, since liveness under fairness is out of the prover's reach, and the six
disagreements, which are counterexamples.

## 6. Mutants

Every property of every passing run has a mutant in `PROJECT.json`: a form of one definition
as a plausible bug would have it (marked "Mutant" where it is defined), under which TLC
finds the property violated in the same run.

## 7. Plan

Done: the reconciler, scaling and deletion with their proofs; `ConfigRollout` with its abstract
specification and refinement; the builders with theirs, down to the merged lists.

What could follow: `ClusterAvailable` and `NoWarnings` with transition times; an abstract desired-state
specification for `ReconcileLoop` itself; the filters of `internal/metadata` with user annotations on children;
a composition of `ConfigRollout` with lagging caches.

## 8. Not modelled

Generated deep copies; logging and events to the recorder; profiling; the exec transport of
`pod_executor.go` (its outcome is); YAML, shell and container builds; the system tests. The
Spring and .NET applications are a few lines of wiring each around libraries that are not in
the repository. Of the builders: the headless Service and the three RBAC objects, which depend on the
cluster's name only; images, resources, affinity, probe timings and security contexts, which are copied from
the spec; labels and user annotations. Of the status: `ClusterAvailable` and `NoWarnings`, which are reported
and not read by any step, reasons, messages and transition times.
