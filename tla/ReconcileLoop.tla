---------------------------- MODULE ReconcileLoop ----------------------------
(***************************************************************************)
(* The control loop of the RabbitMQ cluster operator for ONE               *)
(* RabbitmqCluster that is not being deleted (Deletion has that path):     *)
(* RabbitmqClusterReconciler.Reconcile and the helpers it calls, the       *)
(* informer caches it reads, the API server it writes and the workqueue    *)
(* that wakes it up.                                                       *)
(*                                                                         *)
(* The operator reads the RabbitmqCluster and its children from informer   *)
(* caches that lag behind the API server, and writes to the API server     *)
(* under optimistic locking.  All the lock ever compares is whether a copy *)
(* is the latest version of its object, so a resourceVersion is            *)
(* represented by the Boolean "this copy is the latest version".           *)
(***************************************************************************)
EXTENDS Integers

CONSTANTS
    N,          \* children 1..N are built before the StatefulSet, child N+1
    Plugins,    \* the child that is the plugins ConfigMap
    Conf,       \* the child that is the server-conf ConfigMap
    Configs,    \* what the spec says of configuration, image, services, ...
    Specs,      \* the values users give to RabbitmqCluster.Spec
    NoChild,    \* the object does not exist
    NoInst,     \* no pass of Reconcile is running
    Edits,      \* the edits <<from, to>> that users make of it
    Starts      \* the specs that a cluster is created with, each with the
                \* number of environment events of each sort to come

Sts == N + 1
Kinds == 1..Sts

\* tls: "misconfigured" is DisableNonTLSListeners without TLS; "secret" is TLS
\* from a Secret that the user has to create.  skip: SkipPostDeploySteps.
SpecType == [config: Configs, replicas: Nat, storage: Nat,
             tls: {"none", "misconfigured", "secret"}, skip: BOOLEAN]
StsContent == [config: Configs, replicas: Nat, storage: Nat]
Budgets == {"edit", "fault", "drift", "restart", "defer", "crash"}

ASSUME NAssumption == N \in Nat \ {0} /\ Plugins \in 1..N /\ Conf \in 1..N
ASSUME SpecsAssumption == Specs \subseteq SpecType /\ Edits \subseteq Specs \X Specs
ASSUME NullAssumption == NoChild \notin StsContent \cup Configs
ASSUME StartsAssumption == Starts \subseteq Specs \X [Budgets -> Nat]

(***************************************************************************)
(* "absent": no StatefulSet; "starting": not all replicas ready;           *)
(* "rolling": currentRevision # updateRevision; "ready": all replicas      *)
(* ready and updated.                                                      *)
(***************************************************************************)
Phases == {"absent", "starting", "rolling", "ready"}

\* seen: what the conditions were last computed from; warn: NoWarnings=False
\* set by a paused pass; rs: ReconcileSuccess; bound: DefaultUser and Binding;
\* obs: ObservedGeneration.
Status == [seen: Phases \cup {"unset"}, warn: BOOLEAN,
           rs: {"Unknown", "True", "False"}, bound: BOOLEAN, obs: Nat]
Cluster == [spec: SpecType, gen: Nat, paused: BOOLEAN, defaulted: BOOLEAN,
            final: BOOLEAN, rebal: BOOLEAN, status: Status]

VARIABLES
    rmq,        \* the RabbitmqCluster in the API server
    cRmq,       \* the same in the informer cache
    rmqFresh,   \* cRmq is the latest version
    child,      \* child[i]: what the operator manages of child i, API server
    mark,       \* mark[i]: child i carries the operator's temporary annotation
    phase,      \* status of the StatefulSet
    cChild, cMark, cPhase,  \* the same three in the informer caches
    cFresh,     \* cFresh[i]: the cached child i is the latest version
    secret,     \* the user's TLS Secret exists and has its keys
    queued,     \* the workqueue holds the request
    pc,         \* where the running pass of Reconcile is
    k,          \* index of the builder the pass is at
    inst,       \* the pass's own copy of the RabbitmqCluster
    instFresh,  \* inst is the latest version
    held,       \* held[i]: the copy of child i read for the CLI commands is
                \* the latest version
    owed,       \* owed[i]: ghost, what has become of the command that the
                \* marker of child i stands for
    left        \* left[b]: environment events b still to come

objectVars == <<child, mark, phase, cFresh, held>>
childVars == <<objectVars, owed>>
apiVars == <<rmq, rmqFresh, childVars>>
cacheVars == <<cRmq, cChild, cMark, cPhase>>
passVars == <<pc, k, inst, instFresh>>
vars == <<apiVars, cacheVars, passVars, secret, queued, left>>

Locations == {"idle", "paused", "defaults", "finalizer", "conditions", "tls",
              "rebalance", "apply", "annotate", "guard", "pvc", "restart",
              "bind", "cli", "plugins", "flags", "queues", "finish", "panicked"}

(***************************************************************************)
(* The post-deploy commands are announced by a marker: set plugins by that *)
(* of the plugins ConfigMap, enable feature flags by that of the           *)
(* StatefulSet.  (The marker of server-conf asks for a restart, which      *)
(* ConfigRollout follows; rmq.rebal asks for the queue rebalance.)  A      *)
(* command is "due" from the write of CreateOrUpdate that calls for it     *)
(* until it has run, and "lost" if that write went through and the marker  *)
(* did not, or went with the ConfigMap.  No guard reads owed.              *)
(***************************************************************************)
Commands == {Plugins, Sts}
Debts == {"no", "due", "lost"}

ApiType == rmq \in Cluster /\ rmqFresh \in BOOLEAN

Children == Configs \cup StsContent \cup {NoChild}

ChildType ==
    /\ child \in [Kinds -> Children] /\ child[Sts] \in StsContent \cup {NoChild}
    /\ mark \in [Kinds -> BOOLEAN] /\ phase \in Phases
    /\ cFresh \in [Kinds -> BOOLEAN] /\ held \in [Kinds -> BOOLEAN]

CacheType ==
    /\ cRmq \in Cluster
    /\ cChild \in [Kinds -> Children] /\ cChild[Sts] \in StsContent \cup {NoChild}
    /\ cMark \in [Kinds -> BOOLEAN] /\ cPhase \in Phases

PassType ==
    /\ pc \in Locations /\ k \in Kinds
    /\ inst \in Cluster \cup {NoInst} /\ instFresh \in BOOLEAN
    /\ pc \notin {"idle", "panicked"} => inst \in Cluster
    /\ pc \in {"guard", "pvc"} => k = Sts
    /\ queued \in BOOLEAN

BudgetType == left \in [Budgets -> Nat]

StateType ==
    ApiType /\ ChildType /\ CacheType /\ PassType /\ BudgetType /\ secret \in BOOLEAN

TypeOK == StateType /\ owed \in [Kinds -> Debts]

-----------------------------------------------------------------------------
(* What the builders render from a spec (ResourceBuilders: Build, Update). *)
Desired(i, s) ==
    IF i = Sts
    THEN [config |-> s.config, replicas |-> s.replicas, storage |-> s.storage]
    ELSE s.config

\* A new RabbitmqCluster, before the operator has seen it.
NewCluster(s) ==
    [spec |-> s, gen |-> 1, paused |-> FALSE, defaulted |-> FALSE,
     final |-> FALSE, rebal |-> FALSE,
     status |-> [seen |-> "unset", warn |-> FALSE, rs |-> "Unknown",
                 bound |-> FALSE, obs |-> 0]]

Init ==
    /\ \E s \in Starts : rmq = NewCluster(s[1]) /\ left = s[2]
    /\ cRmq = rmq /\ rmqFresh = TRUE
    /\ child = [i \in Kinds |-> NoChild] /\ cChild = child
    /\ mark = [i \in Kinds |-> FALSE] /\ cMark = mark
    /\ phase = "absent" /\ cPhase = "absent"
    /\ cFresh = [i \in Kinds |-> TRUE]
    /\ secret = FALSE
    /\ queued = TRUE
    /\ pc = "idle" /\ k = 1 /\ inst = NoInst /\ instFresh = FALSE
    /\ held = [i \in Kinds |-> FALSE] /\ owed = [i \in Kinds |-> "no"]

Spend(b) == left[b] > 0 /\ left' = [left EXCEPT ![b] = @ - 1]

(***************************************************************************)
(* Control.  Return(TRUE) is a returned error or a RequeueAfter: both put  *)
(* the request back.  Return(FALSE) is ctrl.Result{}, nil.                 *)
(***************************************************************************)
Continue(new, loc) ==
    /\ pc' = loc /\ inst' = new
    /\ UNCHANGED <<k, instFresh, queued>>

Return(requeue) ==
    /\ pc' = "idle" /\ k' = 1 /\ inst' = NoInst /\ instFresh' = FALSE
    /\ queued' = (queued \/ requeue)

(***************************************************************************)
(* Update and Status().Update of the RabbitmqCluster.  Put: it is stored   *)
(* (storing an equal object makes no new version).  Rejected: conflict.    *)
(* Errored: any other error, after which the object may have been stored.  *)
(***************************************************************************)
Put(new) ==
    /\ instFresh
    /\ rmq' = new
    /\ rmqFresh' = (rmqFresh /\ new = rmq)

Rejected == ~instFresh /\ UNCHANGED <<rmq, rmqFresh>>

Errored(new) ==
    /\ Spend("fault")
    /\ UNCHANGED <<rmq, rmqFresh>> \/ Put(new)

\* Save new if it differs from inst; any error ends the pass with a requeue.
KeepOrUpdate(new, loc) ==
    /\ UNCHANGED <<childVars, cacheVars, secret>>
    /\ \/ /\ new = inst /\ Continue(inst, loc)
          /\ UNCHANGED <<rmq, rmqFresh, left>>
       \/ new # inst /\ Put(new) /\ Continue(new, loc) /\ UNCHANGED left
       \/ new # inst /\ Rejected /\ Return(TRUE) /\ UNCHANGED left
       \/ new # inst /\ Errored(new) /\ Return(TRUE)

\* The status update of setReconcileSuccess, whose error is only logged.
SetReconcileSuccess(value) ==
    LET new == [inst EXCEPT !.status.rs = value]
    IN  Put(new) \/ Rejected

-----------------------------------------------------------------------------
(* One pass of Reconcile, step by step. *)

\* getRabbitmqCluster (from the cache) and the pause label.
Start ==
    /\ pc = "idle" /\ queued
    /\ queued' = FALSE
    /\ inst' = cRmq /\ instFresh' = rmqFresh /\ k' = 1
    /\ pc' = IF cRmq.paused THEN "paused" ELSE "defaults"
    /\ UNCHANGED <<apiVars, cacheVars, secret, left>>

\* SetCondition changes a condition only if it is in the list already.
PausedExit ==
    /\ pc = "paused"
    /\ LET new == [inst EXCEPT !.status.warn = @ \/ inst.status.seen # "unset"]
       IN  \/ (Put(new) \/ Rejected) /\ UNCHANGED left
           \/ Errored(new)
    /\ Return(FALSE)
    /\ UNCHANGED <<childVars, cacheVars, secret>>

\* Image, pull secrets and updater image are filled in by one update each; an
\* error may leave some of them stored.  A conflict is reported as "requeue, no
\* error" and only the error is looked at: the pass goes on with what it has in
\* memory.
ReconcileOperatorDefaults ==
    /\ pc = "defaults"
    /\ LET new == [inst EXCEPT !.defaulted = TRUE]
           stored == [inst EXCEPT !.defaulted = TRUE, !.gen = @ + 1]
           partly == [inst EXCEPT !.gen = @ + 1]
       IN  \/ /\ inst.defaulted /\ Continue(inst, "finalizer")
              /\ UNCHANGED <<rmq, rmqFresh, left>>
           \/ /\ ~inst.defaulted /\ Put(stored)
              /\ Continue(stored, "finalizer") /\ UNCHANGED left
           \/ /\ ~inst.defaulted /\ Rejected
              /\ Continue(new, "finalizer") /\ UNCHANGED left
           \/ /\ ~inst.defaulted /\ (Errored(stored) \/ Errored(partly))
              /\ Return(TRUE)
    /\ UNCHANGED <<childVars, cacheVars, secret>>

\* Mutant: the finalizer waits until the cluster has a status.
AddFinalizerLate ==
    /\ pc = "finalizer"
    /\ KeepOrUpdate([inst EXCEPT !.final = @ \/ inst.status.seen # "unset"],
                    "conditions")

AddFinalizerIfNeeded ==
    /\ pc = "finalizer"
    /\ KeepOrUpdate([inst EXCEPT !.final = TRUE], "conditions")

UpdateStatusConditions ==
    /\ pc = "conditions"
    /\ KeepOrUpdate([inst EXCEPT !.status.seen = cPhase, !.status.warn = FALSE],
                    "tls")

\* Mutant: the Secret is looked for in the wrong place.
SecretNeverFound == inst.spec.tls = "secret"

\* checkTLSSecrets fails.
SecretMissing == inst.spec.tls = "secret" /\ ~secret

\* DisableNonTLSListeners without TLS is not tried again, only an edit helps.
\* A missing Secret is, because the Secrets of users are not watched.
TLSErrorRequeues == inst.spec.tls # "misconfigured"

ReconcileTLS ==
    /\ pc = "tls"
    /\ LET bad == inst.spec.tls = "misconfigured" \/ SecretMissing
       IN  \/ /\ bad
              /\ \/ SetReconcileSuccess("False") /\ UNCHANGED left
                 \/ Errored([inst EXCEPT !.status.rs = "False"])
              /\ Return(TLSErrorRequeues)
           \/ /\ ~bad
              /\ Continue(inst, "rebalance") /\ UNCHANGED <<rmq, rmqFresh, left>>
    /\ UNCHANGED <<childVars, cacheVars, secret>>

\* statefulSetNeedsQueueRebalance.
NeedsRebalance ==
    cPhase = "rolling" /\ ~inst.spec.skip /\ inst.spec.replicas > 1

MarkForQueueRebalance ==
    /\ pc = "rebalance"
    /\ KeepOrUpdate([inst EXCEPT !.rebal = @ \/ NeedsRebalance], "apply")

ScaleDownDetected ==
    cChild[Sts] # NoChild /\ cChild[Sts].replicas > inst.spec.replicas

\* The scale-down check, on the cached StatefulSet.
ScaleDown ==
    /\ pc = "guard"
    /\ \/ /\ ScaleDownDetected
          /\ \/ SetReconcileSuccess("False") /\ UNCHANGED left
             \/ Errored([inst EXCEPT !.status.rs = "False"])
          /\ Return(FALSE)
       \/ /\ ~ScaleDownDetected
          /\ Continue(inst, "pvc") /\ UNCHANGED <<rmq, rmqFresh, left>>
    /\ UNCHANGED <<childVars, cacheVars, secret>>

\* The command of child i once a write has called for it, and once the operator
\* has given up on the marker: one that is there already will do.
Due(i) == IF i \in Commands THEN "due" ELSE owed[i]
Forgone(i) == IF i \in Commands /\ ~mark[i] THEN "lost" ELSE owed[i]

\* A child's new version; the operator's caches learn of it later.
WriteObject(i, content, m, p) ==
    /\ child' = [child EXCEPT ![i] = content]
    /\ mark' = [mark EXCEPT ![i] = m]
    /\ phase' = p
    /\ cFresh' = [cFresh EXCEPT ![i] = FALSE]
    /\ held' = [held EXCEPT ![i] = FALSE]

WriteChild(i, content, m, p, o) ==
    WriteObject(i, content, m, p) /\ owed' = [owed EXCEPT ![i] = o]

\* Mutant: claims that have their size are scaled too.
TooSmallOrEqual == child[Sts].storage <= inst.spec.storage

\* pvcsNeedingScaling.
TooSmall == child[Sts].storage < inst.spec.storage

\* Shrinking and making an ephemeral cluster persistent are refused.
ScalingRefused ==
    \/ child[Sts].storage > inst.spec.storage
    \/ child[Sts].storage = 0 /\ inst.spec.storage # 0

(***************************************************************************)
(* PersistenceScaler.Scale, reading the API server itself.  The PVCs of a  *)
(* StatefulSet have the capacity of its template; making them larger       *)
(* deletes the StatefulSet (its Pods stay).                                *)
(***************************************************************************)
ReconcilePVC ==
    /\ pc = "pvc"
    /\ LET refuse == child[Sts] # NoChild /\ ScalingRefused
           grow == child[Sts] # NoChild /\ ~refuse /\ TooSmall
           DeleteSts == WriteChild(Sts, NoChild, FALSE, "absent", owed[Sts])
       IN  \/ /\ refuse /\ UNCHANGED childVars
              /\ \/ SetReconcileSuccess("False") /\ UNCHANGED left
                 \/ Errored([inst EXCEPT !.status.rs = "False"])
              /\ Return(TRUE)
           \/ /\ grow /\ DeleteSts
              /\ Continue(inst, "apply") /\ UNCHANGED <<rmq, rmqFresh, left>>
           \/ /\ ~refuse /\ ~grow /\ UNCHANGED childVars
              /\ Continue(inst, "apply") /\ UNCHANGED <<rmq, rmqFresh, left>>
           \/ /\ Spend("fault")
              /\ UNCHANGED childVars \/ (grow /\ DeleteSts)
              /\ SetReconcileSuccess("False")
              /\ Return(TRUE)
    /\ UNCHANGED <<cacheVars, secret>>

\* Mutant: the index moves on past the last builder.
AdvancePastEnd ==
    /\ pc' = IF k < N THEN "apply" ELSE IF k = N THEN "guard" ELSE "restart"
    /\ k' = k + 1
    /\ UNCHANGED <<inst, instFresh, queued>>

\* To the next builder, or on to what follows the loop.
Advance ==
    /\ pc' = IF k < N THEN "apply" ELSE IF k = N THEN "guard" ELSE "restart"
    /\ k' = IF k < Sts THEN k + 1 ELSE k
    /\ UNCHANGED <<inst, instFresh, queued>>

\* A changed pod template rolls the StatefulSet, new replicas have to start.
PhaseAfter(i, content) ==
    IF i # Sts THEN phase
    ELSE IF child[Sts] # NoChild /\ child[Sts].config # content.config
         THEN "rolling" ELSE "starting"

(***************************************************************************)
(* RetryOnConflict(CreateOrUpdate): Get from the cache, render the spec,   *)
(* then nothing, Create or Update.  A conflict is tried again, a retry     *)
(* reading the cache anew, which is to stay here until the cache is fresh; *)
(* or the retries run out.                                                 *)
(***************************************************************************)
CreateOrUpdate ==
    /\ pc = "apply"
    /\ LET want == Desired(k, inst.spec)
           create == cChild[k] = NoChild
           update == cChild[k] \notin {NoChild, want}
           Annotated == (update /\ k \in {Plugins, Conf}) \/ (create /\ k = Sts)
           Store(o) == WriteChild(k, want, mark[k], PhaseAfter(k, want),
                                  IF Annotated THEN o ELSE owed[k])
       IN  \/ /\ cChild[k] = want
              /\ Advance /\ UNCHANGED <<rmq, rmqFresh, childVars, left>>
           \/ /\ \/ create /\ child[k] = NoChild
                 \/ update /\ cFresh[k]
              /\ Store(Due(k))
              /\ IF Annotated THEN Continue(inst, "annotate") ELSE Advance
              /\ UNCHANGED <<rmq, rmqFresh, left>>
           \/ /\ \/ create /\ child[k] # NoChild
                 \/ update /\ ~cFresh[k]
              /\ SetReconcileSuccess("False") /\ Return(TRUE)
              /\ UNCHANGED <<childVars, left>>
           \/ /\ create \/ update
              /\ Spend("fault")
              /\ \/ UNCHANGED childVars
                 \/ create /\ child[k] = NoChild /\ Store(Forgone(k))
                 \/ update /\ cFresh[k] /\ Store(Forgone(k))
              /\ SetReconcileSuccess("False") /\ Return(TRUE)
    /\ UNCHANGED <<cacheVars, secret>>

\* The marker of child k is not going to be written.
Forgo == owed' = [owed EXCEPT ![k] = Forgone(k)]
GiveUp == Forgo /\ UNCHANGED objectVars

\* updateAnnotation reads the cache and retries conflicts and NotFound, so it
\* waits for the cache to show the write of CreateOrUpdate, or gives up.
AnnotateIfNeeded ==
    /\ pc = "annotate"
    /\ LET found == cChild[k] # NoChild /\ cFresh[k]
           Store == WriteChild(k, child[k], TRUE, phase, Due(k))
       IN  \/ found /\ Store /\ Advance /\ UNCHANGED left
           \/ ~found /\ GiveUp /\ UNCHANGED left /\ Return(TRUE)
           \/ /\ Spend("fault") /\ Return(TRUE)
              /\ GiveUp \/ (found /\ Store)
    /\ UNCHANGED <<rmq, rmqFresh, cacheVars, secret>>

(***************************************************************************)
(* restartStatefulSetIfNeeded.  Which of the two timestamps is later is    *)
(* left open here; only a marked server-conf can ask for a restart.        *)
(***************************************************************************)
RestartStatefulSetIfNeeded ==
    /\ pc = "restart"
    /\ LET lacking == \/ cChild[Conf] = NoChild
                      \/ cMark[Conf] /\ cChild[Sts] = NoChild
           Roll == WriteChild(Sts, child[Sts], mark[Sts], "rolling", owed[Sts])
       IN  \/ lacking /\ Return(TRUE) /\ UNCHANGED <<childVars, left>>
           \/ ~lacking /\ Continue(inst, "bind") /\ UNCHANGED <<childVars, left>>
           \/ /\ ~lacking /\ cMark[Conf] /\ Spend("restart")
              /\ \/ cFresh[Sts] /\ Roll /\ Continue(inst, "bind")
                 \/ ~cFresh[Sts] /\ UNCHANGED childVars /\ Return(TRUE)
           \/ /\ ~lacking /\ cMark[Conf] /\ Spend("fault")
              /\ UNCHANGED childVars \/ (cFresh[Sts] /\ Roll)
              /\ Return(TRUE)
    /\ UNCHANGED <<rmq, rmqFresh, cacheVars, secret>>

ReconcileStatus ==
    /\ pc = "bind"
    /\ KeepOrUpdate([inst EXCEPT !.status.bound = TRUE], "cli")

\* The checks of runRabbitmqCLICommandsIfAnnotated.  A missing plugins
\* ConfigMap is tolerated as an error but dereferenced as an object.
RunRabbitmqCLICommands ==
    /\ pc = "cli"
    /\ \/ /\ cChild[Sts] = NoChild
          /\ SetReconcileSuccess("False") /\ Return(TRUE) /\ UNCHANGED left
       \/ /\ cChild[Sts] # NoChild /\ cPhase # "ready"
          /\ Return(TRUE) /\ UNCHANGED <<rmq, rmqFresh, left>>
       \/ /\ cChild[Sts] # NoChild /\ cPhase = "ready"
          /\ cChild[Plugins] = NoChild
          /\ Continue(inst, "panicked") /\ UNCHANGED <<rmq, rmqFresh, left>>
       \/ /\ cChild[Sts] # NoChild /\ cPhase = "ready"
          /\ cChild[Plugins] # NoChild
          /\ \/ cMark[Plugins] /\ Spend("defer") /\ Return(TRUE)
             \/ Continue(inst, "plugins") /\ UNCHANGED left
          /\ UNCHANGED <<rmq, rmqFresh>>
    /\ held' = cFresh
    /\ UNCHANGED <<child, mark, phase, cFresh, owed, cacheVars, secret>>

\* Mutant: the marker is deleted first; a command that fails then is lost.
UnmarkAndRun(i, loc) ==
    /\ LET Unmark(o) == WriteChild(i, child[i], FALSE, phase, o)
       IN  \/ /\ held[i] => ~mark[i]
              /\ Continue(inst, loc)
              /\ UNCHANGED <<rmq, rmqFresh, childVars, left>>
           \/ /\ held[i] /\ mark[i] /\ Unmark("no") /\ Continue(inst, loc)
              /\ UNCHANGED <<rmq, rmqFresh, left>>
           \/ /\ held[i] /\ mark[i] /\ Spend("fault")
              /\ Unmark(owed[i]) /\ SetReconcileSuccess("False") /\ Return(TRUE)
    /\ UNCHANGED <<cacheVars, secret>>

(***************************************************************************)
(* exec in the Pods if the object read above is marked, then               *)
(* deleteAnnotation: one Update of that object.  A copy that is no longer  *)
(* the latest may or may not carry the mark.                               *)
(***************************************************************************)
RunAndUnmark(i, loc) ==
    /\ LET Unmark == WriteChild(i, child[i], FALSE, phase, "no")
       IN  \/ /\ held[i] => ~mark[i]
              /\ Continue(inst, loc)
              /\ UNCHANGED <<rmq, rmqFresh, childVars, left>>
           \/ /\ held[i] /\ mark[i] /\ Unmark /\ Continue(inst, loc)
              /\ UNCHANGED <<rmq, rmqFresh, left>>
           \/ /\ ~held[i] /\ UNCHANGED <<childVars, left>>
              /\ SetReconcileSuccess("False") /\ Return(TRUE)
           \/ /\ held[i] => mark[i]
              /\ Spend("fault")
              /\ UNCHANGED childVars \/ (held[i] /\ Unmark)
              /\ SetReconcileSuccess("False") /\ Return(TRUE)
    /\ UNCHANGED <<cacheVars, secret>>

RunSetPlugins == pc = "plugins" /\ RunAndUnmark(Plugins, "flags")
RunEnableFeatureFlags == pc = "flags" /\ RunAndUnmark(Sts, "queues")

RunQueueRebalance ==
    /\ pc = "queues"
    /\ LET new == [inst EXCEPT !.rebal = FALSE]
       IN  \/ /\ ~inst.rebal /\ Continue(inst, "finish")
              /\ UNCHANGED <<rmq, rmqFresh, left>>
           \/ inst.rebal /\ Put(new) /\ Continue(new, "finish") /\ UNCHANGED left
           \/ /\ inst.rebal /\ ~instFresh
              /\ SetReconcileSuccess("False") /\ Return(TRUE) /\ UNCHANGED left
           \/ /\ inst.rebal /\ Spend("fault")
              /\ SetReconcileSuccess("False") \/ Put(new)
              /\ Return(TRUE)
    /\ UNCHANGED <<childVars, cacheVars, secret>>

\* Mutant: a conflict is retried on the latest object, with the old generation.
FinishOnLatest ==
    /\ pc = "finish"
    /\ rmq' = [rmq EXCEPT !.status.obs = inst.gen, !.status.rs = "True"]
    /\ rmqFresh' = (rmqFresh /\ rmq' = rmq)
    /\ Return(FALSE)
    /\ UNCHANGED <<childVars, cacheVars, secret, left>>

\* The last status update; its error is only logged and the pass succeeds.
Finish ==
    /\ pc = "finish"
    /\ LET new == [inst EXCEPT !.status.obs = inst.gen, !.status.rs = "True"]
       IN  \/ (Put(new) \/ Rejected) /\ UNCHANGED left
           \/ Errored(new)
    /\ Return(FALSE)
    /\ UNCHANGED <<childVars, cacheVars, secret>>

Reconcile ==
    \/ Start \/ PausedExit \/ ReconcileOperatorDefaults
    \/ AddFinalizerIfNeeded \/ UpdateStatusConditions \/ ReconcileTLS
    \/ MarkForQueueRebalance \/ ScaleDown \/ ReconcilePVC \/ CreateOrUpdate
    \/ AnnotateIfNeeded \/ RestartStatefulSetIfNeeded \/ ReconcileStatus
    \/ RunRabbitmqCLICommands \/ RunSetPlugins \/ RunEnableFeatureFlags
    \/ RunQueueRebalance \/ Finish

-----------------------------------------------------------------------------
(* The informers: For(RabbitmqCluster) and Owns(...) enqueue the request.  *)

SyncCluster ==
    /\ ~rmqFresh
    /\ cRmq' = rmq /\ rmqFresh' = TRUE /\ queued' = TRUE
    /\ UNCHANGED <<rmq, childVars, cChild, cMark, cPhase, passVars, secret, left>>

\* Mutant: the controller does not own the children.
SyncChildSilently(i) ==
    /\ ~cFresh[i]
    /\ cChild' = [cChild EXCEPT ![i] = child[i]]
    /\ cMark' = [cMark EXCEPT ![i] = mark[i]]
    /\ cPhase' = IF i = Sts THEN phase ELSE cPhase
    /\ cFresh' = [cFresh EXCEPT ![i] = TRUE]
    /\ UNCHANGED <<rmq, rmqFresh, child, mark, phase, held, owed, cRmq, passVars,
                   secret, left, queued>>

SyncChild(i) ==
    /\ ~cFresh[i]
    /\ cChild' = [cChild EXCEPT ![i] = child[i]]
    /\ cMark' = [cMark EXCEPT ![i] = mark[i]]
    /\ cPhase' = IF i = Sts THEN phase ELSE cPhase
    /\ cFresh' = [cFresh EXCEPT ![i] = TRUE]
    /\ queued' = TRUE
    /\ UNCHANGED <<rmq, rmqFresh, child, mark, phase, held, owed, cRmq, passVars,
                   secret, left>>

\* The process stops and another takes over: it lists every object before it
\* starts its worker, and the list enqueues the request.
ProcessRestart ==
    /\ pc' = "idle" /\ k' = 1 /\ inst' = NoInst /\ instFresh' = FALSE
    /\ queued' = TRUE
    /\ cRmq' = rmq /\ rmqFresh' = TRUE
    /\ cChild' = child /\ cMark' = mark /\ cPhase' = phase
    /\ cFresh' = [i \in Kinds |-> TRUE]
    /\ held' = [i \in Kinds |-> FALSE]
    /\ UNCHANGED <<rmq, child, mark, phase, secret>>

Crash ==
    /\ pc # "panicked" /\ Spend("crash") /\ ProcessRestart
    /\ IF pc = "annotate" THEN Forgo ELSE UNCHANGED owed

RestartAfterPanic == pc = "panicked" /\ ProcessRestart /\ UNCHANGED <<left, owed>>

-----------------------------------------------------------------------------
(* Users, other controllers and the StatefulSet controller. *)

\* Any write of somebody else to the RabbitmqCluster.
UserWrites(new) ==
    /\ Spend("edit")
    /\ rmq' = new /\ rmqFresh' = FALSE /\ instFresh' = FALSE
    /\ UNCHANGED <<childVars, cacheVars, secret, queued, pc, k, inst>>

UserEdit == \E s \in Specs, d \in {rmq.defaulted, FALSE} :
    /\ <<rmq.spec, s>> \in Edits
    /\ UserWrites([rmq EXCEPT !.spec = s, !.defaulted = d, !.gen = @ + 1])

UserPause == UserWrites([rmq EXCEPT !.paused = ~@])

UserSecret ==
    /\ rmq.spec.tls = "secret"
    /\ Spend("edit") /\ secret' = ~secret
    /\ UNCHANGED <<apiVars, cacheVars, passVars, queued>>

\* Somebody deletes or edits a child; a StatefulSet's claim templates are
\* immutable.  A new ConfigMap is not marked, a new StatefulSet is.
Drift(i) ==
    /\ Spend("drift")
    /\ child[i] # NoChild
    /\ \/ WriteChild(i, NoChild, FALSE, IF i = Sts THEN "absent" ELSE phase,
                     IF i = Plugins /\ owed[i] = "due" THEN "lost" ELSE owed[i])
       \/ \E s \in Specs :
             /\ Desired(i, s) # child[i]
             /\ i = Sts => s.storage = child[i].storage
             /\ WriteChild(i, Desired(i, s), mark[i], PhaseAfter(i, Desired(i, s)), owed[i])
    /\ UNCHANGED <<rmq, rmqFresh, cacheVars, passVars, secret, queued>>

StsBecomesReady ==
    /\ phase \in {"starting", "rolling"}
    /\ WriteChild(Sts, child[Sts], mark[Sts], "ready", owed[Sts])
    /\ UNCHANGED <<rmq, rmqFresh, cacheVars, passVars, secret, queued, left>>

Environment ==
    \/ UserEdit \/ UserPause \/ UserSecret \/ StsBecomesReady
    \/ \E i \in Kinds : Drift(i)

Next ==
    \/ Reconcile \/ SyncCluster \/ (\E i \in Kinds : SyncChild(i))
    \/ Crash \/ RestartAfterPanic \/ Environment

Spec == Init /\ [][Next]_vars

\* The worker runs, the watches deliver, a crashed operator is restarted by
\* its Deployment, the StatefulSet controller brings Pods up.
FairSpec ==
    /\ Spec
    /\ WF_vars(Reconcile \/ RestartAfterPanic)
    /\ WF_vars(SyncCluster) /\ WF_vars(\E i \in Kinds : SyncChild(i))
    /\ WF_vars(StsBecomesReady)

-----------------------------------------------------------------------------
(* Properties. *)

\* Every child is what the spec asks for.
Converged == \A i \in Kinds : child[i] = Desired(i, rmq.spec)

\* Nothing will wake the operator up: no pass, no request, no event under way.
Quiescent ==
    /\ pc = "idle" /\ ~queued
    /\ rmqFresh /\ \A i \in Kinds : cFresh[i]

\* The three ways in which a pass ends without an error and without finishing:
\* the pause label, TLS misconfigured, a refused scale down (the builders
\* before the StatefulSet's have run by then).
Declined ==
    \/ rmq.paused
    \/ rmq.spec.tls = "misconfigured"
    \/ /\ child[Sts] # NoChild /\ child[Sts].replicas > rmq.spec.replicas
       /\ \A i \in 1..N : child[i] = Desired(i, rmq.spec)

\* Every child is there, no marker is left.
Applied ==
    /\ Converged
    /\ phase = "ready" /\ ~mark[Plugins] /\ ~mark[Sts]
    /\ rmq.defaulted /\ rmq.final /\ ~rmq.rebal /\ rmq.status.bound

\* So have the commands, but for those that are lost.
Done == Applied /\ \A i \in Commands : owed[i] # "due"

(***************************************************************************)
(* No work is lost.  Whatever the order of edits, cache updates,           *)
(* conflicts, errors, crashes and drift of the children, when nothing is   *)
(* left to wake the operator up either it has declined the spec or every   *)
(* child is as desired, the Pods are ready, no marker is left and every    *)
(* post-deploy command that a write of the operator has called for has     *)
(* run.  The exception is stated by "lost": the operator failed, gave up   *)
(* or stopped between that write and its marker, a second write, or        *)
(* somebody deleted the marked ConfigMap.  The next pass finds the child   *)
(* as desired, and the command is never run.                               *)
(***************************************************************************)
NoLostWork == Quiescent => Declined \/ Done

\* No child exists before the RabbitmqCluster carries the deletion finalizer:
\* otherwise deleting it would skip prepareForDeletion.
FinalizerBeforeChildren == (\E i \in Kinds : child[i] # NoChild) => rmq.final

\* ObservedGeneration only ever moves to the generation that is current when
\* it is written: a pass that worked from a stale RabbitmqCluster never
\* reports its generation, so the number never runs backwards.
ObservedIsCurrent ==
    [][rmq'.status.obs # rmq.status.obs =>
          rmq'.status.obs = rmq.gen /\ rmq.status.obs < rmq.gen]_vars

\* A failure that lasts until a user acts: claims that would shrink or would
\* become persistent, a TLS Secret that is missing.
Failing ==
    \/ /\ child[Sts] # NoChild
       /\ \/ child[Sts].storage > rmq.spec.storage
          \/ child[Sts].storage = 0 /\ rmq.spec.storage # 0
    \/ rmq.spec.tls = "secret" /\ ~secret

\* Once users, faults and drift stop, the operator gets there and stays there:
\* no marker, conflict or requeue keeps it going in circles.
Convergence == <>[](Declined \/ Failing \/ Done)

\* "cluster scale down not supported" (reconcile_scale_down.go:15): no step of
\* the operator lowers the replicas of an existing StatefulSet.
NoScaleDown ==
    [][(child[Sts] # NoChild /\ child'[Sts] # NoChild) =>
          child'[Sts].replicas >= child[Sts].replicas]_vars

\* "Set ReconcileSuccess to true and update observedGeneration after all
\* reconciliation steps have finished with no error"
\* (rabbitmqcluster_controller.go:236), as seen when the operator is at rest.
SuccessReported ==
    Quiescent /\ Done /\ ~Declined =>
        rmq.status.rs = "True" /\ rmq.status.obs = rmq.gen


-----------------------------------------------------------------------------
(***************************************************************************)
(* The invariant that makes NoLostWork and FinalizerBeforeChildren         *)
(* inductive.  Its core: a pass about which nothing has changed since it   *)
(* started (no request queued, no event under way) works on the latest     *)
(* RabbitmqCluster, and every builder before the one it is at has left its *)
(* child as desired.                                                       *)
(***************************************************************************)
Active == pc \notin {"idle", "panicked"}
Pending == queued \/ ~rmqFresh \/ \E i \in Kinds : ~cFresh[i]

InLoop == {"apply", "annotate", "guard", "pvc"}
AfterCli == {"plugins", "flags", "queues", "finish"}
AfterLoop == {"restart", "bind", "cli"} \cup AfterCli
BeforeLoop == {"paused", "defaults", "finalizer", "conditions", "tls", "rebalance"}
AfterFinalizer == {"conditions", "tls", "rebalance"} \cup InLoop \cup AfterLoop

CachesOK ==
    /\ rmqFresh => cRmq = rmq
    /\ \A i \in Kinds : cFresh[i] => cChild[i] = child[i] /\ cMark[i] = mark[i]
    /\ cFresh[Sts] => cPhase = phase

\* What the steps before location p have made of the pass's copy c.
Reached(p, c) ==
    /\ p = "paused" => c.paused
    /\ p \in AfterFinalizer \cup {"finalizer"} => c.defaulted
    /\ p \in AfterFinalizer => c.final
    /\ p \in {"cli"} \cup AfterCli => c.status.bound
    /\ p = "finish" => ~c.rebal

PassOK ==
    Active =>
        /\ instFresh => inst = rmq
        /\ ~queued /\ rmqFresh => instFresh
        /\ Reached(pc, inst)

\* A pass enters the builders' loop at its start.
IndexOK == pc \in BeforeLoop => k = 1

ReadsOK ==
    /\ pc = "annotate" => queued \/ ~cFresh[k]
    /\ pc \in AfterCli /\ ~queued =>
          \A i \in {Plugins, Sts} : cFresh[i] => held[i]

ChildrenOK ==
    ~Pending =>
        /\ pc \in InLoop => \A j \in 1..(k - 1) : child[j] = Desired(j, rmq.spec)
        /\ pc \in AfterLoop => Converged
        /\ pc \in AfterCli => phase = "ready"
        /\ pc \in AfterCli \ {"plugins"} => ~mark[Plugins]
        /\ pc \in {"queues", "finish"} => ~mark[Sts]

FinalizerOK ==
    /\ cRmq.final => rmq.final
    /\ Active /\ inst.final => rmq.final

ObservedBounded == rmq.status.obs <= rmq.gen

\* NoLostWork without the ghost.
Settled == Quiescent => Declined \/ Applied

\* Where to look for the marker of a command that is due.
OwedOK ==
    \A i \in Commands : owed[i] = "due" =>
        \/ mark[i]
        \/ pc = "annotate" /\ k = i
        \/ i = Sts /\ child[Sts] = NoChild

\* The part of the invariant that is about the RabbitmqCluster, and all of it.
ClusterInv ==
    /\ StateType /\ CachesOK /\ PassOK /\ FinalizerOK
    /\ FinalizerBeforeChildren /\ ObservedBounded

IInv == ClusterInv /\ IndexOK /\ ReadsOK /\ ChildrenOK /\ Settled

=============================================================================
