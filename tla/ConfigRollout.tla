---------------------------- MODULE ConfigRollout ----------------------------
(***************************************************************************)
(* How a change of configuration, plugins or image reaches the Pods: the   *)
(* annotations that one pass of Reconcile leaves for a later one,          *)
(* restartStatefulSetIfNeeded, runRabbitmqCLICommandsIfAnnotated, the      *)
(* AllReplicasReady condition and the mark for the queue rebalance, next   *)
(* to the StatefulSet controller that rolls the Pods.                      *)
(*                                                                         *)
(* Conflicts, lagging caches and drift are in ReconcileLoop; here the      *)
(* operator reads the latest objects.                                      *)
(*                                                                         *)
(* The code compares times of day with a resolution of one second.  All a  *)
(* comparison can tell is kept instead of the times: whether the clock is  *)
(* still at the second that an annotation names, and which of the two that *)
(* are compared is later.                                                  *)
(***************************************************************************)
EXTENDS Integers

CONSTANTS
    R,          \* Pods 1..R, by ordinal
    Values,     \* configurations, lists of plugins, images
    Deployed,   \* the spec that the cluster runs with at first
    None,       \* no pass is running; no annotation
    MaxEvents   \* edits of the spec, failing calls, crashes, Pods that fail

Specs == [conf: Values, plugins: Values, image: Values]

ASSUME RAssumption == R \in Nat \ {0}
ASSUME SpecsAssumption == Deployed \in Specs
ASSUME NoneAssumption == None \notin Specs /\ None \notin {"now", "past"} /\ None \notin Nat
ASSUME BoundsAssumption == MaxEvents \in Nat

Pods == 1..R
Locations == {"idle", "conditions", "mark", "plugins", "annotate plugins", "conf",
              "annotate conf", "sts", "restart", "cli", "set", "unmark", "queues"}

VARIABLES
    want,       \* RabbitmqCluster.Spec
    rebal,      \* it carries queueRebalanceNeededAt
    cond,       \* its condition AllReplicasReady
    pc, inst, i,    \* the pass, its copy of the spec, the Pod it is at
    queued,     \* the workqueue holds the request
    plugins,    \* the plugins ConfigMap
    pluginsAge, \* seconds since pluginsUpdatedAt, up to 2; None: not annotated
    conf,       \* the server-conf ConfigMap
    confAt,     \* None, "now" (this second) or "past": serverConfUpdatedAt
    image,      \* the Pod template, but for its annotations
    restartAt,  \* None, "now" or "past": lastRestartAt on the template
    order,      \* of lastRestartAt to serverConfUpdatedAt
    noticed,    \* the StatefulSet controller has seen the template
    pod,        \* [conf, plugins, state, old]; old: of an earlier template
    status,     \* of the StatefulSet: all ready; current = update revision
    lost,       \* updates whose annotation was never made
    restarts,   \* restarts since serverConfUpdatedAt
    seen,       \* a pass has seen the current template being rolled out
    stirred,    \* Pods were rolled since the last rebalance
    events      \* so far

clusterVars == <<want, rebal, cond>>
passVars == <<pc, inst, i>>
confVars == <<conf, confAt>>
pluginVars == <<plugins, pluginsAge>>
templateVars == <<image, restartAt, order, noticed>>
ghosts == <<lost, restarts, seen, stirred>>
vars == <<clusterVars, passVars, queued, confVars, pluginVars, templateVars,
          pod, status, ghosts, events>>

Init ==
    /\ want = Deployed /\ rebal = FALSE /\ cond = "True"
    /\ pc = "idle" /\ inst = None /\ i = 1 /\ queued = FALSE
    /\ plugins = want.plugins /\ pluginsAge = None
    /\ conf = want.conf /\ confAt = None
    /\ image = want.image /\ restartAt = None /\ order = "before" /\ noticed = TRUE
    /\ pod = [p \in Pods |-> [conf |-> conf, plugins |-> plugins,
                              state |-> "up", old |-> FALSE]]
    /\ status = [ready |-> TRUE, updated |-> TRUE]
    /\ lost = {} /\ restarts = 0 /\ seen = FALSE /\ stirred = FALSE
    /\ events = 0

Goto(loc) == pc' = loc /\ UNCHANGED <<inst, i>>

\* The pass is over; an error or a RequeueAfter puts the request back.
Return(requeue) ==
    /\ pc' = "idle" /\ inst' = None /\ i' = 1
    /\ queued' = (queued \/ requeue)

Event == events < MaxEvents /\ events' = events + 1

-----------------------------------------------------------------------------
(* One pass of Reconcile. *)

Start ==
    /\ pc = "idle" /\ queued
    /\ pc' = "conditions" /\ inst' = want /\ queued' = FALSE /\ UNCHANGED i
    /\ UNCHANGED <<clusterVars, confVars, pluginVars, templateVars, pod, status,
                   ghosts, events>>

\* Mutant: the condition does not become true again.
StaysNotReady == IF status.ready THEN cond ELSE "False"

AllReplicasReadyCondition == IF status.ready THEN "True" ELSE "False"

UpdateStatusConditions ==
    /\ pc = "conditions" /\ Goto("mark")
    /\ cond' = AllReplicasReadyCondition
    /\ queued' = (queued \/ cond' # cond)
    /\ UNCHANGED <<want, rebal, confVars, pluginVars, templateVars, pod, status,
                   ghosts, events>>

\* Mutant: a single request to rebalance is made, before the Pods are rolled.
MarkWhenReady == status.updated /\ R > 1

\* statefulSetNeedsQueueRebalance.
NeedsRebalance == ~status.updated /\ R > 1

MarkForQueueRebalance ==
    /\ pc = "mark" /\ Goto("plugins")
    /\ rebal' = (rebal \/ NeedsRebalance)
    /\ queued' = (queued \/ rebal' # rebal)
    /\ seen' = (seen \/ (NeedsRebalance /\ noticed))
    /\ UNCHANGED <<want, cond, confVars, pluginVars, templateVars, pod, status,
                   lost, restarts, stirred, events>>

\* CreateOrUpdate of the plugins ConfigMap.
ApplyPlugins ==
    /\ pc = "plugins"
    /\ plugins' = inst.plugins
    /\ queued' = (queued \/ plugins' # plugins)
    /\ Goto(IF plugins' # plugins THEN "annotate plugins" ELSE "conf")
    /\ UNCHANGED <<clusterVars, confVars, pluginsAge, templateVars, pod, status,
                   ghosts, events>>

\* annotateIfNeeded, or an error: the next pass finds nothing to update and
\* does not annotate.
AnnotatePlugins ==
    /\ pc = "annotate plugins"
    /\ \/ /\ pluginsAge' = 0 /\ lost' = lost \ {"plugins"}
          /\ Goto("conf") /\ queued' = TRUE /\ UNCHANGED events
       \/ /\ Event /\ lost' = lost \cup {"plugins"}
          /\ Return(TRUE) /\ UNCHANGED pluginsAge
    /\ UNCHANGED <<clusterVars, confVars, plugins, templateVars, pod, status,
                   restarts, seen, stirred>>

ApplyConf ==
    /\ pc = "conf"
    /\ conf' = inst.conf
    /\ queued' = (queued \/ conf' # conf)
    /\ Goto(IF conf' # conf THEN "annotate conf" ELSE "sts")
    /\ UNCHANGED <<clusterVars, confAt, pluginVars, templateVars, pod, status,
                   ghosts, events>>

AnnotateConf ==
    /\ pc = "annotate conf"
    /\ \/ /\ confAt' = "now" /\ order' = IF restartAt = "now" THEN "same" ELSE "before"
          /\ lost' = lost \ {"conf"} /\ restarts' = 0
          /\ Goto("sts") /\ queued' = TRUE /\ UNCHANGED events
       \/ /\ Event /\ lost' = lost \cup {"conf"}
          /\ Return(TRUE) /\ UNCHANGED <<confAt, order, restarts>>
    /\ UNCHANGED <<clusterVars, conf, pluginVars, image, restartAt, noticed, pod,
                   status, seen, stirred>>

\* Mutant: the template is rendered without the annotations it has.
ForgetRestartedAt == restartAt' = None /\ order' = "before"

\* ReconcileAnnotations: what is on the template stays.
KeepRestartedAt == UNCHANGED <<restartAt, order>>

ApplyStatefulSet ==
    /\ pc = "sts" /\ Goto("restart")
    /\ image' = inst.image /\ KeepRestartedAt
    /\ LET changed == image' # image \/ restartAt' # restartAt
       IN  /\ noticed' = (noticed /\ ~changed)
           /\ seen' = (seen /\ ~changed)
           /\ queued' = (queued \/ changed)
    /\ UNCHANGED <<clusterVars, confVars, pluginVars, pod, status, lost, restarts,
                   stirred, events>>

\* Mutant: a restart in the second of the update is taken for a later one.
NotBeforeUpdate == restartAt # None /\ order # "before"

\* stsRestartedAt > serverConfigUpdatedAt
RestartedSince == restartAt # None /\ order = "after"

\* Writing the same second again leaves the object as it is.
RestartStatefulSetIfNeeded ==
    /\ pc = "restart"
    /\ \/ /\ confAt = None \/ RestartedSince
          /\ Goto("cli") /\ UNCHANGED <<templateVars, queued, restarts, seen, events>>
       \/ /\ confAt # None /\ ~RestartedSince /\ restartAt = "now"
          /\ Goto("cli") /\ UNCHANGED <<templateVars, queued, restarts, seen, events>>
       \/ /\ confAt # None /\ ~RestartedSince /\ restartAt # "now"
          /\ restartAt' = "now" /\ noticed' = FALSE
          /\ order' = IF confAt = "now" THEN "same" ELSE "after"
          /\ seen' = FALSE /\ restarts' = restarts + 1
          /\ \/ Goto("cli") /\ queued' = TRUE /\ UNCHANGED events
             \/ Event /\ Return(TRUE)
          /\ UNCHANGED image
    /\ UNCHANGED <<clusterVars, confVars, pluginVars, pod, status, lost, stirred>>

\* Mutant: only the number of ready Pods is looked at.
AllReplicasReady == status.ready

allReplicasReadyAndUpdated == status.ready /\ status.updated

\* The checks of runRabbitmqCLICommandsIfAnnotated.
RunRabbitmqCLICommands ==
    /\ pc = "cli"
    /\ \/ /\ ~allReplicasReadyAndUpdated \/ pluginsAge \in {0, 1}
          /\ Return(TRUE)
       \/ /\ allReplicasReadyAndUpdated /\ pluginsAge \notin {0, 1}
          /\ Goto(IF pluginsAge = None THEN "queues" ELSE "set")
          /\ UNCHANGED queued
    /\ UNCHANGED <<clusterVars, confVars, pluginVars, templateVars, pod, status,
                   ghosts, events>>

\* Mutant: the last Pod is left out.
SetInMostPods == IF i + 1 < R THEN pc' = pc /\ i' = i + 1 ELSE pc' = "unmark" /\ i' = 1

\* Mutant: one Pod too many.
OnePodMore == IF i <= R THEN pc' = pc /\ i' = i + 1 ELSE pc' = "unmark" /\ i' = 1

NextPod == IF i < R THEN pc' = pc /\ i' = i + 1 ELSE pc' = "unmark" /\ i' = 1

\* runSetPluginsCommand in one Pod after another; exec fails in a Pod that is
\* not up, or fails although the command has run.
RunSetPlugins ==
    /\ pc = "set"
    /\ \/ /\ pod[i].state = "up"
          /\ pod' = [pod EXCEPT ![i].plugins = inst.plugins]
          /\ \/ NextPod /\ UNCHANGED <<inst, queued, events>>
             \/ Event /\ Return(TRUE)
       \/ /\ pod[i].state # "up"
          /\ Return(TRUE) /\ UNCHANGED <<pod, events>>
    /\ UNCHANGED <<clusterVars, confVars, pluginVars, templateVars, status, ghosts>>

DeletePluginsAnnotation ==
    /\ pc = "unmark"
    /\ \/ pluginsAge' = None /\ Goto("queues") /\ queued' = TRUE /\ UNCHANGED events
       \/ Event /\ Return(TRUE) /\ UNCHANGED pluginsAge
    /\ UNCHANGED <<clusterVars, confVars, plugins, templateVars, pod, status, ghosts>>

\* runQueueRebalanceCommand in the first Pod, then deleteAnnotation.
RunQueueRebalance ==
    /\ pc = "queues"
    /\ \/ ~rebal /\ Return(FALSE) /\ UNCHANGED <<rebal, stirred, events>>
       \/ /\ rebal /\ pod[1].state = "up"
          /\ stirred' = (stirred /\ \E p \in Pods : pod[p].old)
          /\ \/ rebal' = FALSE /\ Return(TRUE) /\ UNCHANGED events
             \/ Event /\ Return(TRUE) /\ UNCHANGED rebal
       \/ /\ rebal /\ pod[1].state # "up"
          /\ Return(TRUE) /\ UNCHANGED <<rebal, stirred, events>>
    /\ UNCHANGED <<want, cond, confVars, pluginVars, templateVars, pod, status,
                   lost, restarts, seen>>

\* The operator stops and is started again.
Crash ==
    /\ pc # "idle" /\ Event /\ Return(TRUE)
    /\ lost' = lost \cup (IF pc = "annotate plugins" THEN {"plugins"}
                          ELSE IF pc = "annotate conf" THEN {"conf"} ELSE {})
    /\ UNCHANGED <<clusterVars, confVars, pluginVars, templateVars, pod, status,
                   restarts, seen, stirred>>

Reconcile ==
    \/ Start \/ UpdateStatusConditions \/ MarkForQueueRebalance \/ ApplyPlugins
    \/ AnnotatePlugins \/ ApplyConf \/ AnnotateConf \/ ApplyStatefulSet
    \/ RestartStatefulSetIfNeeded \/ RunRabbitmqCLICommands \/ RunSetPlugins
    \/ DeletePluginsAnnotation \/ RunQueueRebalance

-----------------------------------------------------------------------------
(* The StatefulSet controller and the Pods, as the operator relies on them. *)

NoticeTemplate ==
    /\ ~noticed /\ noticed' = TRUE
    /\ pod' = [p \in Pods |-> [pod[p] EXCEPT !.old = TRUE]]
    /\ status' = [status EXCEPT !.updated = FALSE] /\ queued' = TRUE
    /\ UNCHANGED <<clusterVars, passVars, confVars, pluginVars, image, restartAt,
                   order, ghosts, events>>

\* From the last Pod to the first, each when those after it are up.
RollPod(p) ==
    /\ pod[p].old /\ pod[p].state = "up"
    /\ \A q \in Pods : q > p => pod[q].state = "up" /\ ~pod[q].old
    /\ pod' = [pod EXCEPT ![p].state = "down"] /\ stirred' = TRUE
    /\ UNCHANGED <<clusterVars, passVars, queued, confVars, pluginVars, templateVars,
                   status, lost, restarts, seen, events>>

\* RabbitMQ reads its configuration and the setup container the plugins.
StartPod(p) ==
    /\ pod[p].state = "down"
    /\ pod' = [pod EXCEPT ![p] = [conf |-> conf, plugins |-> plugins,
                                  state |-> "starting", old |-> FALSE]]
    /\ UNCHANGED <<clusterVars, passVars, queued, confVars, pluginVars, templateVars,
                   status, ghosts, events>>

\* The readiness probe succeeds.
PodBecomesReady(p) ==
    /\ pod[p].state = "started" /\ pod' = [pod EXCEPT ![p].state = "up"]
    /\ UNCHANGED <<clusterVars, passVars, queued, confVars, pluginVars, templateVars,
                   status, ghosts, events>>

\* A Pod is evicted, or its node is gone; another takes its place.
PodFails(p) ==
    /\ pod[p].state = "up" /\ Event
    /\ pod' = [pod EXCEPT ![p].state = "down"]
    /\ UNCHANGED <<clusterVars, passVars, queued, confVars, pluginVars, templateVars,
                   status, ghosts>>

Actual == [ready   |-> \A p \in Pods : pod[p].state = "up",
           updated |-> \A p \in Pods : ~pod[p].old]

UpdateStatus ==
    /\ status # Actual /\ status' = Actual /\ queued' = TRUE
    /\ UNCHANGED <<clusterVars, passVars, confVars, pluginVars, templateVars, pod,
                   ghosts, events>>

\* A second passes.  It takes a Pod longer to become ready.
Passed(t) == IF t = "now" THEN "past" ELSE t
Tick ==
    /\ \/ confAt = "now" \/ restartAt = "now" \/ pluginsAge \in {0, 1}
       \/ \E p \in Pods : pod[p].state = "starting"
    /\ confAt' = Passed(confAt) /\ restartAt' = Passed(restartAt)
    /\ pluginsAge' = IF pluginsAge \in {0, 1} THEN pluginsAge + 1 ELSE pluginsAge
    /\ pod' = [p \in Pods |-> IF pod[p].state = "starting"
                              THEN [pod[p] EXCEPT !.state = "started"] ELSE pod[p]]
    /\ UNCHANGED <<clusterVars, passVars, queued, conf, plugins, image, order,
                   noticed, status, ghosts, events>>

Kubernetes ==
    \/ NoticeTemplate \/ UpdateStatus
    \/ \E p \in Pods : RollPod(p) \/ StartPod(p) \/ PodBecomesReady(p)

UserEdit ==
    /\ Event
    /\ \E f \in {"conf", "plugins", "image"}, v \in Values :
         v # want[f] /\ want' = [want EXCEPT ![f] = v]
    /\ queued' = TRUE
    /\ UNCHANGED <<rebal, cond, passVars, confVars, pluginVars, templateVars, pod,
                   status, ghosts>>

Next ==
    \/ Reconcile \/ Crash \/ Kubernetes \/ Tick \/ UserEdit
    \/ \E p \in Pods : PodFails(p)

Spec == Init /\ [][Next]_vars

\* The workqueue runs what it holds, Kubernetes does not stop while it has work
\* to do, and time goes on.
FairSpec == Spec /\ WF_vars(Reconcile) /\ WF_vars(Kubernetes) /\ WF_vars(Tick)

-----------------------------------------------------------------------------
(* Properties. *)

PodType == [conf: Values, plugins: Values, state: {"up", "down", "starting", "started"}, old: BOOLEAN]

PassType ==
    /\ pc \in Locations /\ inst \in Specs \cup {None} /\ i \in Pods
    /\ pc # "idle" => inst \in Specs

FlagsType == {rebal, queued, noticed, seen, stirred} \subseteq BOOLEAN

ObjectsType ==
    /\ want \in Specs /\ plugins \in Values /\ conf \in Values /\ image \in Values
    /\ cond \in {"True", "False"} /\ pluginsAge \in {None, 0, 1, 2}
    /\ confAt \in {None, "now", "past"} /\ restartAt \in {None, "now", "past"}
    /\ order \in {"before", "same", "after"}
    /\ lost \subseteq {"conf", "plugins"} /\ restarts \in Nat /\ events \in 0..MaxEvents

PodsType == pod \in [Pods -> PodType] /\ status \in [ready: BOOLEAN, updated: BOOLEAN]

TypeOK == PassType /\ FlagsType /\ ObjectsType /\ PodsType

\* Nothing will happen without an edit or a failure.
AtRest ==
    /\ pc = "idle" /\ ~queued /\ noticed
    /\ status = Actual /\ Actual = [ready |-> TRUE, updated |-> TRUE]

(***************************************************************************)
(* No change is lost between the passes: at rest every Pod runs the        *)
(* configuration and the plugins of the spec, whatever was edited,         *)
(* restarted or failed while the change was under way.  The one exception  *)
(* is an update of a ConfigMap that was made and not annotated.            *)
(***************************************************************************)
NoChangeLost ==
    AtRest => \A p \in Pods :
        /\ "conf" \notin lost => pod[p].conf = want.conf
        /\ "plugins" \notin lost => pod[p].plugins = want.plugins

(***************************************************************************)
(* api/v1beta1/rabbitmqcluster_types.go: "Modifying this property on an    *)
(* existing RabbitmqCluster will trigger a StatefulSet rolling restart".   *)
(***************************************************************************)
ChangeRestarts == AtRest => \A p \in Pods : pod[p].conf = want.conf

(***************************************************************************)
(* An update restarts the StatefulSet once, or twice if the first restart  *)
(* is in the second of the update, never more: the comparison of the two   *)
(* annotations ends the restarts.                                          *)
(***************************************************************************)
RestartsBounded == restarts <= 2

(***************************************************************************)
(* Queues are rebalanced after a rolling update that a pass has seen, not  *)
(* before its last Pod is back.                                            *)
(***************************************************************************)
RebalancedAfterRoll == AtRest /\ seen => ~stirred

(***************************************************************************)
(* The condition AllReplicasReady is never left behind the status of the   *)
(* StatefulSet, although a pass reads the status once, at its beginning.   *)
(***************************************************************************)
ConditionCurrent == pc = "idle" /\ ~queued => (cond = "True" <=> status.ready)

(***************************************************************************)
(* The restarts, requeues and marks of a change come to an end.            *)
(***************************************************************************)
ComesToRest == <>[]AtRest

(***************************************************************************)
(* A change of configuration is rolled out the way Rollout promises.       *)
(***************************************************************************)
Abs == INSTANCE Rollout WITH
            want <- want.conf, pub <- conf, run <- [p \in Pods |-> pod[p].conf],
            forgotten <- "conf" \in lost

ImplementsRollout == Abs!FairSpec

-----------------------------------------------------------------------------
(***************************************************************************)
(* What makes the invariants inductive.  Each change is somewhere on its   *)
(* way: still queued, in the copy that a pass works from, published and to *)
(* be annotated, annotated and to be restarted, or in a template that the  *)
(* Pods have yet to take; and while it is, something is left that wakes    *)
(* the operator up.                                                        *)
(***************************************************************************)
UpToRestart == {"conditions", "mark", "plugins", "annotate plugins", "conf",
                "annotate conf", "sts", "restart"}
WithPlugins == Locations \ {"idle", "conditions", "mark", "plugins"}
WithConf == WithPlugins \ {"annotate plugins", "conf"}

CopyCurrent ==
    /\ ~queued /\ pc # "idle" => inst = want
    /\ ~queued /\ pc = "idle" => conf = want.conf /\ plugins = want.plugins
    /\ pc \in WithPlugins => plugins = inst.plugins
    /\ pc \in WithConf => conf = inst.conf

RestartPending == confAt # None /\ ~RestartedSince
Settled == noticed /\ status.ready /\ status.updated

ConfUnderWay ==
    \A p \in Pods :
        \/ pod[p].conf = conf \/ "conf" \in lost
        \/ pc = "annotate conf" \/ RestartPending \/ ~noticed
        \/ pod[p].old \/ pod[p].state = "down"

\* A restart that was put off, because its second was that of the restart
\* before, comes: no Pod is ready within that second.
RestartComes == RestartPending => queued \/ pc \in UpToRestart \/ ~Settled
RollTakesTime ==
    restartAt = "now" =>
        /\ ~Settled
        /\ noticed => \E p \in Pods : pod[p].old \/ pod[p].state \in {"down", "starting"}

PluginsUnderWay ==
    /\ \A p \in Pods :
        \/ pod[p].plugins = plugins \/ "plugins" \in lost
        \/ pc = "annotate plugins" \/ pluginsAge # None \/ pod[p].state = "down"
    /\ pc = "set" => \A p \in Pods :
         p < i => pod[p].plugins = plugins \/ pod[p].state = "down"
    /\ pc = "unmark" => \A p \in Pods : pod[p].plugins = plugins \/ pod[p].state = "down"
    /\ pc # "set" => i = 1

MarksKeepAwake ==
    /\ pluginsAge # None \/ rebal => queued \/ pc # "idle"
    /\ pc = "queues" => pluginsAge = None

RestartCount ==
    /\ order = "before" => restarts = 0
    /\ order = "same" => restarts <= 1 /\ confAt # None /\ (confAt = "now" <=> restartAt = "now")
    /\ order = "after" => restarts <= 2 /\ restartAt # None

NoneOld == \A p \in Pods : ~pod[p].old
RebalanceUnderWay ==
    /\ status.updated => NoneOld
    /\ seen => noticed /\ (rebal \/ (NoneOld /\ ~stirred))
    /\ seen /\ pc \in {"set", "unmark", "queues"} => NoneOld

ConditionUnderWay == ~queued /\ pc # "conditions" => (cond = "True" <=> status.ready)

IInv ==
    /\ TypeOK /\ CopyCurrent /\ ConfUnderWay /\ RestartComes /\ RollTakesTime
    /\ PluginsUnderWay /\ MarksKeepAwake /\ RestartCount /\ RebalanceUnderWay
    /\ ConditionUnderWay

=============================================================================
