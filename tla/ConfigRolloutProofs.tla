------------------------- MODULE ConfigRolloutProofs -------------------------
(***************************************************************************)
(* Proofs about ConfigRollout for every number of Pods, all values and any *)
(* bound on edits and failures: IInv is inductive, its consequences, and   *)
(* that ConfigRollout implements Rollout.  There is a lemma for each       *)
(* action, with a step for each part of IInv.                              *)
(***************************************************************************)
EXTENDS ConfigRollout, TLAPS

LEMMA Fields ==
    \A s \in Specs : s.conf \in Values /\ s.plugins \in Values /\ s.image \in Values
BY DEF Specs

LEMMA ReturnType == ASSUME NEW q, Return(q) PROVE PassType'
BY RAssumption DEF Return, PassType, Locations, Pods

LEMMA EventType == ASSUME ObjectsType, Event PROVE events' \in 0..MaxEvents
BY BoundsAssumption DEF ObjectsType, Event

LEMMA GotoType ==
    ASSUME PassType, pc # "idle", NEW loc \in Locations, Goto(loc) PROVE PassType'
BY DEF Goto, PassType

LEMMA StartKeeps ==
    ASSUME IInv, Start
    PROVE  IInv'
<1> USE RAssumption, BoundsAssumption, NoneAssumption
    DEF Pods, clusterVars, passVars, confVars, pluginVars, templateVars, ghosts
<1>1. PassType'
  BY DEF IInv, TypeOK, PassType, ObjectsType, Locations, Start
<1>2. FlagsType'
  BY DEF IInv, TypeOK, FlagsType, Start
<1>3. ObjectsType'
  BY DEF IInv, TypeOK, ObjectsType, Start
<1>4. PodsType'
  BY DEF IInv, TypeOK, PodsType, PodType, Start
<1>5. CopyCurrent'
  BY DEF IInv, CopyCurrent, WithPlugins, WithConf, Locations, Start
<1>6. ConfUnderWay'
  BY DEF IInv, ConfUnderWay, RestartPending, RestartedSince, Start
<1>7. RestartComes'
  BY DEF IInv, RestartComes, RestartPending, RestartedSince, Settled, UpToRestart, Start
<1>8. RollTakesTime'
  BY DEF IInv, RollTakesTime, Settled, Start
<1>9. PluginsUnderWay'
  BY DEF IInv, PluginsUnderWay, Start
<1>10. MarksKeepAwake'
  BY DEF IInv, MarksKeepAwake, Start
<1>11. RestartCount'
  BY DEF IInv, RestartCount, Start
<1>12. RebalanceUnderWay'
  BY DEF IInv, RebalanceUnderWay, NoneOld, Start
<1>13. ConditionUnderWay'
  BY DEF IInv, ConditionUnderWay, Start
<1>. QED  BY <1>1, <1>2, <1>3, <1>4, <1>5, <1>6, <1>7, <1>8, <1>9, <1>10, <1>11,
    <1>12, <1>13 DEF IInv, TypeOK

LEMMA UpdateStatusConditionsKeeps ==
    ASSUME IInv, UpdateStatusConditions
    PROVE  IInv'
<1> USE RAssumption, BoundsAssumption, NoneAssumption
    DEF Pods, clusterVars, passVars, confVars, pluginVars, templateVars, ghosts
<1>1. PassType'
  BY DEF IInv, TypeOK, PassType, Locations, UpdateStatusConditions,
      AllReplicasReadyCondition, Goto
<1>2. FlagsType'
  BY DEF IInv, TypeOK, FlagsType, UpdateStatusConditions, AllReplicasReadyCondition,
      Goto
<1>3. ObjectsType'
  BY DEF IInv, TypeOK, ObjectsType, UpdateStatusConditions,
      AllReplicasReadyCondition, Goto
<1>4. PodsType'
  BY DEF IInv, TypeOK, PodsType, PodType, UpdateStatusConditions,
      AllReplicasReadyCondition, Goto
<1>5. CopyCurrent'
  BY DEF IInv, CopyCurrent, WithPlugins, WithConf, Locations,
      UpdateStatusConditions, AllReplicasReadyCondition, Goto
<1>6. ConfUnderWay'
  BY DEF IInv, ConfUnderWay, RestartPending, RestartedSince, UpdateStatusConditions,
      AllReplicasReadyCondition, Goto
<1>7. RestartComes'
  BY DEF IInv, RestartComes, RestartPending, RestartedSince, Settled, UpToRestart,
      UpdateStatusConditions, AllReplicasReadyCondition, Goto
<1>8. RollTakesTime'
  BY DEF IInv, RollTakesTime, Settled, UpdateStatusConditions,
      AllReplicasReadyCondition, Goto
<1>9. PluginsUnderWay'
  BY DEF IInv, PluginsUnderWay, UpdateStatusConditions, AllReplicasReadyCondition, Goto
<1>10. MarksKeepAwake'
  BY DEF IInv, MarksKeepAwake, UpdateStatusConditions, AllReplicasReadyCondition, Goto
<1>11. RestartCount'
  BY DEF IInv, RestartCount, UpdateStatusConditions, AllReplicasReadyCondition, Goto
<1>12. RebalanceUnderWay'
  BY DEF IInv, RebalanceUnderWay, NoneOld, UpdateStatusConditions,
      AllReplicasReadyCondition, Goto
<1>13. ConditionUnderWay'
  BY DEF IInv, ConditionUnderWay, UpdateStatusConditions, AllReplicasReadyCondition,
      Goto
<1>. QED  BY <1>1, <1>2, <1>3, <1>4, <1>5, <1>6, <1>7, <1>8, <1>9, <1>10, <1>11,
    <1>12, <1>13 DEF IInv, TypeOK

LEMMA MarkForQueueRebalanceKeeps ==
    ASSUME IInv, MarkForQueueRebalance
    PROVE  IInv'
<1> USE RAssumption, BoundsAssumption, NoneAssumption
    DEF Pods, clusterVars, passVars, confVars, pluginVars, templateVars, ghosts
<1>1. PassType'
  BY DEF IInv, TypeOK, PassType, Locations, MarkForQueueRebalance, NeedsRebalance, Goto
<1>2. FlagsType'
  BY DEF IInv, TypeOK, FlagsType, MarkForQueueRebalance, NeedsRebalance, Goto
<1>3. ObjectsType'
  BY DEF IInv, TypeOK, ObjectsType, MarkForQueueRebalance, NeedsRebalance, Goto
<1>4. PodsType'
  BY DEF IInv, TypeOK, PodsType, PodType, MarkForQueueRebalance, NeedsRebalance, Goto
<1>5. CopyCurrent'
  BY DEF IInv, CopyCurrent, WithPlugins, WithConf, Locations, MarkForQueueRebalance,
      NeedsRebalance, Goto
<1>6. ConfUnderWay'
  BY DEF IInv, ConfUnderWay, RestartPending, RestartedSince, MarkForQueueRebalance,
      NeedsRebalance, Goto
<1>7. RestartComes'
  BY DEF IInv, RestartComes, RestartPending, RestartedSince, Settled, UpToRestart,
      MarkForQueueRebalance, NeedsRebalance, Goto
<1>8. RollTakesTime'
  BY DEF IInv, RollTakesTime, Settled, MarkForQueueRebalance, NeedsRebalance, Goto
<1>9. PluginsUnderWay'
  BY DEF IInv, PluginsUnderWay, MarkForQueueRebalance, NeedsRebalance, Goto
<1>10. MarksKeepAwake'
  BY DEF IInv, MarksKeepAwake, MarkForQueueRebalance, NeedsRebalance, Goto
<1>11. RestartCount'
  BY DEF IInv, RestartCount, MarkForQueueRebalance, NeedsRebalance, Goto
<1>12. RebalanceUnderWay'
  BY DEF IInv, RebalanceUnderWay, NoneOld, MarkForQueueRebalance, NeedsRebalance, Goto
<1>13. ConditionUnderWay'
  BY DEF IInv, ConditionUnderWay, MarkForQueueRebalance, NeedsRebalance, Goto
<1>. QED  BY <1>1, <1>2, <1>3, <1>4, <1>5, <1>6, <1>7, <1>8, <1>9, <1>10, <1>11,
    <1>12, <1>13 DEF IInv, TypeOK

LEMMA ApplyPluginsKeeps ==
    ASSUME IInv, ApplyPlugins
    PROVE  IInv'
<1> USE RAssumption, BoundsAssumption, NoneAssumption
    DEF Pods, clusterVars, passVars, confVars, pluginVars, templateVars, ghosts
<1>1. PassType'
  BY DEF IInv, TypeOK, PassType, Locations, ApplyPlugins, Goto
<1>2. FlagsType'
  BY DEF IInv, TypeOK, FlagsType, ApplyPlugins, Goto
<1>3. ObjectsType'
  BY Fields DEF IInv, TypeOK, PassType, ObjectsType, ApplyPlugins, Goto
<1>4. PodsType'
  BY DEF IInv, TypeOK, PodsType, PodType, ApplyPlugins, Goto
<1>5. CopyCurrent'
  BY DEF IInv, CopyCurrent, WithPlugins, WithConf, Locations, ApplyPlugins, Goto
<1>6. ConfUnderWay'
  BY DEF IInv, ConfUnderWay, RestartPending, RestartedSince, ApplyPlugins, Goto
<1>7. RestartComes'
  BY DEF IInv, RestartComes, RestartPending, RestartedSince, Settled, UpToRestart,
      ApplyPlugins, Goto
<1>8. RollTakesTime'
  BY DEF IInv, RollTakesTime, Settled, ApplyPlugins, Goto
<1>9. PluginsUnderWay'
  BY DEF IInv, PluginsUnderWay, ApplyPlugins, Goto
<1>10. MarksKeepAwake'
  BY DEF IInv, MarksKeepAwake, ApplyPlugins, Goto
<1>11. RestartCount'
  BY DEF IInv, RestartCount, ApplyPlugins, Goto
<1>12. RebalanceUnderWay'
  BY DEF IInv, RebalanceUnderWay, NoneOld, ApplyPlugins, Goto
<1>13. ConditionUnderWay'
  BY DEF IInv, ConditionUnderWay, ApplyPlugins, Goto
<1>. QED  BY <1>1, <1>2, <1>3, <1>4, <1>5, <1>6, <1>7, <1>8, <1>9, <1>10, <1>11,
    <1>12, <1>13 DEF IInv, TypeOK

LEMMA AnnotatePluginsKeeps ==
    ASSUME IInv, AnnotatePlugins
    PROVE  IInv'
<1> USE RAssumption, BoundsAssumption, NoneAssumption
    DEF Pods, clusterVars, passVars, confVars, pluginVars, templateVars, ghosts
<1>1. PassType'
  BY ReturnType, GotoType DEF IInv, TypeOK, Locations, AnnotatePlugins
<1>2. FlagsType'
  BY DEF IInv, TypeOK, FlagsType, AnnotatePlugins, Goto, Return, Event
<1>3. ObjectsType'
  <2>1. lost' \subseteq {"conf", "plugins"}
    BY DEF IInv, TypeOK, ObjectsType, AnnotatePlugins
  <2>2. events' \in 0..MaxEvents
    BY EventType DEF IInv, TypeOK, ObjectsType, AnnotatePlugins
  <2>3. pluginsAge' \in {None, 0, 1, 2}
    BY DEF IInv, TypeOK, ObjectsType, AnnotatePlugins
  <2>. QED
    BY <2>1, <2>2, <2>3 DEF IInv, TypeOK, ObjectsType, AnnotatePlugins
<1>4. PodsType'
  BY DEF IInv, TypeOK, PodsType, PodType, AnnotatePlugins, Goto, Return, Event
<1>5. CopyCurrent'
  BY DEF IInv, CopyCurrent, WithPlugins, WithConf, Locations, AnnotatePlugins, Goto,
      Return, Event
<1>6. ConfUnderWay'
  BY DEF IInv, ConfUnderWay, RestartPending, RestartedSince, AnnotatePlugins, Goto,
      Return, Event
<1>7. RestartComes'
  BY DEF IInv, RestartComes, RestartPending, RestartedSince, Settled, UpToRestart,
      AnnotatePlugins, Goto, Return, Event
<1>8. RollTakesTime'
  BY DEF IInv, RollTakesTime, Settled, AnnotatePlugins, Goto, Return, Event
<1>9. PluginsUnderWay'
  <2>1. CASE pluginsAge' = 0
    <3>1. pluginsAge' # None
      BY <2>1
    <3>2. pc' \notin {"set", "unmark"} /\ i' = 1
      BY DEF IInv, PluginsUnderWay, AnnotatePlugins, Goto, Return
    <3>. QED  BY <3>1, <3>2 DEF PluginsUnderWay
  <2>2. CASE lost' = lost \cup {"plugins"}
    <3>1. "plugins" \in lost'
      BY <2>2
    <3>2. pc' \notin {"set", "unmark"} /\ i' = 1
      BY DEF IInv, PluginsUnderWay, AnnotatePlugins, Goto, Return
    <3>. QED  BY <3>1, <3>2 DEF PluginsUnderWay
  <2>. QED  BY <2>1, <2>2 DEF AnnotatePlugins
<1>10. MarksKeepAwake'
  BY DEF IInv, MarksKeepAwake, AnnotatePlugins, Goto, Return, Event
<1>11. RestartCount'
  BY DEF IInv, RestartCount, AnnotatePlugins, Goto, Return, Event
<1>12. RebalanceUnderWay'
  BY DEF IInv, RebalanceUnderWay, NoneOld, AnnotatePlugins, Goto, Return, Event
<1>13. ConditionUnderWay'
  BY DEF IInv, ConditionUnderWay, AnnotatePlugins, Goto, Return, Event
<1>. QED  BY <1>1, <1>2, <1>3, <1>4, <1>5, <1>6, <1>7, <1>8, <1>9, <1>10, <1>11,
    <1>12, <1>13 DEF IInv, TypeOK

LEMMA ApplyConfKeeps ==
    ASSUME IInv, ApplyConf
    PROVE  IInv'
<1> USE RAssumption, BoundsAssumption, NoneAssumption
    DEF Pods, clusterVars, passVars, confVars, pluginVars, templateVars, ghosts
<1>1. PassType'
  BY DEF IInv, TypeOK, PassType, Locations, ApplyConf, Goto
<1>2. FlagsType'
  BY DEF IInv, TypeOK, FlagsType, ApplyConf, Goto
<1>3. ObjectsType'
  BY Fields DEF IInv, TypeOK, PassType, ObjectsType, ApplyConf, Goto
<1>4. PodsType'
  BY DEF IInv, TypeOK, PodsType, PodType, ApplyConf, Goto
<1>5. CopyCurrent'
  BY DEF IInv, CopyCurrent, WithPlugins, WithConf, Locations, ApplyConf, Goto
<1>6. ConfUnderWay'
  BY DEF IInv, ConfUnderWay, RestartPending, RestartedSince, ApplyConf, Goto
<1>7. RestartComes'
  BY DEF IInv, RestartComes, RestartPending, RestartedSince, Settled, UpToRestart,
      ApplyConf, Goto
<1>8. RollTakesTime'
  BY DEF IInv, RollTakesTime, Settled, ApplyConf, Goto
<1>9. PluginsUnderWay'
  BY DEF IInv, PluginsUnderWay, ApplyConf, Goto
<1>10. MarksKeepAwake'
  BY DEF IInv, MarksKeepAwake, ApplyConf, Goto
<1>11. RestartCount'
  BY DEF IInv, RestartCount, ApplyConf, Goto
<1>12. RebalanceUnderWay'
  BY DEF IInv, RebalanceUnderWay, NoneOld, ApplyConf, Goto
<1>13. ConditionUnderWay'
  BY DEF IInv, ConditionUnderWay, ApplyConf, Goto
<1>. QED  BY <1>1, <1>2, <1>3, <1>4, <1>5, <1>6, <1>7, <1>8, <1>9, <1>10, <1>11,
    <1>12, <1>13 DEF IInv, TypeOK

LEMMA AnnotateConfKeeps ==
    ASSUME IInv, AnnotateConf
    PROVE  IInv'
<1> USE RAssumption, BoundsAssumption, NoneAssumption
    DEF Pods, clusterVars, passVars, confVars, pluginVars, templateVars, ghosts
<1>1. PassType'
  BY ReturnType, GotoType DEF IInv, TypeOK, Locations, AnnotateConf
<1>2. FlagsType'
  BY DEF IInv, TypeOK, FlagsType, AnnotateConf, Goto, Return, Event
<1>3. ObjectsType'
  <2>1. lost' \subseteq {"conf", "plugins"}
    BY DEF IInv, TypeOK, ObjectsType, AnnotateConf
  <2>2. events' \in 0..MaxEvents
    BY EventType DEF IInv, TypeOK, ObjectsType, AnnotateConf
  <2>3. /\ confAt' \in {None, "now", "past"} /\ order' \in {"before", "same", "after"}
        /\ restarts' \in Nat
    <3>1. CASE UNCHANGED <<confAt, order, restarts>>
      BY <3>1 DEF IInv, TypeOK, ObjectsType
    <3>2. CASE confAt' = "now" /\ order' \in {"before", "same"} /\ restarts' = 0
      BY <3>2
    <3>. QED  BY <3>1, <3>2 DEF AnnotateConf
  <2>. QED
    BY <2>1, <2>2, <2>3 DEF IInv, TypeOK, ObjectsType, AnnotateConf
<1>4. PodsType'
  BY DEF IInv, TypeOK, PodsType, PodType, AnnotateConf, Goto, Return, Event
<1>5. CopyCurrent'
  BY DEF IInv, CopyCurrent, WithPlugins, WithConf, Locations, AnnotateConf, Goto,
      Return, Event
<1>6. ConfUnderWay'
  BY DEF IInv, ConfUnderWay, RestartPending, RestartedSince, AnnotateConf, Goto,
      Return, Event
<1>7. RestartComes'
  BY DEF IInv, RestartComes, RestartPending, RestartedSince, Settled, UpToRestart,
      AnnotateConf, Goto, Return, Event
<1>8. RollTakesTime'
  BY DEF IInv, RollTakesTime, Settled, AnnotateConf, Goto, Return, Event
<1>9. PluginsUnderWay'
  BY DEF IInv, PluginsUnderWay, AnnotateConf, Goto, Return, Event
<1>10. MarksKeepAwake'
  BY DEF IInv, MarksKeepAwake, AnnotateConf, Goto, Return, Event
<1>11. RestartCount'
  <2>1. restartAt' = restartAt
    BY DEF AnnotateConf
  <2>2. CASE confAt' = "now" /\ order' = "same" /\ restartAt = "now" /\ restarts' = 0
    BY <2>1, <2>2 DEF RestartCount
  <2>3. CASE order' = "before" /\ restarts' = 0
    BY <2>3 DEF RestartCount
  <2>4. CASE UNCHANGED <<confAt, order, restarts>>
    BY <2>1, <2>4 DEF IInv, RestartCount
  <2>. QED  BY <2>2, <2>3, <2>4 DEF AnnotateConf
<1>12. RebalanceUnderWay'
  BY DEF IInv, RebalanceUnderWay, NoneOld, AnnotateConf, Goto, Return, Event
<1>13. ConditionUnderWay'
  BY DEF IInv, ConditionUnderWay, AnnotateConf, Goto, Return, Event
<1>. QED  BY <1>1, <1>2, <1>3, <1>4, <1>5, <1>6, <1>7, <1>8, <1>9, <1>10, <1>11,
    <1>12, <1>13 DEF IInv, TypeOK

LEMMA ApplyStatefulSetKeeps ==
    ASSUME IInv, ApplyStatefulSet
    PROVE  IInv'
<1> USE RAssumption, BoundsAssumption, NoneAssumption
    DEF Pods, clusterVars, passVars, confVars, pluginVars, templateVars, ghosts
<1>1. PassType'
  BY DEF IInv, TypeOK, PassType, Locations, ApplyStatefulSet, KeepRestartedAt, Goto
<1>2. FlagsType'
  BY DEF IInv, TypeOK, FlagsType, ApplyStatefulSet, KeepRestartedAt, Goto
<1>3. ObjectsType'
  BY Fields DEF IInv, TypeOK, PassType, ObjectsType, ApplyStatefulSet,
      KeepRestartedAt, Goto
<1>4. PodsType'
  BY DEF IInv, TypeOK, PodsType, PodType, ApplyStatefulSet, KeepRestartedAt, Goto
<1>5. CopyCurrent'
  BY DEF IInv, CopyCurrent, WithPlugins, WithConf, Locations, ApplyStatefulSet,
      KeepRestartedAt, Goto
<1>6. ConfUnderWay'
  BY DEF IInv, ConfUnderWay, RestartPending, RestartedSince, ApplyStatefulSet,
      KeepRestartedAt, Goto
<1>7. RestartComes'
  BY DEF IInv, RestartComes, RestartPending, RestartedSince, Settled, UpToRestart,
      ApplyStatefulSet, KeepRestartedAt, Goto
<1>8. RollTakesTime'
  BY DEF IInv, RollTakesTime, Settled, ApplyStatefulSet, KeepRestartedAt, Goto
<1>9. PluginsUnderWay'
  BY DEF IInv, PluginsUnderWay, ApplyStatefulSet, KeepRestartedAt, Goto
<1>10. MarksKeepAwake'
  BY DEF IInv, MarksKeepAwake, ApplyStatefulSet, KeepRestartedAt, Goto
<1>11. RestartCount'
  BY DEF IInv, RestartCount, ApplyStatefulSet, KeepRestartedAt, Goto
<1>12. RebalanceUnderWay'
  BY DEF IInv, RebalanceUnderWay, NoneOld, ApplyStatefulSet, KeepRestartedAt, Goto
<1>13. ConditionUnderWay'
  BY DEF IInv, ConditionUnderWay, ApplyStatefulSet, KeepRestartedAt, Goto
<1>. QED  BY <1>1, <1>2, <1>3, <1>4, <1>5, <1>6, <1>7, <1>8, <1>9, <1>10, <1>11,
    <1>12, <1>13 DEF IInv, TypeOK

LEMMA RestartStatefulSetIfNeededKeeps ==
    ASSUME IInv, RestartStatefulSetIfNeeded
    PROVE  IInv'
<1> USE RAssumption, BoundsAssumption, NoneAssumption
    DEF Pods, clusterVars, passVars, confVars, pluginVars, templateVars, ghosts
<1>1. PassType'
  BY ReturnType, GotoType DEF IInv, TypeOK, Locations, RestartStatefulSetIfNeeded
<1>2. FlagsType'
  BY DEF IInv, TypeOK, FlagsType, RestartStatefulSetIfNeeded, Goto, Return, Event
<1>3. ObjectsType'
  BY DEF IInv, TypeOK, ObjectsType, RestartStatefulSetIfNeeded, Goto, Return, Event
<1>4. PodsType'
  BY DEF IInv, TypeOK, PodsType, PodType, RestartStatefulSetIfNeeded, Goto, Return,
      Event
<1>5. CopyCurrent'
  BY DEF IInv, CopyCurrent, WithPlugins, WithConf, Locations,
      RestartStatefulSetIfNeeded, Goto, Return, Event
<1>6. ConfUnderWay'
  BY DEF IInv, ConfUnderWay, RestartPending, RestartedSince,
      RestartStatefulSetIfNeeded, Goto, Return, Event
<1>7. RestartComes'
  <2>1. CASE confAt = None \/ RestartedSince
    BY <2>1 DEF IInv, RestartComes, RestartPending, RestartedSince,
        RestartStatefulSetIfNeeded, templateVars, confVars
  <2>2. CASE confAt # None /\ ~RestartedSince /\ restartAt = "now"
    BY <2>2 DEF IInv, RollTakesTime, RestartComes, Settled,
        RestartStatefulSetIfNeeded, templateVars, confVars
  <2>3. CASE confAt # None /\ ~RestartedSince /\ restartAt # "now"
    BY <2>3 DEF RestartComes, Settled, RestartStatefulSetIfNeeded
  <2>. QED  BY <2>1, <2>2, <2>3
<1>8. RollTakesTime'
  BY DEF IInv, RollTakesTime, Settled, RestartStatefulSetIfNeeded, Goto, Return, Event
<1>9. PluginsUnderWay'
  BY DEF IInv, PluginsUnderWay, RestartStatefulSetIfNeeded, Goto, Return, Event
<1>10. MarksKeepAwake'
  BY DEF IInv, MarksKeepAwake, RestartStatefulSetIfNeeded, Goto, Return, Event
<1>11. RestartCount'
  <2>1. CASE UNCHANGED templateVars /\ UNCHANGED restarts
    BY <2>1 DEF IInv, RestartCount, RestartStatefulSetIfNeeded, templateVars, confVars
  <2>2. CASE /\ confAt # None /\ ~RestartedSince /\ restartAt # "now"
             /\ restartAt' = "now" /\ restarts' = restarts + 1
             /\ order' = IF confAt = "now" THEN "same" ELSE "after"
    <3>1. restarts \in Nat /\ order \in {"before", "same", "after"} /\ confAt' = confAt
      BY DEF IInv, TypeOK, ObjectsType, RestartStatefulSetIfNeeded, confVars
    <3>2. CASE confAt = "now"
      BY <2>2, <3>1, <3>2 DEF IInv, RestartCount, RestartedSince
    <3>3. CASE confAt # "now" /\ order # "after"
      BY <2>2, <3>1, <3>3 DEF IInv, RestartCount
    <3>4. CASE order = "after"
      BY <2>2, <3>1, <3>4 DEF IInv, RestartCount, RestartedSince
    <3>. QED  BY <3>2, <3>3, <3>4
  <2>. QED  BY <2>1, <2>2 DEF RestartStatefulSetIfNeeded
<1>12. RebalanceUnderWay'
  BY DEF IInv, RebalanceUnderWay, NoneOld, RestartStatefulSetIfNeeded, Goto, Return,
      Event
<1>13. ConditionUnderWay'
  BY DEF IInv, ConditionUnderWay, RestartStatefulSetIfNeeded, Goto, Return, Event
<1>. QED  BY <1>1, <1>2, <1>3, <1>4, <1>5, <1>6, <1>7, <1>8, <1>9, <1>10, <1>11,
    <1>12, <1>13 DEF IInv, TypeOK

LEMMA RunRabbitmqCLICommandsKeeps ==
    ASSUME IInv, RunRabbitmqCLICommands
    PROVE  IInv'
<1> USE RAssumption, BoundsAssumption, NoneAssumption
    DEF Pods, clusterVars, passVars, confVars, pluginVars, templateVars, ghosts
<1>1. PassType'
  BY ReturnType, GotoType DEF IInv, TypeOK, Locations, RunRabbitmqCLICommands
<1>2. FlagsType'
  BY DEF IInv, TypeOK, FlagsType, RunRabbitmqCLICommands,
      allReplicasReadyAndUpdated, Goto, Return
<1>3. ObjectsType'
  BY DEF IInv, TypeOK, ObjectsType, RunRabbitmqCLICommands,
      allReplicasReadyAndUpdated, Goto, Return
<1>4. PodsType'
  BY DEF IInv, TypeOK, PodsType, PodType, RunRabbitmqCLICommands,
      allReplicasReadyAndUpdated, Goto, Return
<1>5. CopyCurrent'
  BY DEF IInv, CopyCurrent, WithPlugins, WithConf, Locations,
      RunRabbitmqCLICommands, allReplicasReadyAndUpdated, Goto, Return
<1>6. ConfUnderWay'
  BY DEF IInv, ConfUnderWay, RestartPending, RestartedSince, RunRabbitmqCLICommands,
      allReplicasReadyAndUpdated, Goto, Return
<1>7. RestartComes'
  BY DEF IInv, RestartComes, RestartPending, RestartedSince, Settled, UpToRestart,
      RunRabbitmqCLICommands, allReplicasReadyAndUpdated, Goto, Return
<1>8. RollTakesTime'
  BY DEF IInv, RollTakesTime, Settled, RunRabbitmqCLICommands,
      allReplicasReadyAndUpdated, Goto, Return
<1>9. PluginsUnderWay'
  <2>1. i' = 1 /\ pc' \in {"idle", "queues", "set"}
    BY DEF IInv, PluginsUnderWay, RunRabbitmqCLICommands, Goto, Return
  <2>2. \A q \in Pods : ~(q < 1)
    OBVIOUS
  <2>. QED  BY <2>1, <2>2 DEF IInv, PluginsUnderWay, RunRabbitmqCLICommands,
      pluginVars, ghosts
<1>10. MarksKeepAwake'
  BY DEF IInv, MarksKeepAwake, RunRabbitmqCLICommands, allReplicasReadyAndUpdated,
      Goto, Return
<1>11. RestartCount'
  BY DEF IInv, RestartCount, RunRabbitmqCLICommands, allReplicasReadyAndUpdated,
      Goto, Return
<1>12. RebalanceUnderWay'
  BY DEF IInv, RebalanceUnderWay, NoneOld, RunRabbitmqCLICommands,
      allReplicasReadyAndUpdated, Goto, Return
<1>13. ConditionUnderWay'
  BY DEF IInv, ConditionUnderWay, RunRabbitmqCLICommands,
      allReplicasReadyAndUpdated, Goto, Return
<1>. QED  BY <1>1, <1>2, <1>3, <1>4, <1>5, <1>6, <1>7, <1>8, <1>9, <1>10, <1>11,
    <1>12, <1>13 DEF IInv, TypeOK

LEMMA RunSetPluginsKeeps ==
    ASSUME IInv, RunSetPlugins
    PROVE  IInv'
<1> USE RAssumption, BoundsAssumption, NoneAssumption
    DEF Pods, clusterVars, passVars, confVars, pluginVars, templateVars, ghosts
<1>1. PassType'
  <2>1. CASE NextPod /\ UNCHANGED inst
    <3>1. i' \in Pods /\ pc' \in {"set", "unmark"}
      BY <2>1 DEF IInv, TypeOK, PassType, NextPod, RunSetPlugins
    <3>. QED  BY <2>1, <3>1 DEF IInv, TypeOK, PassType, RunSetPlugins, Locations
  <2>. QED  BY <2>1, ReturnType DEF RunSetPlugins
<1>2. FlagsType'
  BY DEF IInv, TypeOK, FlagsType, RunSetPlugins, NextPod, Return, Event
<1>3. ObjectsType'
  BY DEF IInv, TypeOK, ObjectsType, RunSetPlugins, NextPod, Return, Event
<1>4. PodsType'
  BY Fields, SMTT(30) DEF IInv, TypeOK, PassType, ObjectsType, PodsType, PodType,
      RunSetPlugins, NextPod, Return, Event
<1>5. CopyCurrent'
  BY DEF IInv, CopyCurrent, WithPlugins, WithConf, Locations, RunSetPlugins,
      NextPod, Return, Event
<1>6. ConfUnderWay'
  <2>1. \A q \in Pods : /\ pod'[q].conf = pod[q].conf /\ pod'[q].old = pod[q].old
                        /\ pod'[q].state = pod[q].state
                        /\ pod'[q].plugins \in {pod[q].plugins, inst.plugins}
    <3>1. CASE pod' = pod
      BY <3>1
    <3>2. CASE pod' = [pod EXCEPT ![i].plugins = inst.plugins]
      BY <3>2 DEF IInv, TypeOK, PassType, FlagsType, ObjectsType, PodsType, PodType
    <3>. QED  BY <3>1, <3>2 DEF RunSetPlugins
  <2>2. pc' # "annotate conf" /\ pc # "annotate conf"
    BY DEF RunSetPlugins, NextPod, Return
  <2>. QED  BY <2>1, <2>2 DEF IInv, ConfUnderWay, RestartPending, RestartedSince,
      RunSetPlugins, confVars,
                              templateVars, ghosts
<1>7. RestartComes'
  BY DEF IInv, RestartComes, RestartPending, RestartedSince, Settled, UpToRestart,
      RunSetPlugins, NextPod, Return, Event
<1>8. RollTakesTime'
  <2>1. \A q \in Pods : /\ pod'[q].conf = pod[q].conf /\ pod'[q].old = pod[q].old
                        /\ pod'[q].state = pod[q].state
                        /\ pod'[q].plugins \in {pod[q].plugins, inst.plugins}
    <3>1. CASE pod' = pod
      BY <3>1
    <3>2. CASE pod' = [pod EXCEPT ![i].plugins = inst.plugins]
      BY <3>2 DEF IInv, TypeOK, PassType, FlagsType, ObjectsType, PodsType, PodType
    <3>. QED  BY <3>1, <3>2 DEF RunSetPlugins
  <2>. QED  BY <2>1 DEF IInv, RollTakesTime, Settled, RunSetPlugins, templateVars
<1>9. PluginsUnderWay'
  <2>1. \A q \in Pods : /\ pod'[q].conf = pod[q].conf /\ pod'[q].old = pod[q].old
                        /\ pod'[q].state = pod[q].state
                        /\ pod'[q].plugins \in {pod[q].plugins, inst.plugins}
    <3>1. CASE pod' = pod
      BY <3>1
    <3>2. CASE pod' = [pod EXCEPT ![i].plugins = inst.plugins]
      BY <3>2 DEF IInv, TypeOK, PassType, FlagsType, ObjectsType, PodsType, PodType
    <3>. QED  BY <3>1, <3>2 DEF RunSetPlugins
  <2>2. plugins = inst.plugins /\ plugins' = plugins /\ lost' = lost /\ pluginsAge' = pluginsAge
    BY DEF IInv, CopyCurrent, WithPlugins, Locations, RunSetPlugins, pluginVars, ghosts
  <2>3. pod[i].state = "up" => pod'[i].plugins = plugins
    BY <2>2 DEF IInv, TypeOK, PassType, FlagsType, ObjectsType, PodsType, PodType,
        RunSetPlugins
  <2>4. CASE NextPod /\ pod[i].state = "up"
    <3>1. \A q \in Pods : q < i => pod'[q].plugins = plugins \/ pod'[q].state = "down"
      BY <2>1, <2>2 DEF IInv, PluginsUnderWay, RunSetPlugins
    <3>2. i \in Pods
      BY DEF IInv, TypeOK, PassType
    <3>3. \A q \in Pods : q < i + 1 => pod'[q].plugins = plugins \/ pod'[q].state = "down"
      BY <2>3, <2>4, <3>1, <3>2
    <3>4. \A q \in Pods : ~(i < R) => q < i + 1
      BY <3>2
    <3>5. \A q \in Pods : \/ pod'[q].plugins = plugins' \/ "plugins" \in lost'
                          \/ pluginsAge' # None \/ pod'[q].state = "down"
      BY <2>1, <2>2 DEF IInv, PluginsUnderWay, RunSetPlugins
    <3>6. CASE i < R
      BY <2>2, <2>4, <3>3, <3>5, <3>6 DEF PluginsUnderWay, NextPod, RunSetPlugins
    <3>7. CASE ~(i < R)
      BY <2>2, <2>4, <3>3, <3>4, <3>5, <3>7 DEF PluginsUnderWay, NextPod
    <3>. QED  BY <3>6, <3>7
  <2>5. CASE Return(TRUE)
    BY <2>1, <2>2, <2>5 DEF IInv, PluginsUnderWay, Return, RunSetPlugins
  <2>. QED  BY <2>4, <2>5 DEF RunSetPlugins
<1>10. MarksKeepAwake'
  BY DEF IInv, MarksKeepAwake, RunSetPlugins, NextPod, Return, Event
<1>11. RestartCount'
  BY DEF IInv, RestartCount, RunSetPlugins, NextPod, Return, Event
<1>12. RebalanceUnderWay'
  <2>1. \A q \in Pods : /\ pod'[q].conf = pod[q].conf /\ pod'[q].old = pod[q].old
                        /\ pod'[q].state = pod[q].state
    <3>1. CASE pod' = pod
      BY <3>1
    <3>2. CASE pod' = [pod EXCEPT ![i].plugins = inst.plugins]
      BY <3>2 DEF IInv, TypeOK, PassType, PodsType, PodType
    <3>. QED  BY <3>1, <3>2 DEF RunSetPlugins
  <2>2. pc = "set" /\ pc' \in {"set", "unmark", "idle"}
    BY DEF RunSetPlugins, NextPod, Return
  <2>. QED  BY <2>1, <2>2 DEF IInv, RebalanceUnderWay, NoneOld, RunSetPlugins
<1>13. ConditionUnderWay'
  BY DEF IInv, ConditionUnderWay, RunSetPlugins, NextPod, Return, Event
<1>. QED  BY <1>1, <1>2, <1>3, <1>4, <1>5, <1>6, <1>7, <1>8, <1>9, <1>10, <1>11,
    <1>12, <1>13 DEF IInv, TypeOK

LEMMA DeletePluginsAnnotationKeeps ==
    ASSUME IInv, DeletePluginsAnnotation
    PROVE  IInv'
<1> USE RAssumption, BoundsAssumption, NoneAssumption
    DEF Pods, clusterVars, passVars, confVars, pluginVars, templateVars, ghosts
<1>1. PassType'
  BY ReturnType, GotoType DEF IInv, TypeOK, Locations, DeletePluginsAnnotation
<1>2. FlagsType'
  BY DEF IInv, TypeOK, FlagsType, DeletePluginsAnnotation, Goto, Return, Event
<1>3. ObjectsType'
  BY DEF IInv, TypeOK, ObjectsType, DeletePluginsAnnotation, Goto, Return, Event
<1>4. PodsType'
  BY DEF IInv, TypeOK, PodsType, PodType, DeletePluginsAnnotation, Goto, Return, Event
<1>5. CopyCurrent'
  BY DEF IInv, CopyCurrent, WithPlugins, WithConf, Locations,
      DeletePluginsAnnotation, Goto, Return, Event
<1>6. ConfUnderWay'
  BY DEF IInv, ConfUnderWay, RestartPending, RestartedSince,
      DeletePluginsAnnotation, Goto, Return, Event
<1>7. RestartComes'
  BY DEF IInv, RestartComes, RestartPending, RestartedSince, Settled, UpToRestart,
      DeletePluginsAnnotation, Goto, Return, Event
<1>8. RollTakesTime'
  BY DEF IInv, RollTakesTime, Settled, DeletePluginsAnnotation, Goto, Return, Event
<1>9. PluginsUnderWay'
  BY DEF IInv, PluginsUnderWay, DeletePluginsAnnotation, Goto, Return, Event
<1>10. MarksKeepAwake'
  BY DEF IInv, MarksKeepAwake, DeletePluginsAnnotation, Goto, Return, Event
<1>11. RestartCount'
  BY DEF IInv, RestartCount, DeletePluginsAnnotation, Goto, Return, Event
<1>12. RebalanceUnderWay'
  BY DEF IInv, RebalanceUnderWay, NoneOld, DeletePluginsAnnotation, Goto, Return, Event
<1>13. ConditionUnderWay'
  BY DEF IInv, ConditionUnderWay, DeletePluginsAnnotation, Goto, Return, Event
<1>. QED  BY <1>1, <1>2, <1>3, <1>4, <1>5, <1>6, <1>7, <1>8, <1>9, <1>10, <1>11,
    <1>12, <1>13 DEF IInv, TypeOK

LEMMA RunQueueRebalanceKeeps ==
    ASSUME IInv, RunQueueRebalance
    PROVE  IInv'
<1> USE RAssumption, BoundsAssumption, NoneAssumption
    DEF Pods, clusterVars, passVars, confVars, pluginVars, templateVars, ghosts
<1>1. PassType'
  BY ReturnType, GotoType DEF IInv, TypeOK, Locations, RunQueueRebalance
<1>2. FlagsType'
  BY DEF IInv, TypeOK, FlagsType, RunQueueRebalance, Return, Event
<1>3. ObjectsType'
  BY DEF IInv, TypeOK, ObjectsType, RunQueueRebalance, Return, Event
<1>4. PodsType'
  BY DEF IInv, TypeOK, PodsType, PodType, RunQueueRebalance, Return, Event
<1>5. CopyCurrent'
  BY DEF IInv, CopyCurrent, WithPlugins, WithConf, Locations, RunQueueRebalance,
      Return, Event
<1>6. ConfUnderWay'
  BY DEF IInv, ConfUnderWay, RestartPending, RestartedSince, RunQueueRebalance,
      Return, Event
<1>7. RestartComes'
  BY DEF IInv, RestartComes, RestartPending, RestartedSince, Settled, UpToRestart,
      RunQueueRebalance, Return, Event
<1>8. RollTakesTime'
  BY DEF IInv, RollTakesTime, Settled, RunQueueRebalance, Return, Event
<1>9. PluginsUnderWay'
  BY DEF IInv, PluginsUnderWay, RunQueueRebalance, Return, Event
<1>10. MarksKeepAwake'
  BY DEF IInv, TypeOK, PassType, FlagsType, MarksKeepAwake, RunQueueRebalance,
      Return, Event
<1>11. RestartCount'
  BY DEF IInv, RestartCount, RunQueueRebalance, Return, Event
<1>12. RebalanceUnderWay'
  BY SMTT(30) DEF IInv, TypeOK, PassType, FlagsType, PodsType, PodType, RebalanceUnderWay,
      NoneOld, RunQueueRebalance, Return, Event
<1>13. ConditionUnderWay'
  BY DEF IInv, ConditionUnderWay, RunQueueRebalance, Return, Event
<1>. QED  BY <1>1, <1>2, <1>3, <1>4, <1>5, <1>6, <1>7, <1>8, <1>9, <1>10, <1>11,
    <1>12, <1>13 DEF IInv, TypeOK

LEMMA CrashKeeps ==
    ASSUME IInv, Crash
    PROVE  IInv'
<1> USE RAssumption, BoundsAssumption, NoneAssumption
    DEF Pods, clusterVars, passVars, confVars, pluginVars, templateVars, ghosts
<1>1. PassType'
  BY ReturnType, GotoType DEF IInv, TypeOK, Locations, Crash
<1>2. FlagsType'
  BY DEF IInv, TypeOK, FlagsType, Crash, Return, Event
<1>3. ObjectsType'
  <2>1. lost' \subseteq {"conf", "plugins"}
    BY DEF IInv, TypeOK, ObjectsType, Crash
  <2>2. events' \in 0..MaxEvents
    BY EventType DEF IInv, TypeOK, ObjectsType, Crash
  <2>. QED
    BY <2>1, <2>2 DEF IInv, TypeOK, ObjectsType, Crash
<1>4. PodsType'
  BY DEF IInv, TypeOK, PodsType, PodType, Crash, Return, Event
<1>5. CopyCurrent'
  BY DEF IInv, CopyCurrent, WithPlugins, WithConf, Locations, Crash, Return, Event
<1>6. ConfUnderWay'
  BY DEF IInv, ConfUnderWay, RestartPending, RestartedSince, Crash, Return, Event
<1>7. RestartComes'
  BY DEF IInv, RestartComes, RestartPending, RestartedSince, Settled, UpToRestart,
      Crash, Return, Event
<1>8. RollTakesTime'
  BY DEF IInv, RollTakesTime, Settled, Crash, Return, Event
<1>9. PluginsUnderWay'
  BY DEF IInv, PluginsUnderWay, Crash, Return, Event
<1>10. MarksKeepAwake'
  BY DEF IInv, MarksKeepAwake, Crash, Return, Event
<1>11. RestartCount'
  BY DEF IInv, RestartCount, Crash, Return, Event
<1>12. RebalanceUnderWay'
  BY DEF IInv, RebalanceUnderWay, NoneOld, Crash, Return, Event
<1>13. ConditionUnderWay'
  BY DEF IInv, ConditionUnderWay, Crash, Return, Event
<1>. QED  BY <1>1, <1>2, <1>3, <1>4, <1>5, <1>6, <1>7, <1>8, <1>9, <1>10, <1>11,
    <1>12, <1>13 DEF IInv, TypeOK

LEMMA NoticeTemplateKeeps ==
    ASSUME IInv, NoticeTemplate
    PROVE  IInv'
<1> USE RAssumption, BoundsAssumption, NoneAssumption
    DEF Pods, clusterVars, passVars, confVars, pluginVars, templateVars, ghosts
<1>1. PassType'
  BY DEF IInv, TypeOK, PassType, Locations, NoticeTemplate
<1>2. FlagsType'
  BY DEF IInv, TypeOK, FlagsType, NoticeTemplate
<1>3. ObjectsType'
  BY DEF IInv, TypeOK, ObjectsType, NoticeTemplate
<1>4. PodsType'
  BY DEF IInv, TypeOK, PodsType, PodType, NoticeTemplate
<1>5. CopyCurrent'
  BY DEF IInv, CopyCurrent, WithPlugins, WithConf, Locations, NoticeTemplate
<1>6. ConfUnderWay'
  BY DEF IInv, TypeOK, PodsType, PodType, ConfUnderWay, RestartPending,
      RestartedSince, NoticeTemplate
<1>7. RestartComes'
  BY DEF IInv, RestartComes, RestartPending, RestartedSince, Settled, UpToRestart,
      NoticeTemplate
<1>8. RollTakesTime'
  <2>1. 1 \in Pods /\ pod'[1].old
    BY DEF IInv, TypeOK, PodsType, PodType, NoticeTemplate
  <2>2. ~status'.updated
    BY DEF IInv, TypeOK, PodsType, NoticeTemplate
  <2>. QED  BY <2>1, <2>2 DEF RollTakesTime, Settled
<1>9. PluginsUnderWay'
  BY ZenonT(40) DEF IInv, TypeOK, PodsType, PodType, PluginsUnderWay, NoticeTemplate
<1>10. MarksKeepAwake'
  BY DEF IInv, MarksKeepAwake, NoticeTemplate
<1>11. RestartCount'
  BY DEF IInv, RestartCount, NoticeTemplate
<1>12. RebalanceUnderWay'
  BY DEF IInv, RebalanceUnderWay, NoneOld, NoticeTemplate
<1>13. ConditionUnderWay'
  BY DEF IInv, ConditionUnderWay, NoticeTemplate
<1>. QED  BY <1>1, <1>2, <1>3, <1>4, <1>5, <1>6, <1>7, <1>8, <1>9, <1>10, <1>11,
    <1>12, <1>13 DEF IInv, TypeOK

LEMMA RollPodKeeps ==
    ASSUME IInv, NEW p \in Pods, RollPod(p)
    PROVE  IInv'
<1> USE RAssumption, BoundsAssumption, NoneAssumption
    DEF Pods, clusterVars, passVars, confVars, pluginVars, templateVars, ghosts
<1>1. PassType'
  BY DEF IInv, TypeOK, PassType, Locations, RollPod
<1>2. FlagsType'
  BY DEF IInv, TypeOK, FlagsType, RollPod
<1>3. ObjectsType'
  BY DEF IInv, TypeOK, ObjectsType, RollPod
<1>4. PodsType'
  BY DEF IInv, TypeOK, PodsType, PodType, RollPod
<1>5. CopyCurrent'
  BY DEF IInv, CopyCurrent, WithPlugins, WithConf, Locations, RollPod
<1>6. ConfUnderWay'
  BY DEF IInv, TypeOK, PodsType, PodType, ConfUnderWay, RestartPending,
      RestartedSince, RollPod
<1>7. RestartComes'
  BY DEF IInv, RestartComes, RestartPending, RestartedSince, Settled, UpToRestart,
      RollPod
<1>8. RollTakesTime'
  BY DEF IInv, RollTakesTime, Settled, RollPod
<1>9. PluginsUnderWay'
  BY DEF IInv, TypeOK, PodsType, PodType, PluginsUnderWay, RollPod
<1>10. MarksKeepAwake'
  BY DEF IInv, MarksKeepAwake, RollPod
<1>11. RestartCount'
  BY DEF IInv, RestartCount, RollPod
<1>12. RebalanceUnderWay'
  BY DEF IInv, RebalanceUnderWay, NoneOld, RollPod
<1>13. ConditionUnderWay'
  BY DEF IInv, ConditionUnderWay, RollPod
<1>. QED  BY <1>1, <1>2, <1>3, <1>4, <1>5, <1>6, <1>7, <1>8, <1>9, <1>10, <1>11,
    <1>12, <1>13 DEF IInv, TypeOK

LEMMA StartPodKeeps ==
    ASSUME IInv, NEW p \in Pods, StartPod(p)
    PROVE  IInv'
<1> USE RAssumption, BoundsAssumption, NoneAssumption
    DEF Pods, clusterVars, passVars, confVars, pluginVars, templateVars, ghosts
<1>1. PassType'
  BY DEF IInv, TypeOK, PassType, Locations, StartPod
<1>2. FlagsType'
  BY DEF IInv, TypeOK, FlagsType, StartPod
<1>3. ObjectsType'
  BY DEF IInv, TypeOK, ObjectsType, StartPod
<1>4. PodsType'
  BY Fields DEF IInv, TypeOK, PassType, ObjectsType, PodsType, PodType, StartPod
<1>5. CopyCurrent'
  BY DEF IInv, CopyCurrent, WithPlugins, WithConf, Locations, StartPod
<1>6. ConfUnderWay'
  BY DEF IInv, TypeOK, PodsType, PodType, ConfUnderWay, RestartPending,
      RestartedSince, StartPod
<1>7. RestartComes'
  BY DEF IInv, RestartComes, RestartPending, RestartedSince, Settled, UpToRestart,
      StartPod
<1>8. RollTakesTime'
  BY DEF IInv, RollTakesTime, Settled, StartPod
<1>9. PluginsUnderWay'
  BY DEF IInv, TypeOK, PodsType, PodType, PluginsUnderWay, StartPod
<1>10. MarksKeepAwake'
  BY DEF IInv, MarksKeepAwake, StartPod
<1>11. RestartCount'
  BY DEF IInv, RestartCount, StartPod
<1>12. RebalanceUnderWay'
  BY DEF IInv, RebalanceUnderWay, NoneOld, StartPod
<1>13. ConditionUnderWay'
  BY DEF IInv, ConditionUnderWay, StartPod
<1>. QED  BY <1>1, <1>2, <1>3, <1>4, <1>5, <1>6, <1>7, <1>8, <1>9, <1>10, <1>11,
    <1>12, <1>13 DEF IInv, TypeOK

LEMMA PodBecomesReadyKeeps ==
    ASSUME IInv, NEW p \in Pods, PodBecomesReady(p)
    PROVE  IInv'
<1> USE RAssumption, BoundsAssumption, NoneAssumption
    DEF Pods, clusterVars, passVars, confVars, pluginVars, templateVars, ghosts
<1>1. PassType'
  BY DEF IInv, TypeOK, PassType, Locations, PodBecomesReady
<1>2. FlagsType'
  BY DEF IInv, TypeOK, FlagsType, PodBecomesReady
<1>3. ObjectsType'
  BY DEF IInv, TypeOK, ObjectsType, PodBecomesReady
<1>4. PodsType'
  BY DEF IInv, TypeOK, PodsType, PodType, PodBecomesReady
<1>5. CopyCurrent'
  BY DEF IInv, CopyCurrent, WithPlugins, WithConf, Locations, PodBecomesReady
<1>6. ConfUnderWay'
  <2>1. \A q \in Pods : /\ pod'[q].conf = pod[q].conf /\ pod'[q].plugins = pod[q].plugins
                        /\ pod'[q].old = pod[q].old
                        /\ pod[q].state = "down" => pod'[q].state = "down"
    BY DEF IInv, TypeOK, PassType, FlagsType, ObjectsType, PodsType, PodType,
        PodBecomesReady
  <2>2. /\ UNCHANGED <<conf, confAt, restartAt, order, noticed, lost, pc>>
        /\ RestartPending' <=> RestartPending
    BY DEF RestartPending, RestartedSince, PodBecomesReady, passVars, confVars,
        templateVars, ghosts
  <2>. QED  BY <2>1, <2>2 DEF IInv, ConfUnderWay
<1>7. RestartComes'
  BY DEF IInv, RestartComes, RestartPending, RestartedSince, Settled, UpToRestart,
      PodBecomesReady
<1>8. RollTakesTime'
  BY DEF IInv, RollTakesTime, Settled, PodBecomesReady
<1>9. PluginsUnderWay'
  <2>1. \A q \in Pods : /\ pod'[q].conf = pod[q].conf /\ pod'[q].plugins = pod[q].plugins
                        /\ pod'[q].old = pod[q].old
                        /\ pod[q].state = "down" => pod'[q].state = "down"
    BY DEF IInv, TypeOK, PassType, FlagsType, ObjectsType, PodsType, PodType,
        PodBecomesReady
  <2>2. UNCHANGED <<plugins, pluginsAge, lost, pc, i>>
    BY DEF PodBecomesReady, passVars, pluginVars, ghosts
  <2>. QED  BY <2>1, <2>2 DEF IInv, PluginsUnderWay
<1>10. MarksKeepAwake'
  BY DEF IInv, MarksKeepAwake, PodBecomesReady
<1>11. RestartCount'
  BY DEF IInv, RestartCount, PodBecomesReady
<1>12. RebalanceUnderWay'
  BY DEF IInv, RebalanceUnderWay, NoneOld, PodBecomesReady
<1>13. ConditionUnderWay'
  BY DEF IInv, ConditionUnderWay, PodBecomesReady
<1>. QED  BY <1>1, <1>2, <1>3, <1>4, <1>5, <1>6, <1>7, <1>8, <1>9, <1>10, <1>11,
    <1>12, <1>13 DEF IInv, TypeOK

LEMMA PodFailsKeeps ==
    ASSUME IInv, NEW p \in Pods, PodFails(p)
    PROVE  IInv'
<1> USE RAssumption, BoundsAssumption, NoneAssumption
    DEF Pods, clusterVars, passVars, confVars, pluginVars, templateVars, ghosts
<1>1. PassType'
  BY DEF IInv, TypeOK, PassType, Locations, PodFails, Event
<1>2. FlagsType'
  BY DEF IInv, TypeOK, FlagsType, PodFails, Event
<1>3. ObjectsType'
  BY DEF IInv, TypeOK, ObjectsType, PodFails, Event
<1>4. PodsType'
  BY DEF IInv, TypeOK, PodsType, PodType, PodFails, Event
<1>5. CopyCurrent'
  BY DEF IInv, CopyCurrent, WithPlugins, WithConf, Locations, PodFails, Event
<1>6. ConfUnderWay'
  BY DEF IInv, TypeOK, PodsType, PodType, ConfUnderWay, RestartPending,
      RestartedSince, PodFails, Event
<1>7. RestartComes'
  BY DEF IInv, RestartComes, RestartPending, RestartedSince, Settled, UpToRestart,
      PodFails, Event
<1>8. RollTakesTime'
  BY DEF IInv, RollTakesTime, Settled, PodFails, Event
<1>9. PluginsUnderWay'
  BY DEF IInv, TypeOK, PodsType, PodType, PluginsUnderWay, PodFails, Event
<1>10. MarksKeepAwake'
  BY DEF IInv, MarksKeepAwake, PodFails, Event
<1>11. RestartCount'
  BY DEF IInv, RestartCount, PodFails, Event
<1>12. RebalanceUnderWay'
  BY DEF IInv, RebalanceUnderWay, NoneOld, PodFails, Event
<1>13. ConditionUnderWay'
  BY DEF IInv, ConditionUnderWay, PodFails, Event
<1>. QED  BY <1>1, <1>2, <1>3, <1>4, <1>5, <1>6, <1>7, <1>8, <1>9, <1>10, <1>11,
    <1>12, <1>13 DEF IInv, TypeOK

LEMMA UpdateStatusKeeps ==
    ASSUME IInv, UpdateStatus
    PROVE  IInv'
<1> USE RAssumption, BoundsAssumption, NoneAssumption
    DEF Pods, clusterVars, passVars, confVars, pluginVars, templateVars, ghosts
<1>1. PassType'
  BY DEF IInv, TypeOK, PassType, Locations, UpdateStatus, Actual
<1>2. FlagsType'
  BY DEF IInv, TypeOK, FlagsType, UpdateStatus, Actual
<1>3. ObjectsType'
  BY DEF IInv, TypeOK, ObjectsType, UpdateStatus, Actual
<1>4. PodsType'
  BY DEF IInv, TypeOK, PodsType, PodType, UpdateStatus, Actual
<1>5. CopyCurrent'
  BY DEF IInv, CopyCurrent, WithPlugins, WithConf, Locations, UpdateStatus, Actual
<1>6. ConfUnderWay'
  BY DEF IInv, ConfUnderWay, RestartPending, RestartedSince, UpdateStatus, Actual
<1>7. RestartComes'
  BY DEF IInv, RestartComes, RestartPending, RestartedSince, Settled, UpToRestart,
      UpdateStatus, Actual
<1>8. RollTakesTime'
  BY DEF IInv, RollTakesTime, Settled, UpdateStatus, Actual
<1>9. PluginsUnderWay'
  BY DEF IInv, PluginsUnderWay, UpdateStatus, Actual
<1>10. MarksKeepAwake'
  BY DEF IInv, MarksKeepAwake, UpdateStatus, Actual
<1>11. RestartCount'
  BY DEF IInv, RestartCount, UpdateStatus, Actual
<1>12. RebalanceUnderWay'
  BY DEF IInv, RebalanceUnderWay, NoneOld, UpdateStatus, Actual
<1>13. ConditionUnderWay'
  BY DEF IInv, ConditionUnderWay, UpdateStatus, Actual
<1>. QED  BY <1>1, <1>2, <1>3, <1>4, <1>5, <1>6, <1>7, <1>8, <1>9, <1>10, <1>11,
    <1>12, <1>13 DEF IInv, TypeOK

LEMMA TickKeeps ==
    ASSUME IInv, Tick
    PROVE  IInv'
<1> USE RAssumption, BoundsAssumption, NoneAssumption
    DEF Pods, clusterVars, passVars, confVars, pluginVars, templateVars, ghosts
<1>1. PassType'
  BY DEF IInv, TypeOK, PassType, Locations, Tick, Passed
<1>2. FlagsType'
  BY DEF IInv, TypeOK, FlagsType, Tick, Passed
<1>3. ObjectsType'
  BY DEF IInv, TypeOK, ObjectsType, Tick, Passed
<1>4. PodsType'
  BY SMTT(30) DEF IInv, TypeOK, PodsType, PodType, Tick, Passed
<1>5. CopyCurrent'
  BY DEF IInv, CopyCurrent, WithPlugins, WithConf, Locations, Tick, Passed
<1>6. ConfUnderWay'
  BY DEF IInv, TypeOK, PodsType, PodType, ConfUnderWay, RestartPending,
      RestartedSince, Tick, Passed
<1>7. RestartComes'
  BY DEF IInv, RestartComes, RestartPending, RestartedSince, Settled, UpToRestart,
      Tick, Passed
<1>8. RollTakesTime'
  BY DEF IInv, RollTakesTime, Settled, Tick, Passed
<1>9. PluginsUnderWay'
  <2>1. \A q \in Pods : /\ pod'[q].plugins = pod[q].plugins
                        /\ pod[q].state = "down" => pod'[q].state = "down"
    BY DEF IInv, TypeOK, PassType, FlagsType, ObjectsType, PodsType, PodType, Tick
  <2>2. pluginsAge # None => pluginsAge' # None
    BY DEF Tick
  <2>3. UNCHANGED <<plugins, lost, pc, i>>
    BY DEF Tick, passVars, ghosts
  <2>. QED  BY <2>1, <2>2, <2>3 DEF IInv, PluginsUnderWay
<1>10. MarksKeepAwake'
  BY DEF IInv, MarksKeepAwake, Tick, Passed
<1>11. RestartCount'
  BY DEF IInv, RestartCount, Tick, Passed
<1>12. RebalanceUnderWay'
  BY DEF IInv, RebalanceUnderWay, NoneOld, Tick, Passed
<1>13. ConditionUnderWay'
  BY DEF IInv, ConditionUnderWay, Tick, Passed
<1>. QED  BY <1>1, <1>2, <1>3, <1>4, <1>5, <1>6, <1>7, <1>8, <1>9, <1>10, <1>11,
    <1>12, <1>13 DEF IInv, TypeOK

LEMMA UserEditKeeps ==
    ASSUME IInv, UserEdit
    PROVE  IInv'
<1> USE RAssumption, BoundsAssumption, NoneAssumption
    DEF Pods, clusterVars, passVars, confVars, pluginVars, templateVars, ghosts
<1>1. PassType'
  BY DEF IInv, TypeOK, PassType, Locations, UserEdit, Event
<1>2. FlagsType'
  BY DEF IInv, TypeOK, FlagsType, UserEdit, Event
<1>3. ObjectsType'
  <2>1. PICK f \in {"conf", "plugins", "image"}, v \in Values : want' = [want EXCEPT ![f] = v]
    BY DEF UserEdit
  <2>2. want \in [conf: Values, plugins: Values, image: Values]
    BY DEF IInv, TypeOK, ObjectsType, Specs
  <2>3. want' \in Specs
    <3>1. CASE f = "conf"
      BY <2>1, <2>2, <3>1 DEF Specs
    <3>2. CASE f = "plugins"
      BY <2>1, <2>2, <3>2 DEF Specs
    <3>3. CASE f = "image"
      BY <2>1, <2>2, <3>3 DEF Specs
    <3>. QED  BY <3>1, <3>2, <3>3
  <2>4. events' \in 0..MaxEvents
    BY EventType DEF IInv, TypeOK, UserEdit
  <2>. QED  BY <2>3, <2>4 DEF IInv, TypeOK, ObjectsType, UserEdit, confVars,
      pluginVars, templateVars, ghosts
<1>4. PodsType'
  BY DEF IInv, TypeOK, PodsType, PodType, UserEdit, Event
<1>5. CopyCurrent'
  BY DEF IInv, CopyCurrent, WithPlugins, WithConf, Locations, UserEdit, Event
<1>6. ConfUnderWay'
  BY DEF IInv, ConfUnderWay, RestartPending, RestartedSince, UserEdit, Event
<1>7. RestartComes'
  BY DEF IInv, RestartComes, RestartPending, RestartedSince, Settled, UpToRestart,
      UserEdit, Event
<1>8. RollTakesTime'
  BY DEF IInv, RollTakesTime, Settled, UserEdit, Event
<1>9. PluginsUnderWay'
  BY DEF IInv, PluginsUnderWay, UserEdit, Event
<1>10. MarksKeepAwake'
  BY DEF IInv, MarksKeepAwake, UserEdit, Event
<1>11. RestartCount'
  BY DEF IInv, RestartCount, UserEdit, Event
<1>12. RebalanceUnderWay'
  BY DEF IInv, RebalanceUnderWay, NoneOld, UserEdit, Event
<1>13. ConditionUnderWay'
  BY DEF IInv, ConditionUnderWay, UserEdit, Event
<1>. QED  BY <1>1, <1>2, <1>3, <1>4, <1>5, <1>6, <1>7, <1>8, <1>9, <1>10, <1>11,
    <1>12, <1>13 DEF IInv, TypeOK

LEMMA InitKeeps == Init => IInv
<1> SUFFICES ASSUME Init PROVE IInv
  OBVIOUS
<1> USE RAssumption, BoundsAssumption, SpecsAssumption DEF Pods
<1>0. FlagsType
  BY DEF Init, FlagsType
<1>1. PassType
  BY DEF Init, PassType, Locations
<1>2. ObjectsType
  BY Fields DEF Init, ObjectsType
<1>3. PodsType
  BY Fields DEF Init, PodsType, PodType
<1>4. CopyCurrent /\ ConfUnderWay /\ RestartComes /\ RollTakesTime
  BY NoneAssumption DEF Init, CopyCurrent, ConfUnderWay, RestartComes,
      RestartPending, RollTakesTime,
     WithPlugins, WithConf
<1>5. PluginsUnderWay /\ MarksKeepAwake
  BY DEF Init, PluginsUnderWay, MarksKeepAwake
<1>6. RestartCount /\ RebalanceUnderWay /\ ConditionUnderWay
  BY DEF Init, RestartCount, RebalanceUnderWay, NoneOld, ConditionUnderWay
<1>. QED  BY <1>0, <1>1, <1>2, <1>3, <1>4, <1>5, <1>6 DEF IInv, TypeOK

LEMMA StutterKeeps == ASSUME IInv, UNCHANGED vars PROVE IInv'
<1> USE DEF vars, clusterVars, passVars, confVars, pluginVars, templateVars, ghosts
<1>1. TypeOK'
  BY DEF IInv, TypeOK, PassType, FlagsType, ObjectsType, PodsType
<1>2. CopyCurrent' /\ ConfUnderWay' /\ RestartComes' /\ RollTakesTime'
  BY DEF IInv, CopyCurrent, ConfUnderWay, RestartComes, RestartPending,
      RestartedSince, RollTakesTime,
     Settled
<1>3. PluginsUnderWay' /\ MarksKeepAwake' /\ RestartCount' /\ RebalanceUnderWay' /\ ConditionUnderWay'
  BY ZenonT(40) DEF IInv, PluginsUnderWay, MarksKeepAwake, RestartCount, RebalanceUnderWay,
      NoneOld,
     ConditionUnderWay
<1>. QED  BY <1>1, <1>2, <1>3 DEF IInv

LEMMA NextKeeps == IInv /\ [Next]_vars => IInv'
<1> SUFFICES ASSUME IInv, [Next]_vars PROVE IInv'
  OBVIOUS
<1>1. CASE Reconcile
  BY <1>1, StartKeeps, UpdateStatusConditionsKeeps, MarkForQueueRebalanceKeeps,
     ApplyPluginsKeeps, AnnotatePluginsKeeps, ApplyConfKeeps,
     AnnotateConfKeeps, ApplyStatefulSetKeeps, RestartStatefulSetIfNeededKeeps,
     RunRabbitmqCLICommandsKeeps, RunSetPluginsKeeps, DeletePluginsAnnotationKeeps,
     RunQueueRebalanceKeeps
     DEF Reconcile
<1>2. CASE Crash
  BY <1>2, CrashKeeps
<1>3. CASE Kubernetes
  BY <1>3, NoticeTemplateKeeps, UpdateStatusKeeps, RollPodKeeps, StartPodKeeps,
     PodBecomesReadyKeeps DEF Kubernetes
<1>4. CASE Tick
  BY <1>4, TickKeeps
<1>5. CASE UserEdit
  BY <1>5, UserEditKeeps
<1>6. CASE \E p \in Pods : PodFails(p)
  BY <1>6, PodFailsKeeps
<1>7. CASE UNCHANGED vars
  BY <1>7, StutterKeeps
<1>. QED  BY <1>1, <1>2, <1>3, <1>4, <1>5, <1>6, <1>7 DEF Next

LEMMA Inductive == Spec => []IInv
BY InitKeeps, NextKeeps, PTL DEF Spec

-----------------------------------------------------------------------------
(***************************************************************************)
(* Every step of a pass and of Kubernetes keeps the types.                 *)
(***************************************************************************)
THEOREM RolloutTypeCorrect == Spec => []TypeOK
<1>1. IInv => TypeOK
  BY DEF IInv
<1>. QED  BY <1>1, Inductive, PTL

(***************************************************************************)
(* At rest every Pod runs the configuration and the plugins of the spec,   *)
(* unless the annotation of an update was lost (annotateIfNeeded), for any *)
(* number of Pods, values, edits and failures.                             *)
(***************************************************************************)
THEOREM NoRolloutLost == Spec => []NoChangeLost
<1>1. IInv => NoChangeLost
  <2> SUFFICES ASSUME IInv, AtRest, NEW p \in Pods
               PROVE  /\ "conf" \notin lost => pod[p].conf = want.conf
                      /\ "plugins" \notin lost => pod[p].plugins = want.plugins
    BY DEF NoChangeLost
  <2>1. Settled /\ pod[p].state = "up" /\ ~pod[p].old
    BY DEF AtRest, Settled, Actual
  <2>2. conf = want.conf /\ plugins = want.plugins /\ pc = "idle"
    BY DEF IInv, CopyCurrent, AtRest
  <2>3. ~RestartPending /\ pluginsAge = None
    BY <2>1 DEF IInv, RestartComes, MarksKeepAwake, UpToRestart, AtRest
  <2>. QED  BY <2>1, <2>2, <2>3 DEF IInv, ConfUnderWay, PluginsUnderWay, AtRest
<1>. QED  BY <1>1, Inductive, PTL

(***************************************************************************)
(* An update of the configuration restarts the StatefulSet at most twice,  *)
(* however the seconds fall (restartStatefulSetIfNeeded).                  *)
(***************************************************************************)
THEOREM RestartsEnd == Spec => []RestartsBounded
<1>1. IInv => RestartsBounded
  BY DEF IInv, TypeOK, ObjectsType, RestartCount, RestartsBounded
<1>. QED  BY <1>1, Inductive, PTL

(***************************************************************************)
(* A rolling update that a pass has seen is followed by a rebalance of the *)
(* queues (markForQueueRebalance, runQueueRebalanceCommand).               *)
(***************************************************************************)
THEOREM QueuesRebalanced == Spec => []RebalancedAfterRoll
<1>1. IInv => RebalancedAfterRoll
  BY DEF IInv, RebalanceUnderWay, MarksKeepAwake, RebalancedAfterRoll, AtRest
<1>. QED  BY <1>1, Inductive, PTL

(***************************************************************************)
(* While nothing is queued the condition AllReplicasReady agrees with the  *)
(* status of the StatefulSet (updateStatusConditions).                     *)
(***************************************************************************)
THEOREM ConditionNeverBehind == Spec => []ConditionCurrent
<1>1. IInv => ConditionCurrent
  BY DEF IInv, ConditionUnderWay, ConditionCurrent
<1>. QED  BY <1>1, Inductive, PTL

-----------------------------------------------------------------------------
(* The refinement. *)

LEMMA RefinesInit == Init => Abs!Init
BY SpecsAssumption, Fields DEF Init, Abs!Init

\* The steps that Rollout does not see.
LEMMA RefinesHidden ==
    ASSUME UNCHANGED <<want, conf, pod, lost>> PROVE UNCHANGED Abs!vars
BY DEF Abs!vars

LEMMA RefinesPods ==
    ASSUME UNCHANGED <<want, conf, lost>>, \A p \in Pods : pod'[p].conf = pod[p].conf
    PROVE  UNCHANGED Abs!vars
<1>1. [p \in Pods |-> pod'[p].conf] = [p \in Pods |-> pod[p].conf]
  OBVIOUS
<1>. QED  BY <1>1 DEF Abs!vars

LEMMA RefinesReconcile == ASSUME TypeOK, Reconcile PROVE [Abs!Next]_(Abs!vars)
<1>1. CASE ApplyConf
  <2>1. inst \in Specs /\ conf' = inst.conf /\ UNCHANGED <<want, pod, lost>>
    BY <1>1 DEF ApplyConf, TypeOK, PassType, clusterVars, ghosts
  <2>2. conf' \in Values
    BY <2>1, Fields
  <2>3. CASE conf' = conf
    BY <2>1, <2>3, RefinesHidden
  <2>4. CASE conf' # conf
    BY <2>1, <2>2, <2>4 DEF Abs!Publish, Abs!Next
  <2>. QED  BY <2>3, <2>4
<1>2. CASE AnnotateConf
  <2>1. UNCHANGED <<want, conf, pod>>
    BY <1>2 DEF AnnotateConf, clusterVars
  <2>2. CASE lost' = lost \ {"conf"}
    BY <2>1, <2>2 DEF Abs!Remember, Abs!Next
  <2>3. CASE lost' = lost \cup {"conf"}
    BY <2>1, <2>3 DEF Abs!Forget, Abs!Next
  <2>. QED  BY <1>2, <2>2, <2>3 DEF AnnotateConf
<1>3. CASE AnnotatePlugins
  <2>1. UNCHANGED <<want, conf, pod>> /\ ("conf" \in lost' <=> "conf" \in lost)
    BY <1>3 DEF AnnotatePlugins, clusterVars, confVars
  <2>. QED  BY <2>1 DEF Abs!vars
<1>4. CASE RunSetPlugins
  <2>1. UNCHANGED <<want, conf, lost>>
    BY <1>4 DEF RunSetPlugins, clusterVars, confVars, ghosts
  <2>2. \A q \in Pods : pod'[q].conf = pod[q].conf
    <3>1. CASE pod' = pod
      BY <3>1
    <3>2. CASE pod' = [pod EXCEPT ![i].plugins = inst.plugins]
      BY <3>2 DEF TypeOK, PassType, PodsType, PodType
    <3>. QED  BY <1>4, <3>1, <3>2 DEF RunSetPlugins
  <2>. QED  BY <2>1, <2>2, RefinesPods
<1>5. CASE \/ Start \/ UpdateStatusConditions \/ MarkForQueueRebalance \/ ApplyPlugins
           \/ ApplyStatefulSet \/ RestartStatefulSetIfNeeded \/ RunRabbitmqCLICommands
           \/ DeletePluginsAnnotation \/ RunQueueRebalance
  <2>1. UNCHANGED <<want, conf, pod, lost>>
    BY <1>5 DEF Start, UpdateStatusConditions, MarkForQueueRebalance, ApplyPlugins,
        ApplyStatefulSet,
       RestartStatefulSetIfNeeded, RunRabbitmqCLICommands, DeletePluginsAnnotation,
       RunQueueRebalance, clusterVars, confVars, ghosts
  <2>. QED  BY <2>1, RefinesHidden
<1>. QED  BY <1>1, <1>2, <1>3, <1>4, <1>5 DEF Reconcile

LEMMA RefinesKubernetes == ASSUME TypeOK, Kubernetes \/ Tick PROVE [Abs!Next]_(Abs!vars)
<1>1. ASSUME NEW p \in Pods, StartPod(p) PROVE Abs!Next
  <2>1. UNCHANGED <<want, conf, lost>>
    BY <1>1 DEF StartPod, clusterVars, confVars, ghosts
  <2>2. [q \in Pods |-> pod'[q].conf] = [[q \in Pods |-> pod[q].conf] EXCEPT ![p] = conf]
    BY <1>1 DEF StartPod, TypeOK, PodsType
  <2>3. Abs!Adopt(p)
    BY <2>1, <2>2 DEF Abs!Adopt
  <2>. QED  BY <2>3 DEF Abs!Next
<1>2. ASSUME \/ NoticeTemplate \/ UpdateStatus \/ Tick
             \/ \E p \in Pods : RollPod(p) \/ PodBecomesReady(p)
      PROVE  UNCHANGED Abs!vars
  <2>1. UNCHANGED <<want, conf, lost>>
    BY <1>2 DEF NoticeTemplate, UpdateStatus, Tick, RollPod, PodBecomesReady,
        clusterVars, confVars, ghosts
  <2>2. \A q \in Pods : pod'[q].conf = pod[q].conf
    BY <1>2 DEF NoticeTemplate, UpdateStatus, Tick, RollPod, PodBecomesReady,
        TypeOK, PodsType, PodType
  <2>. QED  BY <2>1, <2>2, RefinesPods
<1>. QED  BY <1>1, <1>2 DEF Kubernetes

LEMMA RefinesOthers ==
    ASSUME TypeOK, Crash \/ UserEdit \/ \E p \in Pods : PodFails(p) PROVE [Abs!Next]_(Abs!vars)
<1>1. CASE Crash
  <2>1. UNCHANGED <<want, conf, pod>>
    BY <1>1 DEF Crash, clusterVars, confVars
  <2>2. CASE pc = "annotate conf"
    <3>1. "conf" \in lost'
      BY <1>1, <2>2 DEF Crash
    <3>. QED  BY <2>1, <3>1 DEF Abs!Forget, Abs!Next
  <2>3. CASE pc # "annotate conf"
    <3>1. "conf" \in lost' <=> "conf" \in lost
      BY <1>1, <2>3 DEF Crash
    <3>. QED  BY <2>1, <3>1 DEF Abs!vars
  <2>. QED  BY <2>2, <2>3
<1>2. CASE UserEdit
  <2>1. UNCHANGED <<conf, pod, lost>>
    BY <1>2 DEF UserEdit, confVars, ghosts
  <2>2. PICK f \in {"conf", "plugins", "image"}, v \in Values :
            v # want[f] /\ want' = [want EXCEPT ![f] = v]
    BY <1>2 DEF UserEdit
  <2>3. want \in [conf: Values, plugins: Values, image: Values]
    BY DEF TypeOK, ObjectsType, Specs
  <2>4. CASE f = "conf"
    <3>1. want'.conf = v /\ v # want.conf
      BY <2>2, <2>3, <2>4
    <3>. QED  BY <2>1, <3>1 DEF Abs!Change, Abs!Next
  <2>5. CASE f # "conf"
    <3>1. want'.conf = want.conf
      BY <2>2, <2>3, <2>5
    <3>. QED  BY <2>1, <3>1 DEF Abs!vars
  <2>. QED  BY <2>4, <2>5
<1>3. CASE \E p \in Pods : PodFails(p)
  <2>1. UNCHANGED <<want, conf, lost>>
    BY <1>3 DEF PodFails, clusterVars, confVars, ghosts
  <2>2. \A q \in Pods : pod'[q].conf = pod[q].conf
    BY <1>3 DEF PodFails, TypeOK, PodsType, PodType
  <2>. QED  BY <2>1, <2>2, RefinesPods
<1>. QED  BY <1>1, <1>2, <1>3

(***************************************************************************)
(* Every behaviour of the operator and of Kubernetes is one that Rollout   *)
(* allows: what is published and what Pods run changes only that way.      *)
(***************************************************************************)
THEOREM RefinesRollout == Spec => Abs!Spec
<1>1. TypeOK /\ [Next]_vars => [Abs!Next]_(Abs!vars)
  <2> SUFFICES ASSUME TypeOK, [Next]_vars PROVE [Abs!Next]_(Abs!vars)
    OBVIOUS
  <2>1. CASE UNCHANGED vars
    <3>1. UNCHANGED <<want, conf, pod, lost>>
      BY <2>1 DEF vars, clusterVars, confVars, ghosts
    <3>. QED  BY <3>1, RefinesHidden
  <2>. QED  BY <2>1, RefinesReconcile, RefinesKubernetes, RefinesOthers DEF Next
<1>. QED  BY <1>1, RefinesInit, RolloutTypeCorrect, PTL DEF Spec, Abs!Spec

=============================================================================
