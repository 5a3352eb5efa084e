------------------------- MODULE ReconcileLoopProofs -------------------------
(***************************************************************************)
(* Theorems about ReconcileLoop, for every number of builders, every set   *)
(* of specs and every bound on edits, faults, drift, restarts and crashes. *)
(***************************************************************************)
EXTENDS ReconcileLoop, TLAPS

\* The in-memory edits of a pass keep a RabbitmqCluster a RabbitmqCluster.
LEMMA ClusterEdits ==
    ASSUME NEW c \in Cluster
    PROVE  /\ \A v \in {"Unknown", "True", "False"} :
                 [c EXCEPT !.status.rs = v] \in Cluster
           /\ \A v \in BOOLEAN : [c EXCEPT !.status.warn = v] \in Cluster
           /\ [c EXCEPT !.defaulted = TRUE] \in Cluster
           /\ [c EXCEPT !.defaulted = TRUE, !.gen = @ + 1] \in Cluster
           /\ [c EXCEPT !.gen = @ + 1] \in Cluster
           /\ [c EXCEPT !.final = TRUE] \in Cluster
           /\ \A p \in Phases :
                 [c EXCEPT !.status.seen = p, !.status.warn = FALSE] \in Cluster
           /\ \A v \in BOOLEAN : [c EXCEPT !.rebal = v] \in Cluster
           /\ [c EXCEPT !.status.bound = TRUE] \in Cluster
           /\ [c EXCEPT !.status.obs = c.gen, !.status.rs = "True"] \in Cluster
           /\ [c EXCEPT !.paused = ~@] \in Cluster
           /\ \A s \in SpecType, d \in BOOLEAN :
                 [c EXCEPT !.spec = s, !.defaulted = d, !.gen = @ + 1] \in Cluster
<1> c.gen + 1 \in Nat
    BY DEF Cluster
<1>1. \A v \in {"Unknown", "True", "False"} :
         [c EXCEPT !.status.rs = v] \in Cluster
    BY DEF Cluster, Status
<1>2. \A v \in BOOLEAN : [c EXCEPT !.status.warn = v] \in Cluster
    BY DEF Cluster, Status
<1>3. [c EXCEPT !.defaulted = TRUE] \in Cluster
    BY DEF Cluster
<1>4. [c EXCEPT !.defaulted = TRUE, !.gen = @ + 1] \in Cluster
    BY DEF Cluster
<1>p. [c EXCEPT !.gen = @ + 1] \in Cluster
    BY DEF Cluster
<1>5. [c EXCEPT !.final = TRUE] \in Cluster
    BY DEF Cluster
<1>6. \A p \in Phases :
         [c EXCEPT !.status.seen = p, !.status.warn = FALSE] \in Cluster
    BY DEF Cluster, Status
<1>7. \A v \in BOOLEAN : [c EXCEPT !.rebal = v] \in Cluster
    BY DEF Cluster
<1>8. [c EXCEPT !.status.bound = TRUE] \in Cluster
    BY DEF Cluster, Status
<1>9. [c EXCEPT !.status.obs = c.gen, !.status.rs = "True"] \in Cluster
    BY DEF Cluster, Status
<1>10. [c EXCEPT !.paused = ~@] \in Cluster
    BY DEF Cluster
<1>11. \A s \in SpecType, d \in BOOLEAN :
          [c EXCEPT !.spec = s, !.defaulted = d, !.gen = @ + 1] \in Cluster
    BY DEF Cluster
<1> QED
    BY <1>1, <1>2, <1>3, <1>4, <1>p, <1>5, <1>6, <1>7, <1>8, <1>9, <1>10, <1>11


LEMMA KindsFacts ==
    /\ N \in Nat \ {0} /\ Sts = N + 1 /\ Kinds = 1..(N + 1)
    /\ Sts \in Kinds /\ Plugins \in Kinds /\ Conf \in Kinds /\ 1 \in Kinds
    /\ Plugins # Sts /\ Conf # Sts
BY NAssumption DEF Kinds, Sts

LEMMA InitType == Init => StateType
<1> SUFFICES ASSUME Init PROVE StateType
    OBVIOUS
<1>1. rmq \in Cluster
    <2>1. PICK s \in Starts : rmq = NewCluster(s[1])
        BY DEF Init
    <2>2. s[1] \in SpecType
        BY StartsAssumption, SpecsAssumption
    <2> QED
        BY <2>1, <2>2 DEF NewCluster, Cluster, Status
<1>2. BudgetType
    <2>1. PICK s \in Starts : left = s[2]
        BY DEF Init
    <2> QED
        BY <2>1, StartsAssumption DEF BudgetType
<1> QED
    BY <1>1, <1>2, KindsFacts
       DEF Init, StateType, ApiType, ChildType, CacheType, PassType, Children,
           Phases, Locations

-----------------------------------------------------------------------------
(* What the building blocks of the actions do to the parts of StateType. *)

LEMMA TypeSpend ==
    ASSUME BudgetType, NEW b \in Budgets, Spend(b) PROVE BudgetType'
<1>1. left[b] \in Nat /\ left[b] > 0 /\ left \in [Budgets -> Nat]
    BY DEF Spend, BudgetType
<1>2. left[b] - 1 \in Nat
    BY <1>1
<1> QED
    BY <1>1, <1>2 DEF Spend, BudgetType

LEMMA TypeReturn ==
    ASSUME StateType, NEW r \in BOOLEAN, Return(r) PROVE PassType'
BY KindsFacts DEF StateType, PassType, Return, Locations

LEMMA TypeContinue ==
    ASSUME StateType, NEW c \in Cluster, NEW loc \in Locations, Continue(c, loc),
           loc \in {"guard", "pvc"} => k = Sts
    PROVE  PassType'
BY DEF StateType, PassType, Continue

LEMMA TypeAdvance ==
    ASSUME StateType, pc = "apply" \/ pc = "annotate", Advance
    PROVE  PassType'
BY KindsFacts DEF StateType, PassType, Advance, Locations

LEMMA TypePut ==
    ASSUME StateType, NEW c \in Cluster, Put(c) PROVE ApiType'
BY DEF StateType, ApiType, Put

LEMMA TypeRejected ==
    ASSUME StateType, Rejected PROVE ApiType'
BY DEF StateType, ApiType, Rejected

LEMMA TypeErrored ==
    ASSUME StateType, NEW c \in Cluster, Errored(c) PROVE ApiType' /\ BudgetType'
BY TypeSpend, TypePut DEF StateType, ApiType, Errored, Budgets

LEMMA TypeSetReconcileSuccess ==
    ASSUME StateType, inst \in Cluster, NEW v \in {"True", "False"},
           SetReconcileSuccess(v)
    PROVE  ApiType'
<1>1. [inst EXCEPT !.status.rs = v] \in Cluster
    BY ClusterEdits
<1> QED
    BY <1>1, TypePut, TypeRejected DEF SetReconcileSuccess

LEMMA TypeWriteChild ==
    ASSUME StateType, NEW i \in Kinds, NEW c \in Children, NEW m \in BOOLEAN,
           NEW p \in Phases, i = Sts => c \in StsContent \cup {NoChild},
           WriteObject(i, c, m, p)
    PROVE  ChildType'
BY KindsFacts DEF StateType, ChildType, WriteObject

LEMMA TypeUnchanged ==
    ASSUME StateType
    PROVE  /\ UNCHANGED <<rmq, rmqFresh>> => ApiType'
           /\ UNCHANGED objectVars => ChildType'
           /\ UNCHANGED cacheVars => CacheType'
           /\ UNCHANGED left => BudgetType'
           /\ UNCHANGED <<passVars, queued>> => PassType'
<1>1. UNCHANGED <<rmq, rmqFresh>> => ApiType'
    BY DEF StateType, ApiType
<1>2. UNCHANGED objectVars => ChildType'
    BY DEF StateType, ChildType, objectVars
<1>3. UNCHANGED cacheVars => CacheType'
    BY DEF StateType, CacheType, cacheVars
<1>4. UNCHANGED left => BudgetType'
    BY DEF StateType, BudgetType
<1>5. UNCHANGED <<passVars, queued>> => PassType'
    BY DEF StateType, PassType, passVars
<1> QED
    BY <1>1, <1>2, <1>3, <1>4, <1>5

LEMMA TypeDesired ==
    ASSUME NEW i \in Kinds, NEW s \in SpecType
    PROVE  /\ Desired(i, s) \in Children
           /\ i = Sts => Desired(i, s) \in StsContent
           /\ Desired(i, s) # NoChild
BY NullAssumption DEF Desired, Children, SpecType, StsContent

LEMMA TypeKeepOrUpdate ==
    ASSUME StateType, inst \in Cluster, NEW c \in Cluster,
           NEW loc \in Locations \ {"guard", "pvc"}, KeepOrUpdate(c, loc)
    PROVE  StateType'
<1> USE DEF KeepOrUpdate
<1>1. ApiType'
    BY TypePut, TypeRejected, TypeErrored, TypeUnchanged
<1>2. BudgetType'
    BY TypeErrored, TypeUnchanged
<1>3. PassType'
    BY TypeReturn, TypeContinue
<1>4. ChildType' /\ CacheType' /\ secret' \in BOOLEAN
    BY TypeUnchanged DEF StateType, childVars
<1> QED
    BY <1>1, <1>2, <1>3, <1>4 DEF StateType

-----------------------------------------------------------------------------
(* Every action preserves StateType. *)

LEMMA TypeReconcile == ASSUME StateType, Reconcile PROVE StateType'
<1> USE DEF Locations
<1>a. ASSUME pc \notin {"idle", "panicked"} PROVE inst \in Cluster
    BY <1>a DEF StateType, PassType
<1>s. ASSUME inst \in Cluster
      PROVE [inst EXCEPT !.status.rs = "False"] \in Cluster
    BY <1>s, ClusterEdits
<1>p. cPhase \in Phases /\ phase \in Phases /\ secret \in BOOLEAN /\ k \in Kinds
    BY DEF StateType, CacheType, ChildType, PassType
<1>c. /\ mark \in [Kinds -> BOOLEAN]
      /\ child[Sts] \in StsContent \cup {NoChild}
      /\ \A i \in Kinds : child[i] \in Children
    BY DEF StateType, ChildType
<1>1. CASE Start
    <2>1. PassType'
        BY <1>1, KindsFacts DEF Start, StateType, PassType, CacheType, ApiType
    <2>2. ApiType' /\ ChildType' /\ CacheType' /\ BudgetType' /\ secret' \in BOOLEAN
        BY <1>1, TypeUnchanged DEF Start, apiVars, StateType, childVars
    <2> QED
        BY <2>1, <2>2 DEF StateType
<1>2. CASE PausedExit
    <2> DEFINE new == [inst EXCEPT !.status.warn = @ \/ inst.status.seen # "unset"]
    <2>1. new \in Cluster
        <3>1. inst \in Cluster
            BY <1>2, <1>a DEF PausedExit
        <3>2. new = [inst EXCEPT !.status.warn =
                        inst.status.warn \/ inst.status.seen # "unset"]
            OBVIOUS
        <3> QED
            BY <3>1, <3>2, ClusterEdits
    <2> HIDE DEF new
    <2>2. /\ \/ (Put(new) \/ Rejected) /\ UNCHANGED left
             \/ Errored(new)
          /\ Return(FALSE)
          /\ UNCHANGED <<objectVars, cacheVars, secret>>
        BY <1>2 DEF PausedExit, new, childVars
    <2>3. ApiType' /\ BudgetType'
        BY <2>1, <2>2, TypePut, TypeRejected, TypeErrored, TypeUnchanged
    <2> QED
        BY <2>2, <2>3, TypeReturn, TypeUnchanged DEF StateType
<1>3. CASE ReconcileOperatorDefaults
    <2> DEFINE new == [inst EXCEPT !.defaulted = TRUE]
               stored == [inst EXCEPT !.defaulted = TRUE, !.gen = @ + 1]
               partly == [inst EXCEPT !.gen = @ + 1]
    <2>1. inst \in Cluster /\ new \in Cluster /\ stored \in Cluster
             /\ partly \in Cluster
        BY <1>3, <1>a, ClusterEdits DEF ReconcileOperatorDefaults
    <2> HIDE DEF new, stored, partly
    <2>2. /\ \/ Continue(inst, "finalizer") /\ UNCHANGED <<rmq, rmqFresh, left>>
             \/ Put(stored) /\ Continue(stored, "finalizer") /\ UNCHANGED left
             \/ Rejected /\ Continue(new, "finalizer") /\ UNCHANGED left
             \/ (Errored(stored) \/ Errored(partly)) /\ Return(TRUE)
          /\ UNCHANGED <<objectVars, cacheVars, secret>>
        BY <1>3 DEF ReconcileOperatorDefaults, new, stored, partly, childVars
    <2>3. ApiType' /\ BudgetType'
        BY <2>1, <2>2, TypePut, TypeRejected, TypeErrored, TypeUnchanged
    <2>4. PassType'
        BY <2>1, <2>2, TypeContinue, TypeReturn
    <2> QED
        BY <2>2, <2>3, <2>4, TypeUnchanged DEF StateType
<1>4. CASE AddFinalizerIfNeeded
    <2>1. inst \in Cluster /\ [inst EXCEPT !.final = TRUE] \in Cluster
        BY <1>4, <1>a, ClusterEdits DEF AddFinalizerIfNeeded
    <2> QED
        BY <1>4, <2>1, TypeKeepOrUpdate DEF AddFinalizerIfNeeded
<1>5. CASE UpdateStatusConditions
    <2>1. /\ inst \in Cluster
          /\ [inst EXCEPT !.status.seen = cPhase, !.status.warn = FALSE] \in Cluster
        BY <1>5, <1>a, <1>p, ClusterEdits DEF UpdateStatusConditions
    <2> QED
        BY <1>5, <2>1, TypeKeepOrUpdate DEF UpdateStatusConditions
<1>6. CASE ReconcileTLS
    <2> DEFINE failed == [inst EXCEPT !.status.rs = "False"]
    <2>1. inst \in Cluster /\ failed \in Cluster /\ TLSErrorRequeues \in BOOLEAN
        BY <1>6, <1>a, <1>s DEF ReconcileTLS, TLSErrorRequeues
    <2> HIDE DEF failed
    <2>2. /\ \/ /\ \/ SetReconcileSuccess("False") /\ UNCHANGED left
                   \/ Errored(failed)
                /\ Return(TLSErrorRequeues)
             \/ Continue(inst, "rebalance") /\ UNCHANGED <<rmq, rmqFresh, left>>
          /\ UNCHANGED <<objectVars, cacheVars, secret>>
        BY <1>6 DEF ReconcileTLS, failed, childVars
    <2>3. ApiType' /\ BudgetType'
        BY <2>1, <2>2, TypeSetReconcileSuccess, TypeErrored, TypeUnchanged
    <2>4. PassType'
        BY <2>1, <2>2, TypeContinue, TypeReturn
    <2> QED
        BY <2>2, <2>3, <2>4, TypeUnchanged DEF StateType
<1>7. CASE MarkForQueueRebalance
    <2>1. inst \in Cluster
        BY <1>7, <1>a DEF MarkForQueueRebalance
    <2>2. [inst EXCEPT !.rebal = @ \/ NeedsRebalance] \in Cluster
        BY <2>1, ClusterEdits DEF NeedsRebalance
    <2> QED
        BY <1>7, <2>1, <2>2, TypeKeepOrUpdate DEF MarkForQueueRebalance
<1>8. CASE ScaleDown
    <2> DEFINE failed == [inst EXCEPT !.status.rs = "False"]
    <2>1. inst \in Cluster /\ failed \in Cluster /\ k = Sts
        BY <1>8, <1>a, <1>s DEF ScaleDown, StateType, PassType
    <2> HIDE DEF failed
    <2>2. /\ \/ /\ \/ SetReconcileSuccess("False") /\ UNCHANGED left
                   \/ Errored(failed)
                /\ Return(FALSE)
             \/ Continue(inst, "pvc") /\ UNCHANGED <<rmq, rmqFresh, left>>
          /\ UNCHANGED <<objectVars, cacheVars, secret>>
        BY <1>8 DEF ScaleDown, failed, childVars
    <2>3. ApiType' /\ BudgetType'
        BY <2>1, <2>2, TypeSetReconcileSuccess, TypeErrored, TypeUnchanged
    <2>4. PassType'
        BY <2>1, <2>2, TypeContinue, TypeReturn
    <2> QED
        BY <2>2, <2>3, <2>4, TypeUnchanged DEF StateType
<1>9. CASE ReconcilePVC
    <2> DEFINE failed == [inst EXCEPT !.status.rs = "False"]
               D == WriteObject(Sts, NoChild, FALSE, "absent")
    <2>1. inst \in Cluster /\ failed \in Cluster
        BY <1>9, <1>a, <1>s DEF ReconcilePVC
    <2> HIDE DEF failed, D
    <2>2. /\ \/ /\ UNCHANGED objectVars
                /\ \/ SetReconcileSuccess("False") /\ UNCHANGED left
                   \/ Errored(failed)
                /\ Return(TRUE)
             \/ /\ D \/ UNCHANGED objectVars
                /\ Continue(inst, "apply") /\ UNCHANGED <<rmq, rmqFresh, left>>
             \/ /\ Spend("fault") /\ (UNCHANGED objectVars \/ D)
                /\ SetReconcileSuccess("False") /\ Return(TRUE)
          /\ UNCHANGED <<cacheVars, secret>>
        BY <1>9 DEF ReconcilePVC, failed, D, childVars, WriteChild
    <2>3. ApiType'
        BY <2>1, <2>2, TypeSetReconcileSuccess, TypeErrored, TypeUnchanged
    <2>b. BudgetType'
        BY <2>1, <2>2, TypeErrored, TypeUnchanged, TypeSpend DEF Budgets, StateType
    <2>4. PassType'
        BY <2>1, <2>2, TypeContinue, TypeReturn
    <2>5. ChildType'
        <3>1. CASE D
            BY <3>1, TypeWriteChild, KindsFacts DEF D, Children, Phases
        <3> QED
            BY <2>2, <3>1, TypeUnchanged
    <2> QED
        BY <2>2, <2>3, <2>b, <2>4, <2>5, TypeUnchanged DEF StateType
<1>10. CASE CreateOrUpdate
    <2> DEFINE want == Desired(k, inst.spec)
               W == WriteObject(k, want, mark[k], PhaseAfter(k, want))
    <2>1. inst \in Cluster /\ inst.spec \in SpecType /\ pc = "apply"
        BY <1>10, <1>a DEF CreateOrUpdate, Cluster
    <2>2. W => ChildType'
        <3>1. PhaseAfter(k, want) \in Phases /\ mark[k] \in BOOLEAN
            BY <1>p, <1>c DEF PhaseAfter, Phases
        <3> QED
            BY <2>1, <3>1, <1>p, TypeDesired, TypeWriteChild
    <2> HIDE DEF want, W
    <2>3. /\ \/ Advance /\ UNCHANGED <<rmq, rmqFresh, objectVars, left>>
             \/ /\ W /\ (Continue(inst, "annotate") \/ Advance)
                /\ UNCHANGED <<rmq, rmqFresh, left>>
             \/ /\ SetReconcileSuccess("False") /\ Return(TRUE)
                /\ UNCHANGED <<objectVars, left>>
             \/ /\ Spend("fault") /\ (UNCHANGED objectVars \/ W)
                /\ SetReconcileSuccess("False") /\ Return(TRUE)
          /\ UNCHANGED <<cacheVars, secret>>
        BY <1>10 DEF CreateOrUpdate, want, W, childVars, WriteChild
    <2>4. ApiType'
        BY <2>1, <2>3, TypeSetReconcileSuccess, TypeUnchanged
    <2>b. BudgetType'
        BY <2>3, TypeUnchanged, TypeSpend DEF Budgets, StateType
    <2>5. PassType'
        BY <2>1, <2>3, TypeContinue, TypeReturn, TypeAdvance
    <2>6. ChildType'
        BY <2>2, <2>3, TypeUnchanged
    <2> QED
        BY <2>3, <2>4, <2>b, <2>5, <2>6, TypeUnchanged DEF StateType
<1>11. CASE AnnotateIfNeeded
    <2> DEFINE W == WriteObject(k, child[k], TRUE, phase)
    <2>1. W => ChildType'
        BY <1>p, <1>c, TypeWriteChild
    <2> HIDE DEF W
    <2>2. /\ \/ W /\ Advance /\ UNCHANGED left
             \/ UNCHANGED <<objectVars, left>> /\ Return(TRUE)
             \/ Spend("fault") /\ Return(TRUE) /\ (UNCHANGED objectVars \/ W)
          /\ UNCHANGED <<rmq, rmqFresh, cacheVars, secret>> /\ pc = "annotate"
        BY <1>11 DEF AnnotateIfNeeded, W, childVars, WriteChild, GiveUp
    <2>3. ApiType' /\ BudgetType'
        BY <2>2, TypeUnchanged, TypeSpend DEF Budgets, StateType
    <2>4. PassType'
        BY <2>2, TypeReturn, TypeAdvance
    <2> QED
        BY <2>1, <2>2, <2>3, <2>4, TypeUnchanged DEF StateType
<1>12. CASE RestartStatefulSetIfNeeded
    <2> DEFINE W == WriteObject(Sts, child[Sts], mark[Sts], "rolling")
    <2>1. W => ChildType'
        BY <1>p, <1>c, KindsFacts, TypeWriteChild DEF Phases
    <2> HIDE DEF W
    <2>2. /\ \/ UNCHANGED <<objectVars, left>>
             \/ (Spend("restart") \/ Spend("fault")) /\ (UNCHANGED objectVars \/ W)
          /\ Return(TRUE) \/ Continue(inst, "bind")
          /\ UNCHANGED <<rmq, rmqFresh, cacheVars, secret>>
        BY <1>12 DEF RestartStatefulSetIfNeeded, W, childVars, WriteChild
    <2>3. ApiType' /\ BudgetType'
        BY <2>2, TypeUnchanged, TypeSpend DEF Budgets, StateType
    <2>4. PassType'
        BY <1>12, <1>a, <2>2, TypeReturn, TypeContinue
           DEF RestartStatefulSetIfNeeded
    <2> QED
        BY <2>1, <2>2, <2>3, <2>4, TypeUnchanged DEF StateType
<1>13. CASE ReconcileStatus
    <2>1. inst \in Cluster /\ [inst EXCEPT !.status.bound = TRUE] \in Cluster
        BY <1>13, <1>a, ClusterEdits DEF ReconcileStatus
    <2> QED
        BY <1>13, <2>1, TypeKeepOrUpdate DEF ReconcileStatus
<1>14. CASE RunRabbitmqCLICommands
    <2>1. inst \in Cluster
        BY <1>14, <1>a DEF RunRabbitmqCLICommands
    <2>2. /\ SetReconcileSuccess("False") \/ UNCHANGED <<rmq, rmqFresh>>
          /\ UNCHANGED left \/ Spend("defer")
          /\ Return(TRUE) \/ Continue(inst, "panicked") \/ Continue(inst, "plugins")
          /\ held' = cFresh
          /\ UNCHANGED <<child, mark, phase, cFresh, cacheVars, secret>>
        BY <1>14 DEF RunRabbitmqCLICommands
    <2>3. ApiType'
        BY <2>1, <2>2, TypeSetReconcileSuccess, TypeUnchanged
    <2>4. PassType' /\ BudgetType'
        <3>1. PassType'
            BY <2>1, <2>2, TypeContinue, TypeReturn
        <3>2. BudgetType'
            BY <2>2, TypeUnchanged, TypeSpend DEF Budgets, StateType
        <3> QED
            BY <3>1, <3>2
    <2>5. ChildType'
        BY <2>2 DEF StateType, ChildType
    <2> QED
        BY <2>2, <2>3, <2>4, <2>5, TypeUnchanged DEF StateType
<1>15. ASSUME NEW i \in {Plugins, Sts}, NEW loc \in {"flags", "queues"},
              inst \in Cluster, RunAndUnmark(i, loc)
       PROVE  StateType'
    <2> DEFINE W == WriteObject(i, child[i], FALSE, phase)
    <2>1. W => ChildType'
        BY <1>p, <1>c, KindsFacts, TypeWriteChild
    <2> HIDE DEF W
    <2>2. /\ \/ /\ UNCHANGED objectVars \/ W
                /\ Continue(inst, loc) /\ UNCHANGED <<rmq, rmqFresh, left>>
             \/ /\ UNCHANGED left \/ Spend("fault")
                /\ UNCHANGED objectVars \/ W
                /\ SetReconcileSuccess("False") /\ Return(TRUE)
          /\ UNCHANGED <<cacheVars, secret>>
        BY <1>15 DEF RunAndUnmark, W, childVars, WriteChild
    <2>3. ApiType' /\ BudgetType'
        BY <1>15, <2>2, TypeSetReconcileSuccess, TypeUnchanged, TypeSpend
           DEF Budgets, StateType
    <2>4. PassType'
        BY <1>15, <2>2, TypeContinue, TypeReturn
    <2> QED
        BY <2>1, <2>2, <2>3, <2>4, TypeUnchanged DEF StateType
<1>16. CASE RunSetPlugins
    BY <1>16, <1>a, <1>15 DEF RunSetPlugins
<1>17. CASE RunEnableFeatureFlags
    BY <1>17, <1>a, <1>15 DEF RunEnableFeatureFlags
<1>18. CASE RunQueueRebalance
    <2> DEFINE new == [inst EXCEPT !.rebal = FALSE]
    <2>1. inst \in Cluster /\ new \in Cluster
        BY <1>18, <1>a, ClusterEdits DEF RunQueueRebalance
    <2> HIDE DEF new
    <2>2. /\ SetReconcileSuccess("False") \/ Put(new) \/ UNCHANGED <<rmq, rmqFresh>>
          /\ UNCHANGED left \/ Spend("fault")
          /\ Return(TRUE) \/ Continue(inst, "finish") \/ Continue(new, "finish")
          /\ UNCHANGED <<objectVars, cacheVars, secret>>
        BY <1>18 DEF RunQueueRebalance, new, childVars
    <2>3. ApiType'
        BY <2>1, <2>2, TypeSetReconcileSuccess, TypePut, TypeUnchanged
    <2>4. PassType' /\ BudgetType'
        <3>1. PassType'
            BY <2>1, <2>2, TypeContinue, TypeReturn
        <3>2. BudgetType'
            BY <2>2, TypeUnchanged, TypeSpend DEF Budgets, StateType
        <3> QED
            BY <3>1, <3>2
    <2> QED
        BY <2>2, <2>3, <2>4, TypeUnchanged DEF StateType
<1>19. CASE Finish
    <2> DEFINE new == [inst EXCEPT !.status.obs = inst.gen, !.status.rs = "True"]
    <2>1. new \in Cluster
        BY <1>19, <1>a, ClusterEdits DEF Finish
    <2> HIDE DEF new
    <2>2. /\ \/ (Put(new) \/ Rejected) /\ UNCHANGED left
             \/ Errored(new)
          /\ Return(FALSE)
          /\ UNCHANGED <<objectVars, cacheVars, secret>>
        BY <1>19 DEF Finish, new, childVars
    <2>3. ApiType' /\ BudgetType'
        BY <2>1, <2>2, TypePut, TypeRejected, TypeErrored, TypeUnchanged
    <2> QED
        BY <2>2, <2>3, TypeReturn, TypeUnchanged DEF StateType
<1> QED
    BY <1>1, <1>2, <1>3, <1>4, <1>5, <1>6, <1>7, <1>8, <1>9, <1>10, <1>11,
       <1>12, <1>13, <1>14, <1>16, <1>17, <1>18, <1>19 DEF Reconcile

LEMMA TypeEnvironment ==
    ASSUME StateType,
           SyncCluster \/ (\E i \in Kinds : SyncChild(i)) \/ Crash
             \/ RestartAfterPanic \/ Environment
    PROVE  StateType'
<1>1. CASE SyncCluster
    <2>1. ApiType' /\ CacheType'
        BY <1>1 DEF SyncCluster, StateType, ApiType, CacheType
    <2>2. PassType'
        BY <1>1 DEF SyncCluster, passVars, StateType, PassType
    <2> QED
        BY <1>1, <2>1, <2>2, TypeUnchanged DEF SyncCluster, StateType, childVars
<1>2. ASSUME NEW i \in Kinds, SyncChild(i) PROVE StateType'
    <2>1. ApiType' /\ BudgetType' /\ secret' \in BOOLEAN
        BY <1>2, TypeUnchanged DEF SyncChild, StateType
    <2>2. PassType'
        BY <1>2 DEF SyncChild, passVars, StateType, PassType
    <2>3. ChildType'
        BY <1>2 DEF SyncChild, StateType, ChildType
    <2>4. CacheType'
        BY <1>2, KindsFacts DEF SyncChild, StateType, ChildType, CacheType
    <2> QED
        BY <2>1, <2>2, <2>3, <2>4 DEF StateType
<1>3. ASSUME ProcessRestart, UNCHANGED left \/ Spend("crash") PROVE StateType'
    <2>1. ApiType' /\ CacheType'
        BY <1>3 DEF ProcessRestart, StateType, ApiType, CacheType, ChildType
    <2>2. PassType'
        BY <1>3, KindsFacts DEF ProcessRestart, PassType, Locations
    <2>3. ChildType'
        BY <1>3 DEF ProcessRestart, StateType, ChildType
    <2>4. BudgetType'
        BY <1>3, TypeUnchanged, TypeSpend DEF Budgets, StateType
    <2> QED
        BY <1>3, <2>1, <2>2, <2>3, <2>4 DEF ProcessRestart, StateType
<1>4. ASSUME NEW c \in Cluster, UserWrites(c) PROVE StateType'
    <2>1. ApiType'
        BY <1>4 DEF UserWrites, ApiType
    <2>2. PassType'
        BY <1>4 DEF UserWrites, StateType, PassType
    <2>3. BudgetType'
        BY <1>4, TypeSpend DEF UserWrites, Budgets, StateType
    <2> QED
        BY <1>4, <2>1, <2>2, <2>3, TypeUnchanged DEF UserWrites, StateType, childVars
<1>5. CASE UserEdit
    <2>1. PICK s \in Specs, d \in {rmq.defaulted, FALSE} :
             UserWrites([rmq EXCEPT !.spec = s, !.defaulted = d, !.gen = @ + 1])
        BY <1>5 DEF UserEdit
    <2>2. rmq \in Cluster /\ s \in SpecType /\ d \in BOOLEAN
        BY SpecsAssumption DEF StateType, ApiType, Cluster
    <2>3. [rmq EXCEPT !.spec = s, !.defaulted = d, !.gen = @ + 1] \in Cluster
        BY <2>2, ClusterEdits
    <2> QED
        BY <2>1, <2>3, <1>4
<1>6. CASE UserPause
    <2>1. [rmq EXCEPT !.paused = ~@] \in Cluster
        BY ClusterEdits DEF StateType, ApiType
    <2> QED
        BY <1>6, <2>1, <1>4 DEF UserPause
<1>7. CASE UserSecret
    <2>1. BudgetType'
        BY <1>7, TypeSpend DEF UserSecret, Budgets, StateType
    <2>2. UNCHANGED <<rmq, rmqFresh>> /\ UNCHANGED objectVars /\ UNCHANGED cacheVars
            /\ UNCHANGED <<passVars, queued>> /\ secret' \in BOOLEAN
        BY <1>7 DEF UserSecret, apiVars, StateType, childVars
    <2> QED
        BY <2>1, <2>2, TypeUnchanged DEF StateType
<1>8. ASSUME NEW i \in Kinds, NEW c \in Children, NEW m \in BOOLEAN,
             NEW p \in Phases, i = Sts => c \in StsContent \cup {NoChild},
             WriteObject(i, c, m, p),
             UNCHANGED <<rmq, rmqFresh, cacheVars, passVars, secret, queued>>,
             UNCHANGED left \/ Spend("drift")
      PROVE  StateType'
    <2>1. ChildType'
        BY <1>8, TypeWriteChild
    <2>2. BudgetType'
        BY <1>8, TypeUnchanged, TypeSpend DEF Budgets, StateType
    <2> QED
        BY <1>8, <2>1, <2>2, TypeUnchanged DEF StateType
<1>t. phase \in Phases /\ mark \in [Kinds -> BOOLEAN]
         /\ child[Sts] \in StsContent \cup {NoChild} /\ child[Sts] \in Children
    BY KindsFacts DEF StateType, ChildType
<1>9. ASSUME NEW i \in Kinds, Drift(i) PROVE StateType'
    <2>1. CASE WriteObject(i, NoChild, FALSE, IF i = Sts THEN "absent" ELSE phase)
        <3>1. (IF i = Sts THEN "absent" ELSE phase) \in Phases
            BY <1>t DEF Phases
        <3>2. NoChild \in Children
            BY DEF Children
        <3> QED
            BY <1>9, <2>1, <3>1, <3>2, <1>8 DEF Drift
    <2>2. ASSUME NEW s \in Specs,
                 WriteObject(i, Desired(i, s), mark[i], PhaseAfter(i, Desired(i, s)))
          PROVE  StateType'
        <3>1. PhaseAfter(i, Desired(i, s)) \in Phases /\ mark[i] \in BOOLEAN
            BY <1>t DEF PhaseAfter, Phases
        <3>2. s \in SpecType
            BY SpecsAssumption
        <3>3. Desired(i, s) \in Children /\ (i = Sts => Desired(i, s) \in StsContent)
            BY <3>2, TypeDesired
        <3> QED
            BY <1>9, <2>2, <3>1, <3>3, <1>8 DEF Drift
    <2> QED
        BY <1>9, <2>1, <2>2 DEF Drift, childVars, WriteChild
<1>10. CASE StsBecomesReady
    BY <1>10, <1>t, <1>8, KindsFacts DEF StsBecomesReady, Phases, childVars, WriteChild
<1> QED
    BY <1>1, <1>2, <1>3, <1>5, <1>6, <1>7, <1>9, <1>10
       DEF Crash, RestartAfterPanic, Environment

LEMMA TypeStep == StateType /\ [Next]_vars => StateType'
<1>1. ASSUME StateType, UNCHANGED vars PROVE StateType'
    <2>1. UNCHANGED <<rmq, rmqFresh>> /\ UNCHANGED objectVars /\ UNCHANGED cacheVars
            /\ UNCHANGED <<passVars, queued>> /\ UNCHANGED left /\ UNCHANGED secret
        BY <1>1 DEF vars, apiVars, childVars
    <2> QED
        BY <1>1, <2>1, TypeUnchanged DEF StateType
<1> QED
    BY <1>1, TypeReconcile, TypeEnvironment DEF Next

-----------------------------------------------------------------------------
(* What a step of a pass may do to what others see. *)

\* A step that leaves a copy the latest version has not changed its object.
Unseen ==
    /\ rmqFresh' => rmqFresh /\ rmq' = rmq
    /\ UNCHANGED cRmq

UnseenChildren ==
    /\ \A i \in Kinds :
          cFresh'[i] => cFresh[i] /\ child'[i] = child[i] /\ mark'[i] = mark[i]
    /\ cFresh'[Sts] => phase' = phase

LEMMA UnseenApi ==
    /\ \A c : Put(c) => (rmqFresh' => rmqFresh /\ rmq' = rmq)
    /\ Rejected => (rmqFresh' => rmqFresh /\ rmq' = rmq)
    /\ \A c : Errored(c) => (rmqFresh' => rmqFresh /\ rmq' = rmq)
    /\ \A v : SetReconcileSuccess(v) => (rmqFresh' => rmqFresh /\ rmq' = rmq)
    /\ UNCHANGED <<rmq, rmqFresh>> => (rmqFresh' => rmqFresh /\ rmq' = rmq)
BY DEF Put, Rejected, Errored, SetReconcileSuccess

LEMMA UnseenWrite ==
    ASSUME StateType, NEW i \in Kinds, NEW c, NEW m, NEW p, WriteObject(i, c, m, p),
           i # Sts => p = phase
    PROVE  UnseenChildren
BY KindsFacts DEF StateType, ChildType, WriteObject, UnseenChildren

LEMMA UnseenSame ==
    UNCHANGED <<child, mark, phase, cFresh>> => UnseenChildren
BY DEF UnseenChildren

LEMMA ControlKeepsRequest ==
    /\ \A c, loc : Continue(c, loc) => queued' = queued
    /\ Advance => queued' = queued
    /\ \A r : Return(r) => (queued => queued')
BY DEF Continue, Advance, Return

\* A pass leaves the caches to the informers.
LEMMA StepCaches == ASSUME Reconcile PROVE UNCHANGED cacheVars
<1>k. \A c, loc : KeepOrUpdate(c, loc) => UNCHANGED cacheVars
    BY DEF KeepOrUpdate
<1>u. \A i, loc : RunAndUnmark(i, loc) => UNCHANGED cacheVars
    BY DEF RunAndUnmark
<1> QED
    BY <1>k, <1>u
       DEF Reconcile, Start, PausedExit, ReconcileOperatorDefaults,
           AddFinalizerIfNeeded, UpdateStatusConditions, ReconcileTLS,
           MarkForQueueRebalance, ScaleDown, ReconcilePVC, CreateOrUpdate,
           AnnotateIfNeeded, RestartStatefulSetIfNeeded, ReconcileStatus,
           RunRabbitmqCLICommands, RunSetPlugins, RunEnableFeatureFlags,
           RunQueueRebalance, Finish

\* Only the start of a pass takes the request from the queue.
LEMMA StepQueue == ASSUME Reconcile, ~Start PROVE queued => queued'
<1> USE ControlKeepsRequest
<1>k. \A c, loc : KeepOrUpdate(c, loc) => (queued => queued')
    BY DEF KeepOrUpdate
<1>u. \A i, loc : RunAndUnmark(i, loc) => (queued => queued')
    BY DEF RunAndUnmark
<1>1. CASE PausedExit \/ ReconcileOperatorDefaults \/ ReconcileTLS \/ ScaleDown
           \/ RunQueueRebalance \/ Finish
    BY <1>1 DEF PausedExit, ReconcileOperatorDefaults, ReconcileTLS, ScaleDown,
                RunQueueRebalance, Finish
<1>2. CASE ReconcilePVC
    BY <1>2 DEF ReconcilePVC
<1>3. CASE CreateOrUpdate
    BY <1>3 DEF CreateOrUpdate
<1>4. CASE AnnotateIfNeeded \/ RestartStatefulSetIfNeeded
    BY <1>4 DEF AnnotateIfNeeded, RestartStatefulSetIfNeeded
<1>5. CASE RunRabbitmqCLICommands
    BY <1>5 DEF RunRabbitmqCLICommands
<1> QED
    BY <1>k, <1>u, <1>1, <1>2, <1>3, <1>4, <1>5
       DEF Reconcile, AddFinalizerIfNeeded, UpdateStatusConditions,
           MarkForQueueRebalance, ReconcileStatus, RunSetPlugins,
           RunEnableFeatureFlags

\* A pass that writes the RabbitmqCluster makes the cached copy stale.
LEMMA StepCluster == ASSUME Reconcile PROVE rmqFresh' => rmqFresh /\ rmq' = rmq
<1> USE UnseenApi
<1>k. \A c, loc : KeepOrUpdate(c, loc) => (rmqFresh' => rmqFresh /\ rmq' = rmq)
    BY DEF KeepOrUpdate
<1>u. \A i, loc : RunAndUnmark(i, loc) => (rmqFresh' => rmqFresh /\ rmq' = rmq)
    BY DEF RunAndUnmark
<1>1. CASE PausedExit
    BY <1>1 DEF PausedExit
<1>2. CASE ReconcileOperatorDefaults
    BY <1>2 DEF ReconcileOperatorDefaults
<1>3. CASE ReconcileTLS
    BY <1>3 DEF ReconcileTLS
<1>4. CASE ScaleDown
    BY <1>4 DEF ScaleDown
<1>5. CASE ReconcilePVC
    BY <1>5 DEF ReconcilePVC
<1>6. CASE CreateOrUpdate
    BY <1>6 DEF CreateOrUpdate
<1>7. CASE RunRabbitmqCLICommands
    BY <1>7 DEF RunRabbitmqCLICommands
<1>8. CASE RunQueueRebalance
    BY <1>8 DEF RunQueueRebalance
<1>9. CASE Finish
    BY <1>9 DEF Finish
<1>10. CASE Start \/ AnnotateIfNeeded \/ RestartStatefulSetIfNeeded
    BY <1>10 DEF Start, AnnotateIfNeeded, RestartStatefulSetIfNeeded, apiVars
<1> QED
    BY <1>k, <1>u, <1>1, <1>2, <1>3, <1>4, <1>5, <1>6, <1>7, <1>8, <1>9, <1>10
       DEF Reconcile, AddFinalizerIfNeeded, UpdateStatusConditions,
           MarkForQueueRebalance, ReconcileStatus, RunSetPlugins,
           RunEnableFeatureFlags

\* A pass that writes a child makes its cached copy stale.
LEMMA StepChildren == ASSUME StateType, Reconcile PROVE UnseenChildren
<1> USE UnseenSame
<1> k \in Kinds /\ Sts \in Kinds /\ Plugins \in Kinds
    BY KindsFacts DEF StateType, PassType
<1>k. \A c, loc : KeepOrUpdate(c, loc) => UnseenChildren
    BY DEF KeepOrUpdate, objectVars, childVars
<1>1. CASE Start \/ PausedExit \/ ReconcileOperatorDefaults \/ ReconcileTLS
           \/ ScaleDown \/ RunRabbitmqCLICommands \/ RunQueueRebalance \/ Finish
    BY <1>1 DEF Start, PausedExit, ReconcileOperatorDefaults, ReconcileTLS,
                ScaleDown, RunRabbitmqCLICommands, RunQueueRebalance, Finish,
                apiVars, objectVars, childVars
<1>2. CASE ReconcilePVC
    <2>1. UNCHANGED objectVars \/ WriteObject(Sts, NoChild, FALSE, "absent")
        BY <1>2 DEF ReconcilePVC, childVars, WriteChild
    <2> QED
        BY <2>1, UnseenWrite DEF objectVars
<1>3. CASE CreateOrUpdate
    <2> DEFINE want == Desired(k, inst.spec)
               p == PhaseAfter(k, want)
    <2>1. UNCHANGED objectVars \/ WriteObject(k, want, mark[k], p)
        BY <1>3 DEF CreateOrUpdate, childVars, WriteChild
    <2>2. k # Sts => p = phase
        BY DEF PhaseAfter
    <2> QED
        BY <2>1, <2>2, UnseenWrite DEF objectVars
<1>4. CASE AnnotateIfNeeded
    <2>1. UNCHANGED objectVars \/ WriteObject(k, child[k], TRUE, phase)
        BY <1>4 DEF AnnotateIfNeeded, childVars, WriteChild, GiveUp
    <2> QED
        BY <2>1, UnseenWrite DEF objectVars
<1>5. CASE RestartStatefulSetIfNeeded
    <2>1. UNCHANGED objectVars \/ WriteObject(Sts, child[Sts], mark[Sts], "rolling")
        BY <1>5 DEF RestartStatefulSetIfNeeded, childVars, WriteChild
    <2> QED
        BY <2>1, UnseenWrite DEF objectVars
<1>6. ASSUME NEW i \in Kinds, NEW loc, RunAndUnmark(i, loc) PROVE UnseenChildren
    <2>1. UNCHANGED objectVars \/ WriteObject(i, child[i], FALSE, phase)
        BY <1>6 DEF RunAndUnmark, childVars, WriteChild
    <2> QED
        BY <2>1, UnseenWrite DEF objectVars
<1> QED
    BY <1>k, <1>1, <1>2, <1>3, <1>4, <1>5, <1>6
       DEF Reconcile, AddFinalizerIfNeeded, UpdateStatusConditions,
           MarkForQueueRebalance, ReconcileStatus, RunSetPlugins,
           RunEnableFeatureFlags

-----------------------------------------------------------------------------
(* A pass and the RabbitmqCluster it works on. *)

\* What every in-memory edit of a pass leaves alone: all but the flag it sets.
LEMMA EditKeeps ==
    ASSUME NEW c \in Cluster
    PROVE  /\ \A v : LET d == [c EXCEPT !.status.rs = v] IN
                 d.final = c.final /\ d.status.obs = c.status.obs /\ d.gen = c.gen
           /\ \A v : LET d == [c EXCEPT !.status.warn = v] IN
                 d.final = c.final /\ d.status.obs = c.status.obs /\ d.gen = c.gen
           /\ LET d == [c EXCEPT !.defaulted = TRUE] IN
                 d.defaulted /\ d.final = c.final
           /\ LET d == [c EXCEPT !.defaulted = TRUE, !.gen = @ + 1] IN
                 /\ d.defaulted /\ d.final = c.final
                 /\ d.status.obs = c.status.obs /\ d.gen = c.gen + 1
           /\ LET d == [c EXCEPT !.gen = @ + 1] IN
                 /\ d.final = c.final
                 /\ d.status.obs = c.status.obs /\ d.gen = c.gen + 1
           /\ LET d == [c EXCEPT !.final = TRUE] IN
                 /\ d.final /\ d.defaulted = c.defaulted
                 /\ d.status.obs = c.status.obs /\ d.gen = c.gen
           /\ \A p : LET d == [c EXCEPT !.status.seen = p, !.status.warn = FALSE] IN
                 /\ d.final = c.final /\ d.defaulted = c.defaulted
                 /\ d.status.obs = c.status.obs /\ d.gen = c.gen
           /\ \A v : LET d == [c EXCEPT !.rebal = v] IN
                 /\ d.rebal = v /\ d.final = c.final /\ d.defaulted = c.defaulted
                 /\ d.status = c.status /\ d.gen = c.gen
           /\ LET d == [c EXCEPT !.status.bound = TRUE] IN
                 /\ d.status.bound /\ d.final = c.final /\ d.defaulted = c.defaulted
                 /\ d.status.obs = c.status.obs /\ d.gen = c.gen
           /\ LET d == [c EXCEPT !.status.obs = c.gen, !.status.rs = "True"] IN
                 d.final = c.final /\ d.status.obs = c.gen /\ d.gen = c.gen
BY DEF Cluster, Status

LEMMA PassContinue ==
    ASSUME StateType, PassOK, Active, NEW c, NEW loc, Continue(c, loc),
           rmqFresh' => rmqFresh, instFresh => rmq' = c, Reached(loc, c)
    PROVE  PassOK'
<1>1. pc' = loc /\ inst' = c /\ instFresh' = instFresh /\ queued' = queued
    BY DEF Continue
<1>2. Reached(pc', inst')
    BY <1>1
<1>3. instFresh' => inst' = rmq'
    BY <1>1
<1>4. ~queued' /\ rmqFresh' => instFresh'
    BY <1>1 DEF PassOK
<1> QED
    BY <1>2, <1>3, <1>4 DEF PassOK, Reached

LEMMA PassReturn == ASSUME NEW r, Return(r) PROVE PassOK'
BY DEF Return, PassOK, Active

LEMMA PassAdvance ==
    ASSUME StateType, PassOK, pc \in {"apply", "annotate"}, Advance,
           UNCHANGED <<rmq, rmqFresh>>
    PROVE  PassOK'
<1>1. /\ pc' \in {"apply", "guard", "restart"}
      /\ UNCHANGED <<inst, instFresh, queued>>
    BY DEF Advance
<1> QED
    BY <1>1 DEF PassOK, Active, Reached, AfterFinalizer, AfterCli, AfterLoop, InLoop

LEMMA PassKeepOrUpdate ==
    ASSUME StateType, PassOK, Active, NEW c, NEW loc, KeepOrUpdate(c, loc),
           Reached(loc, c)
    PROVE  PassOK'
<1>1. CASE c = inst /\ Continue(inst, loc) /\ UNCHANGED <<rmq, rmqFresh, left>>
    BY <1>1, PassContinue DEF PassOK
<1>2. CASE Put(c) /\ Continue(c, loc)
    <2>1. rmq' = c /\ (rmqFresh' => rmqFresh)
        BY <1>2 DEF Put
    <2> QED
        BY <1>2, <2>1, PassContinue
<1> QED
    BY <1>1, <1>2, PassReturn DEF KeepOrUpdate

LEMMA PassReconcile ==
    ASSUME StateType, CachesOK, PassOK, Reconcile PROVE PassOK'
<1> USE DEF AfterFinalizer, AfterCli, AfterLoop, InLoop
<1>a. ASSUME Active
      PROVE  /\ inst \in Cluster /\ Reached(pc, inst)
             /\ instFresh => inst = rmq
    BY <1>a DEF StateType, PassType, PassOK, Active
<1>s. ASSUME Active, NEW loc, Continue(inst, loc), UNCHANGED <<rmq, rmqFresh>>,
             Reached(loc, inst)
      PROVE  PassOK'
    BY <1>a, <1>s, PassContinue
<1>1. CASE Start
    <2>1. PICK p \in {"paused", "defaults"} :
             /\ pc' = p /\ (p = "paused" => cRmq.paused)
             /\ inst' = cRmq /\ instFresh' = rmqFresh
             /\ UNCHANGED <<rmq, rmqFresh>>
        BY <1>1 DEF Start, apiVars
    <2>2. Reached(pc', inst')
        BY <2>1 DEF Reached
    <2> QED
        BY <2>1, <2>2 DEF PassOK, CachesOK, Reached
<1>2. CASE PausedExit
    BY <1>2, PassReturn DEF PausedExit
<1>3. CASE ReconcileOperatorDefaults
    <2> DEFINE new == [inst EXCEPT !.defaulted = TRUE]
               stored == [inst EXCEPT !.defaulted = TRUE, !.gen = @ + 1]
    <2>0. Active
        BY <1>3 DEF ReconcileOperatorDefaults, Active
    <2>1. Reached("finalizer", new) /\ Reached("finalizer", stored)
        BY <2>0, <1>a, EditKeeps DEF Reached
    <2> HIDE DEF new, stored
    <2>2. \/ /\ inst.defaulted /\ Continue(inst, "finalizer")
             /\ UNCHANGED <<rmq, rmqFresh>>
          \/ Put(stored) /\ Continue(stored, "finalizer")
          \/ Rejected /\ Continue(new, "finalizer")
          \/ Return(TRUE)
        BY <1>3 DEF ReconcileOperatorDefaults, new, stored
    <2>3. CASE inst.defaulted /\ Continue(inst, "finalizer")
               /\ UNCHANGED <<rmq, rmqFresh>>
        <3>1. Reached("finalizer", inst)
            BY <2>3 DEF Reached
        <3> QED
            BY <2>0, <2>3, <3>1, <1>s
    <2>4. CASE Put(stored) /\ Continue(stored, "finalizer")
        <3>1. rmq' = stored /\ (rmqFresh' => rmqFresh)
            BY <2>4 DEF Put
        <3> QED
            BY <2>0, <2>1, <2>4, <3>1, PassContinue
    <2>5. CASE Rejected /\ Continue(new, "finalizer")
        <3>1. ~instFresh /\ (rmqFresh' => rmqFresh)
            BY <2>5 DEF Rejected
        <3> QED
            BY <2>0, <2>1, <2>5, <3>1, PassContinue
    <2> QED
        BY <2>2, <2>3, <2>4, <2>5, PassReturn
<1>4. CASE AddFinalizerIfNeeded
    <2> DEFINE new == [inst EXCEPT !.final = TRUE]
    <2>1. Active /\ pc = "finalizer" /\ KeepOrUpdate(new, "conditions")
        BY <1>4 DEF AddFinalizerIfNeeded, Active
    <2>2. Reached("conditions", new)
        BY <2>1, <1>a, EditKeeps, ZenonT(40) DEF Reached
    <2> QED
        BY <2>1, <2>2, PassKeepOrUpdate
<1>5. CASE UpdateStatusConditions
    <2> DEFINE new == [inst EXCEPT !.status.seen = cPhase, !.status.warn = FALSE]
    <2>1. Active /\ pc = "conditions" /\ KeepOrUpdate(new, "tls")
        BY <1>5 DEF UpdateStatusConditions, Active
    <2>2. Reached("tls", new)
        BY <2>1, <1>a DEF Reached, Cluster, Status
    <2> QED
        BY <2>1, <2>2, PassKeepOrUpdate
<1>6. CASE ReconcileTLS
    <2>1. Active /\ pc = "tls"
        BY <1>6 DEF ReconcileTLS, Active
    <2>2. Reached("rebalance", inst)
        BY <2>1, <1>a DEF Reached
    <2>3. \/ Return(TLSErrorRequeues)
          \/ Continue(inst, "rebalance") /\ UNCHANGED <<rmq, rmqFresh>>
        BY <1>6 DEF ReconcileTLS
    <2> QED
        BY <2>1, <2>2, <2>3, <1>s, PassReturn
<1>7. CASE MarkForQueueRebalance
    <2> DEFINE new == [inst EXCEPT !.rebal = @ \/ NeedsRebalance]
    <2>1. Active /\ pc = "rebalance" /\ KeepOrUpdate(new, "apply")
        BY <1>7 DEF MarkForQueueRebalance, Active
    <2>2. Reached("apply", new)
        BY <2>1, <1>a DEF Reached, Cluster, Status
    <2> QED
        BY <2>1, <2>2, PassKeepOrUpdate
<1>8. CASE ScaleDown
    <2>1. Active /\ pc = "guard"
        BY <1>8 DEF ScaleDown, Active
    <2>2. Reached("pvc", inst)
        BY <2>1, <1>a DEF Reached
    <2>3. \/ Return(FALSE)
          \/ Continue(inst, "pvc") /\ UNCHANGED <<rmq, rmqFresh>>
        BY <1>8 DEF ScaleDown
    <2> QED
        BY <2>1, <2>2, <2>3, <1>s, PassReturn
<1>9. CASE ReconcilePVC
    <2>1. Active /\ pc = "pvc"
        BY <1>9 DEF ReconcilePVC, Active
    <2>2. Reached("apply", inst)
        BY <2>1, <1>a DEF Reached
    <2>3. \/ Return(TRUE)
          \/ Continue(inst, "apply") /\ UNCHANGED <<rmq, rmqFresh>>
        BY <1>9 DEF ReconcilePVC
    <2> QED
        BY <2>1, <2>2, <2>3, <1>s, PassReturn
<1>10. CASE CreateOrUpdate
    <2>1. Active /\ pc = "apply"
        BY <1>10 DEF CreateOrUpdate, Active
    <2>2. Reached("annotate", inst)
        BY <2>1, <1>a DEF Reached
    <2>3. \/ Return(TRUE)
          \/ (Continue(inst, "annotate") \/ Advance) /\ UNCHANGED <<rmq, rmqFresh>>
        BY <1>10 DEF CreateOrUpdate
    <2> QED
        BY <2>1, <2>2, <2>3, <1>s, PassReturn, PassAdvance
<1>11. CASE AnnotateIfNeeded
    <2>1. pc = "annotate" /\ UNCHANGED <<rmq, rmqFresh>> /\ (Return(TRUE) \/ Advance)
        BY <1>11 DEF AnnotateIfNeeded
    <2> QED
        BY <2>1, PassReturn, PassAdvance
<1>12. CASE RestartStatefulSetIfNeeded
    <2>1. Active /\ pc = "restart"
        BY <1>12 DEF RestartStatefulSetIfNeeded, Active
    <2>2. Reached("bind", inst)
        BY <2>1, <1>a DEF Reached
    <2>3. /\ Return(TRUE) \/ Continue(inst, "bind")
          /\ UNCHANGED <<rmq, rmqFresh>>
        BY <1>12 DEF RestartStatefulSetIfNeeded
    <2> QED
        BY <2>1, <2>2, <2>3, <1>s, PassReturn
<1>13. CASE ReconcileStatus
    <2> DEFINE new == [inst EXCEPT !.status.bound = TRUE]
    <2>1. Active /\ pc = "bind" /\ KeepOrUpdate(new, "cli")
        BY <1>13 DEF ReconcileStatus, Active
    <2>2. Reached("cli", new)
        BY <2>1, <1>a, EditKeeps, ZenonT(40) DEF Reached
    <2> QED
        BY <2>1, <2>2, PassKeepOrUpdate
<1>14. CASE RunRabbitmqCLICommands
    <2>1. Active /\ pc = "cli"
        BY <1>14 DEF RunRabbitmqCLICommands, Active
    <2>2. Reached("plugins", inst) /\ Reached("panicked", inst)
        BY <2>1, <1>a DEF Reached
    <2>3. \/ Return(TRUE)
          \/ /\ Continue(inst, "plugins") \/ Continue(inst, "panicked")
             /\ UNCHANGED <<rmq, rmqFresh>>
        BY <1>14 DEF RunRabbitmqCLICommands
    <2> QED
        BY <2>1, <2>2, <2>3, <1>s, PassReturn
<1>15. ASSUME NEW i, NEW loc \in {"flags", "queues"}, pc \in {"plugins", "flags"},
              RunAndUnmark(i, loc)
       PROVE  PassOK'
    <2>1. Active
        BY <1>15 DEF Active
    <2>2. Reached(loc, inst)
        BY <2>1, <1>15, <1>a DEF Reached
    <2>3. \/ Return(TRUE)
          \/ Continue(inst, loc) /\ UNCHANGED <<rmq, rmqFresh>>
        BY <1>15 DEF RunAndUnmark
    <2> QED
        BY <2>1, <2>2, <2>3, <1>s, PassReturn
<1>18. CASE RunQueueRebalance
    <2> DEFINE new == [inst EXCEPT !.rebal = FALSE]
    <2>1. Active /\ pc = "queues"
        BY <1>18 DEF RunQueueRebalance, Active
    <2>2. Reached("finish", new) /\ (~inst.rebal => Reached("finish", inst))
        BY <2>1, <1>a DEF Reached, Cluster, Status
    <2> HIDE DEF new
    <2>3. \/ Return(TRUE)
          \/ ~inst.rebal /\ Continue(inst, "finish") /\ UNCHANGED <<rmq, rmqFresh>>
          \/ Put(new) /\ Continue(new, "finish")
        BY <1>18 DEF RunQueueRebalance, new
    <2>4. CASE Put(new) /\ Continue(new, "finish")
        <3>1. rmq' = new /\ (rmqFresh' => rmqFresh)
            BY <2>4 DEF Put
        <3> QED
            BY <2>1, <2>2, <2>4, <3>1, PassContinue
    <2> QED
        BY <2>1, <2>2, <2>3, <2>4, <1>s, PassReturn
<1>19. CASE Finish
    BY <1>19, PassReturn DEF Finish
<1> QED
    BY <1>1, <1>2, <1>3, <1>4, <1>5, <1>6, <1>7, <1>8, <1>9, <1>10, <1>11,
       <1>12, <1>13, <1>14, <1>15, <1>18, <1>19
       DEF Reconcile, RunSetPlugins, RunEnableFeatureFlags

-----------------------------------------------------------------------------
(* What a pass does to the RabbitmqCluster: it takes no finalizer away and *)
(* only its last step touches ObservedGeneration.                          *)

Mono ==
    /\ rmq.final => rmq'.final
    /\ rmq'.status.obs = rmq.status.obs
    /\ rmq'.gen >= rmq.gen

LEMMA MonoSame == ASSUME StateType, UNCHANGED rmq PROVE Mono
BY DEF StateType, ApiType, Cluster, Mono

LEMMA MonoPut ==
    ASSUME StateType, PassOK, Active, NEW c, inst.final => c.final,
           c.status.obs = inst.status.obs, c.gen >= inst.gen, Put(c)
    PROVE  Mono
<1>1. inst = rmq /\ rmq' = c
    BY DEF PassOK, Put
<1> QED
    BY <1>1 DEF Mono

LEMMA MonoErrored ==
    ASSUME StateType, PassOK, Active, NEW c, inst.final => c.final,
           c.status.obs = inst.status.obs, c.gen >= inst.gen, Errored(c)
    PROVE  Mono
<1>1. UNCHANGED rmq \/ Put(c)
    BY DEF Errored
<1> QED
    BY <1>1, MonoPut, MonoSame

LEMMA MonoSetReconcileSuccess ==
    ASSUME StateType, PassOK, Active, NEW v, SetReconcileSuccess(v) PROVE Mono
<1> DEFINE new == [inst EXCEPT !.status.rs = v]
<1>1. inst \in Cluster /\ inst.gen \in Nat
    BY DEF StateType, PassType, Active, Cluster
<1>2. new.final = inst.final /\ new.status.obs = inst.status.obs
         /\ new.gen = inst.gen
    BY <1>1, EditKeeps
<1>3. Put(new) \/ UNCHANGED rmq
    BY DEF SetReconcileSuccess, Rejected
<1> HIDE DEF new
<1>4. new.gen >= inst.gen
    BY <1>1, <1>2
<1> QED
    BY <1>2, <1>3, <1>4, MonoPut, MonoSame

LEMMA MonoKeepOrUpdate ==
    ASSUME StateType, PassOK, Active, NEW c, NEW loc, inst.final => c.final,
           c.status.obs = inst.status.obs, c.gen = inst.gen, KeepOrUpdate(c, loc)
    PROVE  Mono
<1>1. inst.gen \in Nat
    BY DEF StateType, PassType, Active, Cluster
<1>2. c.gen >= inst.gen
    BY <1>1
<1>3. UNCHANGED rmq \/ Put(c)
    BY DEF KeepOrUpdate, Rejected, Errored
<1> QED
    BY <1>2, <1>3, MonoPut, MonoSame

LEMMA MonoReconcile ==
    ASSUME StateType, PassOK, Reconcile, ~Finish PROVE Mono
<1>a. ASSUME Active PROVE inst \in Cluster /\ inst.gen \in Nat
    BY <1>a DEF StateType, PassType, Active, Cluster
<1>f. ASSUME Active,
             \/ SetReconcileSuccess("False")
             \/ Errored([inst EXCEPT !.status.rs = "False"])
             \/ UNCHANGED rmq
      PROVE  Mono
    <2> DEFINE new == [inst EXCEPT !.status.rs = "False"]
    <2>1. new.final = inst.final /\ new.status.obs = inst.status.obs
             /\ new.gen = inst.gen
        BY <1>a, <1>f, EditKeeps
    <2>2. SetReconcileSuccess("False") \/ Errored(new) \/ UNCHANGED rmq
        BY <1>f
    <2> HIDE DEF new
    <2>3. new.gen >= inst.gen
        BY <2>1, <1>a, <1>f
    <2> QED
        BY <1>f, <2>1, <2>2, <2>3, MonoErrored, MonoSetReconcileSuccess, MonoSame
<1>1. CASE Start \/ AnnotateIfNeeded \/ RestartStatefulSetIfNeeded
    BY <1>1, MonoSame DEF Start, AnnotateIfNeeded, RestartStatefulSetIfNeeded, apiVars
<1>2. CASE PausedExit
    <2> DEFINE new == [inst EXCEPT !.status.warn = @ \/ inst.status.seen # "unset"]
    <2>1. Active
        BY <1>2 DEF PausedExit, Active
    <2>2. new.final = inst.final /\ new.status.obs = inst.status.obs
             /\ new.gen = inst.gen
        BY <2>1, <1>a, EditKeeps, ZenonT(40)
    <2>3. Put(new) \/ UNCHANGED rmq
        BY <1>2 DEF PausedExit, Rejected, Errored
    <2> HIDE DEF new
    <2>4. new.gen >= inst.gen
        BY <2>1, <2>2, <1>a
    <2> QED
        BY <2>1, <2>2, <2>3, <2>4, MonoPut, MonoSame
<1>3. CASE ReconcileOperatorDefaults
    <2> DEFINE stored == [inst EXCEPT !.defaulted = TRUE, !.gen = @ + 1]
               partly == [inst EXCEPT !.gen = @ + 1]
    <2>1. Active
        BY <1>3 DEF ReconcileOperatorDefaults, Active
    <2>2. /\ stored.final = inst.final /\ stored.status.obs = inst.status.obs
          /\ stored.gen = inst.gen + 1
          /\ partly.final = inst.final /\ partly.status.obs = inst.status.obs
          /\ partly.gen = inst.gen + 1
        BY <2>1, <1>a, EditKeeps
    <2>3. Put(stored) \/ Put(partly) \/ UNCHANGED rmq
        BY <1>3 DEF ReconcileOperatorDefaults, Rejected, Errored
    <2> HIDE DEF stored, partly
    <2>4. stored.gen >= inst.gen /\ partly.gen >= inst.gen
        BY <2>1, <2>2, <1>a
    <2> QED
        BY <2>1, <2>2, <2>3, <2>4, MonoPut, MonoSame
<1>4. CASE AddFinalizerIfNeeded
    <2> DEFINE new == [inst EXCEPT !.final = TRUE]
    <2>1. Active /\ KeepOrUpdate(new, "conditions")
        BY <1>4 DEF AddFinalizerIfNeeded, Active
    <2>2. new.final /\ new.status.obs = inst.status.obs /\ new.gen = inst.gen
        BY <2>1, <1>a, EditKeeps
    <2> HIDE DEF new
    <2> QED
        BY <2>1, <2>2, MonoKeepOrUpdate
<1>5. CASE UpdateStatusConditions
    <2> DEFINE new == [inst EXCEPT !.status.seen = cPhase, !.status.warn = FALSE]
    <2>1. Active /\ KeepOrUpdate(new, "tls")
        BY <1>5 DEF UpdateStatusConditions, Active
    <2>2. new.final = inst.final /\ new.status.obs = inst.status.obs
             /\ new.gen = inst.gen
        BY <2>1, <1>a DEF Cluster, Status
    <2> HIDE DEF new
    <2> QED
        BY <2>1, <2>2, MonoKeepOrUpdate
<1>6. CASE ReconcileTLS
    BY <1>6, <1>f DEF ReconcileTLS, Active
<1>7. CASE MarkForQueueRebalance
    <2> DEFINE new == [inst EXCEPT !.rebal = @ \/ NeedsRebalance]
    <2>1. Active /\ KeepOrUpdate(new, "apply")
        BY <1>7 DEF MarkForQueueRebalance, Active
    <2>2. new.final = inst.final /\ new.status = inst.status /\ new.gen = inst.gen
        BY <2>1, <1>a DEF Cluster, Status
    <2> HIDE DEF new
    <2> QED
        BY <2>1, <2>2, MonoKeepOrUpdate
<1>8. CASE ScaleDown
    BY <1>8, <1>f DEF ScaleDown, Active
<1>9. CASE ReconcilePVC
    BY <1>9, <1>f DEF ReconcilePVC, Active
<1>10. CASE CreateOrUpdate
    BY <1>10, <1>f DEF CreateOrUpdate, Active
<1>13. CASE ReconcileStatus
    <2> DEFINE new == [inst EXCEPT !.status.bound = TRUE]
    <2>1. Active /\ KeepOrUpdate(new, "cli")
        BY <1>13 DEF ReconcileStatus, Active
    <2>2. new.final = inst.final /\ new.status.obs = inst.status.obs
             /\ new.gen = inst.gen
        BY <2>1, <1>a, EditKeeps
    <2> HIDE DEF new
    <2> QED
        BY <2>1, <2>2, MonoKeepOrUpdate
<1>14. CASE RunRabbitmqCLICommands
    BY <1>14, <1>f DEF RunRabbitmqCLICommands, Active
<1>15. ASSUME Active, NEW i, NEW loc, RunAndUnmark(i, loc) PROVE Mono
    BY <1>15, <1>f DEF RunAndUnmark
<1>16. CASE RunSetPlugins \/ RunEnableFeatureFlags
    BY <1>16, <1>15 DEF RunSetPlugins, RunEnableFeatureFlags, Active
<1>18. CASE RunQueueRebalance
    <2> DEFINE new == [inst EXCEPT !.rebal = FALSE]
    <2>1. Active
        BY <1>18 DEF RunQueueRebalance, Active
    <2>2. new.final = inst.final /\ new.status = inst.status /\ new.gen = inst.gen
        BY <2>1, <1>a DEF Cluster, Status
    <2>3. Put(new) \/ SetReconcileSuccess("False") \/ UNCHANGED rmq
        BY <1>18 DEF RunQueueRebalance
    <2> HIDE DEF new
    <2>4. new.gen >= inst.gen
        BY <2>1, <2>2, <1>a
    <2> QED
        BY <2>1, <2>2, <2>3, <2>4, <1>f, MonoPut
<1> QED
    BY <1>1, <1>2, <1>3, <1>4, <1>5, <1>6, <1>7, <1>8, <1>9, <1>10,
       <1>13, <1>14, <1>16, <1>18 DEF Reconcile

\* The last step writes the generation of the object it replaces.
LEMMA FinishObserves ==
    ASSUME StateType, PassOK, Finish
    PROVE  /\ rmq.final => rmq'.final
           /\ rmq'.gen = rmq.gen
           /\ rmq'.status.obs # rmq.status.obs => rmq'.status.obs = rmq.gen
<1> DEFINE new == [inst EXCEPT !.status.obs = inst.gen, !.status.rs = "True"]
<1>1. Active /\ inst \in Cluster
    BY DEF Finish, Active, StateType, PassType
<1>2. new.final = inst.final /\ new.gen = inst.gen /\ new.status.obs = inst.gen
    BY <1>1, EditKeeps
<1>3. Put(new) \/ UNCHANGED rmq
    BY DEF Finish, Rejected, Errored
<1> HIDE DEF new
<1>4. Put(new) => rmq' = new /\ inst = rmq
    BY <1>1 DEF Put, PassOK
<1> QED
    BY <1>2, <1>3, <1>4

-----------------------------------------------------------------------------
(* The finalizer. *)

\* The copy a pass holds never claims a finalizer that is not stored.
LEMMA InstReconcile ==
    ASSUME StateType, PassOK, Reconcile, Active'
    PROVE  \/ inst' = cRmq
           \/ inst' = rmq'
           \/ Active /\ inst'.final = inst.final
<1>a. ASSUME pc \notin {"idle", "panicked"} PROVE inst \in Cluster /\ Active
    BY <1>a DEF StateType, PassType, Active
<1>r. \A r : ~Return(r)
    BY DEF Return, Active
<1>k. ASSUME NEW c, NEW loc, pc \notin {"idle", "panicked"}, KeepOrUpdate(c, loc)
      PROVE  inst' = rmq' \/ (Active /\ inst'.final = inst.final)
    BY <1>a, <1>k, <1>r DEF KeepOrUpdate, Continue, Put
<1>1. CASE Start
    BY <1>1 DEF Start
<1>2. CASE PausedExit \/ Finish
    BY <1>2, <1>r DEF PausedExit, Finish
<1>3. CASE ReconcileOperatorDefaults
    <2> DEFINE new == [inst EXCEPT !.defaulted = TRUE]
               stored == [inst EXCEPT !.defaulted = TRUE, !.gen = @ + 1]
    <2>1. inst \in Cluster /\ Active
        BY <1>3, <1>a DEF ReconcileOperatorDefaults
    <2>2. new.final = inst.final
        BY <2>1, EditKeeps
    <2> HIDE DEF new, stored
    <2>3. \/ Continue(inst, "finalizer")
          \/ Put(stored) /\ Continue(stored, "finalizer")
          \/ Continue(new, "finalizer")
        BY <1>3, <1>r DEF ReconcileOperatorDefaults, new, stored
    <2> QED
        BY <2>1, <2>2, <2>3 DEF Continue, Put
<1>4. CASE AddFinalizerIfNeeded \/ UpdateStatusConditions
           \/ MarkForQueueRebalance \/ ReconcileStatus
    BY <1>4, <1>k DEF AddFinalizerIfNeeded, UpdateStatusConditions,
                      MarkForQueueRebalance, ReconcileStatus
<1>5. CASE ReconcileTLS
    BY <1>5, <1>a, <1>r DEF ReconcileTLS, Continue
<1>6. CASE ScaleDown
    BY <1>6, <1>a, <1>r DEF ScaleDown, Continue
<1>7. CASE ReconcilePVC
    BY <1>7, <1>a, <1>r DEF ReconcilePVC, Continue
<1>8. CASE CreateOrUpdate
    BY <1>8, <1>a, <1>r DEF CreateOrUpdate, Continue, Advance
<1>9. CASE AnnotateIfNeeded
    BY <1>9, <1>a, <1>r DEF AnnotateIfNeeded, Advance
<1>10. CASE RestartStatefulSetIfNeeded
    BY <1>10, <1>a, <1>r DEF RestartStatefulSetIfNeeded, Continue
<1>11. CASE RunRabbitmqCLICommands
    BY <1>11, <1>a, <1>r DEF RunRabbitmqCLICommands, Continue
<1>12. CASE RunSetPlugins \/ RunEnableFeatureFlags
    BY <1>12, <1>a, <1>r
       DEF RunSetPlugins, RunEnableFeatureFlags, RunAndUnmark, Continue
<1>13. CASE RunQueueRebalance
    <2> DEFINE new == [inst EXCEPT !.rebal = FALSE]
    <2>1. Continue(inst, "finish") \/ (Put(new) /\ Continue(new, "finish"))
        BY <1>13, <1>r DEF RunQueueRebalance
    <2>2. Active
        BY <1>13, <1>a DEF RunQueueRebalance
    <2> HIDE DEF new
    <2> QED
        BY <2>1, <2>2 DEF Continue, Put
<1> QED
    BY <1>1, <1>2, <1>3, <1>4, <1>5, <1>6, <1>7, <1>8, <1>9, <1>10, <1>11,
       <1>12, <1>13 DEF Reconcile

\* Only the builders' loop makes a child exist.
LEMMA CreatesReconcile ==
    ASSUME StateType, Reconcile, NEW i \in Kinds, child'[i] # NoChild, pc # "apply"
    PROVE  child[i] # NoChild
<1>c. child \in [Kinds -> Children] /\ k \in Kinds /\ Sts \in Kinds
      /\ Plugins \in Kinds
    BY KindsFacts DEF StateType, ChildType, PassType
<1>w. ASSUME NEW j \in Kinds, NEW c \in {child[j], NoChild}, NEW m, NEW p,
             WriteObject(j, c, m, p)
      PROVE  child[i] # NoChild
    BY <1>w, <1>c DEF WriteObject
<1>s. ASSUME UNCHANGED child PROVE child[i] # NoChild
    BY <1>s
<1>1. CASE Start \/ PausedExit \/ ReconcileOperatorDefaults \/ ReconcileTLS
           \/ ScaleDown \/ RunRabbitmqCLICommands \/ RunQueueRebalance \/ Finish
    BY <1>1, <1>s
       DEF Start, PausedExit, ReconcileOperatorDefaults, ReconcileTLS,
           ScaleDown, RunRabbitmqCLICommands, RunQueueRebalance, Finish,
           apiVars, objectVars, childVars, WriteChild
<1>2. CASE AddFinalizerIfNeeded \/ UpdateStatusConditions
           \/ MarkForQueueRebalance \/ ReconcileStatus
    BY <1>2, <1>s
       DEF AddFinalizerIfNeeded, UpdateStatusConditions, MarkForQueueRebalance,
           ReconcileStatus, KeepOrUpdate, objectVars, childVars
<1>3. CASE ReconcilePVC
    <2>1. UNCHANGED child \/ WriteObject(Sts, NoChild, FALSE, "absent")
        BY <1>3 DEF ReconcilePVC, objectVars, childVars, WriteChild
    <2> QED
        BY <2>1, <1>c, <1>w
<1>4. CASE AnnotateIfNeeded
    <2>1. UNCHANGED child \/ WriteObject(k, child[k], TRUE, phase)
        BY <1>4 DEF AnnotateIfNeeded, objectVars, childVars, WriteChild, GiveUp
    <2> QED
        BY <2>1, <1>c, <1>w
<1>5. CASE RestartStatefulSetIfNeeded
    <2>1. UNCHANGED child \/ WriteObject(Sts, child[Sts], mark[Sts], "rolling")
        BY <1>5 DEF RestartStatefulSetIfNeeded, objectVars, childVars, WriteChild
    <2> QED
        BY <2>1, <1>c, <1>w
<1>6. ASSUME NEW j \in Kinds, NEW loc, RunAndUnmark(j, loc)
      PROVE  child[i] # NoChild
    <2>1. UNCHANGED child \/ WriteObject(j, child[j], FALSE, phase)
        BY <1>6 DEF RunAndUnmark, objectVars, childVars, WriteChild
    <2> QED
        BY <2>1, <1>w
<1> QED
    BY <1>1, <1>2, <1>3, <1>4, <1>5, <1>6, <1>c
       DEF Reconcile, CreateOrUpdate, RunSetPlugins, RunEnableFeatureFlags

LEMMA CachesReconcile == ASSUME StateType, CachesOK, Reconcile PROVE CachesOK'
<1>1. /\ UNCHANGED cacheVars
      /\ rmqFresh' => rmqFresh /\ rmq' = rmq
      /\ UnseenChildren
    BY StepCaches, StepCluster, StepChildren
<1> QED
    BY <1>1, KindsFacts DEF CachesOK, UnseenChildren, cacheVars

LEMMA ClusterReconcile == ASSUME ClusterInv, Reconcile PROVE ClusterInv'
<1> USE DEF ClusterInv
<1>1. StateType' /\ CachesOK' /\ PassOK'
    BY TypeReconcile, CachesReconcile, PassReconcile
<1>2. rmq.final => rmq'.final
    BY MonoReconcile, FinishObserves DEF Mono
<1>3. FinalizerOK'
    <2>1. cRmq' = cRmq
        BY StepCaches DEF cacheVars
    <2>2. cRmq'.final => rmq'.final
        BY <1>2, <2>1 DEF FinalizerOK
    <2>3. ASSUME Active', inst'.final PROVE rmq'.final
        BY <1>2, <2>3, InstReconcile DEF FinalizerOK
    <2> QED
        BY <2>2, <2>3 DEF FinalizerOK
<1>4. FinalizerBeforeChildren'
    <2>1. SUFFICES ASSUME NEW i \in Kinds, child'[i] # NoChild
                   PROVE  rmq'.final
        BY DEF FinalizerBeforeChildren
    <2>2. CASE pc = "apply"
        <3>1. Active /\ inst.final
            BY <2>2 DEF PassOK, Active, Reached, AfterFinalizer, InLoop
        <3> QED
            BY <3>1, <1>2 DEF FinalizerOK
    <2>3. CASE pc # "apply"
        BY <2>1, <2>3, <1>2, CreatesReconcile DEF FinalizerBeforeChildren
    <2> QED
        BY <2>2, <2>3
<1>5. ObservedBounded'
    <2>1. /\ rmq.gen \in Nat /\ rmq.status.obs \in Nat
          /\ rmq'.gen \in Nat /\ rmq'.status.obs \in Nat
        BY <1>1 DEF StateType, ApiType, Cluster, Status
    <2>2. CASE Finish
        BY <2>1, <2>2, FinishObserves DEF ObservedBounded
    <2>3. CASE ~Finish
        BY <2>1, <2>3, MonoReconcile DEF ObservedBounded, Mono
    <2> QED
        BY <2>2, <2>3
<1> QED
    BY <1>1, <1>3, <1>4, <1>5

\* Every step that is not a step of a pass, reduced to what it does to the
\* objects, their cached copies and the running pass.
LEMMA EnvironmentShapes ==
    ASSUME StateType,
           SyncCluster \/ (\E i \in Kinds : SyncChild(i)) \/ Crash
             \/ RestartAfterPanic \/ Environment \/ UNCHANGED vars
    PROVE  \/ SyncCluster
           \/ \E i \in Kinds : SyncChild(i)
           \/ ProcessRestart
           \/ \E c : /\ UserWrites(c)
                     /\ c.final = rmq.final /\ c.status = rmq.status
                     /\ c.gen >= rmq.gen
           \/ \E i \in Kinds : \E c, m, p :
                 /\ WriteObject(i, c, m, p)
                 /\ i # Sts => p = phase
                 /\ child[i] = NoChild => c = NoChild
                 /\ UNCHANGED <<rmq, rmqFresh, cacheVars, passVars, queued>>
           \/ UNCHANGED <<apiVars, cacheVars, passVars, queued>>
<1>t. rmq \in Cluster /\ rmq.gen \in Nat
    BY DEF StateType, ApiType, Cluster
<1>1. CASE UserEdit
    <2>1. PICK s \in Specs, d \in {rmq.defaulted, FALSE} :
             UserWrites([rmq EXCEPT !.spec = s, !.defaulted = d, !.gen = @ + 1])
        BY <1>1 DEF UserEdit
    <2> DEFINE c == [rmq EXCEPT !.spec = s, !.defaulted = d, !.gen = @ + 1]
    <2>2. c.final = rmq.final /\ c.status = rmq.status /\ c.gen = rmq.gen + 1
        BY <1>t DEF Cluster
    <2>3. UserWrites(c)
        BY <2>1
    <2> HIDE DEF c
    <2>4. c.gen >= rmq.gen
        BY <1>t, <2>2
    <2> QED
        BY <2>2, <2>3, <2>4
<1>2. CASE UserPause
    <2> DEFINE c == [rmq EXCEPT !.paused = ~@]
    <2>1. UserWrites(c) /\ c.final = rmq.final /\ c.status = rmq.status
             /\ c.gen = rmq.gen
        BY <1>2, <1>t DEF UserPause, Cluster
    <2> HIDE DEF c
    <2>2. c.gen >= rmq.gen
        BY <1>t, <2>1
    <2> QED
        BY <2>1, <2>2
<1>3. CASE StsBecomesReady
    <2>1. WriteObject(Sts, child[Sts], mark[Sts], "ready") /\ Sts \in Kinds
        BY <1>3, KindsFacts DEF StsBecomesReady, childVars, WriteChild
    <2>2. UNCHANGED <<rmq, rmqFresh, cacheVars, passVars, queued>>
        BY <1>3 DEF StsBecomesReady
    <2> QED
        BY <2>1, <2>2
<1>4. ASSUME NEW i \in Kinds, Drift(i)
      PROVE  \E j \in Kinds : \E c, m, p :
                 /\ WriteObject(j, c, m, p)
                 /\ j # Sts => p = phase
                 /\ child[j] = NoChild => c = NoChild
                 /\ UNCHANGED <<rmq, rmqFresh, cacheVars, passVars, queued>>
    <2>1. /\ child[i] # NoChild
          /\ UNCHANGED <<rmq, rmqFresh, cacheVars, passVars, queued>>
        BY <1>4 DEF Drift
    <2>2. PICK c, m, p : WriteObject(i, c, m, p) /\ (i # Sts => p = phase)
        <3>1. CASE WriteObject(i, NoChild, FALSE, IF i = Sts THEN "absent" ELSE phase)
            BY <3>1
        <3>2. ASSUME NEW s \in Specs,
                     WriteObject(i, Desired(i, s), mark[i],
                                PhaseAfter(i, Desired(i, s)))
              PROVE  \E c, m, p : WriteObject(i, c, m, p) /\ (i # Sts => p = phase)
            <4>1. i # Sts => PhaseAfter(i, Desired(i, s)) = phase
                BY DEF PhaseAfter
            <4> QED
                BY <3>2, <4>1
        <3> QED
            BY <1>4, <3>1, <3>2 DEF Drift, childVars, WriteChild
    <2> QED
        BY <2>1, <2>2
<1>5. CASE UserSecret
    BY <1>5 DEF UserSecret
<1> QED
    BY <1>1, <1>2, <1>3, <1>4, <1>5
       DEF Crash, RestartAfterPanic, Environment, vars

LEMMA ClusterEnvironment ==
    ASSUME ClusterInv, StateType',
           SyncCluster \/ (\E i \in Kinds : SyncChild(i)) \/ Crash
             \/ RestartAfterPanic \/ Environment \/ UNCHANGED vars
    PROVE  ClusterInv'
<1> USE DEF ClusterInv
<1>1. CASE SyncCluster
    <2>1. /\ UNCHANGED <<rmq, child, mark, phase, cFresh, cChild, cMark, cPhase>>
          /\ UNCHANGED <<pc, inst, instFresh>>
          /\ cRmq' = rmq /\ queued'
        BY <1>1 DEF SyncCluster, objectVars, passVars, childVars
    <2>2. CachesOK' /\ FinalizerOK'
        BY <2>1 DEF CachesOK, FinalizerOK, Active
    <2>3. PassOK'
        BY <2>1 DEF PassOK, Active, Reached
    <2> QED
        BY <2>1, <2>2, <2>3 DEF FinalizerBeforeChildren, ObservedBounded
<1>2. ASSUME NEW i \in Kinds, SyncChild(i) PROVE ClusterInv'
    <2>1. UNCHANGED <<rmq, rmqFresh, child, mark, phase, cRmq, pc, inst, instFresh>>
             /\ queued'
        BY <1>2 DEF SyncChild, passVars
    <2>2. CachesOK'
        BY <1>2, KindsFacts DEF SyncChild, CachesOK, StateType, CacheType, ChildType
    <2>3. PassOK' /\ FinalizerOK'
        BY <2>1 DEF PassOK, FinalizerOK, Active, Reached
    <2> QED
        BY <2>1, <2>2, <2>3 DEF FinalizerBeforeChildren, ObservedBounded
<1>3. CASE ProcessRestart
    BY <1>3 DEF ProcessRestart, CachesOK, PassOK, FinalizerOK, Active,
                FinalizerBeforeChildren, ObservedBounded
<1>4. ASSUME NEW c, UserWrites(c), c.final = rmq.final, c.status = rmq.status,
             c.gen >= rmq.gen
      PROVE  ClusterInv'
    <2>1. /\ rmq' = c /\ ~rmqFresh' /\ ~instFresh'
          /\ UNCHANGED <<child, mark, phase, cFresh, pc, inst>>
          /\ UNCHANGED <<cRmq, cChild, cMark, cPhase>>
        BY <1>4 DEF UserWrites, objectVars, cacheVars, childVars
    <2>2. CachesOK' /\ FinalizerOK' /\ FinalizerBeforeChildren'
        BY <1>4, <2>1 DEF CachesOK, FinalizerOK, FinalizerBeforeChildren, Active
    <2>3. PassOK'
        BY <2>1 DEF PassOK, Active, Reached
    <2>4. ObservedBounded'
        <3>1. rmq.gen \in Nat /\ c.gen \in Nat /\ rmq.status.obs \in Nat
            BY <2>1 DEF StateType, ApiType, Cluster, Status
        <3> QED
            BY <1>4, <2>1, <3>1 DEF ObservedBounded
    <2> QED
        BY <2>2, <2>3, <2>4
<1>5. ASSUME NEW i \in Kinds, NEW c, NEW m, NEW p, WriteObject(i, c, m, p),
             i # Sts => p = phase, child[i] = NoChild => c = NoChild,
             UNCHANGED <<rmq, rmqFresh, cacheVars, passVars, queued>>
      PROVE  ClusterInv'
    <2>1. UnseenChildren
        BY <1>5, UnseenWrite
    <2>2. CachesOK'
        BY <1>5, <2>1, KindsFacts DEF CachesOK, UnseenChildren, cacheVars
    <2>3. PassOK' /\ FinalizerOK' /\ ObservedBounded'
        BY <1>5 DEF PassOK, FinalizerOK, Active, Reached, passVars, cacheVars,
                    ObservedBounded
    <2>4. ASSUME NEW j \in Kinds, child'[j] # NoChild PROVE child[j] # NoChild
        BY <1>5, <2>4 DEF WriteObject, StateType, ChildType
    <2> QED
        BY <1>5, <2>2, <2>3, <2>4 DEF FinalizerBeforeChildren
<1>6. CASE UNCHANGED <<apiVars, cacheVars, passVars, queued>>
    <2>1. /\ UNCHANGED <<rmq, rmqFresh, child, mark, phase, cFresh>>
          /\ UNCHANGED <<cRmq, cChild, cMark, cPhase>>
          /\ UNCHANGED <<pc, inst, instFresh, queued>>
        BY <1>6 DEF apiVars, objectVars, cacheVars, passVars, childVars, WriteChild
    <2>2. CachesOK' /\ FinalizerOK' /\ FinalizerBeforeChildren' /\ ObservedBounded'
        BY <2>1 DEF CachesOK, FinalizerOK, FinalizerBeforeChildren, Active,
                    ObservedBounded
    <2>3. PassOK'
        BY <2>1 DEF PassOK, Active, Reached
    <2> QED
        BY <2>2, <2>3
<1> QED
    BY <1>1, <1>2, <1>3, <1>4, <1>5, <1>6, EnvironmentShapes

LEMMA ClusterInit == Init => ClusterInv
<1> SUFFICES ASSUME Init PROVE ClusterInv
    OBVIOUS
<1>1. PICK s \in Starts : rmq = NewCluster(s[1])
    BY DEF Init
<1>2. ObservedBounded /\ ~rmq.final
    BY <1>1 DEF ObservedBounded, NewCluster
<1>3. CachesOK /\ PassOK /\ FinalizerBeforeChildren
    BY KindsFacts DEF Init, CachesOK, PassOK, Active, FinalizerBeforeChildren
<1>4. FinalizerOK
    BY <1>2 DEF Init, FinalizerOK, Active
<1> QED
    BY <1>2, <1>3, <1>4, InitType DEF ClusterInv

LEMMA ClusterStep == ClusterInv /\ [Next]_vars => ClusterInv'
<1> SUFFICES ASSUME ClusterInv, [Next]_vars PROVE ClusterInv'
    OBVIOUS
<1>1. StateType'
    BY TypeStep DEF ClusterInv
<1> QED
    BY <1>1, ClusterReconcile, ClusterEnvironment DEF Next

LEMMA ClusterCorrect == Spec => []ClusterInv
BY ClusterInit, ClusterStep, PTL DEF Spec

\* No child of a RabbitmqCluster ever exists without the deletion finalizer on
\* it, whatever the conflicts, stale reads, errors and crashes on the way of
\* addFinalizerIfNeeded.
THEOREM FinalizerFirst == Spec => []FinalizerBeforeChildren
<1>1. ClusterInv => FinalizerBeforeChildren
    BY DEF ClusterInv
<1> QED
    BY <1>1, ClusterCorrect, PTL

LEMMA ObservedStep ==
    ASSUME ClusterInv, [Next]_vars, rmq'.status.obs # rmq.status.obs
    PROVE  rmq'.status.obs = rmq.gen /\ rmq.status.obs < rmq.gen
<1>1. CASE Reconcile
    <2>1. Finish
        BY <1>1, MonoReconcile DEF ClusterInv, Mono
    <2>2. rmq'.status.obs = rmq.gen
        BY <2>1, FinishObserves DEF ClusterInv
    <2>3. rmq.status.obs <= rmq.gen /\ rmq.status.obs \in Nat /\ rmq.gen \in Nat
        BY DEF ClusterInv, ObservedBounded, StateType, ApiType, Cluster, Status
    <2> QED
        BY <2>2, <2>3
<1>2. CASE ~Reconcile
    <2>1. rmq'.status = rmq.status
        <3>1. CASE \E c : /\ UserWrites(c)
                          /\ c.final = rmq.final /\ c.status = rmq.status
                          /\ c.gen >= rmq.gen
            BY <3>1 DEF UserWrites
        <3>2. CASE UNCHANGED rmq
            BY <3>2
        <3> QED
            BY <1>2, <3>1, <3>2, EnvironmentShapes
               DEF Next, ClusterInv, SyncCluster, SyncChild, ProcessRestart, apiVars
    <2> QED
        BY <2>1
<1> QED
    BY <1>1, <1>2

\* ObservedGeneration only moves forward, to the generation of the object it is
\* written to.
THEOREM ObservedGenerationIsCurrent == Spec => ObservedIsCurrent
<1>1. ASSUME ClusterInv, [Next]_vars
      PROVE  [rmq'.status.obs # rmq.status.obs =>
                 rmq'.status.obs = rmq.gen /\ rmq.status.obs < rmq.gen]_vars
    BY <1>1, ObservedStep
<1> QED
    BY <1>1, ClusterCorrect, PTL DEF Spec, ObservedIsCurrent

-----------------------------------------------------------------------------
(* No work is lost. *)

\* A step of a pass after which nothing is pending has written nothing, and
\* nothing was pending before it: all it read was the latest.
LEMMA QuietStep ==
    ASSUME ClusterInv, Reconcile, ~Start, ~Pending'
    PROVE  /\ ~Pending /\ ~queued' /\ \A i \in Kinds : cFresh[i] /\ cFresh'[i]
           /\ rmq' = rmq /\ phase' = phase /\ cPhase = phase
           /\ \A i \in Kinds : /\ child'[i] = child[i] /\ mark'[i] = mark[i]
                               /\ cChild[i] = child[i] /\ cMark[i] = mark[i]
           /\ Active => inst = rmq /\ inst \in Cluster /\ Reached(pc, inst)
<1>1. ~queued' /\ rmqFresh' /\ \A i \in Kinds : cFresh'[i]
    BY DEF Pending
<1>2. ~queued /\ rmqFresh /\ rmq' = rmq
    BY <1>1, StepQueue, StepCluster
<1>3. UnseenChildren
    BY StepChildren DEF ClusterInv
<1>4. /\ phase' = phase
      /\ \A i \in Kinds : cFresh[i] /\ child'[i] = child[i] /\ mark'[i] = mark[i]
    BY <1>1, <1>3, KindsFacts DEF UnseenChildren
<1>5. /\ cPhase = phase
      /\ \A i \in Kinds : cChild[i] = child[i] /\ cMark[i] = mark[i]
    BY <1>4, KindsFacts DEF ClusterInv, CachesOK
<1>6. Active => inst = rmq /\ inst \in Cluster /\ Reached(pc, inst)
    BY <1>2 DEF ClusterInv, PassOK, StateType, PassType, Active
<1> QED
    BY <1>1, <1>2, <1>4, <1>5, <1>6 DEF Pending

LEMMA ReadsReturn == ASSUME NEW r, Return(r) PROVE IndexOK' /\ ReadsOK'
BY DEF Return, IndexOK, ReadsOK, BeforeLoop, AfterCli

LEMMA ReadsKeepOrUpdate ==
    ASSUME IndexOK, NEW c, NEW loc, loc \notin AfterCli \cup {"annotate"},
           KeepOrUpdate(c, loc), pc \in BeforeLoop \/ loc \notin BeforeLoop
    PROVE  IndexOK' /\ ReadsOK'
<1>1. ASSUME NEW d, Continue(d, loc) PROVE IndexOK' /\ ReadsOK'
    BY <1>1 DEF Continue, IndexOK, ReadsOK
<1> QED
    BY <1>1, ReadsReturn DEF KeepOrUpdate

LEMMA ReadsAdvance ==
    ASSUME Advance PROVE IndexOK' /\ ReadsOK'
<1>1. pc' \in {"apply", "guard", "restart"}
    BY DEF Advance
<1> QED
    BY <1>1 DEF IndexOK, ReadsOK, BeforeLoop, AfterCli

LEMMA ReadsReconcile ==
    ASSUME StateType, IndexOK, ReadsOK, Reconcile PROVE IndexOK' /\ ReadsOK'
<1>c. ASSUME NEW c, NEW loc, loc \notin AfterCli \cup {"annotate"}, Continue(c, loc),
             pc \in BeforeLoop \/ loc \notin BeforeLoop
      PROVE  IndexOK' /\ ReadsOK'
    BY <1>c DEF Continue, IndexOK, ReadsOK
<1>t. /\ cFresh \in [Kinds -> BOOLEAN] /\ held \in [Kinds -> BOOLEAN] /\ k \in Kinds
      /\ Plugins \in Kinds /\ Sts \in Kinds
    BY KindsFacts DEF StateType, ChildType, PassType
<1> USE DEF BeforeLoop, AfterCli
<1>1. CASE Start
    BY <1>1 DEF Start, IndexOK, ReadsOK
<1>2. CASE PausedExit \/ Finish
    BY <1>2, ReadsReturn DEF PausedExit, Finish
<1>3. CASE ReconcileOperatorDefaults
    BY <1>3, <1>c, ReadsReturn DEF ReconcileOperatorDefaults
<1>4. CASE AddFinalizerIfNeeded \/ UpdateStatusConditions
           \/ MarkForQueueRebalance \/ ReconcileStatus
    BY <1>4, ReadsKeepOrUpdate
       DEF AddFinalizerIfNeeded, UpdateStatusConditions, MarkForQueueRebalance,
           ReconcileStatus
<1>5. CASE ReconcileTLS
    BY <1>5, <1>c, ReadsReturn DEF ReconcileTLS
<1>6. CASE ScaleDown
    BY <1>6, <1>c, ReadsReturn DEF ScaleDown
<1>7. CASE ReconcilePVC
    BY <1>7, <1>c, ReadsReturn DEF ReconcilePVC
<1>8. CASE CreateOrUpdate
    <2> DEFINE want == Desired(k, inst.spec)
    <2>1. \/ Return(TRUE)
          \/ Advance
          \/ /\ Continue(inst, "annotate")
             /\ WriteObject(k, want, mark[k], PhaseAfter(k, want))
        BY <1>8 DEF CreateOrUpdate, childVars, WriteChild, GiveUp, objectVars
    <2>2. CASE Continue(inst, "annotate")
               /\ WriteObject(k, want, mark[k], PhaseAfter(k, want))
        <3>1. pc' = "annotate" /\ k' = k /\ ~cFresh'[k]
            BY <2>2, <1>t DEF Continue, WriteObject
        <3> QED
            BY <3>1 DEF IndexOK, ReadsOK
    <2> QED
        BY <2>1, <2>2, ReadsReturn, ReadsAdvance
<1>9. CASE AnnotateIfNeeded
    BY <1>9, ReadsReturn, ReadsAdvance DEF AnnotateIfNeeded
<1>10. CASE RestartStatefulSetIfNeeded
    BY <1>10, <1>c, ReadsReturn DEF RestartStatefulSetIfNeeded
<1>11. CASE RunRabbitmqCLICommands
    <2>1. \/ Return(TRUE)
          \/ Continue(inst, "panicked")
          \/ Continue(inst, "plugins") /\ held' = cFresh /\ cFresh' = cFresh
        BY <1>11 DEF RunRabbitmqCLICommands
    <2> QED
        BY <2>1, <1>c, ReadsReturn DEF Continue, IndexOK, ReadsOK
<1>12. ASSUME NEW i \in Kinds, NEW loc \in {"flags", "queues"},
              pc \in {"plugins", "flags"}, RunAndUnmark(i, loc)
       PROVE  IndexOK' /\ ReadsOK'
    <2>1. \/ Return(TRUE)
          \/ /\ Continue(inst, loc)
             /\ UNCHANGED objectVars \/ WriteObject(i, child[i], FALSE, phase)
        BY <1>12 DEF RunAndUnmark, childVars, WriteChild, GiveUp, objectVars
    <2>2. CASE Continue(inst, loc) /\ UNCHANGED objectVars
        BY <1>12, <2>2 DEF Continue, IndexOK, ReadsOK, objectVars
    <2>3. CASE Continue(inst, loc) /\ WriteObject(i, child[i], FALSE, phase)
        <3>1. \A j \in Kinds : cFresh'[j] => cFresh[j] /\ held'[j] = held[j]
            BY <2>3, <1>t DEF WriteObject
        <3>2. pc' = loc /\ queued' = queued
            BY <2>3 DEF Continue
        <3> QED
            BY <1>12, <1>t, <3>1, <3>2 DEF IndexOK, ReadsOK
    <2> QED
        BY <2>1, <2>2, <2>3, ReadsReturn
<1>13. CASE RunSetPlugins \/ RunEnableFeatureFlags
    BY <1>12, <1>13, <1>t DEF RunSetPlugins, RunEnableFeatureFlags
<1>14. CASE RunQueueRebalance
    <2>1. \/ Return(TRUE)
          \/ /\ \E c : Continue(c, "finish")
             /\ pc = "queues" /\ UNCHANGED <<cFresh, held>>
        BY <1>14 DEF RunQueueRebalance, objectVars, childVars, WriteChild, GiveUp
    <2> QED
        BY <2>1, ReadsReturn DEF Continue, IndexOK, ReadsOK
<1> QED
    BY <1>1, <1>2, <1>3, <1>4, <1>5, <1>6, <1>7, <1>8, <1>9, <1>10, <1>11,
       <1>13, <1>14 DEF Reconcile

\* What ChildrenOK asks of a state in which nothing is pending.
Built(p, j) ==
    /\ p \in InLoop => \A i \in 1..(j - 1) : child[i] = Desired(i, rmq.spec)
    /\ p \in AfterLoop => Converged
    /\ p \in AfterCli => phase = "ready"
    /\ p \in AfterCli \ {"plugins"} => ~mark[Plugins]
    /\ p \in {"queues", "finish"} => ~mark[Sts]

LEMMA ChildrenAsBuilt ==
    ASSUME ClusterInv, Reconcile, ~Start, ~Pending', Built(pc', k')
    PROVE  ChildrenOK'
<1>1. /\ rmq' = rmq /\ phase' = phase
      /\ \A i \in Kinds : child'[i] = child[i] /\ mark'[i] = mark[i]
    BY QuietStep
<1>2. k' \in Kinds
    BY TypeReconcile DEF ClusterInv, StateType, PassType
<1>k. ASSUME NEW j \in 1..(N + 1), NEW i \in 1..(j - 1), N \in Nat
      PROVE  i \in 1..(N + 1)
    BY <1>k
<1>3. \A i \in 1..(k' - 1) : i \in Kinds
    BY <1>2, <1>k, KindsFacts
<1>4. Converged => Converged'
    BY <1>1 DEF Converged
<1> QED
    BY <1>1, <1>3, <1>4, KindsFacts DEF Built, ChildrenOK

LEMMA ChildrenReconcile ==
    ASSUME ClusterInv, IndexOK, ReadsOK, ChildrenOK, Reconcile
    PROVE  ChildrenOK'
<1> SUFFICES ASSUME ~Pending' PROVE ChildrenOK'
    BY DEF ChildrenOK
<1>1. CASE Start
    <2>1. pc' \in {"paused", "defaults"}
        BY <1>1 DEF Start
    <2> QED
        BY <2>1 DEF ChildrenOK, InLoop, AfterLoop, AfterCli
<1> SUFFICES ASSUME ~Start PROVE ChildrenOK'
    BY <1>1
<1>q. /\ ~Pending /\ cPhase = phase
      /\ \A i \in Kinds : /\ cFresh[i] /\ cFresh'[i]
                          /\ cChild[i] = child[i] /\ cMark[i] = mark[i]
      /\ Active => inst = rmq
    BY QuietStep
<1>b. Built(pc, k)
    BY <1>q DEF ChildrenOK, Built
<1>t. /\ N \in Nat \ {0} /\ Sts = N + 1 /\ Kinds = 1..(N + 1) /\ k \in Kinds
      /\ Plugins \in Kinds /\ Sts \in Kinds /\ (pc \in {"guard", "pvc"} => k = Sts)
    BY KindsFacts DEF ClusterInv, StateType, PassType
<1>r. ASSUME NEW r, Return(r) PROVE ChildrenOK'
    BY <1>r DEF Return, ChildrenOK, InLoop, AfterLoop, AfterCli
<1>c. ASSUME NEW c, NEW loc, Continue(c, loc), Built(loc, k) PROVE ChildrenOK'
    BY <1>c, ChildrenAsBuilt DEF Continue
<1>w. ASSUME NEW i \in Kinds, NEW c, NEW m, NEW p, WriteObject(i, c, m, p)
      PROVE  FALSE
    BY <1>w, <1>q DEF WriteObject, ClusterInv, StateType, ChildType
<1> USE DEF InLoop, AfterLoop, AfterCli
<1>k. ASSUME NEW c, NEW loc, KeepOrUpdate(c, loc), Built(loc, k) PROVE ChildrenOK'
    BY <1>k, <1>c, <1>r DEF KeepOrUpdate
<1>2. CASE PausedExit \/ Finish
    BY <1>2, <1>r DEF PausedExit, Finish
<1>3. CASE ReconcileOperatorDefaults
    <2>1. Built("finalizer", k)
        BY DEF Built
    <2> QED
        BY <1>3, <2>1, <1>c, <1>r DEF ReconcileOperatorDefaults
<1>4. CASE AddFinalizerIfNeeded \/ UpdateStatusConditions
    <2>1. Built("conditions", k) /\ Built("tls", k)
        BY DEF Built
    <2> QED
        BY <1>4, <2>1, <1>k DEF AddFinalizerIfNeeded, UpdateStatusConditions
<1>5. CASE ReconcileTLS
    <2>1. Built("rebalance", k)
        BY DEF Built
    <2> QED
        BY <1>5, <2>1, <1>c, <1>r DEF ReconcileTLS
<1>6. CASE MarkForQueueRebalance
    <2>1. k = 1
        BY <1>6 DEF MarkForQueueRebalance, IndexOK, BeforeLoop
    <2>2. Built("apply", k)
        BY <2>1 DEF Built
    <2> QED
        BY <1>6, <2>2, <1>k DEF MarkForQueueRebalance
<1>7. CASE ScaleDown
    <2>1. pc = "guard" => Built("pvc", k)
        BY <1>b DEF Built
    <2> QED
        BY <1>7, <2>1, <1>c, <1>r DEF ScaleDown
<1>8. CASE ReconcilePVC
    <2>1. pc = "pvc" => Built("apply", k)
        BY <1>b DEF Built
    <2> QED
        BY <1>8, <2>1, <1>c, <1>r DEF ReconcilePVC
<1>9. CASE CreateOrUpdate
    <2> DEFINE want == Desired(k, inst.spec)
    <2>1. \/ Return(TRUE)
          \/ cChild[k] = want /\ Advance
          \/ WriteObject(k, want, mark[k], PhaseAfter(k, want))
        BY <1>9 DEF CreateOrUpdate, childVars, WriteChild, GiveUp, objectVars
    <2>2. CASE cChild[k] = want /\ Advance
        <3>1. pc = "apply" /\ child[k] = Desired(k, rmq.spec)
            BY <1>9, <2>2, <1>q, <1>t DEF CreateOrUpdate, Active
        <3>2. \A i \in 1..k : child[i] = Desired(i, rmq.spec)
            <4>1. \A i \in 1..k : i = k \/ i \in 1..(k - 1)
                BY <1>t
            <4> QED
                BY <3>1, <4>1, <1>b DEF Built
        <3>3. CASE k < Sts
            <4>1. pc' \in {"apply", "guard"} /\ k' = k + 1
                BY <2>2, <3>3, <1>t DEF Advance
            <4>2. k' - 1 = k
                BY <4>1, <1>t
            <4>3. Built(pc', k')
                BY <3>2, <4>1, <4>2 DEF Built
            <4> QED
                BY <4>3, ChildrenAsBuilt
        <3>4. CASE k = Sts
            <4>1. pc' = "restart"
                BY <2>2, <3>4, <1>t DEF Advance
            <4>2. Converged
                BY <3>2, <3>4, <1>t DEF Converged
            <4>3. Built(pc', k')
                BY <4>1, <4>2 DEF Built
            <4> QED
                BY <4>3, ChildrenAsBuilt
        <3> QED
            BY <3>3, <3>4, <1>t
    <2> QED
        BY <2>1, <2>2, <1>r, <1>t, <1>w
<1>10. CASE AnnotateIfNeeded
    <2>1. ~cFresh[k] \/ queued
        BY <1>10 DEF AnnotateIfNeeded, ReadsOK
    <2> QED
        BY <2>1, <1>q, <1>t DEF Pending
<1>11. CASE RestartStatefulSetIfNeeded
    <2>1. pc = "restart" => Built("bind", k)
        BY <1>b DEF Built
    <2> QED
        BY <1>11, <2>1, <1>c, <1>r DEF RestartStatefulSetIfNeeded
<1>12. CASE ReconcileStatus
    <2>1. pc = "bind" => Built("cli", k)
        BY <1>b DEF Built
    <2> QED
        BY <1>12, <2>1, <1>k DEF ReconcileStatus
<1>13. CASE RunRabbitmqCLICommands
    <2>1. \/ Return(TRUE)
          \/ Continue(inst, "panicked")
          \/ pc = "cli" /\ cPhase = "ready" /\ Continue(inst, "plugins")
        BY <1>13 DEF RunRabbitmqCLICommands
    <2>2. Built("panicked", k) /\ (pc = "cli" /\ phase = "ready" => Built("plugins", k))
        BY <1>b DEF Built
    <2> QED
        BY <2>1, <2>2, <1>q, <1>c, <1>r
<1>14. ASSUME NEW i \in {Plugins, Sts}, NEW loc, pc \in AfterCli,
              RunAndUnmark(i, loc), ~mark[i] => Built(loc, k)
       PROVE  ChildrenOK'
    <2>1. held[i]
        BY <1>14, <1>q, <1>t DEF ReadsOK, Pending
    <2>2. \/ Return(TRUE)
          \/ (held[i] => ~mark[i]) /\ Continue(inst, loc)
          \/ WriteObject(i, child[i], FALSE, phase)
        BY <1>14 DEF RunAndUnmark, childVars, WriteChild, GiveUp, objectVars
    <2> QED
        BY <1>14, <2>1, <2>2, <1>r, <1>c, <1>w, <1>t
<1>15. CASE RunSetPlugins
    <2>1. pc = "plugins" /\ RunAndUnmark(Plugins, "flags")
        BY <1>15 DEF RunSetPlugins
    <2>2. ~mark[Plugins] => Built("flags", k)
        BY <2>1, <1>b DEF Built
    <2> QED
        BY <2>1, <2>2, <1>14
<1>16. CASE RunEnableFeatureFlags
    <2>1. pc = "flags" /\ RunAndUnmark(Sts, "queues")
        BY <1>16 DEF RunEnableFeatureFlags
    <2>2. ~mark[Sts] => Built("queues", k)
        BY <2>1, <1>b DEF Built
    <2> QED
        BY <2>1, <2>2, <1>14
<1>17. CASE RunQueueRebalance
    <2>1. pc = "queues" /\ (Return(TRUE) \/ \E c : Continue(c, "finish"))
        BY <1>17 DEF RunQueueRebalance
    <2>2. Built("finish", k)
        BY <2>1, <1>b DEF Built
    <2> QED
        BY <2>1, <2>2, <1>c, <1>r
<1> QED
    BY <1>2, <1>3, <1>4, <1>5, <1>6, <1>7, <1>8, <1>9, <1>10, <1>11, <1>12,
       <1>13, <1>15, <1>16, <1>17 DEF Reconcile

\* The only passes that end without an error, without an event under way and
\* without a request: the three that decline, and the one that finishes.
LEMMA WorkReconcile ==
    ASSUME ClusterInv, ReadsOK, ChildrenOK, Reconcile PROVE Settled'
<1> SUFFICES ASSUME Quiescent' PROVE Declined' \/ Applied'
    BY DEF Settled
<1>1. pc' = "idle" /\ ~Pending' /\ ~queued'
    BY DEF Quiescent, Pending
<1>2. ~Start
    BY <1>1 DEF Start
<1>q. /\ ~Pending /\ cPhase = phase /\ rmq' = rmq /\ phase' = phase
      /\ \A i \in Kinds : /\ child'[i] = child[i] /\ mark'[i] = mark[i]
                          /\ cChild[i] = child[i]
      /\ Active => inst = rmq /\ Reached(pc, inst)
    BY <1>1, <1>2, QuietStep
<1>t. /\ N \in Nat \ {0} /\ Sts = N + 1 /\ Kinds = 1..(N + 1)
      /\ Plugins \in Kinds /\ Sts \in Kinds /\ (pc \in {"guard", "pvc"} => k = Sts)
    BY KindsFacts DEF ClusterInv, StateType, PassType
<1>r. ~Return(TRUE)
    BY <1>1 DEF Return
<1>c. \A c, loc : Continue(c, loc) => loc = "idle"
    BY <1>1 DEF Continue
<1>a. ~Advance
    BY <1>1 DEF Advance
<1>k. \A c, loc : KeepOrUpdate(c, loc) => loc = "idle"
    BY <1>c, <1>r DEF KeepOrUpdate
<1>u. \A i, loc : RunAndUnmark(i, loc) => loc = "idle"
    BY <1>c, <1>r DEF RunAndUnmark
<1>3. CASE PausedExit
    <2>1. rmq.paused
        BY <1>3, <1>q DEF PausedExit, Active, Reached
    <2> QED
        BY <2>1, <1>q DEF Declined
<1>4. CASE ReconcileTLS
    <2>1. Return(TLSErrorRequeues) /\ pc = "tls"
        BY <1>4, <1>c DEF ReconcileTLS
    <2>2. ~TLSErrorRequeues
        BY <2>1, <1>1 DEF Return
    <2>3. rmq.spec.tls = "misconfigured"
        BY <2>1, <2>2, <1>q DEF TLSErrorRequeues, Active
    <2> QED
        BY <2>3, <1>q DEF Declined
<1>5. CASE ScaleDown
    <2>1. pc = "guard" /\ ScaleDownDetected
        BY <1>5, <1>c DEF ScaleDown
    <2>2. child[Sts] # NoChild /\ child[Sts].replicas > rmq.spec.replicas
        BY <2>1, <1>q, <1>t DEF ScaleDownDetected, Active
    <2>3. \A i \in 1..(k - 1) : child[i] = Desired(i, rmq.spec)
        BY <2>1, <1>q DEF ChildrenOK, InLoop
    <2>4. k - 1 = N /\ \A i \in 1..N : i \in Kinds
        BY <2>1, <1>t
    <2> QED
        BY <2>2, <2>3, <2>4, <1>q, <1>t DEF Declined
<1>6. CASE Finish
    <2>1. pc = "finish" /\ Active
        BY <1>6 DEF Finish, Active
    <2>2. /\ rmq.defaulted /\ rmq.final /\ rmq.status.bound /\ ~rmq.rebal
        BY <2>1, <1>q DEF Reached, AfterFinalizer, AfterLoop, AfterCli
    <2>3. Converged /\ phase = "ready" /\ ~mark[Plugins] /\ ~mark[Sts]
        BY <2>1, <1>q DEF ChildrenOK, AfterLoop, AfterCli
    <2>4. Converged'
        BY <2>3, <1>q DEF Converged
    <2> QED
        BY <2>2, <2>3, <2>4, <1>q, <1>t DEF Applied
<1>7. CASE ReconcileOperatorDefaults
    BY <1>7, <1>c, <1>r DEF ReconcileOperatorDefaults
<1>8. CASE ReconcilePVC
    BY <1>8, <1>c, <1>r DEF ReconcilePVC
<1>9. CASE CreateOrUpdate
    BY <1>9, <1>c, <1>r, <1>a DEF CreateOrUpdate
<1>10. CASE AnnotateIfNeeded
    BY <1>10, <1>r, <1>a DEF AnnotateIfNeeded
<1>11. CASE RestartStatefulSetIfNeeded
    BY <1>11, <1>c, <1>r DEF RestartStatefulSetIfNeeded
<1>12. CASE RunRabbitmqCLICommands
    BY <1>12, <1>c, <1>r DEF RunRabbitmqCLICommands
<1>13. CASE RunQueueRebalance
    BY <1>13, <1>c, <1>r DEF RunQueueRebalance
<1>14. CASE AddFinalizerIfNeeded \/ UpdateStatusConditions
            \/ MarkForQueueRebalance \/ ReconcileStatus
            \/ RunSetPlugins \/ RunEnableFeatureFlags
    BY <1>14, <1>k, <1>u
       DEF AddFinalizerIfNeeded, UpdateStatusConditions, MarkForQueueRebalance,
           ReconcileStatus, RunSetPlugins, RunEnableFeatureFlags
<1> QED
    BY <1>2, <1>3, <1>4, <1>5, <1>6, <1>7, <1>8, <1>9, <1>10, <1>11, <1>12,
       <1>13, <1>14 DEF Reconcile

LEMMA WorkEnvironment ==
    ASSUME IInv,
           SyncCluster \/ (\E i \in Kinds : SyncChild(i)) \/ Crash
             \/ RestartAfterPanic \/ Environment \/ UNCHANGED vars
    PROVE  IndexOK' /\ ReadsOK' /\ ChildrenOK' /\ Settled'
<1>p. ASSUME Pending' PROVE ChildrenOK' /\ Settled'
    BY <1>p DEF ChildrenOK, Settled, Quiescent, Pending
<1>t. cFresh \in [Kinds -> BOOLEAN] /\ held \in [Kinds -> BOOLEAN]
    BY DEF IInv, ClusterInv, StateType, ChildType
<1>s. IndexOK /\ ReadsOK
    BY DEF IInv
<1>1. CASE SyncCluster \/ \E i \in Kinds : SyncChild(i)
    <2>1. queued' /\ UNCHANGED <<pc, k>>
        BY <1>1 DEF SyncCluster, SyncChild, passVars
    <2> QED
        BY <2>1, <1>p, <1>s DEF IndexOK, ReadsOK, Pending
<1>2. CASE ProcessRestart
    <2>1. queued' /\ pc' = "idle"
        BY <1>2 DEF ProcessRestart
    <2> QED
        BY <2>1, <1>p DEF IndexOK, ReadsOK, Pending, BeforeLoop
<1>3. ASSUME NEW c, UserWrites(c)
      PROVE  IndexOK' /\ ReadsOK' /\ ChildrenOK' /\ Settled'
    <2>1. ~rmqFresh' /\ UNCHANGED <<pc, k, queued, cFresh, held>>
        BY <1>3 DEF UserWrites, objectVars, childVars
    <2> QED
        BY <2>1, <1>p, <1>s DEF IndexOK, ReadsOK, Pending
<1>4. ASSUME NEW i \in Kinds, NEW c, NEW m, NEW p, WriteObject(i, c, m, p),
             UNCHANGED <<passVars, queued>>
      PROVE  IndexOK' /\ ReadsOK' /\ ChildrenOK' /\ Settled'
    <2>1. ~cFresh'[i] /\ UNCHANGED <<pc, k, queued>>
        BY <1>4, <1>t DEF WriteObject, passVars
    <2>2. \A j \in Kinds : cFresh'[j] => cFresh[j] /\ held'[j] = held[j]
        BY <1>4, <1>t DEF WriteObject
    <2>3. k \in Kinds /\ Plugins \in Kinds /\ Sts \in Kinds /\ k' = k
        BY <2>1, KindsFacts DEF IInv, ClusterInv, StateType, PassType
    <2> QED
        BY <2>1, <2>2, <2>3, <1>p, <1>s DEF IndexOK, ReadsOK, Pending
<1>5. CASE UNCHANGED <<apiVars, cacheVars, passVars, queued>>
    <2>1. UNCHANGED <<rmq, rmqFresh, child, mark, phase, cFresh, held, pc, k, queued>>
        BY <1>5 DEF apiVars, objectVars, passVars, childVars, WriteChild
    <2>2. IndexOK' /\ ReadsOK'
        BY <2>1, <1>s DEF IndexOK, ReadsOK
    <2>3. Pending' = Pending /\ Converged' = Converged /\ Quiescent' = Quiescent
        BY <2>1 DEF Pending, Converged, Quiescent
    <2>4. ChildrenOK'
        BY <2>1, <2>3 DEF IInv, ChildrenOK
    <2>5. Settled'
        BY <2>1, <2>3 DEF IInv, Settled, Declined, Applied
    <2> QED
        BY <2>2, <2>4, <2>5
<1> QED
    BY <1>1, <1>2, <1>3, <1>4, <1>5, EnvironmentShapes DEF IInv, ClusterInv

LEMMA IInvInit == Init => IInv
<1> SUFFICES ASSUME Init PROVE IInv
    OBVIOUS
<1>1. IndexOK /\ ReadsOK /\ ChildrenOK /\ Settled
    BY DEF Init, IndexOK, ReadsOK, ChildrenOK, Settled, Quiescent, Pending,
           BeforeLoop, AfterCli
<1> QED
    BY <1>1, ClusterInit DEF IInv

LEMMA IInvStep == IInv /\ [Next]_vars => IInv'
<1> SUFFICES ASSUME IInv, [Next]_vars PROVE IInv'
    OBVIOUS
<1>1. ClusterInv'
    BY ClusterStep DEF IInv
<1>2. CASE Reconcile
    BY <1>1, <1>2, ReadsReconcile, ChildrenReconcile, WorkReconcile
       DEF IInv, ClusterInv
<1>3. CASE ~Reconcile
    BY <1>1, <1>3, WorkEnvironment DEF IInv, Next
<1> QED
    BY <1>2, <1>3

LEMMA IInvCorrect == Spec => []IInv
BY IInvInit, IInvStep, PTL DEF Spec

-----------------------------------------------------------------------------
(* The commands that are owed. *)

DebtInv == owed \in [Kinds -> Debts] /\ OwedOK

\* A step that touches neither markers nor children, outside annotateIfNeeded.
LEMMA DebtsSame ==
    ASSUME DebtInv, UNCHANGED <<child, mark, owed>>,
           pc # "annotate" \/ UNCHANGED <<pc, k>>
    PROVE  DebtInv'
BY DEF DebtInv, OwedOK

\* A write of child j that has the marker, or will have it, if a command is due.
LEMMA DebtsWritten ==
    ASSUME DebtInv, StateType, NEW j \in Kinds, NEW c, NEW m, NEW p, NEW o \in Debts,
           WriteChild(j, c, m, p, o),
           pc # "annotate" \/ k = j \/ UNCHANGED <<pc, k>>,
           j \in Commands /\ o = "due" =>
               m \/ (pc' = "annotate" /\ k' = j) \/ (j = Sts /\ c = NoChild)
    PROVE  DebtInv'
<1>t. /\ child \in [Kinds -> Children] /\ mark \in [Kinds -> BOOLEAN]
      /\ owed \in [Kinds -> Debts]
    BY DEF StateType, ChildType, DebtInv
<1>w. /\ child' = [child EXCEPT ![j] = c] /\ mark' = [mark EXCEPT ![j] = m]
      /\ owed' = [owed EXCEPT ![j] = o]
    BY DEF WriteChild, WriteObject
<1>1. owed' \in [Kinds -> Debts]
    BY <1>t, <1>w
<1>2. ASSUME NEW i \in Commands, owed'[i] = "due"
      PROVE  mark'[i] \/ (pc' = "annotate" /\ k' = i) \/ (i = Sts /\ child'[Sts] = NoChild)
    <2>k. i \in Kinds /\ Sts \in Kinds
        BY KindsFacts DEF Commands
    <2>1. CASE i = j
        <3>1. o = "due" /\ mark'[j] = m /\ child'[j] = c
            BY <1>2, <1>t, <1>w, <2>1
        <3> QED
            BY <3>1, <2>1
    <2>2. CASE i # j
        <3>1. owed[i] = "due" /\ mark'[i] = mark[i] /\ (i = Sts => child'[Sts] = child[Sts])
            BY <1>2, <1>t, <1>w, <2>2, <2>k
        <3>2. mark[i] \/ (pc = "annotate" /\ k = i) \/ (i = Sts /\ child[Sts] = NoChild)
            BY <3>1 DEF DebtInv, OwedOK
        <3> QED
            BY <3>1, <3>2, <2>2
    <2> QED
        BY <2>1, <2>2
<1> QED
    BY <1>1, <1>2 DEF DebtInv, OwedOK

\* The operator fails or stops before the marker is written.
LEMMA DebtsForgone ==
    ASSUME DebtInv, StateType, Forgo, UNCHANGED <<child, mark>> PROVE DebtInv'
<1>t. k \in Kinds /\ owed \in [Kinds -> Debts]
    BY DEF StateType, PassType, DebtInv
<1>1. Forgone(k) \in Debts
    BY <1>t DEF Forgone, Debts
<1>2. owed' = [owed EXCEPT ![k] = Forgone(k)]
    BY DEF Forgo
<1>3. ASSUME NEW i \in Commands, owed'[i] = "due"
      PROVE  mark'[i] \/ (i = Sts /\ child'[Sts] = NoChild)
    <2>k. i \in Kinds
        BY KindsFacts DEF Commands
    <2>1. CASE i = k
        BY <1>3, <1>t, <1>2, <2>1 DEF Forgone
    <2>2. CASE i # k
        <3>1. owed[i] = "due"
            BY <1>3, <1>t, <1>2, <2>2, <2>k
        <3> QED
            BY <3>1, <2>2 DEF DebtInv, OwedOK
    <2> QED
        BY <2>1, <2>2
<1> QED
    BY <1>t, <1>1, <1>2, <1>3 DEF DebtInv, OwedOK

\* What is owed for child i, and where its marker is.
LEMMA DebtOf ==
    ASSUME DebtInv, NEW i \in Kinds
    PROVE  /\ owed[i] \in Debts /\ Due(i) \in Debts /\ Forgone(i) \in Debts
           /\ i \in Commands /\ Forgone(i) = "due" => mark[i]
           /\ i \in Commands /\ owed[i] = "due" =>
                mark[i] \/ (pc = "annotate" /\ k = i) \/ (i = Sts /\ child[Sts] = NoChild)
BY DEF DebtInv, OwedOK, Due, Forgone, Debts

LEMMA DebtsCreateOrUpdate ==
    ASSUME ClusterInv, DebtInv, CreateOrUpdate PROVE DebtInv'
<1> DEFINE want == Desired(k, inst.spec)
           create == cChild[k] = NoChild
           update == cChild[k] \notin {NoChild, want}
           Annotated == (update /\ k \in {Plugins, Conf}) \/ (create /\ k = Sts)
           W(o) == WriteChild(k, want, mark[k], PhaseAfter(k, want), o)
<1>t. StateType /\ k \in Kinds /\ pc = "apply" /\ CachesOK
    BY DEF ClusterInv, StateType, PassType, CreateOrUpdate
<1>d. /\ owed[k] \in Debts /\ Due(k) \in Debts /\ Forgone(k) \in Debts
      /\ k \in Commands /\ Forgone(k) = "due" => mark[k]
      /\ k \in Commands /\ owed[k] = "due" => mark[k] \/ (k = Sts /\ child[Sts] = NoChild)
    BY <1>t, DebtOf
<1>1. \/ UNCHANGED childVars
      \/ /\ W(IF Annotated THEN Due(k) ELSE owed[k])
         /\ Annotated => Continue(inst, "annotate")
         /\ create \/ (update /\ cFresh[k])
      \/ /\ W(IF Annotated THEN Forgone(k) ELSE owed[k])
         /\ create \/ (update /\ cFresh[k])
    BY DEF CreateOrUpdate
<1>2. ASSUME create \/ (update /\ cFresh[k]), ~Annotated, k = Sts
      PROVE  child[Sts] # NoChild
    BY <1>2, <1>t DEF CachesOK
<1>3. CASE UNCHANGED childVars
    BY <1>3, <1>t, DebtsSame DEF childVars, objectVars
<1>4. ASSUME W(IF Annotated THEN Due(k) ELSE owed[k]),
             Annotated => Continue(inst, "annotate"),
             create \/ (update /\ cFresh[k])
      PROVE  DebtInv'
    <2>1. CASE Annotated
        <3>1. W(Due(k)) /\ pc' = "annotate" /\ k' = k
            BY <1>4, <2>1 DEF Continue
        <3> QED
            BY <3>1, <1>t, <1>d, DebtsWritten
    <2>2. CASE ~Annotated
        <3>1. W(owed[k])
            BY <1>4, <2>2
        <3>2. k \in Commands /\ owed[k] = "due" => mark[k]
            BY <1>2, <1>4, <2>2, <1>d
        <3> HIDE DEF want
        <3> QED
            BY <3>1, <3>2, <1>t, <1>d, DebtsWritten
    <2> QED
        BY <2>1, <2>2
<1>5. ASSUME W(IF Annotated THEN Forgone(k) ELSE owed[k]),
             create \/ (update /\ cFresh[k])
      PROVE  DebtInv'
    <2>1. CASE Annotated
        <3>1. W(Forgone(k))
            BY <1>5, <2>1
        <3> HIDE DEF want
        <3> QED
            BY <3>1, <1>t, <1>d, DebtsWritten
    <2>2. CASE ~Annotated
        <3>1. W(owed[k])
            BY <1>5, <2>2
        <3>2. k \in Commands /\ owed[k] = "due" => mark[k]
            BY <1>2, <1>5, <2>2, <1>d
        <3> HIDE DEF want
        <3> QED
            BY <3>1, <3>2, <1>t, <1>d, DebtsWritten
    <2> QED
        BY <2>1, <2>2
<1> HIDE DEF W, Annotated, create, update
<1> QED
    BY <1>1, <1>3, <1>4, <1>5

LEMMA DebtsReconcile == ASSUME ClusterInv, DebtInv, Reconcile PROVE DebtInv'
<1>t. StateType /\ k \in Kinds /\ Sts \in Kinds /\ Plugins \in Kinds
    BY KindsFacts DEF ClusterInv, StateType, PassType
<1>u. ASSUME UNCHANGED childVars, pc # "annotate" PROVE DebtInv'
    BY <1>u, DebtsSame DEF childVars, objectVars
<1>1. CASE Start \/ PausedExit \/ ReconcileOperatorDefaults \/ ReconcileTLS
           \/ ScaleDown \/ RunQueueRebalance \/ Finish
    BY <1>1, <1>u DEF Start, PausedExit, ReconcileOperatorDefaults, ReconcileTLS,
                ScaleDown, RunQueueRebalance, Finish, apiVars
<1>2. CASE AddFinalizerIfNeeded \/ UpdateStatusConditions
           \/ MarkForQueueRebalance \/ ReconcileStatus
    BY <1>2, <1>u DEF AddFinalizerIfNeeded, UpdateStatusConditions,
                MarkForQueueRebalance, ReconcileStatus, KeepOrUpdate
<1>3. CASE ReconcilePVC
    <2>1. UNCHANGED childVars \/ WriteChild(Sts, NoChild, FALSE, "absent", owed[Sts])
        BY <1>3 DEF ReconcilePVC
    <2>2. pc = "pvc" /\ owed[Sts] \in Debts
        BY <1>3, <1>t, DebtOf DEF ReconcilePVC
    <2> QED
        BY <2>1, <2>2, <1>t, <1>u, DebtsWritten
<1>4. CASE CreateOrUpdate
    BY <1>4, DebtsCreateOrUpdate
<1>5. CASE AnnotateIfNeeded
    <2>1. WriteChild(k, child[k], TRUE, phase, Due(k)) \/ GiveUp
        BY <1>5 DEF AnnotateIfNeeded
    <2>2. CASE GiveUp
        BY <2>2, <1>t, DebtsForgone DEF GiveUp, objectVars
    <2>3. CASE WriteChild(k, child[k], TRUE, phase, Due(k))
        BY <2>3, <1>t, DebtOf, DebtsWritten
    <2> QED
        BY <2>1, <2>2, <2>3
<1>6. CASE RestartStatefulSetIfNeeded
    <2>1. UNCHANGED childVars
             \/ WriteChild(Sts, child[Sts], mark[Sts], "rolling", owed[Sts])
        BY <1>6 DEF RestartStatefulSetIfNeeded
    <2>2. pc = "restart"
        BY <1>6 DEF RestartStatefulSetIfNeeded
    <2>3. /\ owed[Sts] \in Debts
          /\ Sts \in Commands /\ owed[Sts] = "due" => mark[Sts] \/ child[Sts] = NoChild
        BY <2>2, <1>t, DebtOf
    <2> QED
        BY <2>1, <2>2, <2>3, <1>t, <1>u, DebtsWritten
<1>7. CASE RunRabbitmqCLICommands
    BY <1>7, DebtsSame DEF RunRabbitmqCLICommands
<1>8. ASSUME NEW i \in Kinds, NEW loc, RunAndUnmark(i, loc), pc # "annotate"
      PROVE  DebtInv'
    <2>1. UNCHANGED childVars \/ WriteChild(i, child[i], FALSE, phase, "no")
        BY <1>8 DEF RunAndUnmark
    <2>2. "no" \in Debts /\ "no" # "due"
        BY DEF Debts
    <2> QED
        BY <2>1, <2>2, <1>8, <1>t, <1>u, DebtsWritten
<1>9. CASE RunSetPlugins \/ RunEnableFeatureFlags
    BY <1>9, <1>8, <1>t DEF RunSetPlugins, RunEnableFeatureFlags
<1> QED
    BY <1>1, <1>2, <1>3, <1>4, <1>5, <1>6, <1>7, <1>9 DEF Reconcile

LEMMA DebtsEnvironment ==
    ASSUME StateType, DebtInv,
           SyncCluster \/ (\E i \in Kinds : SyncChild(i)) \/ Crash
             \/ RestartAfterPanic \/ Environment \/ UNCHANGED vars
    PROVE  DebtInv'
<1>k. Sts \in Kinds
    BY KindsFacts
<1>1. CASE SyncCluster \/ (\E i \in Kinds : SyncChild(i)) \/ UNCHANGED vars
    BY <1>1, DebtsSame
       DEF SyncCluster, SyncChild, vars, apiVars, childVars, objectVars, passVars
<1>2. CASE Crash
    BY <1>2, DebtsForgone, DebtsSame DEF Crash, ProcessRestart
<1>3. CASE RestartAfterPanic
    BY <1>3, DebtsSame DEF RestartAfterPanic, ProcessRestart
<1>4. CASE UserEdit \/ UserPause \/ UserSecret
    BY <1>4, DebtsSame DEF UserEdit, UserPause, UserSecret, UserWrites, apiVars,
                           childVars, objectVars, passVars
<1>5. CASE StsBecomesReady
    <2>1. /\ WriteChild(Sts, child[Sts], mark[Sts], "ready", owed[Sts])
          /\ UNCHANGED <<pc, k>>
        BY <1>5 DEF StsBecomesReady, passVars
    <2>2. /\ owed[Sts] \in Debts
          /\ Sts \in Commands /\ owed[Sts] = "due" =>
                mark[Sts] \/ (pc = "annotate" /\ k = Sts) \/ child[Sts] = NoChild
        BY <1>k, DebtOf
    <2> QED
        BY <2>1, <2>2, <1>k, DebtsWritten
<1>6. ASSUME NEW i \in Kinds, Drift(i) PROVE DebtInv'
    <2> DEFINE p == IF i = Sts THEN "absent" ELSE phase
               o == IF i = Plugins /\ owed[i] = "due" THEN "lost" ELSE owed[i]
    <2>1. UNCHANGED <<pc, k>> /\ child[i] # NoChild
        BY <1>6 DEF Drift, passVars
    <2>2. /\ owed[i] \in Debts
          /\ i \in Commands /\ owed[i] = "due" => mark[i] \/ (pc = "annotate" /\ k = i)
        BY <2>1, DebtOf
    <2>3. CASE WriteChild(i, NoChild, FALSE, p, o)
        <3>1. o \in Debts /\ (i \in Commands /\ o = "due" => i = Sts)
            BY <2>2 DEF Debts, Commands
        <3> HIDE DEF p, o
        <3> QED
            BY <2>1, <2>3, <3>1, DebtsWritten
    <2>4. ASSUME NEW s \in Specs,
                 WriteChild(i, Desired(i, s), mark[i], PhaseAfter(i, Desired(i, s)), owed[i])
          PROVE  DebtInv'
        BY <2>1, <2>2, <2>4, DebtsWritten
    <2> QED
        BY <1>6, <2>3, <2>4 DEF Drift
<1> QED
    BY <1>1, <1>2, <1>3, <1>4, <1>5, <1>6 DEF Environment

LEMMA DebtsCorrect == Spec => []DebtInv
<1>1. Init => DebtInv
    BY KindsFacts DEF Init, DebtInv, OwedOK, Debts, Commands
<1>2. ClusterInv /\ DebtInv /\ [Next]_vars => DebtInv'
    BY DebtsReconcile, DebtsEnvironment DEF Next, ClusterInv
<1> QED
    BY <1>1, <1>2, ClusterCorrect, PTL DEF Spec

\* Every reachable state of the operator, its caches and the API server is
\* well typed; in particular the builder index of the loop in Reconcile never
\* leaves the list and a pass past its first read always holds a RabbitmqCluster.
THEOREM TypeCorrect == Spec => []TypeOK
<1>1. ClusterInv /\ DebtInv => TypeOK
    BY DEF ClusterInv, DebtInv, TypeOK
<1> QED
    BY <1>1, ClusterCorrect, DebtsCorrect, PTL

\* Nothing is lost between the API server, the caches and the workqueue: once
\* nothing is left to wake the operator up, the spec is declined or everything
\* is as it asks and no post-deploy command that CreateOrUpdate called for is
\* outstanding, for any number of builders, edits, faults, conflicts and
\* crashes.  A command whose marker was never written, or was deleted with its
\* ConfigMap, is "lost" and not outstanding: that it is never run is the
\* exception that NoLostWork states.
THEOREM NothingLost == Spec => []NoLostWork
<1>1. IInv /\ DebtInv => NoLostWork
    <2> SUFFICES ASSUME IInv, DebtInv, Quiescent, ~Declined PROVE Done
        BY DEF NoLostWork
    <2>1. Applied
        BY DEF IInv, Settled
    <2>2. ASSUME NEW i \in Commands
          PROVE  i \in Kinds /\ ~mark[i] /\ child[Sts] # NoChild
        <3>1. child[Sts] = Desired(Sts, rmq.spec) /\ rmq \in Cluster
            BY <2>1, KindsFacts DEF Applied, Converged, IInv, ClusterInv, StateType, ApiType
        <3>2. rmq.spec \in SpecType
            BY <3>1 DEF Cluster
        <3>3. Desired(Sts, rmq.spec) \in StsContent
            BY <3>2, KindsFacts, TypeDesired
        <3> QED
            BY <2>1, <3>1, <3>3, KindsFacts, NullAssumption DEF Applied, Commands
    <2>3. ASSUME NEW i \in Commands PROVE owed[i] # "due"
        BY <2>2, DebtOf DEF Quiescent
    <2> QED
        BY <2>1, <2>3 DEF Done
<1> QED
    BY <1>1, IInvCorrect, DebtsCorrect, PTL

=============================================================================
