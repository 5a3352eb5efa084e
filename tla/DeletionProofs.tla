--------------------------- MODULE DeletionProofs ---------------------------
(***************************************************************************)
(* However stale the operator's caches are, deleting a RabbitmqCluster     *)
(* never takes the StatefulSet of a successor with it.                     *)
(***************************************************************************)
EXTENDS Deletion, TLAPS

(***************************************************************************)
(* Typing.                                                                 *)
(***************************************************************************)
LEMMA InitType == Init => TypeOK
<1> SUFFICES ASSUME Init PROVE TypeOK
    OBVIOUS
<1> USE NullAssumption, BoundsAssumption, NamespacesAssumption
<1>1. pod \in [Namespaces -> Pods \cup {NoObj}] /\ oPod = pod /\ cPod = pod
    BY DEF Init, Pods, Uids
<1>2. copy \in [Namespaces -> Pods \cup {NoObj}]
    BY DEF Init
<1>3. nextUid \in 1..(MaxUid + 1) /\ faults \in 0..MaxFaults /\ uid \in Uids
    BY DEF Init, Uids
<1> QED
    BY <1>1, <1>2, <1>3 DEF Init, TypeOK, Locations

\* What TypeOK says of the pass.
PassType ==
    /\ my \in Clusters \cup {NoObj}
    /\ copy \in [Namespaces -> Pods \cup {NoObj}]
    /\ pc \in Locations /\ (pc # "idle" => my # NoObj)
    /\ uid \in Uids /\ todo \subseteq Namespaces
    /\ \A n \in todo : copy[n] # NoObj

\* What TypeOK says of everything else.
WorldType ==
    /\ {cr, oCr, cCr} \subseteq Clusters \cup {NoObj}
    /\ {sts, oSts, cSts} \subseteq StatefulSets \cup {NoObj}
    /\ {pod, oPod, cPod} \subseteq [Namespaces -> Pods \cup {NoObj}]
    /\ nextUid \in 1..(MaxUid + 1) /\ faults \in 0..MaxFaults

LEMMA SplitType == TypeOK <=> PassType /\ WorldType
BY DEF TypeOK, PassType, WorldType

LEMMA SplitTypeNext == TypeOK' <=> PassType' /\ WorldType'
BY DEF TypeOK, PassType, WorldType

LEMMA EndPassTyped == ASSUME PassType, EndPass PROVE PassType'
BY BoundsAssumption DEF PassType, EndPass, NoPods, Locations, Uids

LEMMA GotoTyped ==
    ASSUME PassType, pc # "idle", NEW loc \in Locations, Goto(loc)
    PROVE  PassType'
BY DEF PassType, Goto

LEMMA ConflictTyped == ASSUME PassType, pc # "idle", Conflict PROVE PassType'
<1>1. "uid" \in Locations /\ "release" \in Locations
    BY DEF Locations, Deleting
<1> QED
    BY <1>1, GotoTyped DEF Conflict, LeaveBlock

LEMMA StepType == ASSUME TypeOK, [Next]_vars PROVE TypeOK'
<1> USE NullAssumption, BoundsAssumption, NamespacesAssumption
<1>0. PassType /\ WorldType
    BY SplitType
<1>a. \A l \in {"idle", "finalizer", "apply", "release", "uid", "list", "mark",
                "delete"} : l \in Locations
    BY DEF Locations, Deleting
<1>1. CASE Start
    <2>1. PassType'
        BY <1>0, <1>1, <1>a DEF Start, PassType, WorldType
    <2>2. WorldType'
        BY <1>0, <1>1 DEF Start, WorldType, apiVars, lagVars, cacheVars
    <2> QED
        BY <2>1, <2>2, SplitTypeNext
<1>2. CASE AddFinalizerIfNeeded
    <2>0. pc = "finalizer" /\ my \in Clusters
        BY <1>0, <1>2 DEF AddFinalizerIfNeeded, PassType
    <2>1. [my EXCEPT !.final = TRUE] \in Clusters
        BY <2>0 DEF Clusters
    <2>2. PassType'
        <3>1. CASE Goto("apply")
            BY <1>0, <1>a, <2>0, <3>1, GotoTyped
        <3>2. CASE EndPass
            BY <1>0, <3>2, EndPassTyped
        <3>3. CASE /\ cr' = [my EXCEPT !.final = TRUE]
                   /\ pc' = "apply" /\ my' = cr' /\ UNCHANGED <<uid, todo, copy>>
            BY <1>0, <1>a, <2>1, <3>3 DEF PassType
        <3> QED
            BY <1>2, <3>1, <3>2, <3>3 DEF AddFinalizerIfNeeded
    <2>3. cr' \in Clusters \cup {NoObj}
        BY <1>0, <1>2, <2>1 DEF AddFinalizerIfNeeded, WorldType
    <2>4. WorldType'
        BY <1>0, <1>2, <2>3 DEF AddFinalizerIfNeeded, WorldType, lagVars, cacheVars
    <2> QED
        BY <2>2, <2>4, SplitTypeNext
<1>3. CASE CreateOrUpdate
    <2>0. pc = "apply" /\ my \in Clusters /\ my.uid \in Uids
        BY <1>0, <1>3 DEF CreateOrUpdate, PassType, Clusters
    <2>1. PassType'
        BY <1>0, <1>3, EndPassTyped DEF CreateOrUpdate
    <2>2. NewUid => nextUid \in Uids /\ nextUid' \in 1..(MaxUid + 1)
        BY <1>0 DEF NewUid, WorldType, Uids
    <2>3. sts' \in StatefulSets \cup {NoObj} /\ nextUid' \in 1..(MaxUid + 1)
        BY <1>0, <1>3, <2>0, <2>2 DEF CreateOrUpdate, WorldType, StatefulSets
    <2>4. WorldType'
        BY <1>0, <1>3, <2>3 DEF CreateOrUpdate, WorldType, lagVars, cacheVars
    <2> QED
        BY <2>1, <2>4, SplitTypeNext
<1>4. CASE StatefulSetUID
    <2>1. WorldType'
        BY <1>0, <1>4 DEF StatefulSetUID, WorldType, apiVars, lagVars, cacheVars
    <2>2. CASE LeaveBlock
        BY <1>0, <1>4, <1>a, <2>1, <2>2, GotoTyped, SplitTypeNext
           DEF StatefulSetUID, LeaveBlock
    <2>3. CASE /\ cSts # NoObj /\ uid' = cSts.uid /\ pc' = "list"
               /\ UNCHANGED <<my, todo, copy>>
        <3>1. cSts.uid \in Uids
            BY <1>0, <2>3 DEF WorldType, StatefulSets
        <3>2. PassType'
            BY <1>0, <1>4, <1>a, <2>3, <3>1 DEF PassType, StatefulSetUID
        <3> QED
            BY <2>1, <3>2, SplitTypeNext
    <2> QED
        BY <1>4, <2>2, <2>3 DEF StatefulSetUID
<1>5. CASE ListPods
    <2>1. PassType'
        BY <1>0, <1>5, <1>a DEF ListPods, PassType, WorldType
    <2>2. WorldType'
        BY <1>0, <1>5 DEF ListPods, WorldType, apiVars, lagVars, cacheVars
    <2> QED
        BY <2>1, <2>2, SplitTypeNext
<1>6. ASSUME NEW n \in Namespaces, AddRabbitmqDeletionLabel(n) PROVE TypeOK'
    <2>0. pc = "mark" /\ n \in todo /\ copy[n] \in Pods
        BY <1>0, <1>6 DEF AddRabbitmqDeletionLabel, PassType
    <2>1. [copy[n] EXCEPT !.marked = TRUE] \in Pods
        BY <2>0 DEF Pods
    <2>2. pod' \in [Namespaces -> Pods \cup {NoObj}]
        BY <1>0, <1>6, <2>1 DEF AddRabbitmqDeletionLabel, WorldType
    <2>3. WorldType'
        BY <1>0, <1>6, <2>2 DEF AddRabbitmqDeletionLabel, WorldType, lagVars, cacheVars
    <2>4. CASE Conflict
        BY <1>0, <2>0, <2>3, <2>4, ConflictTyped, SplitTypeNext
    <2>5. CASE todo' = todo \ {n} /\ UNCHANGED <<pc, my, uid, copy>>
        <3>1. PassType'
            BY <1>0, <2>5 DEF PassType
        <3> QED
            BY <2>3, <3>1, SplitTypeNext
    <2> QED
        BY <1>6, <2>4, <2>5 DEF AddRabbitmqDeletionLabel
<1>7. CASE LabelledPods
    BY <1>0, <1>7, <1>a, GotoTyped, SplitTypeNext
       DEF LabelledPods, WorldType, apiVars, lagVars, cacheVars
<1>8. CASE DeleteSts
    <2>1. WorldType'
        BY <1>0, <1>8 DEF DeleteSts, WorldType, lagVars, cacheVars
    <2>2. PassType'
        BY <1>0, <1>8, <1>a, GotoTyped, ConflictTyped DEF DeleteSts
    <2> QED
        BY <2>1, <2>2, SplitTypeNext
<1>9. CASE RemoveFinalizer
    <2>1. WorldType'
        BY <1>0, <1>9 DEF RemoveFinalizer, WorldType, lagVars, cacheVars
    <2> QED
        BY <1>0, <1>9, <2>1, EndPassTyped, SplitTypeNext DEF RemoveFinalizer
<1>10. CASE Fault \/ Restart
    <2>1. faults' \in 0..MaxFaults
        BY <1>0, <1>10 DEF Fault, Restart, Spend, WorldType
    <2>2. WorldType'
        BY <1>0, <1>10, <2>1 DEF Fault, Restart, WorldType, apiVars, lagVars, cacheVars
    <2>3. CASE EndPass
        BY <1>0, <2>2, <2>3, EndPassTyped, SplitTypeNext
    <2>4. CASE pc \in Deleting /\ LeaveBlock
        BY <1>0, <1>a, <2>2, <2>4, GotoTyped, SplitTypeNext DEF LeaveBlock, Deleting
    <2> QED
        BY <1>10, <2>3, <2>4 DEF Fault, Restart
<1>11. CASE SyncCr \/ SyncSts \/ CatchUp \/ \E n \in Namespaces : SyncPod(n)
    <2>1. PassType'
        BY <1>0, <1>11 DEF SyncCr, SyncSts, CatchUp, SyncPod, PassType, passVars
    <2>2. WorldType'
        <3> USE <1>0 DEF WorldType, apiVars, lagVars, cacheVars
        <3>1. CASE SyncCr
            BY <3>1 DEF SyncCr
        <3>2. CASE SyncSts
            BY <3>2 DEF SyncSts
        <3>3. CASE CatchUp
            BY <3>3 DEF CatchUp
        <3>4. CASE \E n \in Namespaces : SyncPod(n)
            BY <3>4 DEF SyncPod
        <3> QED
            BY <1>11, <3>1, <3>2, <3>3, <3>4
    <2> QED
        BY <2>1, <2>2, SplitTypeNext
<1>12. CASE UserCreates \/ UserDeletes
    <2>1. PassType'
        BY <1>0, <1>12 DEF UserCreates, UserDeletes, PassType, passVars
    <2>2. NewUid => nextUid \in Uids /\ nextUid' \in 1..(MaxUid + 1)
        BY <1>0 DEF NewUid, WorldType, Uids
    <2>3. cr' \in Clusters \cup {NoObj}
        <3>1. CASE UserCreates
            BY <2>2, <3>1 DEF UserCreates, Clusters
        <3>2. CASE UserDeletes
            <4>1. cr \in Clusters
                BY <1>0, <3>2 DEF UserDeletes, WorldType
            <4>2. [cr EXCEPT !.deleting = TRUE] \in Clusters
                BY <4>1 DEF Clusters
            <4> QED
                BY <3>2, <4>2 DEF UserDeletes
        <3> QED
            BY <1>12, <3>1, <3>2
    <2>4. WorldType'
        BY <1>0, <1>12, <2>2, <2>3 DEF UserCreates, UserDeletes, WorldType,
                                       lagVars, cacheVars
    <2> QED
        BY <2>1, <2>4, SplitTypeNext
<1>13. CASE CollectSts \/ StartPod \/ CollectPod
    <2>1. PassType'
        BY <1>0, <1>13 DEF CollectSts, StartPod, CollectPod, PassType, passVars
    <2>2. sts # NoObj => [sts |-> sts.uid, marked |-> FALSE] \in Pods
        BY <1>0 DEF WorldType, StatefulSets, Pods
    <2>3. pod' \in [Namespaces -> Pods \cup {NoObj}]
        BY <1>0, <1>13, <2>2 DEF CollectSts, StartPod, CollectPod, WorldType
    <2>4. WorldType'
        BY <1>0, <1>13, <2>3 DEF CollectSts, StartPod, CollectPod, WorldType,
                                 lagVars, cacheVars
    <2> QED
        BY <2>1, <2>4, SplitTypeNext
<1>14. CASE UNCHANGED vars
    BY <1>14 DEF vars, apiVars, lagVars, cacheVars, passVars, TypeOK
<1> QED
    BY <1>1, <1>2, <1>3, <1>4, <1>5, <1>6, <1>7, <1>8, <1>9, <1>10, <1>11, <1>12,
       <1>13, <1>14 DEF Next, Pass

(***************************************************************************)
(* UIDs and copies.  Each lemma is about one kind of step.                 *)
(***************************************************************************)
Copies ==
    /\ StsCopy(sts) /\ StsCopy(oSts) /\ StsCopy(cSts)
    /\ CrCopy(cr) /\ CrCopy(oCr) /\ CrCopy(cCr) /\ CrCopy(my)


LEMMA CopiesNext ==
    ASSUME \A s \in {sts', oSts', cSts'} : s # NoObj =>
               /\ s.uid < nextUid'
               /\ sts' # NoObj /\ s.uid = sts'.uid => s.owner = sts'.owner,
           \A c \in {cr', oCr', cCr', my'} : c # NoObj =>
               /\ c.uid < nextUid'
               /\ cr' # NoObj /\ c.deleting /\ cr'.uid = c.uid => cr'.deleting
    PROVE  Copies'
BY DEF Copies, StsCopy, CrCopy, Used, SameOwner, StillDeleting

LEMMA CopiesNow ==
    ASSUME Copies
    PROVE  /\ \A s \in {sts, oSts, cSts} : s # NoObj =>
               /\ s.uid < nextUid
               /\ sts # NoObj /\ s.uid = sts.uid => s.owner = sts.owner
           /\ \A c \in {cr, oCr, cCr, my} : c # NoObj =>
               /\ c.uid < nextUid
               /\ cr # NoObj /\ c.deleting /\ cr.uid = c.uid => cr.deleting
BY DEF Copies, StsCopy, CrCopy, Used, SameOwner, StillDeleting

\* Steps that copy one of the records, and drop others, but make no new one.
LEMMA CopyingStep ==
    ASSUME Copies, nextUid' = nextUid,
           sts' \in {sts, NoObj}, cr' \in {cr, NoObj},
           oSts' \in {oSts, sts}, oCr' \in {oCr, cr},
           cSts' \in {cSts, sts, oSts}, cCr' \in {cCr, cr, oCr},
           my' \in {my, cCr, NoObj}
    PROVE  Copies'
<1>1. \A s \in {sts', oSts', cSts'} : s # NoObj =>
          /\ s.uid < nextUid'
          /\ sts' # NoObj /\ s.uid = sts'.uid => s.owner = sts'.owner
    BY CopiesNow
<1>2. \A c \in {cr', oCr', cCr', my'} : c # NoObj =>
          /\ c.uid < nextUid'
          /\ cr' # NoObj /\ c.deleting /\ cr'.uid = c.uid => cr'.deleting
    BY CopiesNow
<1> QED
    BY <1>1, <1>2, CopiesNext

\* The RabbitmqCluster gets its finalizer or its deletion timestamp.
LEMMA AgingStep ==
    ASSUME Copies, nextUid' = nextUid, UNCHANGED <<sts, oSts, cSts, oCr, cCr>>,
           cr # NoObj, cr' # NoObj, cr'.uid = cr.uid, cr.deleting => cr'.deleting,
           my' = my \/ my' = cr'
    PROVE  Copies'
<1>1. \A s \in {sts', oSts', cSts'} : s # NoObj =>
          /\ s.uid < nextUid'
          /\ sts' # NoObj /\ s.uid = sts'.uid => s.owner = sts'.owner
    BY CopiesNow
<1>2. \A c \in {cr', oCr', cCr', my'} : c # NoObj =>
          /\ c.uid < nextUid'
          /\ cr' # NoObj /\ c.deleting /\ cr'.uid = c.uid => cr'.deleting
    BY CopiesNow
<1> QED
    BY <1>1, <1>2, CopiesNext

\* A StatefulSet or a RabbitmqCluster is created, with a UID nobody has.
LEMMA CreatingStep ==
    ASSUME TypeOK, Copies, NewUid, UNCHANGED <<oSts, cSts, oCr, cCr>>,
           \/ sts' = sts /\ cr' # NoObj /\ cr'.uid = nextUid
           \/ cr' = cr /\ sts' # NoObj /\ sts'.uid = nextUid,
           my' \in {my, NoObj}
    PROVE  Copies'
<1>0. /\ \A s \in {sts, oSts, cSts} : s # NoObj => s.uid \in Int
      /\ \A c \in {cr, oCr, cCr, my} : c # NoObj => c.uid \in Int
      /\ nextUid \in Int /\ nextUid' = nextUid + 1
    BY BoundsAssumption DEF TypeOK, NewUid, StatefulSets, Clusters, Uids
<1>1. \A s \in {sts', oSts', cSts'} : s # NoObj =>
          /\ s.uid < nextUid'
          /\ sts' # NoObj /\ s.uid = sts'.uid => s.owner = sts'.owner
    BY <1>0, CopiesNow
<1>2. \A c \in {cr', oCr', cCr', my'} : c # NoObj =>
          /\ c.uid < nextUid'
          /\ cr' # NoObj /\ c.deleting /\ cr'.uid = c.uid => cr'.deleting
    BY <1>0, CopiesNow
<1> QED
    BY <1>1, <1>2, CopiesNext

LEMMA StepCopies == ASSUME TypeOK, Copies, [Next]_vars PROVE Copies'
<1> USE DEF apiVars, lagVars, cacheVars, passVars
<1>1. CASE Start
    BY <1>1, CopyingStep DEF Start
<1>2. CASE AddFinalizerIfNeeded
    <2>1. CASE Goto("apply") /\ UNCHANGED cr
        BY <1>2, <2>1, CopyingStep DEF AddFinalizerIfNeeded, Goto
    <2>2. CASE EndPass /\ UNCHANGED cr
        BY <1>2, <2>2, CopyingStep DEF AddFinalizerIfNeeded, EndPass
    <2>3. CASE my = cr /\ cr' = [my EXCEPT !.final = TRUE] /\ my' = cr'
        <3>1. my \in Clusters
            BY <1>2 DEF AddFinalizerIfNeeded, TypeOK
        <3>2. /\ cr' \in Clusters /\ cr'.uid = cr.uid /\ cr'.deleting = cr.deleting
            BY <2>3, <3>1 DEF Clusters
        <3>3. cr # NoObj /\ cr' # NoObj
            BY <2>3, <3>1, <3>2, NullAssumption
        <3> QED
            BY <1>2, <2>3, <3>2, <3>3, AgingStep DEF AddFinalizerIfNeeded
    <2> QED
        BY <1>2, <2>1, <2>2, <2>3 DEF AddFinalizerIfNeeded
<1>3. CASE CreateOrUpdate
    <2>1. CASE UNCHANGED <<sts, nextUid>>
        BY <1>3, <2>1, CopyingStep DEF CreateOrUpdate, EndPass
    <2>2. CASE NewUid /\ sts' = [uid |-> nextUid, owner |-> my.uid]
        <3>1. my \in Clusters /\ nextUid \in Uids
            BY <1>3, <2>2 DEF CreateOrUpdate, TypeOK, NewUid, Uids
        <3>2. sts' \in StatefulSets /\ sts'.uid = nextUid
            BY <2>2, <3>1 DEF StatefulSets, Clusters
        <3>3. sts' # NoObj
            BY <3>2, NullAssumption
        <3> QED
            BY <1>3, <2>2, <3>2, <3>3, CreatingStep DEF CreateOrUpdate, EndPass
    <2> QED
        BY <1>3, <2>1, <2>2 DEF CreateOrUpdate
<1>4. CASE StatefulSetUID
    BY <1>4, CopyingStep DEF StatefulSetUID, LeaveBlock, Goto
<1>5. CASE ListPods
    BY <1>5, CopyingStep DEF ListPods
<1>6. CASE \E n \in Namespaces : AddRabbitmqDeletionLabel(n)
    BY <1>6, CopyingStep DEF AddRabbitmqDeletionLabel, Conflict, LeaveBlock, Goto
<1>7. CASE LabelledPods
    BY <1>7, CopyingStep DEF LabelledPods, Goto
<1>8. CASE DeleteSts
    BY <1>8, CopyingStep DEF DeleteSts, Conflict, LeaveBlock, Goto
<1>9. CASE RemoveFinalizer
    BY <1>9, CopyingStep DEF RemoveFinalizer, EndPass
<1>10. CASE Fault
    BY <1>10, CopyingStep DEF Fault, LeaveBlock, Goto, EndPass
<1>11. CASE Restart
    BY <1>11, CopyingStep DEF Restart, EndPass
<1>12. CASE SyncCr \/ SyncSts \/ CatchUp \/ \E n \in Namespaces : SyncPod(n)
    BY <1>12, CopyingStep DEF SyncCr, SyncSts, CatchUp, SyncPod
<1>13. CASE UserCreates
    <2>1. nextUid \in Uids
        BY <1>13 DEF UserCreates, NewUid, TypeOK, Uids
    <2>2. cr' \in Clusters /\ cr'.uid = nextUid
        BY <1>13, <2>1 DEF UserCreates, Clusters
    <2>3. cr' # NoObj
        BY <2>2, NullAssumption
    <2> QED
        BY <1>13, <2>2, <2>3, CreatingStep DEF UserCreates
<1>14. CASE UserDeletes
    <2>1. CASE cr' = NoObj
        BY <1>14, <2>1, CopyingStep DEF UserDeletes
    <2>2. CASE cr' = [cr EXCEPT !.deleting = TRUE]
        <3>1. cr \in Clusters
            BY <1>14 DEF UserDeletes, TypeOK
        <3>2. cr' \in Clusters /\ cr'.uid = cr.uid /\ cr'.deleting = TRUE
            BY <2>2, <3>1 DEF Clusters
        <3>3. cr # NoObj /\ cr' # NoObj
            BY <3>1, <3>2, NullAssumption
        <3> QED
            BY <1>14, <3>2, <3>3, AgingStep DEF UserDeletes
    <2> QED
        BY <1>14, <2>1, <2>2 DEF UserDeletes
<1>15. CASE CollectSts \/ StartPod \/ CollectPod
    BY <1>15, CopyingStep DEF CollectSts, StartPod, CollectPod
<1>16. CASE UNCHANGED vars
    BY <1>16, CopyingStep DEF vars
<1> QED
    BY <1>1, <1>2, <1>3, <1>4, <1>5, <1>6, <1>7, <1>8, <1>9, <1>10, <1>11, <1>12,
       <1>13, <1>14, <1>15, <1>16 DEF Next, Pass

(***************************************************************************)
(* A pass that deletes works for a cluster that is being deleted, and the  *)
(* UID it has read is that of no other cluster's StatefulSet.              *)
(***************************************************************************)
\* Steps that leave the pass alone, or end it, or stay in the block, and do not
\* replace the StatefulSet.
LEMMA SameTarget ==
    ASSUME TypeOK, DeletesOwn, nextUid' \in {nextUid, nextUid + 1},
           sts' \in {sts, NoObj},
           \/ my' = my /\ uid' = uid /\ pc' \in {pc, "uid", "release"}
              /\ (pc' = "uid" => pc \in Deleting)
           \/ my' = my /\ uid' = uid /\ pc = "list" /\ pc' = "mark"
           \/ my' = my /\ uid' = uid /\ pc = "mark" /\ pc' = "delete"
           \/ my' = my /\ uid' = uid /\ pc' = "apply"
           \/ uid' = 0 /\ pc' = "idle"
    PROVE  DeletesOwn'
<1>1. uid \in Int /\ nextUid \in Int /\ 0 < nextUid
    BY BoundsAssumption DEF TypeOK, Uids
<1>2. uid' < nextUid'
    BY <1>1 DEF DeletesOwn
<1> QED
    BY <1>2 DEF DeletesOwn, Deleting

LEMMA StepDeletesOwn ==
    ASSUME TypeOK, Copies, DeletesOwn, [Next]_vars
    PROVE  DeletesOwn'
<1> USE DEF apiVars, lagVars, cacheVars, passVars
<1>0. uid \in Int /\ nextUid \in Int /\ 0 < nextUid
    BY BoundsAssumption DEF TypeOK, Uids
<1>1. CASE Start
    BY <1>1 DEF Start, DeletesOwn, Deleting
<1>2. CASE AddFinalizerIfNeeded
    BY <1>2, <1>0 DEF AddFinalizerIfNeeded, DeletesOwn, Deleting, Goto, EndPass
<1>3. CASE CreateOrUpdate
    BY <1>3, <1>0 DEF CreateOrUpdate, DeletesOwn, Deleting, EndPass, NewUid
<1>4. CASE StatefulSetUID
    <2>1. CASE LeaveBlock
        BY <1>4, <2>1, SameTarget DEF StatefulSetUID, LeaveBlock, Goto
    <2>2. CASE /\ cSts # NoObj /\ cSts.owner = my.uid
               /\ uid' = cSts.uid /\ pc' = "list" /\ UNCHANGED <<my, todo, copy>>
        <3>1. cSts.uid < nextUid
            BY <2>2, CopiesNow
        <3>2. sts # NoObj /\ sts.uid = cSts.uid => sts.owner = my.uid
            BY <2>2, CopiesNow
        <3> QED
            BY <1>4, <2>2, <3>1, <3>2 DEF StatefulSetUID, DeletesOwn, Deleting
    <2> QED
        BY <1>4, <2>1, <2>2 DEF StatefulSetUID
<1>5. CASE ListPods
    BY <1>5, SameTarget DEF ListPods
<1>6. CASE \E n \in Namespaces : AddRabbitmqDeletionLabel(n)
    BY <1>6, SameTarget DEF AddRabbitmqDeletionLabel, Conflict, LeaveBlock, Goto,
                            Deleting
<1>7. CASE LabelledPods
    BY <1>7, SameTarget DEF LabelledPods, Goto
<1>8. CASE DeleteSts
    BY <1>8, SameTarget DEF DeleteSts, Conflict, LeaveBlock, Goto, Deleting
<1>9. CASE RemoveFinalizer
    BY <1>9, SameTarget DEF RemoveFinalizer, EndPass
<1>10. CASE Fault \/ Restart
    BY <1>10, SameTarget DEF Fault, Restart, LeaveBlock, Goto, EndPass
<1>11. CASE SyncCr \/ SyncSts \/ CatchUp \/ \E n \in Namespaces : SyncPod(n)
    BY <1>11, SameTarget DEF Deleting, SyncCr, SyncSts, CatchUp, SyncPod
<1>12. CASE UserCreates
    BY <1>12, SameTarget DEF Deleting, UserCreates, NewUid
<1>13. CASE UserDeletes \/ CollectSts \/ StartPod \/ CollectPod
    BY <1>13, SameTarget DEF Deleting, UserDeletes, CollectSts, StartPod, CollectPod
<1>14. CASE UNCHANGED vars
    BY <1>14, SameTarget DEF Deleting, vars
<1> QED
    BY <1>1, <1>2, <1>3, <1>4, <1>5, <1>6, <1>7, <1>8, <1>9, <1>10, <1>11, <1>12,
       <1>13, <1>14 DEF Next, Pass

(***************************************************************************)
(* The theorems.                                                           *)
(***************************************************************************)
LEMMA InvSplit == IInv <=> TypeOK /\ Copies /\ DeletesOwn
BY DEF IInv, Copies

LEMMA InitInv == Init => IInv
<1> SUFFICES ASSUME Init PROVE IInv
    OBVIOUS
<1>1. Copies
    BY DEF Init, Copies, StsCopy, CrCopy, Used, SameOwner, StillDeleting
<1>2. DeletesOwn
    BY DEF Init, DeletesOwn, Deleting
<1> QED
    BY <1>1, <1>2, InitType, InvSplit

LEMMA StepInv == IInv /\ [Next]_vars => IInv'
<1> SUFFICES ASSUME IInv, [Next]_vars PROVE IInv'
    OBVIOUS
<1>1. TypeOK /\ Copies /\ DeletesOwn
    BY InvSplit
<1>2. TypeOK' /\ Copies' /\ DeletesOwn'
    BY <1>1, StepType, StepCopies, StepDeletesOwn
<1> QED
    BY <1>2 DEF IInv, Copies

\* Only three steps change the StatefulSet, and none that of a live cluster.
LEMMA LiveStep == IInv /\ [Next]_vars => [Live => sts' = sts]_vars
<1> SUFFICES ASSUME IInv, Next, Live PROVE sts' = sts
    OBVIOUS
<1>1. TypeOK /\ Copies /\ DeletesOwn
    BY InvSplit
<1>2. CASE CreateOrUpdate
    BY <1>2 DEF CreateOrUpdate, Live
<1>3. CASE DeleteSts
    <2>1. SUFFICES ASSUME SameUid, pc = "delete" PROVE FALSE
        BY <1>3 DEF DeleteSts
    <2>2. my.deleting /\ sts.owner = my.uid /\ my # NoObj
        BY <1>1, <2>1 DEF SameUid, DeletesOwn, Deleting, TypeOK
    <2>3. cr.deleting
        BY <1>1, <2>2, CopiesNow DEF Live
    <2> QED
        BY <2>3 DEF Live
<1>4. CASE CollectSts
    BY <1>4 DEF CollectSts, Live
<1>5. CASE ~(CreateOrUpdate \/ DeleteSts \/ CollectSts)
    BY <1>5 DEF Next, Pass, Start, AddFinalizerIfNeeded, StatefulSetUID, ListPods,
        AddRabbitmqDeletionLabel, LabelledPods, RemoveFinalizer, Fault, Restart,
        SyncCr, SyncSts, SyncPod, CatchUp, UserCreates, UserDeletes, StartPod,
        CollectPod, apiVars
<1> QED
    BY <1>2, <1>3, <1>4, <1>5

\* prepareForDeletion never deletes the StatefulSet of a live RabbitmqCluster,
\* for any number of incarnations of the cluster and the StatefulSet, any number
\* of namespaces and caches that go back in time at every restart: the owner
\* check of statefulSetUID and the UID precondition suffice together.
THEOREM StaleDeletionIsHarmless == Spec => LiveStsSurvives
<1>1. Spec => []IInv
    BY InitInv, StepInv, PTL DEF Spec
<1> QED
    BY <1>1, LiveStep, PTL DEF Spec, LiveStsSurvives

\* The type invariant of Deletion.
THEOREM DeletionTypeCorrect == Spec => []TypeOK
<1>1. IInv => TypeOK
    BY InvSplit
<1> QED
    BY <1>1, InitInv, StepInv, PTL DEF Spec

=============================================================================
