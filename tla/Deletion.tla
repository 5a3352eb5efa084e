------------------------------ MODULE Deletion ------------------------------
(***************************************************************************)
(* Deleting a RabbitmqCluster, and creating another one of the same name:  *)
(* prepareForDeletion and its helpers, next to the steps of an ordinary    *)
(* pass that it has to agree with (the finalizer and the StatefulSet).     *)
(*                                                                         *)
(* The operator knows the RabbitmqCluster, the StatefulSet and the Pods    *)
(* from three informer caches that lag independently.  When the operator   *)
(* is restarted, its informers list from an API server that may itself lag *)
(* behind, so the caches can go back in time: to a cluster, and a          *)
(* StatefulSet, that have been replaced since.                             *)
(*                                                                         *)
(* An object is told from its successor by its UID, and no object returns  *)
(* to an earlier content, so a copy is the latest version exactly if it    *)
(* equals the object: that is what the optimistic lock of an Update asks.  *)
(***************************************************************************)
EXTENDS Integers

CONSTANTS
    Home,        \* the namespace of the RabbitmqCluster
    Namespaces,  \* each other namespace has a cluster of the same name
    NoObj,       \* the object does not exist
    MaxUid,      \* how many UIDs are given out
    MaxFaults    \* failing calls and restarts

Uids == 0..MaxUid
Clusters == [uid: Uids, final: BOOLEAN, deleting: BOOLEAN]
StatefulSets == [uid: Uids, owner: Uids]
Pods == [sts: Uids, marked: BOOLEAN]   \* marked: the label DeletionMarker

ASSUME NamespacesAssumption == Home \in Namespaces
ASSUME NullAssumption == NoObj \notin Clusters \cup StatefulSets \cup Pods
ASSUME BoundsAssumption == MaxUid \in Nat /\ MaxFaults \in Nat

VARIABLES
    cr, sts,      \* the RabbitmqCluster and its StatefulSet
    pod,          \* a Pod of the cluster of that name, per namespace
    oCr, oSts, oPod,   \* the same as a lagging API server knows them
    cCr, cSts, cPod,   \* the same in the operator's caches
    nextUid,
    pc, my,       \* the pass and its copy of the RabbitmqCluster
    uid,          \* the StatefulSet to delete
    todo, copy,   \* namespaces of the listed Pods not labelled yet; the Pods
    faults

apiVars == <<cr, sts, pod, nextUid>>
lagVars == <<oCr, oSts, oPod>>
cacheVars == <<cCr, cSts, cPod>>
passVars == <<pc, my, uid, todo, copy>>
vars == <<apiVars, lagVars, cacheVars, passVars, faults>>

Deleting == {"uid", "list", "mark", "delete"}   \* the retried block
Locations == {"idle", "finalizer", "apply", "release"} \cup Deleting

TypeOK ==
    /\ {cr, oCr, cCr, my} \subseteq Clusters \cup {NoObj}
    /\ {sts, oSts, cSts} \subseteq StatefulSets \cup {NoObj}
    /\ {pod, oPod, cPod, copy} \subseteq [Namespaces -> Pods \cup {NoObj}]
    /\ nextUid \in 1..(MaxUid + 1) /\ faults \in 0..MaxFaults
    /\ pc \in Locations /\ (pc # "idle" => my # NoObj)
    /\ uid \in Uids /\ todo \subseteq Namespaces
    /\ \A n \in todo : copy[n] # NoObj

Init ==
    /\ cr = NoObj /\ oCr = NoObj /\ cCr = NoObj
    /\ sts = NoObj /\ oSts = NoObj /\ cSts = NoObj
    /\ pod = [n \in Namespaces |->
                IF n = Home THEN NoObj ELSE [sts |-> 0, marked |-> FALSE]]
    /\ oPod = pod /\ cPod = pod
    /\ nextUid = 1
    /\ pc = "idle" /\ my = NoObj /\ uid = 0 /\ todo = {}
    /\ copy = [n \in Namespaces |-> NoObj]
    /\ faults = 0

NoPods == [n \in Namespaces |-> NoObj]

Goto(loc) == pc' = loc /\ UNCHANGED <<my, uid, todo, copy>>
EndPass == pc' = "idle" /\ my' = NoObj /\ uid' = 0 /\ todo' = {} /\ copy' = NoPods

NewUid == nextUid <= MaxUid /\ nextUid' = nextUid + 1

-----------------------------------------------------------------------------
(* A pass of Reconcile. *)

Start ==
    /\ pc = "idle" /\ cCr # NoObj
    /\ cCr.deleting => cCr.final
    /\ pc' = IF cCr.deleting THEN "uid" ELSE "finalizer"
    /\ my' = cCr
    /\ UNCHANGED <<uid, todo, copy, apiVars, lagVars, cacheVars, faults>>

AddFinalizerIfNeeded ==
    /\ pc = "finalizer"
    /\ \/ my.final /\ Goto("apply") /\ UNCHANGED cr
       \/ /\ ~my.final /\ my = cr
          /\ cr' = [my EXCEPT !.final = TRUE]
          /\ pc' = "apply" /\ my' = cr' /\ UNCHANGED <<uid, todo, copy>>
       \/ ~my.final /\ my # cr /\ EndPass /\ UNCHANGED cr
    /\ UNCHANGED <<sts, pod, nextUid, lagVars, cacheVars, faults>>

\* Create the StatefulSet; or there is nothing to do; or it fails: the
\* StatefulSet exists already, the one in the cache is controlled by another
\* RabbitmqCluster, or (the bound) no UID is left.
CreateOrUpdate ==
    /\ pc = "apply" /\ EndPass
    /\ \/ /\ cSts = NoObj /\ sts = NoObj /\ NewUid
          /\ sts' = [uid |-> nextUid, owner |-> my.uid]
       \/ /\ cSts # NoObj \/ sts # NoObj \/ nextUid > MaxUid
          /\ UNCHANGED <<sts, nextUid>>
    /\ UNCHANGED <<cr, pod, lagVars, cacheVars, faults>>

\* Mutant: an error ends the pass and the finalizer stays.
AbortBlock == EndPass

\* An error other than a conflict ends the block and is logged.
LeaveBlock == Goto("release")

StatefulSetUID ==
    /\ pc = "uid"
    /\ \/ /\ cSts # NoObj /\ cSts.owner = my.uid
          /\ uid' = cSts.uid /\ pc' = "list" /\ UNCHANGED <<my, todo, copy>>
       \/ (cSts # NoObj => cSts.owner # my.uid) /\ LeaveBlock
    /\ UNCHANGED <<apiVars, lagVars, cacheVars, faults>>

\* Mutant: a Pod is expected in every namespace.
ListEverywhere ==
    /\ pc = "list" /\ pc' = "mark"
    /\ todo' = Namespaces /\ copy' = cPod
    /\ UNCHANGED <<my, uid, apiVars, lagVars, cacheVars, faults>>

\* The Pods with the name of the cluster, in all namespaces.
ListPods ==
    /\ pc = "list" /\ pc' = "mark"
    /\ todo' = {n \in Namespaces : cPod[n] # NoObj} /\ copy' = cPod
    /\ UNCHANGED <<my, uid, apiVars, lagVars, cacheVars, faults>>

\* RetryOnConflict: run the block again, or give up.
Conflict == Goto("uid") \/ LeaveBlock

\* Label one Pod; one that is gone is skipped.
AddRabbitmqDeletionLabel(n) ==
    /\ pc = "mark" /\ n \in todo
    /\ \/ /\ pod[n] = NoObj \/ pod[n] = copy[n]
          /\ pod' = IF pod[n] = NoObj THEN pod
                    ELSE [pod EXCEPT ![n] = [copy[n] EXCEPT !.marked = TRUE]]
          /\ todo' = todo \ {n} /\ UNCHANGED <<pc, my, uid, copy>>
       \/ pod[n] \notin {NoObj, copy[n]} /\ Conflict /\ UNCHANGED pod
    /\ UNCHANGED <<cr, sts, nextUid, lagVars, cacheVars, faults>>

LabelledPods ==
    /\ pc = "mark" /\ todo = {} /\ Goto("delete")
    /\ UNCHANGED <<apiVars, lagVars, cacheVars, faults>>

\* Mutant: the StatefulSet is deleted by its name alone.
NamedSts == sts # NoObj

\* The precondition of the deletion.
SameUid == sts # NoObj /\ sts.uid = uid

DeleteSts ==
    /\ pc = "delete"
    /\ \/ SameUid /\ sts' = NoObj /\ Goto("release")
       \/ sts # NoObj /\ ~SameUid /\ Conflict /\ UNCHANGED sts
       \/ sts = NoObj /\ Goto("release") /\ UNCHANGED sts
    /\ UNCHANGED <<cr, pod, nextUid, lagVars, cacheVars, faults>>

\* Without its finalizer the RabbitmqCluster is gone; a conflict, or a cluster
\* that is gone already, is an error and tried again.
RemoveFinalizer ==
    /\ pc = "release" /\ EndPass
    /\ cr' = IF my = cr THEN NoObj ELSE cr
    /\ UNCHANGED <<sts, pod, nextUid, lagVars, cacheVars, faults>>

Pass ==
    \/ Start \/ AddFinalizerIfNeeded \/ CreateOrUpdate \/ StatefulSetUID
    \/ ListPods \/ (\E n \in Namespaces : AddRabbitmqDeletionLabel(n))
    \/ LabelledPods \/ DeleteSts \/ RemoveFinalizer

Spend == faults < MaxFaults /\ faults' = faults + 1

\* A call of the block fails, or another call, which ends the pass.
Fault ==
    /\ Spend
    /\ \/ pc \in Deleting /\ LeaveBlock
       \/ pc \notin Deleting \cup {"idle"} /\ EndPass
    /\ UNCHANGED <<apiVars, lagVars, cacheVars>>

\* The operator stops, another one starts and lists all objects.
Restart ==
    /\ Spend /\ EndPass
    /\ cCr' = oCr /\ cSts' = oSts /\ cPod' = oPod
    /\ UNCHANGED <<apiVars, lagVars>>

-----------------------------------------------------------------------------
(* Watches, users and Kubernetes. *)

SyncCr ==
    /\ cCr # cr /\ cCr' = cr
    /\ UNCHANGED <<cSts, cPod, apiVars, lagVars, passVars, faults>>

SyncSts ==
    /\ cSts # sts /\ cSts' = sts
    /\ UNCHANGED <<cCr, cPod, apiVars, lagVars, passVars, faults>>

SyncPod(n) ==
    /\ cPod[n] # pod[n] /\ cPod' = [cPod EXCEPT ![n] = pod[n]]
    /\ UNCHANGED <<cCr, cSts, apiVars, lagVars, passVars, faults>>

\* The lagging API server learns of some of the changes; how far it is matters
\* only as long as there may be a restart.
CatchUp ==
    /\ faults < MaxFaults
    /\ oCr' \in {oCr, cr} /\ oSts' \in {oSts, sts} /\ oPod' \in {oPod, pod}
    /\ UNCHANGED <<apiVars, cacheVars, passVars, faults>>

UserCreates ==
    /\ cr = NoObj /\ NewUid
    /\ cr' = [uid |-> nextUid, final |-> FALSE, deleting |-> FALSE]
    /\ UNCHANGED <<sts, pod, lagVars, cacheVars, passVars, faults>>

UserDeletes ==
    /\ cr # NoObj /\ ~cr.deleting
    /\ cr' = IF cr.final THEN [cr EXCEPT !.deleting = TRUE] ELSE NoObj
    /\ UNCHANGED <<sts, pod, nextUid, lagVars, cacheVars, passVars, faults>>

\* The garbage collector, once the owner is gone.
CollectSts ==
    /\ sts # NoObj /\ (cr # NoObj => cr.uid # sts.owner)
    /\ sts' = NoObj
    /\ UNCHANGED <<cr, pod, nextUid, lagVars, cacheVars, passVars, faults>>

\* The StatefulSet controller starts a Pod, the garbage collector removes it.
StartPod ==
    /\ pod[Home] = NoObj /\ sts # NoObj
    /\ pod' = [pod EXCEPT ![Home] = [sts |-> sts.uid, marked |-> FALSE]]
    /\ UNCHANGED <<cr, sts, nextUid, lagVars, cacheVars, passVars, faults>>

CollectPod ==
    /\ pod[Home] # NoObj /\ (sts # NoObj => sts.uid # pod[Home].sts)
    /\ pod' = [pod EXCEPT ![Home] = NoObj]
    /\ UNCHANGED <<cr, sts, nextUid, lagVars, cacheVars, passVars, faults>>

Next ==
    \/ Pass \/ Fault \/ Restart
    \/ SyncCr \/ SyncSts \/ (\E n \in Namespaces : SyncPod(n)) \/ CatchUp
    \/ UserCreates \/ UserDeletes \/ CollectSts \/ StartPod \/ CollectPod

Spec == Init /\ [][Next]_vars

\* The worker runs and the watches deliver.
FairSpec ==
    /\ Spec
    /\ WF_vars(Pass) /\ WF_vars(SyncCr) /\ WF_vars(SyncSts)
    /\ \A n \in Namespaces : WF_vars(SyncPod(n))

-----------------------------------------------------------------------------
(* Properties. *)

\* The StatefulSet belongs to a RabbitmqCluster nobody has asked to delete.
Live == cr # NoObj /\ ~cr.deleting /\ sts # NoObj /\ sts.owner = cr.uid

\* "... can avoid mis-deleting any currently running statefulSet sharing the
\* same name" (reconcile_finalizer.go:62): however stale the three caches are,
\* the StatefulSet of a live cluster is never deleted.
LiveStsSurvives == [][Live => sts' = sts]_vars

BeingDeleted == cr # NoObj /\ cr.deleting

\* Whatever fails, a RabbitmqCluster that is being deleted goes away (a deletion
\* cannot be taken back, and a successor is not being deleted at first): neither a
\* missing StatefulSet, nor one of a predecessor, nor Pods that keep changing
\* hold its finalizer for ever.
DeletionCompletes == BeingDeleted ~> ~BeingDeleted

\* "failed to add deletion markers to RabbitmqCluster Pods"
\* (reconcile_finalizer.go:56): the marker, which turns the checks before a
\* Pod's shutdown off, is for the Pods of the cluster that is being deleted,
\* not for those of a cluster of the same name.
OnlyDeletedPodsMarked ==
    \A n \in Namespaces :
        pod[n] # NoObj /\ pod[n].marked =>
            n = Home /\ ~(Live /\ pod[n].sts = sts.uid)

-----------------------------------------------------------------------------
(***************************************************************************)
(* What makes LiveStsSurvives inductive: UIDs are not reused, so a copy of *)
(* a StatefulSet with the UID of the current one has its owner; and a      *)
(* cluster once seen being deleted still is, if it is there at all.        *)
(***************************************************************************)
Used(o) == o # NoObj => o.uid < nextUid

SameOwner(s) == s # NoObj /\ sts # NoObj /\ s.uid = sts.uid => s.owner = sts.owner

StillDeleting(c) ==
    c # NoObj /\ cr # NoObj /\ c.deleting /\ cr.uid = c.uid => cr.deleting

StsCopy(s) == Used(s) /\ SameOwner(s)
CrCopy(c) == Used(c) /\ StillDeleting(c)

DeletesOwn ==
    /\ uid < nextUid
    /\ pc \in Deleting => my.deleting
    /\ pc \in {"list", "mark", "delete"} /\ sts # NoObj /\ sts.uid = uid =>
          sts.owner = my.uid

IInv ==
    /\ TypeOK
    /\ StsCopy(sts) /\ StsCopy(oSts) /\ StsCopy(cSts)
    /\ CrCopy(cr) /\ CrCopy(oCr) /\ CrCopy(cCr) /\ CrCopy(my)
    /\ DeletesOwn

=============================================================================
