------------------------- MODULE PersistenceScaling -------------------------
(***************************************************************************)
(* Growing the persistent volumes of a cluster: the part of a pass of      *)
(* Reconcile that is about the StatefulSet, with PersistenceScaler.Scale   *)
(* broken up into its API calls.  A larger volume needs a larger claim for *)
(* each Pod and a new StatefulSet, because claim templates are immutable:  *)
(* the operator deletes the StatefulSet (its Pods and claims stay), grows  *)
(* the claims one by one and creates the StatefulSet again.  The pass may  *)
(* be cut short between any two calls, and the StatefulSet controller and  *)
(* the users go on all the while.                                          *)
(*                                                                         *)
(* Passes start at any time here; that none is missed is the subject of    *)
(* ReconcileLoop.                                                          *)
(***************************************************************************)
EXTENDS Integers, FiniteSets

CONSTANTS
    R,        \* the largest number of Pods
    Specs,    \* what users ask for
    NoSts,    \* there is no StatefulSet
    NoClaim,  \* the claim does not exist
    MaxEdits, MaxStops, MaxLosses   \* bounds on what the environment does

\* pods is the number of replicas after spec.override.statefulSet.
SpecType == [replicas: 0..R, pods: 0..R, storage: Nat]
Ordinals == 0..(R - 1)

\* size: the capacity in the claim template, 0 without a template.
StsType == [size: Nat, replicas: 0..R]

ASSUME RAssumption == R \in Nat
ASSUME SpecsAssumption == Specs \subseteq SpecType
ASSUME NullAssumption == NoSts \notin StsType /\ NoClaim \notin Nat
ASSUME BoundsAssumption == MaxEdits \in Nat /\ MaxStops \in Nat /\ MaxLosses \in Nat

VARIABLES
    spec, cSpec,   \* RabbitmqCluster.Spec: API server and informer cache
    sts, cSts,     \* the StatefulSet: API server and informer cache
    cFresh,        \* cSts is the latest version
    going,         \* the StatefulSet is being deleted
    pvc,           \* pvc[i]: capacity requested by the claim of Pod i
    pc,            \* where the pass is
    my,            \* the spec the pass works on
    idx,           \* the next claim to look at
    todo,          \* the claims that are to grow
    edits, stops, losses

apiVars == <<spec, sts, going, pvc>>
cacheVars == <<cSpec, cSts, cFresh>>
passVars == <<pc, my, idx, todo>>
budgets == <<edits, stops, losses>>
vars == <<apiVars, cacheVars, passVars, budgets>>

Locations == {"idle", "guard", "capacity", "list", "delete", "await", "scale",
              "apply"}

TypeOK ==
    /\ spec \in SpecType /\ cSpec \in SpecType
    /\ sts \in StsType \cup {NoSts} /\ cSts \in StsType \cup {NoSts}
    /\ cFresh \in BOOLEAN /\ going \in BOOLEAN
    /\ pvc \in [Ordinals -> Nat \cup {NoClaim}]
    /\ pc \in Locations /\ my \in SpecType
    /\ idx \in 0..my.replicas /\ todo \subseteq 0..(idx - 1)
    /\ edits \in 0..MaxEdits /\ stops \in 0..MaxStops /\ losses \in 0..MaxLosses

Init ==
    /\ spec \in Specs /\ cSpec = spec
    /\ sts = NoSts /\ cSts = NoSts /\ cFresh = TRUE /\ going = FALSE
    /\ pvc = [i \in Ordinals |-> NoClaim]
    /\ pc = "idle" /\ my = spec /\ idx = 0 /\ todo = {}
    /\ edits = 0 /\ stops = 0 /\ losses = 0

Goto(loc) == pc' = loc /\ UNCHANGED <<my, idx, todo>>

-----------------------------------------------------------------------------
(* The pass. *)

Start ==
    /\ pc = "idle"
    /\ pc' = "guard" /\ my' = cSpec /\ idx' = 0 /\ todo' = {}
    /\ UNCHANGED <<apiVars, cacheVars, budgets>>

\* The scale-down check, on the cached StatefulSet.
ScaleDown ==
    /\ pc = "guard"
    /\ Goto(IF cSts # NoSts /\ cSts.replicas > my.pods THEN "idle" ELSE "capacity")
    /\ UNCHANGED <<apiVars, cacheVars, budgets>>

\* What the existing StatefulSet rules out; without one, nothing.
Unsupported ==
    /\ sts # NoSts
    /\ \/ sts.size = 0 /\ my.storage # 0
       \/ sts.size > my.storage

ExistingCapacity ==
    /\ pc = "capacity"
    /\ Goto(IF Unsupported THEN "idle" ELSE "list")
    /\ UNCHANGED <<apiVars, cacheVars, budgets>>

\* Mutant: every claim of another size is brought to the desired one.
SizeDiffers(i) == pvc[i] # NoClaim /\ pvc[i] # my.storage

\* pvcsNeedingScaling.
NeedsScaling(i) == pvc[i] # NoClaim /\ pvc[i] < my.storage

\* Mutant: the claim of the last Pod is not looked at.
AllButLastListed == idx >= my.replicas - 1

\* Mutant: one claim too many is looked at.
OneMoreListed == idx > my.replicas

AllListed == idx >= my.replicas

\* One Get of getClusterPVCs.
GetClusterPVC ==
    /\ pc = "list" /\ ~AllListed
    /\ todo' = IF NeedsScaling(idx) THEN todo \cup {idx} ELSE todo
    /\ idx' = idx + 1
    /\ UNCHANGED <<pc, my, apiVars, cacheVars, budgets>>

ListedPVCs ==
    /\ pc = "list" /\ AllListed
    /\ Goto(IF todo = {} THEN "apply" ELSE "delete")
    /\ UNCHANGED <<apiVars, cacheVars, budgets>>

\* deleteSts: one that is gone already need not be deleted.
DeleteSts ==
    /\ pc = "delete"
    /\ going' = (sts # NoSts)
    /\ Goto(IF sts = NoSts THEN "scale" ELSE "await")
    /\ UNCHANGED <<spec, sts, pvc, cacheVars, budgets>>

\* retryWithInterval: until the StatefulSet is gone, or for 30 seconds.
AwaitDeleted ==
    /\ pc = "await"
    /\ \/ sts = NoSts /\ Goto("scale")
       \/ sts # NoSts /\ Goto("idle")
    /\ UNCHANGED <<apiVars, cacheVars, budgets>>

\* One round of scaleUpPVCs, in the order of the ordinals: Get and Update.
ScaleUpPVC(i) ==
    /\ pc = "scale"
    /\ i \in todo /\ \A j \in todo : i <= j
    /\ \/ /\ pvc[i] # NoClaim
          /\ pvc' = [pvc EXCEPT ![i] = my.storage]
          /\ todo' = todo \ {i} /\ UNCHANGED <<pc, my, idx>>
       \/ pvc[i] = NoClaim /\ Goto("idle") /\ UNCHANGED pvc
    /\ UNCHANGED <<spec, sts, going, cacheVars, budgets>>

ScaledUpPVCs ==
    /\ pc = "scale" /\ todo = {}
    /\ Goto("apply")
    /\ UNCHANGED <<apiVars, cacheVars, budgets>>

\* StatefulSetBuilder.Update on an existing StatefulSet: the capacity is
\* changed only where there is a template.
Updated(s) ==
    [size |-> IF s.size = 0 THEN 0 ELSE my.storage, replicas |-> my.pods]

(***************************************************************************)
(* CreateOrUpdate, on the cached StatefulSet.  The API server refuses to   *)
(* create what exists, to update from an old version and to change a claim *)
(* template; the pass then ends with an error.                             *)
(***************************************************************************)
CreateOrUpdate ==
    /\ pc = "apply" /\ Goto("idle")
    /\ \/ /\ cSts = NoSts /\ sts = NoSts
          /\ sts' = [size |-> my.storage, replicas |-> my.pods]
          /\ cFresh' = FALSE
       \/ /\ cSts # NoSts /\ cFresh
          /\ cSts # Updated(cSts) /\ cSts.size = Updated(cSts).size
          /\ sts' = Updated(cSts) /\ cFresh' = FALSE
       \/ /\ \/ cSts = NoSts /\ sts # NoSts
             \/ cSts # NoSts /\ (~cFresh \/ cSts.size # Updated(cSts).size)
             \/ cSts # NoSts /\ cSts = Updated(cSts)
          /\ UNCHANGED <<sts, cFresh>>
    /\ UNCHANGED <<spec, going, pvc, cSpec, cSts, budgets>>

Pass ==
    \/ Start \/ ScaleDown \/ ExistingCapacity \/ GetClusterPVC \/ ListedPVCs
    \/ DeleteSts \/ AwaitDeleted \/ (\E i \in Ordinals : ScaleUpPVC(i))
    \/ ScaledUpPVCs \/ CreateOrUpdate

\* A call fails or the operator crashes; a new pass starts from nothing.
Stop ==
    /\ pc # "idle" /\ stops < MaxStops
    /\ stops' = stops + 1 /\ Goto("idle")
    /\ UNCHANGED <<apiVars, cacheVars, edits, losses>>

-----------------------------------------------------------------------------
(* Informers, users and the controllers of Kubernetes. *)

SyncSpec ==
    /\ cSpec # spec /\ cSpec' = spec
    /\ UNCHANGED <<apiVars, cSts, cFresh, passVars, budgets>>

SyncSts ==
    /\ ~cFresh /\ cSts' = sts /\ cFresh' = TRUE
    /\ UNCHANGED <<apiVars, cSpec, passVars, budgets>>

UserEdit ==
    /\ edits < MaxEdits /\ edits' = edits + 1
    /\ spec' \in Specs \ {spec}
    /\ UNCHANGED <<sts, going, pvc, cacheVars, passVars, stops, losses>>

\* A user deletes a claim.
LoseClaim(i) ==
    /\ losses < MaxLosses /\ losses' = losses + 1
    /\ pvc[i] # NoClaim /\ pvc' = [pvc EXCEPT ![i] = NoClaim]
    /\ UNCHANGED <<spec, sts, going, cacheVars, passVars, edits, stops>>

\* The StatefulSet controller creates the claims of the Pods it starts.
CreateClaim(i) ==
    /\ sts # NoSts /\ ~going
    /\ sts.size # 0 /\ i < sts.replicas
    /\ pvc[i] = NoClaim /\ pvc' = [pvc EXCEPT ![i] = sts.size]
    /\ UNCHANGED <<spec, sts, going, cacheVars, passVars, budgets>>

\* The garbage collector orphans the Pods, then the StatefulSet goes.
StsDeleted ==
    /\ going
    /\ sts' = NoSts /\ going' = FALSE /\ cFresh' = FALSE
    /\ UNCHANGED <<spec, pvc, cSpec, cSts, passVars, budgets>>

Next ==
    \/ Pass \/ Stop \/ SyncSpec \/ SyncSts \/ UserEdit \/ StsDeleted
    \/ \E i \in Ordinals : LoseClaim(i) \/ CreateClaim(i)

Spec == Init /\ [][Next]_vars

\* Events and requeues keep passes coming; Kubernetes does its part.
FairSpec ==
    /\ Spec
    /\ WF_vars(Pass) /\ WF_vars(SyncSpec) /\ WF_vars(SyncSts)
    /\ WF_vars(StsDeleted)
    /\ \A i \in Ordinals : WF_vars(CreateClaim(i))

-----------------------------------------------------------------------------
(* Properties. *)

\* "shrinking persistent volumes is not supported" (scaling.go:51): no claim
\* is ever made smaller, although the check compares the desired capacity
\* with the StatefulSet's and is skipped while there is none.
NoShrink ==
    [][\A i \in Ordinals :
          pvc[i] # NoClaim /\ pvc'[i] # NoClaim => pvc'[i] >= pvc[i]]_vars

\* The operator refuses what the spec asks for.
Refused ==
    /\ sts # NoSts
    /\ \/ sts.replicas > spec.pods
       \/ sts.size = 0 /\ spec.storage # 0
       \/ sts.size > spec.storage

Grown ==
    /\ sts # NoSts /\ ~going
    /\ sts = [size |-> spec.storage, replicas |-> spec.pods]
    /\ \A i \in 0..(spec.pods - 1) :
         i < spec.replicas /\ pvc[i] # NoClaim => pvc[i] >= spec.storage

\* Wherever a pass is cut short, the StatefulSet that was deleted comes back
\* and the volume "attached to each Pod" (rabbitmqcluster_types.go:370) has the
\* size the spec asks for, unless the operator refuses the spec.  The Pods that
\* spec.override adds to spec.replicas are an exception: getClusterPVCs stops at
\* spec.replicas.
EachPodGetsItsSize == <>[](Refused \/ Grown)

-----------------------------------------------------------------------------
(***************************************************************************)
(* What makes NoShrink inductive: from the check on, a pass that may grow  *)
(* claims sees no StatefulSet with a template above its capacity, so a     *)
(* claim it has chosen stays below, even one created again meanwhile.      *)
(***************************************************************************)
Scaling == pc \in {"list", "delete", "await", "scale"}

TemplateBelow == Scaling /\ sts # NoSts => sts.size <= my.storage

ChosenBelow ==
    /\ Scaling => \A i \in todo : pvc[i] # NoClaim => pvc[i] <= my.storage
    /\ pc \in {"guard", "capacity"} => todo = {}

IInv == TypeOK /\ TemplateBelow /\ ChosenBelow

=============================================================================
