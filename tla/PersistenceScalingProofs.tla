---------------------- MODULE PersistenceScalingProofs ----------------------
(***************************************************************************)
(* PersistenceScaling never makes a claim smaller: for every number of     *)
(* Pods, all specs and every interleaving.                                 *)
(***************************************************************************)
EXTENDS PersistenceScaling, TLAPS

LEMMA ScaleOneClaim ==
    ASSUME NEW i \in Ordinals, IInv, ScaleUpPVC(i)
    PROVE  /\ IInv'
           /\ \A j \in Ordinals : pvc[j] # NoClaim => pvc'[j] >= pvc[j]
<1> USE NullAssumption, RAssumption
<1>1. pc = "scale" /\ i \in todo /\ TypeOK /\ TemplateBelow /\ ChosenBelow
    BY DEF ScaleUpPVC, IInv
<1>2. CASE pvc[i] # NoClaim
    <2>1. /\ pvc' = [pvc EXCEPT ![i] = my.storage] /\ todo' = todo \ {i}
          /\ UNCHANGED <<pc, my, idx, spec, sts, going, cacheVars, budgets>>
        BY <1>2 DEF ScaleUpPVC
    <2>2. pvc[i] \in Nat /\ pvc[i] <= my.storage /\ my.storage \in Nat
        BY <1>1, <1>2 DEF TypeOK, ChosenBelow, Scaling, SpecType
    <2>3. pvc' \in [Ordinals -> Nat \cup {NoClaim}]
        BY <1>1, <2>1, <2>2 DEF TypeOK
    <2>4. TypeOK'
        BY <1>1, <2>1, <2>3 DEF TypeOK, cacheVars, budgets
    <2>5. TemplateBelow' /\ ChosenBelow'
        BY <1>1, <2>1, <2>2 DEF TypeOK, TemplateBelow, ChosenBelow, Scaling
    <2>6. \A j \in Ordinals : pvc[j] # NoClaim => pvc'[j] >= pvc[j]
        BY <1>1, <2>1, <2>2 DEF TypeOK
    <2> QED
        BY <2>4, <2>5, <2>6 DEF IInv
<1>3. CASE pvc[i] = NoClaim
    <2>1. /\ pc' = "idle"
          /\ UNCHANGED <<my, idx, todo, pvc, spec, sts, going, cacheVars, budgets>>
        BY <1>3 DEF ScaleUpPVC, Goto
    <2>2. TypeOK' /\ TemplateBelow' /\ ChosenBelow'
        BY <1>1, <2>1 DEF TypeOK, TemplateBelow, ChosenBelow, Scaling, Locations,
                          cacheVars, budgets
    <2>3. \A j \in Ordinals : pvc[j] # NoClaim => pvc'[j] >= pvc[j]
        BY <1>1, <2>1 DEF TypeOK
    <2> QED
        BY <2>2, <2>3 DEF IInv
<1> QED
    BY <1>2, <1>3

LEMMA CreateOneClaim ==
    ASSUME NEW i \in Ordinals, IInv, CreateClaim(i)
    PROVE  /\ IInv'
           /\ \A j \in Ordinals : pvc[j] # NoClaim => pvc'[j] = pvc[j]
<1> USE NullAssumption, RAssumption
<1>1. /\ sts # NoSts /\ pvc[i] = NoClaim /\ pvc' = [pvc EXCEPT ![i] = sts.size]
      /\ UNCHANGED <<spec, sts, going, cacheVars, passVars, budgets>>
      /\ TypeOK /\ TemplateBelow /\ ChosenBelow
    BY DEF CreateClaim, IInv
<1>2. sts.size \in Nat /\ pvc' \in [Ordinals -> Nat \cup {NoClaim}]
    BY <1>1 DEF TypeOK, StsType
<1>3. TypeOK'
    BY <1>1, <1>2 DEF TypeOK, cacheVars, passVars, budgets
<1>4. TemplateBelow'
    BY <1>1 DEF TemplateBelow, Scaling, passVars
<1>5. ChosenBelow'
    BY <1>1, <1>2 DEF TypeOK, TemplateBelow, ChosenBelow, Scaling, passVars
<1>6. \A j \in Ordinals : pvc[j] # NoClaim => pvc'[j] = pvc[j]
    BY <1>1 DEF TypeOK
<1> QED
    BY <1>3, <1>4, <1>5, <1>6 DEF IInv

LEMMA LoseOneClaim ==
    ASSUME NEW i \in Ordinals, IInv, LoseClaim(i)
    PROVE  /\ IInv'
           /\ \A j \in Ordinals : pvc'[j] # NoClaim => pvc'[j] = pvc[j]
<1> USE NullAssumption, RAssumption, BoundsAssumption
<1>1. /\ pvc' = [pvc EXCEPT ![i] = NoClaim]
      /\ losses < MaxLosses /\ losses' = losses + 1
      /\ UNCHANGED <<spec, sts, going, cacheVars, passVars, edits, stops>>
      /\ TypeOK /\ TemplateBelow /\ ChosenBelow
    BY DEF LoseClaim, IInv
<1>2. TypeOK'
    BY <1>1 DEF TypeOK, cacheVars, passVars
<1>3. TemplateBelow' /\ ChosenBelow'
    BY <1>1 DEF TypeOK, TemplateBelow, ChosenBelow, Scaling, passVars
<1>4. \A j \in Ordinals : pvc'[j] # NoClaim => pvc'[j] = pvc[j]
    BY <1>1 DEF TypeOK
<1> QED
    BY <1>2, <1>3, <1>4 DEF IInv

LEMMA ListOneClaim ==
    ASSUME IInv, GetClusterPVC
    PROVE  IInv'
<1> USE NullAssumption, RAssumption
<1>1. /\ pc = "list" /\ idx < my.replicas /\ idx' = idx + 1
      /\ todo' = IF NeedsScaling(idx) THEN todo \cup {idx} ELSE todo
      /\ UNCHANGED <<pc, my, apiVars, cacheVars, budgets>>
      /\ TypeOK /\ TemplateBelow /\ ChosenBelow
    BY DEF GetClusterPVC, AllListed, IInv, TypeOK, SpecType
<1>2. /\ my.replicas \in 0..R /\ idx \in 0..my.replicas /\ idx \in Ordinals
      /\ my.storage \in Nat /\ todo \subseteq 0..(idx - 1)
    BY <1>1 DEF TypeOK, SpecType, Ordinals
<1>3. idx' \in 0..my'.replicas /\ todo' \subseteq 0..(idx' - 1)
    BY <1>1, <1>2
<1>4. TypeOK'
    BY <1>1, <1>3 DEF TypeOK, apiVars, cacheVars, budgets
<1>5. TemplateBelow'
    BY <1>1 DEF TemplateBelow, Scaling, apiVars
<1>6. NeedsScaling(idx) => pvc[idx] \in Nat /\ pvc[idx] < my.storage
    BY <1>1, <1>2 DEF NeedsScaling, TypeOK
<1>7. ChosenBelow'
    BY <1>1, <1>2, <1>6 DEF ChosenBelow, Scaling, apiVars
<1> QED
    BY <1>4, <1>5, <1>7 DEF IInv

LEMMA ApplySts ==
    ASSUME IInv, CreateOrUpdate
    PROVE  IInv' /\ pvc' = pvc
<1>1. /\ pc = "apply" /\ pc' = "idle"
      /\ UNCHANGED <<my, idx, todo, spec, going, pvc, cSpec, cSts, budgets>>
      /\ TypeOK
    BY DEF CreateOrUpdate, Goto, IInv
<1>2. my \in SpecType
    BY <1>1 DEF TypeOK
<1>3. [size |-> my.storage, replicas |-> my.pods] \in StsType
    BY <1>2 DEF SpecType, StsType
<1>4. ASSUME cSts # NoSts PROVE Updated(cSts) \in StsType
    BY <1>1, <1>2, <1>4 DEF TypeOK, Updated, SpecType, StsType
<1>5. sts' \in StsType \cup {NoSts} /\ cFresh' \in BOOLEAN
    BY <1>1, <1>3, <1>4 DEF CreateOrUpdate, TypeOK
<1>6. TypeOK'
    BY <1>1, <1>5 DEF TypeOK, Locations, budgets
<1>7. TemplateBelow' /\ ChosenBelow'
    BY <1>1 DEF TemplateBelow, ChosenBelow, Scaling
<1> QED
    BY <1>1, <1>6, <1>7 DEF IInv

LEMMA OtherSteps ==
    ASSUME IInv,
           \/ Start \/ ScaleDown \/ ExistingCapacity \/ ListedPVCs \/ DeleteSts
           \/ AwaitDeleted \/ ScaledUpPVCs \/ Stop \/ SyncSpec \/ SyncSts
           \/ UserEdit \/ StsDeleted
    PROVE  IInv' /\ pvc' = pvc
<1> USE NullAssumption, RAssumption, BoundsAssumption, SpecsAssumption
<1> USE DEF IInv, TypeOK, Locations, Goto, apiVars, cacheVars, passVars, budgets
<1>1. CASE Start
    <2>1. cSpec.replicas \in 0..R
        BY DEF SpecType
    <2> QED
        BY <1>1, <2>1 DEF Start, TemplateBelow, ChosenBelow, Scaling
<1>2. CASE ScaleDown
    BY <1>2 DEF ScaleDown, TemplateBelow, ChosenBelow, Scaling
<1>3. CASE ExistingCapacity
    <2>1. pc = "capacity" /\ sts' = sts /\ my' = my /\ todo' = todo /\ pvc' = pvc
        BY <1>3 DEF ExistingCapacity
    <2>2. TypeOK' /\ pvc' = pvc
        BY <1>3 DEF ExistingCapacity
    <2>3. TemplateBelow'
        BY <1>3, <2>1 DEF ExistingCapacity, Unsupported, TemplateBelow, Scaling,
                          StsType, SpecType
    <2>4. ChosenBelow'
        BY <2>1 DEF ChosenBelow
    <2> QED
        BY <2>2, <2>3, <2>4
<1>4. CASE ListedPVCs
    BY <1>4 DEF ListedPVCs, TemplateBelow, ChosenBelow, Scaling
<1>5. CASE DeleteSts
    BY <1>5 DEF DeleteSts, TemplateBelow, ChosenBelow, Scaling
<1>6. CASE AwaitDeleted
    BY <1>6 DEF AwaitDeleted, TemplateBelow, ChosenBelow, Scaling
<1>7. CASE ScaledUpPVCs
    BY <1>7 DEF ScaledUpPVCs, TemplateBelow, ChosenBelow, Scaling
<1>8. CASE Stop
    BY <1>8 DEF Stop, TemplateBelow, ChosenBelow, Scaling
<1>9. CASE SyncSpec
    BY <1>9 DEF SyncSpec, TemplateBelow, ChosenBelow, Scaling
<1>10. CASE SyncSts
    BY <1>10 DEF SyncSts, TemplateBelow, ChosenBelow, Scaling
<1>11. CASE UserEdit
    BY <1>11 DEF UserEdit, TemplateBelow, ChosenBelow, Scaling
<1>12. CASE StsDeleted
    BY <1>12 DEF StsDeleted, TemplateBelow, ChosenBelow, Scaling
<1> QED
    BY <1>1, <1>2, <1>3, <1>4, <1>5, <1>6, <1>7, <1>8, <1>9, <1>10, <1>11, <1>12

LEMMA InitInv == Init => IInv
<1> USE NullAssumption, RAssumption, BoundsAssumption, SpecsAssumption
<1> SUFFICES ASSUME Init PROVE IInv
    OBVIOUS
<1>1. spec \in SpecType /\ spec.replicas \in 0..R
    BY DEF Init, SpecType
<1>2. my = spec /\ idx = 0 /\ todo = {} /\ pvc \in [Ordinals -> Nat \cup {NoClaim}]
    BY DEF Init
<1>3. idx \in 0..my.replicas /\ todo \subseteq 0..(idx - 1)
    BY <1>1, <1>2
<1>4. /\ cSpec = spec /\ sts = NoSts /\ cSts = NoSts /\ cFresh = TRUE
      /\ going = FALSE /\ pc = "idle" /\ edits = 0 /\ stops = 0 /\ losses = 0
    BY DEF Init
<1>5. TypeOK
    <2>1. cFresh \in BOOLEAN /\ going \in BOOLEAN /\ pc \in Locations
        BY <1>4 DEF Locations
    <2>2. edits \in 0..MaxEdits /\ stops \in 0..MaxStops /\ losses \in 0..MaxLosses
        BY <1>4
    <2> QED
        BY <1>1, <1>2, <1>3, <1>4, <2>1, <2>2 DEF TypeOK
<1>6. TemplateBelow /\ ChosenBelow
    BY DEF Init, TemplateBelow, ChosenBelow, Scaling
<1> QED
    BY <1>5, <1>6 DEF IInv

\* What one step does to a claim that is there before and after.
Kept == \A i \in Ordinals : pvc[i] # NoClaim /\ pvc'[i] # NoClaim => pvc'[i] >= pvc[i]

LEMMA StepInv ==
    ASSUME IInv, [Next]_vars
    PROVE  IInv' /\ Kept
<1>0. \A i \in Ordinals : pvc[i] # NoClaim => pvc[i] \in Nat /\ pvc[i] >= pvc[i]
    BY NullAssumption DEF IInv, TypeOK
<1>1. CASE \E i \in Ordinals : ScaleUpPVC(i)
    BY <1>1, ScaleOneClaim DEF Kept
<1>2. CASE \E i \in Ordinals : CreateClaim(i)
    BY <1>0, <1>2, CreateOneClaim DEF Kept
<1>3. CASE \E i \in Ordinals : LoseClaim(i)
    BY <1>0, <1>3, LoseOneClaim DEF Kept
<1>4. CASE GetClusterPVC
    <2>1. pvc' = pvc
        BY <1>4 DEF GetClusterPVC, apiVars
    <2> QED
        BY <1>0, <1>4, <2>1, ListOneClaim DEF Kept
<1>5. CASE CreateOrUpdate
    BY <1>0, <1>5, ApplySts DEF Kept
<1>6. CASE \/ Start \/ ScaleDown \/ ExistingCapacity \/ ListedPVCs \/ DeleteSts
           \/ AwaitDeleted \/ ScaledUpPVCs \/ Stop \/ SyncSpec \/ SyncSts
           \/ UserEdit \/ StsDeleted
    BY <1>0, <1>6, OtherSteps DEF Kept
<1>7. CASE UNCHANGED vars
    BY <1>0, <1>7 DEF vars, apiVars, cacheVars, passVars, budgets, IInv, TypeOK,
                      TemplateBelow, ChosenBelow, Scaling, Kept
<1> QED
    BY <1>1, <1>2, <1>3, <1>4, <1>5, <1>6, <1>7 DEF Next, Pass

\* Claims never shrink.  Scale compares the desired capacity with the template
\* of the StatefulSet and not with the claims it updates, and the comparison is
\* skipped while the StatefulSet is deleted; the claims chosen for an update are
\* nevertheless never above the capacity they are set to.
THEOREM ClaimsNeverShrink == Spec => NoShrink
<1>1. IInv /\ [Next]_vars => IInv'
    BY StepInv
<1>2. IInv /\ [Next]_vars => [Kept]_vars
    BY StepInv
<1>3. Spec => []IInv
    BY InitInv, <1>1, PTL DEF Spec
<1>4. [][Kept]_vars <=> NoShrink
    BY DEF Kept, NoShrink
<1> QED
    BY <1>2, <1>3, <1>4, PTL DEF Spec

\* The type invariant of PersistenceScaling.
THEOREM ScalingTypeCorrect == Spec => []TypeOK
<1>1. IInv /\ [Next]_vars => IInv'
    BY StepInv
<1>2. IInv => TypeOK
    BY DEF IInv
<1> QED
    BY InitInv, <1>1, <1>2, PTL DEF Spec

=============================================================================
