-------------------------- MODULE MCReconcileLoop --------------------------
(***************************************************************************)
(* Small instances of ReconcileLoop: the two ConfigMaps and the            *)
(* StatefulSet, and families of behaviours, each with the spec it starts   *)
(* from and the events that happen in it.                                  *)
(***************************************************************************)
EXTENDS ReconcileLoop

CONSTANTS a, b

S(c, r, g, t, p) ==
    [config |-> c, replicas |-> r, storage |-> g, tls |-> t, skip |-> p]

\* Wide has another configuration and one more replica, Large more storage.
Small == S(a, 1, 1, "none", FALSE)
Wide == S(b, 2, 1, "none", FALSE)
Large == S(a, 1, 2, "none", FALSE)

\* TLS that needs a Secret and TLS misconfigured; no queue rebalance.
Secured == S(a, 2, 1, "secret", TRUE)
Misconfigured == S(a, 2, 1, "misconfigured", TRUE)

BothWays(s, t) == {<<s, t>>, <<t, s>>}

\* Events; those that are not named do not happen.
Nothing == [e \in Budgets |-> 0]
Edited(n) == [Nothing EXCEPT !["edit"] = n]
Faulty == [Nothing EXCEPT !["fault"] = 1]
EditedWithFault == [Edited(1) EXCEPT !["fault"] = 1]
Troubled == [EditedWithFault EXCEPT !["edit"] = 2, !["crash"] = 1]
Drifted == [Nothing EXCEPT !["drift"] = 1]
DriftedInRollout == [Drifted EXCEPT !["restart"] = 1, !["defer"] = 1]

\* The values of the constants.
MCConfigs == {a, b}
Untroubled == {Small, Wide, Large}
AllSpecs == Untroubled \cup {Secured, Misconfigured}
StorageOrTLS == BothWays(Small, Large) \cup BothWays(Secured, Misconfigured)
StorageEdits == BothWays(Small, Large)
Scaling == BothWays(Small, Wide)
TroubledStarts == {<<Secured, Troubled>>, <<Misconfigured, Edited(2)>>, <<Large, Edited(1)>>}
DriftStarts == {<<Small, Drifted>>, <<Wide, DriftedInRollout>>, <<Small, EditedWithFault>>}
FaultyStarts == {<<Small, Faulty>>}
ScalingStarts == {<<Small, Edited(2)>>}

=============================================================================
