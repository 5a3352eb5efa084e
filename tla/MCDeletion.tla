----------------------------- MODULE MCDeletion -----------------------------
(***************************************************************************)
(* Small instances of Deletion: two RabbitmqClusters of one name after one *)
(* another, each with up to two StatefulSets.                              *)
(***************************************************************************)
EXTENDS Deletion

CONSTANTS home, other

OneNamespace == {home}
TwoNamespaces == {home, other}

=============================================================================
