------------------------ MODULE MCPersistenceScaling ------------------------
(***************************************************************************)
(* Small instances of PersistenceScaling: two Pods, three capacities.      *)
(***************************************************************************)
EXTENDS PersistenceScaling

S(r, p, g) == [replicas |-> r, pods |-> p, storage |-> g]

\* Growing and shrinking, alone and with a scale up; ephemeral and persistent;
\* with spec.override.statefulSet.spec.replicas above spec.replicas.
Growing == {S(1, 1, 0), S(1, 1, 1), S(2, 2, 1), S(2, 2, 2), S(1, 2, 2)}

\* The values of the constants.
GrowSpecs == Growing

=============================================================================
