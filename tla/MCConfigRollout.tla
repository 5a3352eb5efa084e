--------------------------- MODULE MCConfigRollout ---------------------------
(***************************************************************************)
(* Small instances of ConfigRollout: two Pods, two values of each field.   *)
(***************************************************************************)
EXTENDS ConfigRollout

CONSTANTS a, b

FirstSpec == [conf |-> a, plugins |-> a, image |-> a]

\* The values of the constants.
MCValues == {a, b}
MCDeployed == FirstSpec

=============================================================================
