------------------------------- MODULE Rollout -------------------------------
(***************************************************************************)
(* What the operator promises about a change of RabbitMQ's configuration,  *)
(* without saying how: it publishes what users ask for, Pods take over     *)
(* what is published one at a time, and in the end all of them have, unless *)
(* the operator has forgotten the change.  ConfigRollout implements this.  *)
(***************************************************************************)
CONSTANTS
    Pods,
    Values      \* configurations

VARIABLES
    want,       \* what users ask for
    pub,        \* what is published
    run,        \* run[p]: what Pod p runs
    forgotten   \* the operator does not know of the last publication

vars == <<want, pub, run, forgotten>>

Init ==
    /\ want \in Values /\ pub = want /\ run = [p \in Pods |-> want]
    /\ forgotten = FALSE

Change == want' \in Values \ {want} /\ UNCHANGED <<pub, run, forgotten>>

\* What is published may be out of date already.
Publish == pub' \in Values \ {pub} /\ UNCHANGED <<want, run, forgotten>>

Forget == forgotten' = TRUE /\ UNCHANGED <<want, pub, run>>
Remember == forgotten' = FALSE /\ UNCHANGED <<want, pub, run>>

Adopt(p) == run' = [run EXCEPT ![p] = pub] /\ UNCHANGED <<want, pub, forgotten>>

Next == Change \/ Publish \/ Forget \/ Remember \/ \E p \in Pods : Adopt(p)

Spec == Init /\ [][Next]_vars

FairSpec ==
    /\ Spec
    /\ WF_vars(Publish /\ pub' = want)
    /\ \A p \in Pods : WF_vars(~forgotten /\ Adopt(p))

=============================================================================
