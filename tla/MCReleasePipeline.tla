-------------------------- MODULE MCReleasePipeline --------------------------
(* ReleasePipeline for TLC: users push at most MaxPushes times, and a job     *)
(* fails by itself once; pushes that are rejected and the bot's pushes are    *)
(* not bounded.                                                               *)
EXTENDS ReleasePipeline

CONSTANT MaxPushes

BoundedNext ==
    \/ Users /\ Cardinality(UserPushes) < MaxPushes
    \/ \E b \in Branches : RunStep(b) \/ (Fault(b) /\ ~failed)

\* Runners are found and jobs end.
BoundedSpec ==
    /\ Init /\ [][BoundedNext]_vars
    /\ \A b \in Branches : WF_vars(RunStep(b))
=============================================================================
