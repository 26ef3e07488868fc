-------------------------- MODULE MCFailureRegistry --------------------------
(* Instances of FailureRegistry for TLC: two threads, two failure types that  *)
(* are recorded and one that is retried, a flush after every second failure.  *)
EXTENDS FailureRegistry

CONSTANTS permanent, gone, retryable, MaxPending

MCFailureTypes == {permanent, gone, retryable}
MCDoNotRetry == {permanent, gone}

\* Keys whose parts have no space join to different texts.
JoinApart == [k \in Keys |-> k]

\* A load() on a registry in use forgets entries that _pending still counts,
\* which are then added and counted again without end; callers add() only
\* while _pending is below MaxPending.
BoundedNext ==
    \/ Construct
    \/ Crash
    \/ \E t \in Threads :
         \/ CallAdd(t) /\ pending < MaxPending
         \/ CallFlush(t) \/ CallSave(t) \/ CallLoad(t) \/ Step(t)

BoundedFairSpec == Init /\ [][BoundedNext]_vars /\ Fairness
=============================================================================
