---------------------------- MODULE FailureLedger ----------------------------
(* What a FailureRegistry (src/idi_ftm2j_shared/failures.py) promises to the  *)
(* pipeline that uses it: a set of failures known to the running process and  *)
(* a set that outlives it.  A failure, once known, stays known until the      *)
(* process dies; a failure, once durable, is known to every later process.    *)
EXTENDS Integers, FiniteSets

CONSTANT Keys

VARIABLES up, known, durable

ledger == <<up, known, durable>>

Init == up = FALSE /\ known = {} /\ durable = {}

\* A process starts with what an earlier one made durable.
Open ==
    /\ ~up
    /\ up' = TRUE
    /\ known' = durable
    /\ UNCHANGED durable

\* One failure becomes known; nothing is forgotten.
Record ==
    /\ up
    /\ \E k \in Keys \ known : known' = known \union {k}
    /\ UNCHANGED <<up, durable>>

\* Everything known becomes durable at once.
Persist ==
    /\ up
    /\ durable' = known
    /\ UNCHANGED <<up, known>>

\* The process dies; only what is durable is left.
Lose ==
    /\ up
    /\ up' = FALSE
    /\ known' = {}
    /\ UNCHANGED durable

Next == Open \/ Record \/ Persist \/ Lose

Spec == Init /\ [][Next]_ledger
=============================================================================
