------------------------------- MODULE Loggers -------------------------------
(* get_logger() of src/idi_ftm2j_shared/logs.py: the module-wide set of names *)
(* that are configured, the handlers of the process-wide loggers, and the     *)
(* threads that ask for loggers.  No lock guards the set.  A logger is told   *)
(* by its handlers; its level and the wording of records are left out.        *)
EXTENDS Integers, FiniteSets

CONSTANTS
    Threads,
    Names,
    MaxFailures,    \* bound: calls in which CloudWatch cannot be set up
    None

ASSUME ConstantsAssumption ==
    /\ IsFiniteSet(Threads)
    /\ MaxFailures \in Nat
    /\ None \notin Names

VARIABLES
    cloudWatch,     \* is CLOUDWATCH_LOGS_ENABLED set
    _configured_loggers,
    console,        \* console handlers of each logger
    cloud,          \* CloudWatch handlers of each logger
    pc,             \* where each thread is
    name,           \* the name it asked for last, or None
    grouped,        \* did it give a log group and a stream prefix
    failures        \* history: calls that raised, per name

vars == <<cloudWatch, _configured_loggers, console, cloud, pc, name, grouped,
          failures>>

-----------------------------------------------------------------------------
Init ==
    /\ cloudWatch \in BOOLEAN
    /\ _configured_loggers = {}
    /\ console = [n \in Names |-> 0]
    /\ cloud = [n \in Names |-> 0]
    /\ pc = [t \in Threads |-> "idle"]
    /\ name = [t \in Threads |-> None]
    /\ grouped = [t \in Threads |-> FALSE]
    /\ failures = [n \in Names |-> 0]

Idle(t) == pc[t] \in {"idle", "returned", "raised"}

Goto(t, label) == pc' = [pc EXCEPT ![t] = label]

\* Mutant: the set of configured names is not asked.
CallUnchecked(t, n, g) ==
    /\ Idle(t)
    /\ name' = [name EXCEPT ![t] = n]
    /\ grouped' = [grouped EXCEPT ![t] = g]
    /\ Goto(t, "console")
    /\ UNCHANGED <<cloudWatch, _configured_loggers, console, cloud, failures>>

\* Mutant: the name is claimed at once, before the logger has its handlers.
CallClaims(t, n, g) ==
    /\ Idle(t)
    /\ name' = [name EXCEPT ![t] = n]
    /\ grouped' = [grouped EXCEPT ![t] = g]
    /\ Goto(t, IF n \in _configured_loggers THEN "returned" ELSE "console")
    /\ _configured_loggers' = _configured_loggers \union {n}
    /\ UNCHANGED <<cloudWatch, console, cloud, failures>>

\* get_logger(n) looks whether the name is configured and returns if so,
\* whatever level, group and prefix this call asks for.
Call(t, n, g) ==
    /\ Idle(t)
    /\ name' = [name EXCEPT ![t] = n]
    /\ grouped' = [grouped EXCEPT ![t] = g]
    /\ Goto(t, IF n \in _configured_loggers THEN "returned" ELSE "console")
    /\ UNCHANGED <<cloudWatch, _configured_loggers, console, cloud, failures>>

\* The logger gets a level, no propagation and one more console handler.
AddConsole(t) ==
    /\ pc[t] = "console"
    /\ console' = [console EXCEPT ![name[t]] = @ + 1]
    /\ Goto(t, "cloud")
    /\ UNCHANGED <<cloudWatch, _configured_loggers, cloud, name, grouped, failures>>

\* _configure_cloudwatch() gives the logger a CloudWatch handler when the
\* environment enables it and the call names a group and a prefix; boto3 and
\* watchtower may raise on the way, and nobody takes the console handler back.
ConfigureCloudwatch(t) ==
    /\ pc[t] = "cloud"
    /\ IF cloudWatch /\ grouped[t]
       THEN \/ /\ cloud' = [cloud EXCEPT ![name[t]] = @ + 1]
               /\ Goto(t, "mark")
               /\ UNCHANGED failures
            \/ /\ failures[name[t]] < MaxFailures
               /\ failures' = [failures EXCEPT ![name[t]] = @ + 1]
               /\ Goto(t, "raised")
               /\ UNCHANGED cloud
       ELSE Goto(t, "mark") /\ UNCHANGED <<cloud, failures>>
    /\ UNCHANGED <<cloudWatch, _configured_loggers, console, name, grouped>>

Mark(t) ==
    /\ pc[t] = "mark"
    /\ _configured_loggers' = _configured_loggers \union {name[t]}
    /\ Goto(t, "returned")
    /\ UNCHANGED <<cloudWatch, console, cloud, name, grouped, failures>>

Step(t) == AddConsole(t) \/ ConfigureCloudwatch(t) \/ Mark(t)

Next ==
    \E t \in Threads :
      \/ \E n \in Names, g \in BOOLEAN : Call(t, n, g)
      \/ Step(t)

Spec == Init /\ [][Next]_vars

-----------------------------------------------------------------------------
TypeOK ==
    /\ cloudWatch \in BOOLEAN
    /\ _configured_loggers \subseteq Names
    /\ console \in [Names -> Nat]
    /\ cloud \in [Names -> Nat]
    /\ pc \in [Threads -> {"idle", "console", "cloud", "mark", "returned", "raised"}]
    /\ name \in [Threads -> Names \union {None}]
    /\ grouped \in [Threads -> BOOLEAN]
    /\ failures \in [Names -> 0 .. MaxFailures]

\* Threads that have passed the look at the set for n and not yet returned.
Inside(n) == {t \in Threads : name[t] = n /\ ~Idle(t)}

\* Duplicate handlers are the price of the missing lock, and there is a limit
\* to it: never more than one per thread and one per failed call.
DuplicatesBounded ==
    \A n \in Names : console[n] <= Cardinality(Threads) + failures[n]

\* Once a name is configured and nobody is still at it, no later call touches
\* its handlers again, nor gets as far as that.
Settles ==
    [][\A n \in Names : n \in _configured_loggers /\ Inside(n) = {}
         => /\ console'[n] = console[n] /\ cloud'[n] = cloud[n]
            /\ Inside(n)' = {}]_vars

\* A logger that is handed out writes somewhere, also to the thread that was
\* let through because of a configuration another thread had begun.
ReadyWhenReturned ==
    \A t \in Threads : pc[t] = "returned" => console[name[t]] > 0
=============================================================================
