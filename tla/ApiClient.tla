------------------------------ MODULE ApiClient ------------------------------
(* The ApiClient of src/idi_ftm2j_shared/api.py as its one subclass here, the *)
(* SecClient, uses it: query_endpoint() passes the rate limiter, sends a      *)
(* request through a requests Session whose adapter (urllib3 Retry) repeats   *)
(* it, and turns whatever happens into a dict.                                *)
(*                                                                            *)
(* Time is counted in ticks and only differences of times exist: elapsed is   *)
(* time.time() - _last_request, cut off at the rate limit, and a sleeping     *)
(* thread has a timer.  Ticks pass between any two steps.                     *)
EXTENDS Integers, QueryResult

CONSTANTS
    Threads,        \* threads that share the client
    RateLimit,      \* rate_limit in ticks, or None
    MaxRetries,     \* max_retries
    BackoffFactor,  \* RETRY_BACKOFF_FACTOR in ticks
    RetryAfters,    \* pauses a server can ask for in a Retry-After header
    None

ASSUME ConstantsAssumption ==
    /\ RateLimit \in Nat \union {None}
    /\ None \notin Nat \union Threads
    /\ None \notin Replies
    /\ MaxRetries \in Nat
    /\ BackoffFactor \in Nat
    /\ RetryAfters \subseteq Nat

VARIABLES
    elapsed,    \* time.time() - _last_request, at most Window
    owner,      \* who holds _lock
    pc,         \* where each thread is
    timer,      \* ticks each thread still sleeps
    tries,      \* requests urllib3 has repeated in this query
    reply,      \* how each thread's last request ended
    json,       \* is the body of the query parsed as JSON
    result,     \* the keys of the dict the last query returned
    sinceGrant, \* history: ticks since rate_limit() last returned, or Window
    sinceSend   \* history: ticks since a request last left, or Window

vars == <<elapsed, owner, pc, timer, tries, reply, json, result,
          sinceGrant, sinceSend>>

Limited == RateLimit # None

\* Differences of times above the rate limit need not be told apart.
Window == IF Limited THEN RateLimit ELSE 0

-----------------------------------------------------------------------------
\* urllib3 sends the first repetition at once and waits factor * 2^(n-1)
\* before the n-th.
Backoff(n) == IF n <= 1 THEN 0 ELSE BackoffFactor * 2 ^ (n - 1)

\* Pauses are whole ticks.
ASSUME BackoffAssumption == \A n \in 1 .. MaxRetries : Backoff(n) \in Nat

Pauses(r, n) ==
    {Backoff(n)} \union (IF r = "overloaded" THEN RetryAfters ELSE {})

-----------------------------------------------------------------------------
Init ==
    /\ elapsed = 0
    /\ owner = None
    /\ pc = [t \in Threads |-> "idle"]
    /\ timer = [t \in Threads |-> 0]
    /\ tries = [t \in Threads |-> 0]
    /\ reply = [t \in Threads |-> None]
    /\ json = [t \in Threads |-> FALSE]
    /\ result = [t \in Threads |-> {}]
    /\ sinceGrant = Window
    /\ sinceSend = Window

Goto(t, label) == pc' = [pc EXCEPT ![t] = label]

Older(age) == IF age < Window THEN age + 1 ELSE age

Tick ==
    /\ elapsed' = Older(elapsed)
    /\ sinceGrant' = Older(sinceGrant)
    /\ sinceSend' = Older(sinceSend)
    /\ timer' = [t \in Threads |-> IF timer[t] > 0 THEN timer[t] - 1 ELSE 0]
    /\ UNCHANGED <<owner, pc, tries, reply, json, result>>

\* query_endpoint() is called; the body is parsed when return_json is asked for
\* and return_bytes, which overrides it, is not.  Without a rate limit
\* rate_limit() returns at once.
Query(t) ==
    /\ pc[t] = "idle"
    /\ \E return_json, return_bytes \in BOOLEAN :
         json' = [json EXCEPT ![t] = return_json /\ ~return_bytes]
    /\ tries' = [tries EXCEPT ![t] = 0]
    /\ reply' = [reply EXCEPT ![t] = None]
    /\ result' = [result EXCEPT ![t] = {}]
    /\ Goto(t, IF Limited THEN "lock" ELSE "send")
    /\ UNCHANGED <<elapsed, owner, timer, sinceGrant, sinceSend>>

-----------------------------------------------------------------------------
(* rate_limit().                                                              *)

Acquire(t) ==
    /\ pc[t] = "lock" /\ owner = None
    /\ owner' = t
    /\ Goto(t, "gate")
    /\ UNCHANGED <<elapsed, timer, tries, reply, json, result,
                   sinceGrant, sinceSend>>

\* Mutant: the lock is given back before the sleep.
GateOutsideLock(t) ==
    /\ pc[t] = "gate"
    /\ timer' = [timer EXCEPT ![t] = IF elapsed < RateLimit
                                     THEN RateLimit - elapsed ELSE 0]
    /\ owner' = None
    /\ Goto(t, "sleep")
    /\ UNCHANGED <<elapsed, tries, reply, json, result, sinceGrant, sinceSend>>

\* The time since the last request is read and the sleep, if any, begins.
Gate(t) ==
    /\ pc[t] = "gate"
    /\ timer' = [timer EXCEPT ![t] = IF elapsed < RateLimit
                                     THEN RateLimit - elapsed ELSE 0]
    /\ Goto(t, "sleep")
    /\ UNCHANGED <<elapsed, owner, tries, reply, json, result,
                   sinceGrant, sinceSend>>

\* Mutant: _last_request is set without the lock being given back.
GrantKeepsLock(t) ==
    /\ pc[t] = "sleep" /\ timer[t] = 0
    /\ elapsed' = 0
    /\ sinceGrant' = 0
    /\ Goto(t, "send")
    /\ UNCHANGED <<owner, timer, tries, reply, json, result, sinceSend>>

\* The sleep is over, _last_request is now, the lock is free.
Grant(t) ==
    /\ pc[t] = "sleep" /\ timer[t] = 0
    /\ elapsed' = 0
    /\ sinceGrant' = 0
    /\ owner' = None
    /\ Goto(t, "send")
    /\ UNCHANGED <<timer, tries, reply, json, result, sinceSend>>

-----------------------------------------------------------------------------
(* _query_with_error_handling().                                              *)

\* Mutant: repetitions are not counted.
ExchangeUncounted(t) ==
    /\ pc[t] = "send" /\ timer[t] = 0
    /\ sinceSend' = 0
    /\ \E r \in Replies :
         /\ reply' = [reply EXCEPT ![t] = r]
         /\ Goto(t, IF r \in Retried THEN "send" ELSE "answer")
    /\ UNCHANGED <<elapsed, owner, timer, tries, json, result, sinceGrant>>

\* Mutant: one repetition more than max_retries.
ExchangeOneMore(t) ==
    /\ pc[t] = "send" /\ timer[t] = 0
    /\ sinceSend' = 0
    /\ \E r \in Replies :
         /\ reply' = [reply EXCEPT ![t] = r]
         /\ IF r \in Retried /\ tries[t] <= MaxRetries
            THEN /\ tries' = [tries EXCEPT ![t] = @ + 1]
                 /\ UNCHANGED pc
            ELSE Goto(t, "answer") /\ UNCHANGED tries
    /\ UNCHANGED <<elapsed, owner, timer, json, result, sinceGrant>>

\* One request leaves, a get() or a post(), and ends in one of the ways; the
\* adapter repeats the ones it may repeat, after a pause, without passing the
\* rate limiter.
Exchange(t) ==
    /\ pc[t] = "send" /\ timer[t] = 0
    /\ sinceSend' = 0
    /\ \E r \in Replies :
         /\ reply' = [reply EXCEPT ![t] = r]
         /\ IF r \in Retried /\ tries[t] < MaxRetries
            THEN /\ tries' = [tries EXCEPT ![t] = @ + 1]
                 /\ \E pause \in Pauses(r, tries[t] + 1) :
                      timer' = [timer EXCEPT ![t] = pause]
                 /\ UNCHANGED pc
            ELSE Goto(t, "answer") /\ UNCHANGED <<tries, timer>>
    /\ UNCHANGED <<elapsed, owner, json, result, sinceGrant>>

\* The query returns its dict and never raises.
Answer(t) ==
    /\ pc[t] = "answer"
    /\ result' = [result EXCEPT ![t] = Outcome(reply[t], json[t])]
    /\ Goto(t, "idle")
    /\ UNCHANGED <<elapsed, owner, timer, tries, reply, json,
                   sinceGrant, sinceSend>>

-----------------------------------------------------------------------------
Step(t) == Acquire(t) \/ Gate(t) \/ Grant(t) \/ Exchange(t) \/ Answer(t)

Next == Tick \/ \E t \in Threads : Query(t) \/ Step(t)

Spec == Init /\ [][Next]_vars

\* Time passes, and a thread that can go on does: sleeps end, and requests
\* end by an answer or by REQUEST_TIMEOUT.  The lock is not assumed to be fair.
FairSpec == Spec /\ WF_vars(Tick) /\ \A t \in Threads : WF_vars(Step(t))

-----------------------------------------------------------------------------
PCs == {"idle", "lock", "gate", "sleep", "send", "answer"}

TypeOK ==
    /\ elapsed \in 0 .. Window
    /\ sinceGrant \in 0 .. Window
    /\ sinceSend \in 0 .. Window
    /\ owner \in Threads \union {None}
    /\ pc \in [Threads -> PCs]
    /\ timer \in [Threads -> Nat]
    /\ tries \in [Threads -> 0 .. MaxRetries]
    /\ reply \in [Threads -> Replies \union {None}]
    /\ json \in [Threads -> BOOLEAN]
    /\ result \in [Threads ->
                     SUBSET {"status_code", "url", "data", "error", "timeout"}]

\* "Minimum seconds between requests", as rate_limit() keeps it: two threads
\* never leave it within RateLimit of each other, however they interleave.
GrantSpacing ==
    [][\A t \in Threads : pc[t] = "sleep" /\ pc'[t] = "send"
                          => sinceGrant = Window]_vars

\* Whoever sleeps in the limiter gives the lock back.
GateReleased == \A t \in Threads : owner = t ~> owner # t

\* A query that the limiter has let through returns, however often servers
\* fail and however long they ask to wait.
QueryReturns == \A t \in Threads : pc[t] = "send" ~> pc[t] = "idle"

\* A query that has returned.
Returned(t) == pc[t] = "idle" /\ reply[t] # None

\* "check for the error key": an answer never carries one, and a failure
\* always does and never carries data.
ErrorTellsFailure ==
    \A t \in Threads : Returned(t) =>
      /\ "error" \in result[t] <=> reply[t] \in Failed
      /\ "data" \in result[t] => reply[t] \notin Failed

\* A request of t leaves in this step.
Sends(t) == pc[t] = "send" /\ (pc'[t] = "answer" \/ tries'[t] > tries[t])

\* "Minimum seconds between requests", taken for the requests that leave.
SendSpacing == [][(\E t \in Threads : Sends(t)) => sinceSend = Window]_vars

\* "On success the returned dict contains status_code, url, and data keys.
\* On failure an error key is added".
DataOrError ==
    \A t \in Threads : Returned(t) =>
      \/ {"status_code", "url", "data"} \subseteq result[t]
      \/ "error" \in result[t]
=============================================================================
