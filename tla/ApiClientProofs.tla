--------------------------- MODULE ApiClientProofs ---------------------------
(* GrantSpacing for every number of threads and every rate limit.  The        *)
(* inductive invariant: the limiter's view of the time since the last grant   *)
(* never runs ahead of the real one, and the thread that sleeps in the        *)
(* limiter, the only one past the lock, sleeps long enough.                   *)
EXTENDS ApiClient, TLAPS

USE ConstantsAssumption DEF ConstantsAssumption

\* RateLimit as a number: what the limiter compares with.
LEMMA WindowIsNat == Window \in Nat /\ (Limited => RateLimit = Window)
BY DEF Window, Limited

Shape ==
    /\ DOMAIN timer = Threads
    /\ timer = [t \in Threads |-> timer[t]]
    /\ DOMAIN pc = Threads
    /\ pc = [t \in Threads |-> pc[t]]

GateInv ==
    /\ elapsed \in 0 .. Window /\ sinceGrant \in 0 .. Window
    /\ elapsed <= sinceGrant
    /\ \A t \in Threads :
         /\ owner = t <=> pc[t] \in {"gate", "sleep"}
         /\ pc[t] \in {"lock", "gate", "sleep"} => Limited
         /\ pc[t] = "sleep" => /\ timer[t] \in Nat
                               /\ timer[t] + elapsed >= Window

LEMMA InitGate == Init => Shape /\ GateInv
BY WindowIsNat DEF Init, Shape, GateInv

LEMMA StepGate ==
    ASSUME Shape, GateInv, [Next]_vars
    PROVE  Shape' /\ GateInv'
<1> USE WindowIsNat
<1>1. CASE Tick
  <2>1. /\ elapsed' = Older(elapsed) /\ sinceGrant' = Older(sinceGrant)
        /\ timer' = [t \in Threads |-> IF timer[t] > 0 THEN timer[t] - 1 ELSE 0]
        /\ UNCHANGED <<owner, pc>>
    BY <1>1 DEF Tick
  <2>2. /\ elapsed' \in 0 .. Window /\ sinceGrant' \in 0 .. Window
        /\ elapsed' <= sinceGrant'
    BY <2>1 DEF Older, GateInv
  <2>3. ASSUME NEW t \in Threads, pc[t] = "sleep"
        PROVE  timer'[t] \in Nat /\ timer'[t] + elapsed' >= Window
    <3>1. timer[t] \in Nat /\ timer[t] + elapsed >= Window
      BY <2>3 DEF GateInv
    <3>2. timer'[t] = IF timer[t] > 0 THEN timer[t] - 1 ELSE 0
      BY <2>1
    <3> QED
      BY <2>1, <2>2, <3>1, <3>2 DEF Older, GateInv
  <2> QED
    BY <2>1, <2>2, <2>3 DEF Shape, GateInv
<1>2. ASSUME NEW t \in Threads, Query(t) PROVE Shape' /\ GateInv'
  BY <1>2 DEF Query, Goto, Shape, GateInv
<1>3. ASSUME NEW t \in Threads, Acquire(t) PROVE Shape' /\ GateInv'
  BY <1>3 DEF Acquire, Goto, Shape, GateInv
<1>4. ASSUME NEW t \in Threads, Gate(t) PROVE Shape' /\ GateInv'
  <2>1. Limited /\ RateLimit = Window
    BY <1>4 DEF Gate, GateInv
  <2>2. /\ timer' = [timer EXCEPT ![t] = IF elapsed < RateLimit
                                        THEN RateLimit - elapsed ELSE 0]
        /\ pc' = [pc EXCEPT ![t] = "sleep"] /\ pc[t] = "gate"
        /\ UNCHANGED <<elapsed, owner, sinceGrant>>
    BY <1>4 DEF Gate, Goto
  <2>3. timer'[t] \in Nat /\ timer'[t] + elapsed >= Window
    BY <2>1, <2>2 DEF Shape, GateInv
  <2>4. \A u \in Threads \ {t} : pc'[u] = pc[u] /\ timer'[u] = timer[u]
    BY <2>2 DEF Shape
  <2>5. pc'[t] = "sleep"
    BY <2>2 DEF Shape
  <2>6. Shape'
    BY <2>2 DEF Shape
  <2> QED
    BY <2>1, <2>2, <2>3, <2>4, <2>5, <2>6 DEF GateInv
<1>5. ASSUME NEW t \in Threads, Grant(t) PROVE Shape' /\ GateInv'
  BY <1>5 DEF Grant, Goto, Shape, GateInv
<1>6. ASSUME NEW t \in Threads, Exchange(t) PROVE Shape' /\ GateInv'
  <2>1. /\ UNCHANGED <<elapsed, owner, sinceGrant>>
        /\ pc[t] = "send"
        /\ pc' = pc \/ pc' = [pc EXCEPT ![t] = "answer"]
        /\ timer' = timer \/ \E p : timer' = [timer EXCEPT ![t] = p]
    BY <1>6 DEF Exchange, Goto
  <2>2. \A u \in Threads \ {t} : pc'[u] = pc[u] /\ timer'[u] = timer[u]
    BY <2>1 DEF Shape
  <2>3. pc'[t] \in {"send", "answer"}
    BY <2>1 DEF Shape
  <2>4. Shape'
    BY <2>1 DEF Shape
  <2> QED
    BY <2>1, <2>2, <2>3, <2>4 DEF GateInv
<1>7. ASSUME NEW t \in Threads, Answer(t) PROVE Shape' /\ GateInv'
  BY <1>7 DEF Answer, Goto, Shape, GateInv
<1>8. CASE UNCHANGED vars
  BY <1>8 DEF vars, Shape, GateInv
<1> QED
  BY <1>1, <1>2, <1>3, <1>4, <1>5, <1>6, <1>7, <1>8 DEF Next, Step

\* rate_limit() is left at most once per RateLimit, by any number of threads.
THEOREM GrantsAreSpaced == Spec => GrantSpacing
<1> DEFINE Spaced == \A t \in Threads : pc[t] = "sleep" /\ pc'[t] = "send"
                                        => sinceGrant = Window
<1>1. Shape /\ GateInv /\ [Next]_vars => [Spaced]_vars
  <2> SUFFICES ASSUME Shape, GateInv, Next, NEW t \in Threads,
                      pc[t] = "sleep", pc'[t] = "send"
               PROVE  sinceGrant = Window
    OBVIOUS
  <2>1. Grant(t)
    BY DEF Next, Step, Tick, Query, Acquire, Gate, Grant, Exchange, Answer,
           Goto, Shape
  <2> QED
    BY <2>1, WindowIsNat DEF Grant, GateInv
<1> QED
  BY <1>1, InitGate, StepGate, PTL DEF Spec, GrantSpacing

-----------------------------------------------------------------------------
(* What the queries return.                                                   *)

OutcomeKeys == {"status_code", "url", "data", "error", "timeout"}

LEMMA OutcomeIsKeys ==
    ASSUME NEW r \in Replies, NEW j \in BOOLEAN
    PROVE  /\ Outcome(r, j) \subseteq OutcomeKeys
           /\ "error" \in Outcome(r, j) <=> r \in Failed
           /\ "data" \in Outcome(r, j) => r \notin Failed
BY DEF Outcome, OutcomeKeys, Replies, Failed

LEMMA PausesAreNat ==
    ASSUME NEW r, NEW n \in 1 .. MaxRetries, NEW p \in Pauses(r, n)
    PROVE  p \in Nat
BY BackoffAssumption DEF Pauses

ResultInv ==
    /\ \A t \in Threads : pc[t] = "answer" => reply[t] # None
    /\ ErrorTellsFailure

QueryInv == TypeOK /\ ResultInv

LEMMA InitQuery == Init => QueryInv
BY WindowIsNat
   DEF Init, QueryInv, ResultInv, ErrorTellsFailure, Returned, TypeOK, PCs

LEMMA StepQuery ==
    ASSUME QueryInv, Shape, GateInv, [Next]_vars
    PROVE  QueryInv'
<1> USE WindowIsNat DEF QueryInv, ResultInv, ErrorTellsFailure, Returned
<1>1. CASE Tick
  <2>1. TypeOK'
    BY <1>1 DEF Tick, TypeOK, Older
  <2> QED
    BY <1>1, <2>1 DEF Tick
<1>2. ASSUME NEW t \in Threads, Query(t) PROVE QueryInv'
  <2>1. TypeOK'
    BY <1>2 DEF Query, Goto, TypeOK, PCs
  <2> QED
    BY <1>2, <2>1 DEF Query, Goto, TypeOK
<1>3. ASSUME NEW t \in Threads, Acquire(t) PROVE QueryInv'
  BY <1>3 DEF Acquire, Goto, TypeOK, PCs
<1>4. ASSUME NEW t \in Threads, Gate(t) PROVE QueryInv'
  <2>1. TypeOK'
    <3>1. Limited => RateLimit \in Nat
      BY DEF Limited
    <3>2. /\ timer' = [timer EXCEPT ![t] = IF elapsed < RateLimit
                                          THEN RateLimit - elapsed ELSE 0]
          /\ pc' = [pc EXCEPT ![t] = "sleep"]
          /\ UNCHANGED <<elapsed, owner, tries, reply, json, result,
                         sinceGrant, sinceSend>>
      BY <1>4 DEF Gate, Goto
    <3>3. Limited
      BY <1>4 DEF Gate, GateInv
    <3> QED
      BY <3>1, <3>2, <3>3 DEF TypeOK, PCs
  <2> QED
    BY <1>4, <2>1 DEF Gate, Goto, TypeOK
<1>5. ASSUME NEW t \in Threads, Grant(t) PROVE QueryInv'
  BY <1>5 DEF Grant, Goto, TypeOK, PCs
<1>6. ASSUME NEW t \in Threads, Exchange(t) PROVE QueryInv'
  <2>1. PICK r \in Replies :
          /\ reply' = [reply EXCEPT ![t] = r]
          /\ IF r \in Retried /\ tries[t] < MaxRetries
             THEN /\ tries' = [tries EXCEPT ![t] = @ + 1]
                  /\ \E pause \in Pauses(r, tries[t] + 1) :
                       timer' = [timer EXCEPT ![t] = pause]
                  /\ UNCHANGED pc
             ELSE pc' = [pc EXCEPT ![t] = "answer"] /\ UNCHANGED <<tries, timer>>
    BY <1>6 DEF Exchange, Goto
  <2>2. /\ pc[t] = "send" /\ sinceSend' = 0
        /\ UNCHANGED <<elapsed, owner, json, result, sinceGrant>>
    BY <1>6 DEF Exchange
  <2>3. timer' \in [Threads -> Nat]
    <3>1. CASE r \in Retried /\ tries[t] < MaxRetries
      <4>1. tries[t] + 1 \in 1 .. MaxRetries
        BY <3>1 DEF TypeOK
      <4> QED
        BY <2>1, <3>1, <4>1, PausesAreNat DEF TypeOK
    <3>2. CASE ~(r \in Retried /\ tries[t] < MaxRetries)
      BY <2>1, <3>2 DEF TypeOK
    <3> QED
      BY <3>1, <3>2
  <2>a. /\ tries' \in [Threads -> 0 .. MaxRetries]
        /\ pc' \in [Threads -> PCs]
        /\ reply' \in [Threads -> Replies \union {None}]
    BY <2>1 DEF TypeOK, PCs
  <2>4. TypeOK'
    BY <2>2, <2>3, <2>a DEF TypeOK
  <2>5. pc'[t] # "idle" /\ reply'[t] # None
        /\ \A u \in Threads \ {t} : pc'[u] = pc[u] /\ reply'[u] = reply[u]
    BY <2>1, <2>2 DEF TypeOK
  <2> QED
    BY <2>2, <2>4, <2>5
<1>7. ASSUME NEW t \in Threads, Answer(t) PROVE QueryInv'
  <2>1. /\ reply[t] \in Replies /\ json[t] \in BOOLEAN
        /\ result' = [result EXCEPT ![t] = Outcome(reply[t], json[t])]
        /\ pc' = [pc EXCEPT ![t] = "idle"]
        /\ UNCHANGED <<elapsed, owner, timer, tries, reply, json,
                       sinceGrant, sinceSend>>
    BY <1>7 DEF Answer, Goto, TypeOK
  <2>2. result'[t] = Outcome(reply[t], json[t])
        /\ \A u \in Threads \ {t} : result'[u] = result[u] /\ pc'[u] = pc[u]
    BY <2>1 DEF TypeOK
  <2>3. TypeOK'
    BY <2>1, OutcomeIsKeys DEF TypeOK, PCs, OutcomeKeys
  <2>4. ResultInv'
    BY <2>1, <2>2, OutcomeIsKeys DEF TypeOK
  <2> QED
    BY <2>3, <2>4
<1>8. CASE UNCHANGED vars
  BY <1>8 DEF vars, TypeOK
<1> QED
  BY <1>1, <1>2, <1>3, <1>4, <1>5, <1>6, <1>7, <1>8 DEF Next, Step

THEOREM QueryTypes == Spec => []TypeOK
<1>1. QueryInv => TypeOK
  BY DEF QueryInv
<1> QED
  BY <1>1, InitQuery, StepQuery, InitGate, StepGate, PTL DEF Spec

\* The error key tells failed queries from answered ones, whatever is repeated
\* how often and whatever the query asked for.
THEOREM ErrorKeyTells == Spec => []ErrorTellsFailure
<1>1. QueryInv => ErrorTellsFailure
  BY DEF QueryInv, ResultInv
<1> QED
  BY <1>1, InitQuery, StepQuery, InitGate, StepGate, PTL DEF Spec
=============================================================================
