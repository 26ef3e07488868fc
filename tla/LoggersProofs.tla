---------------------------- MODULE LoggersProofs ----------------------------
(* What get_logger guarantees without a lock, for any number of threads and   *)
(* names.  The counting argument behind DuplicatesBounded: until a name is    *)
(* configured each of its handlers belongs to a failed call or to a thread    *)
(* between AddConsole and Mark; once it is, only the threads that had looked  *)
(* before can still add one.                                                  *)
EXTENDS Loggers, FiniteSetTheorems, TLAPS

USE ConstantsAssumption

\* The threads that found n missing, before and after they attach its handler.
Before(n) == {t \in Threads : name[t] = n /\ pc[t] = "console"}
After(n) == {t \in Threads : name[t] = n /\ pc[t] \in {"cloud", "mark"}}

NameInv ==
    \A t \in Threads :
      /\ pc[t] # "idle" => name[t] \in Names
      /\ pc[t] \in {"cloud", "mark"} => console[name[t]] > 0
      /\ pc[t] = "returned" => name[t] \in _configured_loggers

ReadyInv == \A n \in _configured_loggers : console[n] > 0

CountInv ==
    \A n \in Names :
      IF n \in _configured_loggers
      THEN console[n] + Cardinality(Before(n))
             <= failures[n] + Cardinality(Threads)
      ELSE console[n] <= failures[n] + Cardinality(After(n))

LogInv == TypeOK /\ NameInv /\ ReadyInv /\ CountInv

LEMMA Counts ==
    ASSUME NEW n
    PROVE  /\ Cardinality(Threads) \in Nat
           /\ IsFiniteSet(Before(n)) /\ Cardinality(Before(n)) \in Nat
           /\ IsFiniteSet(After(n)) /\ Cardinality(After(n)) \in Nat
           /\ Cardinality(Before(n)) + Cardinality(After(n))
                <= Cardinality(Threads)
<1>1. Before(n) \subseteq Threads /\ After(n) \subseteq Threads
  BY DEF Before, After
<1>2. IsFiniteSet(Before(n)) /\ IsFiniteSet(After(n))
  BY <1>1, FS_Subset
<1>3. Before(n) \cap After(n) = {}
  BY DEF Before, After
<1>4. Cardinality(Before(n) \cup After(n))
        = Cardinality(Before(n)) + Cardinality(After(n)) - Cardinality({})
  BY <1>2, <1>3, FS_Union
<1>5. Cardinality(Before(n) \cup After(n)) <= Cardinality(Threads)
  BY <1>1, FS_Subset
<1> QED
  BY <1>2, <1>4, <1>5, FS_CardinalityType, FS_EmptySet

LEMMA TypeStep == TypeOK /\ NameInv /\ [Next]_vars => TypeOK'
<1> SUFFICES ASSUME TypeOK, NameInv, [Next]_vars PROVE TypeOK'
  OBVIOUS
<1>1. ASSUME NEW t \in Threads, NEW n \in Names, NEW g \in BOOLEAN, Call(t, n, g)
      PROVE  TypeOK'
  BY <1>1 DEF Call, Goto, TypeOK
<1>2. ASSUME NEW t \in Threads, AddConsole(t) PROVE TypeOK'
  <2>1. name[t] \in Names /\ console[name[t]] \in Nat
    BY <1>2 DEF AddConsole, NameInv, TypeOK
  <2> QED
    BY <1>2, <2>1 DEF AddConsole, Goto, TypeOK
<1>3. ASSUME NEW t \in Threads, ConfigureCloudwatch(t) PROVE TypeOK'
  <2>1. name[t] \in Names /\ cloud[name[t]] \in Nat
        /\ failures[name[t]] \in 0 .. MaxFailures
    BY <1>3 DEF ConfigureCloudwatch, NameInv, TypeOK
  <2>2. /\ cloud' \in [Names -> Nat]
        /\ failures' \in [Names -> 0 .. MaxFailures]
    BY <1>3, <2>1 DEF ConfigureCloudwatch, TypeOK
  <2>3. pc' \in {[pc EXCEPT ![t] = "mark"], [pc EXCEPT ![t] = "raised"]}
    BY <1>3 DEF ConfigureCloudwatch, Goto
  <2>4. UNCHANGED <<cloudWatch, _configured_loggers, console, name, grouped>>
    BY <1>3 DEF ConfigureCloudwatch
  <2> QED
    BY <2>2, <2>3, <2>4 DEF TypeOK
<1>4. ASSUME NEW t \in Threads, Mark(t) PROVE TypeOK'
  BY <1>4 DEF Mark, Goto, TypeOK, NameInv
<1>5. CASE UNCHANGED vars
  BY <1>5 DEF vars, TypeOK
<1> QED
  BY <1>1, <1>2, <1>3, <1>4, <1>5 DEF Next, Step

LEMMA InvStep == LogInv /\ [Next]_vars => LogInv'
<1> SUFFICES ASSUME LogInv, [Next]_vars PROVE (NameInv /\ ReadyInv /\ CountInv)'
  BY TypeStep DEF LogInv
<1> USE DEF LogInv
<1>1. ASSUME NEW t \in Threads, NEW n \in Names, NEW g \in BOOLEAN, Call(t, n, g)
      PROVE  (NameInv /\ ReadyInv /\ CountInv)'
  <2>1. /\ Idle(t) /\ name' = [name EXCEPT ![t] = n]
        /\ pc' = [pc EXCEPT ![t] = IF n \in _configured_loggers
                                   THEN "returned" ELSE "console"]
        /\ UNCHANGED <<_configured_loggers, console, failures>>
    BY <1>1 DEF Call, Goto
  <2>2. NameInv' /\ ReadyInv'
    BY <2>1 DEF NameInv, ReadyInv, TypeOK
  <2>3. \A m \in Names : After(m)' = After(m)
    BY <2>1 DEF After, Idle, TypeOK
  <2>4. \A m \in _configured_loggers : Before(m)' = Before(m)
    BY <2>1 DEF Before, Idle, TypeOK
  <2>5. CountInv'
    BY <2>1, <2>3, <2>4 DEF CountInv
  <2> QED
    BY <2>2, <2>5
<1>2. ASSUME NEW t \in Threads, AddConsole(t)
      PROVE  (NameInv /\ ReadyInv /\ CountInv)'
  <2> DEFINE n == name[t]
  <2>1. /\ pc[t] = "console" /\ n \in Names
        /\ console' = [console EXCEPT ![n] = @ + 1]
        /\ pc' = [pc EXCEPT ![t] = "cloud"]
        /\ UNCHANGED <<_configured_loggers, name, failures>>
    BY <1>2 DEF AddConsole, Goto, NameInv
  <2>2. /\ console'[n] = console[n] + 1
        /\ \A m \in Names \ {n} : console'[m] = console[m]
        /\ console \in [Names -> Nat] /\ failures[n] \in Nat
    BY <2>1 DEF TypeOK
  <2>3. NameInv' /\ ReadyInv'
    BY <2>1, <2>2 DEF NameInv, ReadyInv, TypeOK
  <2>4. \A m \in Names \ {n} : Before(m)' = Before(m) /\ After(m)' = After(m)
    BY <2>1 DEF Before, After, TypeOK
  <2>5. /\ Before(n)' = Before(n) \ {t} /\ t \in Before(n)
        /\ After(n)' = After(n) \cup {t} /\ t \notin After(n)
    BY <2>1 DEF Before, After, TypeOK
  <2>6. /\ Cardinality(Before(n)') = Cardinality(Before(n)) - 1
        /\ Cardinality(After(n)') = Cardinality(After(n)) + 1
    BY <2>5, Counts, FS_RemoveElement, FS_AddElement
  <2>7. ASSUME NEW m \in Names
        PROVE  IF m \in _configured_loggers
               THEN console'[m] + Cardinality(Before(m)')
                      <= failures[m] + Cardinality(Threads)
               ELSE console'[m] <= failures[m] + Cardinality(After(m)')
    <3>1. CASE m = n
      <4>1. /\ Cardinality(Threads) \in Nat
            /\ Cardinality(Before(n)) \in Nat /\ Cardinality(After(n)) \in Nat
        BY Counts
      <4> QED
        BY <2>1, <2>2, <2>6, <3>1, <4>1 DEF CountInv
    <3>2. CASE m # n
      BY <2>2, <2>4, <3>2 DEF CountInv
    <3> QED
      BY <3>1, <3>2
  <2>8. CountInv'
    BY <2>1, <2>7 DEF CountInv
  <2> QED
    BY <2>3, <2>8
<1>3. ASSUME NEW t \in Threads, ConfigureCloudwatch(t)
      PROVE  (NameInv /\ ReadyInv /\ CountInv)'
  <2>0. PICK n \in Names : n = name[t]
    BY <1>3 DEF ConfigureCloudwatch, NameInv
  <2>1. /\ pc[t] = "cloud" /\ n = name[t]
        /\ UNCHANGED <<_configured_loggers, console, name>>
    BY <1>3, <2>0 DEF ConfigureCloudwatch
  <2>2. \A m \in Names : Before(m)' = Before(m)
    BY <1>3, <2>1 DEF ConfigureCloudwatch, Goto, Before, TypeOK
  <2>3. CASE pc' = [pc EXCEPT ![t] = "mark"] /\ UNCHANGED failures
    <3>1. \A m \in Names : After(m)' = After(m)
      BY <2>1, <2>3 DEF After, TypeOK
    <3>2. NameInv' /\ ReadyInv'
      BY <2>1, <2>3 DEF NameInv, ReadyInv, TypeOK
    <3>3. CountInv'
      BY <2>1, <2>2, <2>3, <3>1 DEF CountInv
    <3> QED
      BY <3>2, <3>3
  <2>4. CASE /\ pc' = [pc EXCEPT ![t] = "raised"]
             /\ failures' = [failures EXCEPT ![n] = @ + 1]
    <3>1. /\ After(n)' = After(n) \ {t} /\ t \in After(n)
          /\ \A m \in Names \ {n} : After(m)' = After(m)
      BY <2>1, <2>4 DEF After, TypeOK
    <3>2. Cardinality(After(n)') = Cardinality(After(n)) - 1
      BY <3>1, Counts, FS_RemoveElement
    <3>3. /\ failures'[n] = failures[n] + 1 /\ failures[n] \in Nat
          /\ \A m \in Names \ {n} : failures'[m] = failures[m]
          /\ console \in [Names -> Nat]
      BY <2>1, <2>4 DEF TypeOK
    <3>4. NameInv' /\ ReadyInv'
      BY <2>1, <2>4 DEF NameInv, ReadyInv, TypeOK
    <3>5. ASSUME NEW m \in Names
          PROVE  IF m \in _configured_loggers
                 THEN console[m] + Cardinality(Before(m)')
                        <= failures'[m] + Cardinality(Threads)
                 ELSE console[m] <= failures'[m] + Cardinality(After(m)')
      <4>1. CASE m = n
        <5>1. /\ Cardinality(Threads) \in Nat
              /\ Cardinality(Before(n)) \in Nat /\ Cardinality(After(n)) \in Nat
          BY Counts
        <5>2. console[n] \in Nat /\ Before(n)' = Before(n)
          BY <2>1, <2>2, <3>3
        <5>3. IF n \in _configured_loggers
              THEN console[n] + Cardinality(Before(n))
                     <= failures[n] + Cardinality(Threads)
              ELSE console[n] <= failures[n] + Cardinality(After(n))
          BY <2>1 DEF CountInv
        <5>4. IF n \in _configured_loggers
              THEN console[n] + Cardinality(Before(n))
                     <= (failures[n] + 1) + Cardinality(Threads)
              ELSE console[n] <= (failures[n] + 1) + (Cardinality(After(n)) - 1)
          BY <3>3, <5>1, <5>2, <5>3
        <5> QED
          BY <3>2, <3>3, <4>1, <5>2, <5>4
      <4>2. CASE m # n
        BY <2>2, <3>1, <3>3, <4>2 DEF CountInv
      <4> QED
        BY <4>1, <4>2
    <3>6. CountInv'
      BY <2>1, <3>5 DEF CountInv
    <3> QED
      BY <3>4, <3>6
  <2> QED
    BY <1>3, <2>0, <2>3, <2>4 DEF ConfigureCloudwatch, Goto
<1>4. ASSUME NEW t \in Threads, Mark(t)
      PROVE  (NameInv /\ ReadyInv /\ CountInv)'
  <2> DEFINE n == name[t]
  <2>1. /\ pc[t] = "mark" /\ n \in Names /\ console[n] > 0
        /\ _configured_loggers' = _configured_loggers \cup {n}
        /\ pc' = [pc EXCEPT ![t] = "returned"]
        /\ UNCHANGED <<console, name, failures>>
    BY <1>4 DEF Mark, Goto, NameInv
  <2>2. NameInv' /\ ReadyInv'
    BY <2>1 DEF NameInv, ReadyInv, TypeOK
  <2>3. \A m \in Names : Before(m)' = Before(m)
    BY <2>1 DEF Before, TypeOK
  <2>4. \A m \in Names \ {n} : After(m)' = After(m)
    BY <2>1 DEF After, TypeOK
  <2>5. console[n] + Cardinality(Before(n)) <= failures[n] + Cardinality(Threads)
    <3>1. console[n] \in Nat /\ failures[n] \in Nat
      BY <2>1 DEF TypeOK
    <3>2. /\ Cardinality(Threads) \in Nat /\ Cardinality(Before(n)) \in Nat
          /\ Cardinality(After(n)) \in Nat
          /\ Cardinality(Before(n)) + Cardinality(After(n))
               <= Cardinality(Threads)
      BY Counts
    <3> QED
      BY <2>1, <3>1, <3>2 DEF CountInv
  <2>6. CountInv'
    BY <2>1, <2>3, <2>4, <2>5 DEF CountInv
  <2> QED
    BY <2>2, <2>6
<1>5. CASE UNCHANGED vars
  BY <1>5 DEF vars, NameInv, ReadyInv, CountInv, Before, After
<1> QED
  BY <1>1, <1>2, <1>3, <1>4, <1>5 DEF Next, Step

LEMMA InvInit == Init => LogInv
<1> SUFFICES ASSUME Init PROVE LogInv
  OBVIOUS
<1>1. \A n \in Names : Cardinality(After(n)) \in Nat
  BY Counts
<1> QED
  BY <1>1 DEF Init, LogInv, TypeOK, NameInv, ReadyInv, CountInv

THEOREM Invariance == Spec => []LogInv
BY InvInit, InvStep, PTL DEF Spec

\* Nobody is handed a logger that has no handler yet.
THEOREM LoggersAreReady == Spec => []ReadyWhenReturned
<1>1. LogInv => ReadyWhenReturned
  BY DEF LogInv, NameInv, ReadyInv, ReadyWhenReturned
<1> QED
  BY <1>1, Invariance, PTL

\* Every duplicate handler is owed to a thread or to a failed call.
THEOREM DuplicatesAreBounded == Spec => []DuplicatesBounded
<1>1. LogInv => DuplicatesBounded
  <2> SUFFICES ASSUME LogInv, NEW n \in Names
               PROVE  console[n] <= Cardinality(Threads) + failures[n]
    BY DEF DuplicatesBounded
  <2>1. console[n] \in Nat /\ failures[n] \in Nat
    BY DEF LogInv, TypeOK
  <2>2. /\ Cardinality(Threads) \in Nat /\ Cardinality(Before(n)) \in Nat
        /\ Cardinality(After(n)) \in Nat
        /\ Cardinality(Before(n)) + Cardinality(After(n))
             <= Cardinality(Threads)
    BY Counts
  <2> QED
    BY <2>1, <2>2 DEF LogInv, CountInv
<1> QED
  BY <1>1, Invariance, PTL

\* Handlers are final once the threads that raced for a name are through.
THEOREM HandlersSettle == Spec => Settles
<1> DEFINE Final ==
      \A n \in Names : n \in _configured_loggers /\ Inside(n) = {}
         => /\ console'[n] = console[n] /\ cloud'[n] = cloud[n]
            /\ Inside(n)' = {}
<1>1. LogInv /\ [Next]_vars => [Final]_vars
  <2> SUFFICES ASSUME LogInv, Next, NEW n \in _configured_loggers, n \in Names,
                      Inside(n) = {}
               PROVE  /\ console'[n] = console[n] /\ cloud'[n] = cloud[n]
                      /\ Inside(n)' = {}
    OBVIOUS
  <2>1. \A t \in Threads : name[t] = n => Idle(t)
    BY DEF Inside
  <2>2. ASSUME NEW t \in Threads, NEW m \in Names, NEW g \in BOOLEAN,
               Call(t, m, g)
        PROVE  /\ console'[n] = console[n] /\ cloud'[n] = cloud[n]
               /\ Inside(n)' = {}
    BY <2>1, <2>2 DEF Call, Goto, Inside, Idle, LogInv, TypeOK
  <2>3. ASSUME NEW t \in Threads, Step(t)
        PROVE  /\ console'[n] = console[n] /\ cloud'[n] = cloud[n]
               /\ Inside(n)' = {}
    <3>1. /\ name[t] # n /\ name' = name
          /\ \A u \in Threads \ {t} : pc'[u] = pc[u]
      BY <2>1, <2>3 DEF Step, AddConsole, ConfigureCloudwatch, Mark, Goto,
                        Idle, LogInv, TypeOK
    <3>2. console'[n] = console[n] /\ cloud'[n] = cloud[n]
      BY <2>3, <3>1 DEF Step, AddConsole, ConfigureCloudwatch, Mark,
                        LogInv, TypeOK
    <3>3. Inside(n)' = {}
      BY <2>1, <3>1 DEF Inside, Idle
    <3> QED
      BY <3>2, <3>3
  <2> QED
    BY <2>2, <2>3 DEF Next
<1> QED
  BY <1>1, Invariance, PTL DEF Spec, Settles
=============================================================================
