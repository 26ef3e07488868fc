------------------------ MODULE FailureRegistryProofs ------------------------
(* Proofs about FailureRegistry, for every value of its constants.  Typing    *)
(* holds for every kind of file and every use.  The rest is about an S3 file  *)
(* written through add() and flush() only (Guarded); its argument goes        *)
(*   Typing -> Locking -> Saving -> Counting                                  *)
(* each an inductive invariant relative to the ones before it.                *)
EXTENDS FailureRegistry, FiniteSetTheorems, TLAPS

USE ConstantsAssumption DEF ConstantsAssumption

\* A document built by save() is a file content.
LEMMA DocumentsAreContents ==
    ASSUME TypeOK, NEW d \in Documents
    PROVE  d \in Contents /\ d.entries = entries
<1>1. PICK rs \in [JoinedKeys -> Reasons \union {None}] :
           d = Content("dict", entries, rs)
  BY DEF Documents
<1> QED
  BY <1>1 DEF TypeOK, Content, Contents

LEMMA ConstantContents == {Missing, Torn, NotDict} \subseteq Contents
BY DEF Missing, Torn, NotDict, Content, Contents, NoReasons, Reasons

LEMMA EndTypes ==
    ASSUME TypeOK, NEW t \in Threads, End(t)
    PROVE  /\ pc' \in [Threads -> PCs]
           /\ call' \in [Threads -> Calls]
           /\ buffer' \in [Threads -> Contents]
           /\ owner' \in Threads \union {None}
BY ConstantContents
   DEF TypeOK, End, Goto, PCs, IdleCall, Request, Calls

LEMMA LoadedReasonsTypes ==
    ASSUME NEW c \in Contents, NEW es \in SUBSET Keys
    PROVE  LoadedReasons(c, es) \in [Keys -> Reasons \union {None}]
BY DEF LoadedReasons, Contents

\* The type invariant: no step of any thread, failing or not, leaves a
\* counter, a lock owner, a dict or a file content of the wrong kind.
THEOREM Typing == Spec => []TypeOK
<1>1. Init => TypeOK
  <2> SUFFICES ASSUME Init PROVE TypeOK
    OBVIOUS
  <2>1. file \in Contents /\ buffer \in [Threads -> Contents]
    BY ConstantContents DEF Init
  <2>2. call \in [Threads -> Calls]
    BY DEF Init, IdleCall, Request, Calls
  <2> QED
    BY <2>1, <2>2 DEF Init, TypeOK, PCs
<1>2. TypeOK /\ [Next]_vars => TypeOK'
  <2> SUFFICES ASSUME TypeOK, [Next]_vars PROVE TypeOK'
    OBVIOUS
  <2>1. CASE Construct
    <3>1. Missing \in Contents
      BY ConstantContents
    <3> DEFINE found == IF Storage = "none" THEN Missing ELSE file
    <3>2. found \in Contents /\ found.entries \in SUBSET Keys
      BY <3>1 DEF TypeOK, Contents
    <3>3. LoadedReasons(found, found.entries) \in [Keys -> Reasons \union {None}]
      BY <3>2, LoadedReasonsTypes
    <3> QED
      BY <2>1, <3>2, <3>3 DEF Construct, TypeOK
  <2>2. CASE Crash
    BY <2>2, ConstantContents
       DEF Crash, TypeOK, PCs, IdleCall, Request, Calls
  <2>3. ASSUME NEW t \in Threads, CallNext(t) PROVE TypeOK'
    BY <2>3 DEF CallNext, CallAdd, CallFlush, CallSave, CallLoad, Goto,
                TypeOK, PCs, Request, Calls
  <2>4. ASSUME NEW t \in Threads, Step(t) PROVE TypeOK'
    <3>1. CASE Acquire(t)
      BY <3>1 DEF Acquire, Goto, TypeOK, PCs
    <3>2. CASE End(t) /\ UNCHANGED entries
                      /\ acked' \in [Keys -> Reasons \union {None}]
                      /\ file' \in Contents
                      /\ reasons' \in [Keys -> Reasons \union {None}]
                      /\ pending' \in Nat /\ raised' \in BOOLEAN /\ UNCHANGED up
      <4>1. pc' = [pc EXCEPT ![t] = "idle"]
        BY <3>2 DEF End, Goto
      <4>2. call' = [call EXCEPT ![t] = IdleCall]
        BY <3>2 DEF End
      <4>3. \A u \in Threads : pc'[u] \in {"check", "reason"}
                               => call'[u].op = "add"
        BY <4>1, <4>2 DEF TypeOK
      <4> QED
        BY <3>2, <4>3, EndTypes DEF TypeOK
    <3>3. CASE AddPresent(t)
      BY <3>2, <3>3 DEF AddPresent, TypeOK
    <3>4. CASE AddEntry(t)
      <4>1. call[t].key \in Keys
        BY <3>4 DEF AddEntry, TypeOK, Calls
      <4> QED
        BY <3>4, <4>1 DEF AddEntry, Goto, TypeOK, PCs
    <3>5. CASE AddReason(t)
      <4>1. call[t].key \in Keys /\ call[t].type \in Reasons
        BY <3>5 DEF AddReason, TypeOK, Calls, Reasons
      <4>2. /\ reasons' \in [Keys -> Reasons \union {None}]
            /\ pending' \in Nat
        BY <3>5, <4>1 DEF AddReason, TypeOK
      <4>3. CASE pending + 1 >= FlushEvery
        BY <3>5, <4>2, <4>3 DEF AddReason, Goto, TypeOK, PCs
      <4>4. CASE ~(pending + 1 >= FlushEvery)
        BY <3>2, <3>5, <4>2, <4>4 DEF AddReason, TypeOK
      <4> QED
        BY <4>3, <4>4
    <3>7. CASE Snapshot(t)
      <4>1. buffer' \in [Threads -> Contents]
        BY <3>7, DocumentsAreContents DEF Snapshot, TypeOK
      <4> QED
        BY <3>7, <4>1 DEF Snapshot, Goto, TypeOK, PCs
    <3>8. CASE SnapshotRaises(t)
      BY <3>2, <3>8 DEF SnapshotRaises, TypeOK
    <3>9. CASE Put(t)
      BY <3>9 DEF Put, Goto, TypeOK, PCs
    <3>10. CASE PutRaises(t)
      BY <3>2, <3>10 DEF PutRaises, Raise, TypeOK
    <3>11. CASE Truncate(t)
      BY <3>11, ConstantContents DEF Truncate, Goto, TypeOK, PCs
    <3>12. CASE OpenRaises(t)
      BY <3>2, <3>12 DEF OpenRaises, Raise, TypeOK
    <3>13. CASE Rewrite(t)
      BY <3>13, ConstantContents DEF Rewrite, Goto, TypeOK, PCs
    <3>14. CASE RewriteRaises(t)
      BY <3>2, <3>14, ConstantContents DEF RewriteRaises, Raise, TypeOK
    <3>15. CASE Return(t)
      <4>1. \A k \in Keys : ReasonOf(k) \in Reasons
        BY DEF ReasonOf, TypeOK, Reasons
      <4>2. /\ acked' \in [Keys -> Reasons \union {None}]
            /\ pending' \in Nat /\ raised' \in BOOLEAN
        <5>1. CASE Locked(t)
          <6>1. acked' = [k \in Keys |->
                            IF k \in entries THEN ReasonOf(k) ELSE acked[k]]
            BY <3>15, <5>1 DEF Return
          <6>2. \A k \in Keys : acked[k] \in Reasons \union {None}
            BY DEF TypeOK
          <6>3. acked' \in [Keys -> Reasons \union {None}]
            BY <4>1, <6>1, <6>2
          <6>4. pending' = 0 /\ raised' = FALSE
            BY <3>15, <5>1 DEF Return
          <6> QED
            BY <6>3, <6>4
        <5>2. CASE ~Locked(t)
          BY <3>15, <5>2 DEF Return, TypeOK
        <5> QED
          BY <5>1, <5>2
      <4> QED
        BY <3>2, <3>15, <4>2 DEF Return, TypeOK
    <3>16. CASE LoadRead(t)
      BY <3>16, ConstantContents DEF LoadRead, Goto, TypeOK, PCs
    <3>17. CASE LoadRaises(t)
      BY <3>2, <3>17 DEF LoadRaises, TypeOK
    <3>18. CASE LoadBind(t)
      BY <3>18 DEF LoadBind, Goto, TypeOK, PCs, Contents
    <3>19. CASE LoadFill(t)
      <4>1. reasons' \in [Keys -> Reasons \union {None}]
        <5>1. PICK es \in SUBSET entries :
                     reasons' = LoadedReasons(buffer[t], es)
          BY <3>19 DEF LoadFill
        <5>2. es \in SUBSET Keys /\ buffer[t] \in Contents
          BY <5>1 DEF TypeOK
        <5> QED
          BY <5>1, <5>2, LoadedReasonsTypes
      <4> QED
        BY <3>2, <3>19, <4>1 DEF LoadFill, TypeOK
    <3> QED
      BY <2>4, <3>1, <3>3, <3>4, <3>5, <3>7, <3>8, <3>9, <3>10, <3>11,
         <3>12, <3>13, <3>14, <3>15, <3>16, <3>17, <3>18, <3>19 DEF Step
  <2>5. CASE UNCHANGED vars
    BY <2>5 DEF vars, TypeOK
  <2> QED
    BY <2>1, <2>2, <2>3, <2>4, <2>5 DEF Next
<1> QED
  BY <1>1, <1>2, PTL DEF Spec

-----------------------------------------------------------------------------
(* The use the registry is made for: an S3 file, add() and flush() only.      *)

Guarded == Storage = "s3" /\ DirectCalls = {}

\* The lock is held by the one thread that is past it, and every call in
\* progress is one of those that take it.
LockInv ==
    \A t \in Threads :
      /\ pc[t] \in {"idle", "lock", "check", "reason", "snapshot", "write",
                    "saved"}
      /\ pc[t] # "idle" => up /\ Locked(t)
      /\ owner = t <=> pc[t] \notin {"idle", "lock"}

GuardedStep(t) ==
    \/ CallAdd(t) \/ CallFlush(t) \/ Acquire(t) \/ AddPresent(t) \/ AddEntry(t)
    \/ AddReason(t) \/ Snapshot(t) \/ Put(t) \/ PutRaises(t) \/ Return(t)

\* Under Guarded the other actions of Next cannot happen.
LEMMA GuardedNext ==
    ASSUME Guarded, LockInv, Next
    PROVE  Construct \/ Crash \/ \E t \in Threads : GuardedStep(t)
<1>1. SUFFICES ASSUME NEW t \in Threads, CallNext(t) \/ Step(t)
               PROVE  GuardedStep(t)
  BY DEF Next
<1>2. pc[t] \notin {"read", "bind", "fill", "rewrite"}
  BY DEF LockInv
<1>3. ~Truncate(t) /\ ~OpenRaises(t)
  BY DEF Guarded, Truncate, OpenRaises
<1>4. ~SnapshotRaises(t)
  BY DEF LockInv, SnapshotRaises
<1>5. ~CallSave(t) /\ ~CallLoad(t)
  BY DEF Guarded, CallSave, CallLoad
<1>6. ~Rewrite(t) /\ ~RewriteRaises(t)
  BY <1>2 DEF Rewrite, RewriteRaises
<1>7. ~LoadRead(t) /\ ~LoadRaises(t) /\ ~LoadBind(t) /\ ~LoadFill(t)
  BY <1>2 DEF LoadRead, LoadRaises, LoadBind, LoadFill
<1> QED
  BY <1>1, <1>3, <1>4, <1>5, <1>6, <1>7 DEF CallNext, Step, GuardedStep

LEMMA LockingStep ==
    ASSUME Guarded, TypeOK, LockInv, [Next]_vars
    PROVE  LockInv'
<1>1. CASE Construct
  BY <1>1 DEF Construct, LockInv, Locked
<1>2. CASE Crash
  BY <1>2 DEF Crash, LockInv
<1>3. ASSUME NEW t \in Threads, GuardedStep(t) PROVE LockInv'
  <2>1. CASE CallAdd(t)
    BY <2>1 DEF CallAdd, Goto, Request, LockInv, Locked, TypeOK
  <2>2. CASE CallFlush(t)
    BY <2>2 DEF CallFlush, Goto, Request, LockInv, Locked, TypeOK
  <2>3. CASE Acquire(t)
    BY <2>3 DEF Acquire, Goto, LockInv, Locked, TypeOK
  <2>4. CASE End(t) /\ UNCHANGED up /\ pc[t] \notin {"idle", "lock"}
    BY <2>4 DEF End, Goto, LockInv, Locked, TypeOK
  <2>5. CASE AddPresent(t)
    BY <2>4, <2>5 DEF AddPresent
  <2>6. CASE AddEntry(t)
    BY <2>6 DEF AddEntry, Goto, LockInv, Locked, TypeOK
  <2>7. CASE AddReason(t)
    <3>1. CASE pending + 1 >= FlushEvery
      BY <2>7, <3>1 DEF AddReason, Goto, LockInv, Locked, TypeOK
    <3>2. CASE ~(pending + 1 >= FlushEvery)
      BY <2>4, <2>7, <3>2 DEF AddReason
    <3> QED
      BY <3>1, <3>2
  <2>8. CASE Snapshot(t)
    BY <2>8 DEF Snapshot, Guarded, Goto, LockInv, Locked, TypeOK
  <2>9. CASE Put(t)
    BY <2>9 DEF Put, Goto, LockInv, Locked, TypeOK
  <2>10. CASE PutRaises(t)
    BY <2>4, <2>10 DEF PutRaises, Raise
  <2>11. CASE Return(t)
    BY <2>4, <2>11 DEF Return
  <2> QED
    BY <1>3, <2>1, <2>2, <2>3, <2>5, <2>6, <2>7, <2>8, <2>9, <2>10, <2>11
       DEF GuardedStep
<1>4. CASE UNCHANGED vars
  BY <1>4 DEF vars, LockInv, Locked
<1> QED
  BY <1>1, <1>2, <1>3, <1>4, GuardedNext

THEOREM Locking == ASSUME Guarded PROVE Spec => []LockInv
<1>1. Init => LockInv
  BY DEF Init, LockInv
<1>2. TypeOK /\ LockInv /\ [Next]_vars => LockInv'
  BY LockingStep
<1> QED
  BY <1>1, <1>2, Typing, PTL DEF Spec

-----------------------------------------------------------------------------
(* What is in memory, in a thread's document and in the file.                 *)

\* The file never has an entry the process does not know; the document being
\* written is the one of now; a key is recorded before its reason is; what was
\* acknowledged is in the file.
SaveInv ==
    /\ up => file.entries \subseteq entries
    /\ \A k \in Keys : acked[k] # None => k \in file.entries
    /\ \A k \in Keys : reasons[k] # None => k \in entries
    /\ \A t \in Threads :
         /\ pc[t] = "write" => buffer[t].entries = entries
         /\ pc[t] = "saved" => file.entries = entries
         /\ pc[t] = "reason" => /\ reasons[call[t].key] = None
                                /\ call[t].key \in entries \ file.entries

LEMMA SavingStep ==
    ASSUME Guarded, TypeOK, LockInv, SaveInv, [Next]_vars
    PROVE  SaveInv'
<1>1. CASE Construct
  <2>1. entries' = file.entries
    BY <1>1 DEF Construct, Guarded
  <2>2. reasons' = LoadedReasons(file, file.entries)
    BY <1>1 DEF Construct, Guarded
  <2>3. \A k \in Keys : reasons'[k] # None => k \in entries'
    BY <2>1, <2>2 DEF LoadedReasons
  <2>4. \A t \in Threads : pc[t] = "idle"
    BY <1>1 DEF Construct, LockInv
  <2> QED
    BY <1>1, <2>1, <2>3, <2>4 DEF Construct, SaveInv
<1>2. CASE Crash
  BY <1>2 DEF Crash, SaveInv
<1>3. ASSUME NEW t \in Threads, GuardedStep(t) PROVE SaveInv'
  \* Only the thread that holds the lock is past it.
  <2>1. \A u \in Threads : pc[t] \notin {"idle", "lock"} /\ u # t
                           => pc[u] \in {"idle", "lock"}
    BY DEF LockInv
  <2>2. \A u \in Threads : pc[u] # "idle" => up
    BY DEF LockInv
  <2>3. CASE CallAdd(t)
    BY <2>3 DEF CallAdd, Goto, SaveInv, TypeOK
  <2>4. CASE CallFlush(t)
    BY <2>4 DEF CallFlush, Goto, SaveInv, TypeOK
  <2>5. CASE Acquire(t)
    BY <2>5 DEF Acquire, Goto, SaveInv, TypeOK
  <2>6. CASE AddPresent(t)
    BY <2>1, <2>6 DEF AddPresent, End, Goto, SaveInv, TypeOK
  <2>7. CASE AddEntry(t)
    <3>1. /\ entries' = entries \union {call[t].key}
          /\ call[t].key \notin entries
          /\ UNCHANGED <<up, file, reasons, call, buffer, acked>>
          /\ pc' = [pc EXCEPT ![t] = "reason"]
          /\ pc[t] = "check"
      BY <2>7 DEF AddEntry, Goto
    <3>2. call[t].key \in Keys
      BY <3>1 DEF TypeOK, Calls
    <3>3. reasons[call[t].key] = None /\ call[t].key \notin file.entries
      BY <2>2, <3>1, <3>2 DEF SaveInv
    <3> QED
      BY <2>1, <3>1, <3>3 DEF SaveInv, TypeOK
  <2>8. CASE AddReason(t)
    <3>1. /\ reasons' = [reasons EXCEPT ![call[t].key] = call[t].type]
          /\ UNCHANGED <<up, file, entries, acked>>
          /\ pc' \in {[pc EXCEPT ![t] = "snapshot"], [pc EXCEPT ![t] = "idle"]}
          /\ pc[t] = "reason"
      BY <2>8 DEF AddReason, End, Goto
    <3>2. \A u \in Threads : pc'[u] \notin {"write", "saved", "reason"}
      BY <2>1, <3>1 DEF TypeOK
    <3>3. call[t].key \in entries
      BY <3>1 DEF SaveInv
    <3> QED
      BY <3>1, <3>2, <3>3 DEF SaveInv, TypeOK
  <2>9. CASE Snapshot(t)
    <3>1. /\ buffer'[t].entries = entries
          /\ \A u \in Threads \ {t} : buffer'[u] = buffer[u]
      BY <2>9, DocumentsAreContents DEF Snapshot, Guarded, TypeOK
    <3> QED
      BY <2>9, <3>1 DEF Snapshot, Guarded, Goto, SaveInv, TypeOK
  <2>10. CASE Put(t)
    <3>1. /\ file' = buffer[t]
          /\ UNCHANGED <<up, entries, reasons, acked, call, buffer>>
          /\ pc' = [pc EXCEPT ![t] = "saved"]
          /\ pc[t] = "write"
      BY <2>10 DEF Put, Goto
    <3>2. \A u \in Threads : pc'[u] \notin {"write", "reason"}
      BY <2>1, <3>1 DEF TypeOK
    <3>3. file'.entries = entries
      BY <3>1 DEF SaveInv
    <3> QED
      BY <2>2, <3>1, <3>2, <3>3 DEF SaveInv
  <2>11. CASE PutRaises(t)
    <3>1. /\ file' \in {file, buffer[t]}
          /\ UNCHANGED <<up, entries, reasons, acked>>
          /\ pc' = [pc EXCEPT ![t] = "idle"]
          /\ pc[t] = "write"
      BY <2>11 DEF PutRaises, Raise, End, Goto
    <3>2. \A u \in Threads : pc'[u] \notin {"write", "saved", "reason"}
      BY <2>1, <3>1 DEF TypeOK
    <3> QED
      BY <2>2, <3>1, <3>2 DEF SaveInv
  <2>12. CASE Return(t)
    <3>1. /\ UNCHANGED <<up, file, entries, reasons>>
          /\ pc' = [pc EXCEPT ![t] = "idle"]
          /\ pc[t] = "saved"
      BY <2>12 DEF Return, End, Goto
    <3>2. \A u \in Threads : pc'[u] \notin {"write", "saved", "reason"}
      BY <2>1, <3>1 DEF TypeOK
    <3>3. \A k \in Keys : acked'[k] # None => k \in entries \/ acked[k] # None
      BY <2>12 DEF Return
    <3>4. \A k \in Keys : acked'[k] # None => k \in file.entries
      BY <3>1, <3>3 DEF SaveInv
    <3> QED
      BY <3>1, <3>2, <3>4 DEF SaveInv
  <2> QED
    BY <1>3, <2>3, <2>4, <2>5, <2>6, <2>7, <2>8, <2>9, <2>10, <2>11, <2>12
       DEF GuardedStep
<1>4. CASE UNCHANGED vars
  BY <1>4 DEF vars, SaveInv
<1> QED
  BY <1>1, <1>2, <1>3, <1>4, GuardedNext

THEOREM Saving == ASSUME Guarded PROVE Spec => [](TypeOK /\ LockInv /\ SaveInv)
<1>1. Init => SaveInv
  BY DEF Init, SaveInv, Missing, Torn, NotDict, Content
<1>2. TypeOK /\ LockInv /\ SaveInv /\ [Next]_vars => SaveInv'
  BY SavingStep
<1> QED
  BY <1>1, <1>2, Typing, Locking, PTL DEF Spec

\* A key some flush() returned for is known to the registry of every later
\* process: no interleaving, failing save, crash or restart loses it.
THEOREM AckedStaysKnown == ASSUME Guarded PROVE Spec => []AckedKnown
<1>1. SaveInv => AckedKnown
  BY DEF SaveInv, AckedKnown
<1> QED
  BY <1>1, Saving, PTL

\* Threads racing to add one key with different failure types: the reason
\* recorded first is never replaced while the process lives.
THEOREM FirstReasonStays == ASSUME Guarded PROVE Spec => FirstReasonKept
<1> DEFINE Kept == \A k \in Keys : up /\ up' /\ reasons[k] # None
                                  => reasons'[k] = reasons[k]
<1>1. TypeOK /\ LockInv /\ SaveInv /\ [Next]_vars => [Kept]_vars
  <2> SUFFICES ASSUME TypeOK, LockInv, SaveInv, Next PROVE Kept
    OBVIOUS
  <2>1. CASE Construct \/ Crash
    BY <2>1 DEF Construct, Crash
  <2>2. ASSUME NEW t \in Threads, GuardedStep(t) PROVE Kept
    <3>1. CASE AddReason(t)
      BY <3>1 DEF AddReason, SaveInv, TypeOK
    <3>2. CASE ~AddReason(t)
      BY <2>2, <3>2
         DEF GuardedStep, CallAdd, CallFlush, Acquire, AddPresent, AddEntry,
             Snapshot, Put, PutRaises, Raise, Return
    <3> QED
      BY <3>1, <3>2
  <2> QED
    BY <2>1, <2>2, GuardedNext
<1> QED
  BY <1>1, Saving, PTL DEF Spec, FirstReasonKept

-----------------------------------------------------------------------------
(* What a crash can lose.                                                     *)

Adding == \E t \in Threads : pc[t] = "reason"
Flushing == \E t \in Threads : pc[t] \in {"snapshot", "write", "saved"}

\* The counter covers what is not in the file, and reaches flush_every only
\* while the flush it calls for runs, unless a save raised.
CountInv ==
    /\ IsFiniteSet(entries) /\ IsFiniteSet(file.entries)
    /\ up => Cardinality(Unsaved) <= pending + (IF Adding THEN 1 ELSE 0)
    /\ up /\ ~raised => /\ pending <= FlushEvery
                        /\ pending = FlushEvery => Flushing

LEMMA CountingStep ==
    ASSUME Guarded, TypeOK, LockInv, SaveInv, CountInv, [Next]_vars
    PROVE  CountInv'
<1>0. /\ IsFiniteSet(Unsaved)
      /\ Cardinality(Unsaved) \in Nat
      /\ Cardinality({}) = 0 /\ IsFiniteSet({})
      /\ FlushEvery \in Nat \ {0} /\ pending \in Nat
  <2>1. IsFiniteSet(Unsaved)
    BY FS_Difference DEF CountInv, Unsaved
  <2> QED
    BY <2>1, FS_CardinalityType, FS_EmptySet DEF TypeOK
<1>1. CASE Construct
  <2>1. entries' = file.entries /\ UNCHANGED file /\ pending' = 0
    BY <1>1 DEF Construct, Guarded
  <2>2. Unsaved' = {}
    BY <2>1 DEF Unsaved
  <2>3. 0 <= pending' + (IF Adding' THEN 1 ELSE 0) /\ pending' < FlushEvery
    BY <1>0, <2>1
  <2>4. Cardinality(Unsaved') = 0
    BY <1>0, <2>2
  <2>5. IsFiniteSet(entries') /\ IsFiniteSet(file'.entries)
    BY <2>1 DEF CountInv
  <2> QED
    BY <1>0, <2>1, <2>3, <2>4, <2>5 DEF CountInv
<1>2. CASE Crash
  BY <1>0, <1>2 DEF Crash, CountInv
<1>3. ASSUME NEW t \in Threads, GuardedStep(t) PROVE CountInv'
  <2>1. \A u \in Threads : pc[t] \notin {"idle", "lock"} /\ u # t
                           => pc[u] \in {"idle", "lock"}
    BY DEF LockInv
  <2>2. up /\ up'
    BY <1>3 DEF GuardedStep, CallAdd, CallFlush, Acquire, AddPresent, AddEntry,
                AddReason, Snapshot, Put, PutRaises, Raise, Return, LockInv
  \* Steps that touch none of the sets and leave Adding and Flushing alone.
  <2>3. CASE /\ UNCHANGED <<entries, file, pending, raised>>
             /\ (Adding' <=> Adding) /\ (Flushing => Flushing')
    BY <2>2, <2>3 DEF CountInv, Unsaved
  <2>4. CASE CallAdd(t) \/ CallFlush(t)
    BY <2>3, <2>4
       DEF CallAdd, CallFlush, Goto, Adding, Flushing, TypeOK
  <2>5. CASE Acquire(t)
    <3>1. \A u \in Threads : pc[u] \in {"idle", "lock"}
      BY <2>5 DEF Acquire, LockInv, TypeOK
    <3>2. ~Adding /\ ~Adding' /\ ~Flushing
      BY <2>5, <3>1 DEF Acquire, Goto, Adding, Flushing, TypeOK
    <3> QED
      BY <2>3, <2>5, <3>2 DEF Acquire
  <2>6. CASE AddPresent(t)
    BY <2>1, <2>3, <2>6 DEF AddPresent, End, Goto, Adding, Flushing, TypeOK
  <2>7. CASE AddEntry(t)
    <3>1. /\ entries' = entries \union {call[t].key}
          /\ call[t].key \notin entries
          /\ UNCHANGED <<file, pending, raised>>
          /\ pc' = [pc EXCEPT ![t] = "reason"]
          /\ pc[t] = "check"
      BY <2>7 DEF AddEntry, Goto
    <3>2. ~Adding /\ Adding' /\ ~Flushing
      BY <2>1, <3>1 DEF Adding, Flushing, TypeOK
    <3>3. /\ Unsaved' = Unsaved \union {call[t].key}
          /\ call[t].key \notin Unsaved
      BY <2>2, <3>1 DEF Unsaved, SaveInv
    <3>4. Cardinality(Unsaved') = Cardinality(Unsaved) + 1
      BY <1>0, <3>3, FS_AddElement
    <3>5. IsFiniteSet(entries')
      BY <3>1, FS_AddElement DEF CountInv
    <3> QED
      BY <1>0, <2>2, <3>1, <3>2, <3>4, <3>5 DEF CountInv
  <2>8. CASE AddReason(t)
    <3>1. /\ pending' = pending + 1
          /\ UNCHANGED <<file, entries, raised>>
          /\ pc[t] = "reason"
          /\ IF pending + 1 >= FlushEvery
             THEN pc' = [pc EXCEPT ![t] = "snapshot"]
             ELSE pc' = [pc EXCEPT ![t] = "idle"]
      BY <2>8 DEF AddReason, End, Goto
    <3>2. Adding /\ ~Adding' /\ ~Flushing
      BY <2>1, <3>1 DEF Adding, Flushing, TypeOK
    <3>3. pending + 1 >= FlushEvery => Flushing'
      BY <3>1 DEF Flushing, TypeOK
    <3>4. Unsaved' = Unsaved
      BY <3>1 DEF Unsaved
    <3> QED
      BY <1>0, <2>2, <3>1, <3>2, <3>3, <3>4 DEF CountInv
  <2>9. CASE Snapshot(t)
    <3>1. (Adding' <=> Adding) /\ Flushing'
      BY <2>9 DEF Snapshot, Guarded, Goto, Adding, Flushing, TypeOK
    <3> QED
      BY <2>3, <2>9, <3>1 DEF Snapshot
  <2>10. CASE Put(t)
    <3>1. /\ file' = buffer[t] /\ buffer[t].entries = entries
          /\ UNCHANGED <<entries, pending, raised>>
      BY <2>10 DEF Put, SaveInv
    <3>2. Flushing'
      BY <2>10 DEF Put, Goto, Flushing, TypeOK
    <3>3. Unsaved' = {}
      BY <3>1 DEF Unsaved
    <3>4. 0 <= pending' + (IF Adding' THEN 1 ELSE 0)
      BY <1>0, <3>1
    <3> QED
      BY <1>0, <2>2, <3>1, <3>2, <3>3, <3>4 DEF CountInv
  <2>11. CASE PutRaises(t)
    <3>1. /\ file' \in {file, buffer[t]} /\ buffer[t].entries = entries
          /\ UNCHANGED <<entries, pending>> /\ raised' = TRUE
      BY <2>11 DEF PutRaises, Raise, SaveInv
    <3>2. ~Adding
      BY <2>1, <2>11 DEF PutRaises, Adding
    <3>3. Unsaved' = Unsaved \/ Unsaved' = {}
      BY <3>1 DEF Unsaved
    <3>4. Cardinality(Unsaved) <= pending
      BY <1>0, <2>2, <3>2 DEF CountInv
    <3>5. Cardinality(Unsaved') <= pending' + (IF Adding' THEN 1 ELSE 0)
      <4>1. Cardinality(Unsaved') <= pending'
        BY <1>0, <3>1, <3>3, <3>4
      <4>2. Cardinality(Unsaved') \in Nat /\ pending' \in Nat
        BY <1>0, <3>1, <3>3
      <4> QED
        BY <4>1, <4>2
    <3>6. IsFiniteSet(entries') /\ IsFiniteSet(file'.entries)
      BY <3>1 DEF CountInv
    <3> QED
      BY <3>1, <3>5, <3>6 DEF CountInv
  <2>12. CASE Return(t)
    <3>1. /\ pending' = 0 /\ UNCHANGED <<file, entries>>
          /\ file.entries = entries
      BY <2>12 DEF Return, SaveInv, LockInv
    <3>2. Unsaved' = {}
      BY <3>1 DEF Unsaved
    <3>3. 0 <= pending' + (IF Adding' THEN 1 ELSE 0) /\ pending' < FlushEvery
      BY <1>0, <3>1
    <3>4. Cardinality(Unsaved') = 0
      BY <1>0, <3>2
    <3>5. IsFiniteSet(entries') /\ IsFiniteSet(file'.entries)
      BY <3>1 DEF CountInv
    <3> QED
      BY <1>0, <3>1, <3>3, <3>4, <3>5 DEF CountInv
  <2> QED
    BY <1>3, <2>4, <2>5, <2>6, <2>7, <2>8, <2>9, <2>10, <2>11, <2>12
       DEF GuardedStep
<1>4. CASE UNCHANGED vars
  BY <1>4 DEF vars, CountInv, Unsaved, Adding, Flushing
<1> QED
  BY <1>1, <1>2, <1>3, <1>4, GuardedNext

THEOREM Counting ==
    ASSUME Guarded
    PROVE  Spec => [](TypeOK /\ LockInv /\ SaveInv /\ CountInv)
<1>1. Init => CountInv
  <2> SUFFICES ASSUME Init PROVE CountInv
    OBVIOUS
  <2>1. entries = {} /\ file.entries = {} /\ ~up
    <3>1. Missing.entries = {} /\ Torn.entries = {} /\ NotDict.entries = {}
      BY DEF Missing, Torn, NotDict, Content
    <3> QED
      BY <3>1 DEF Init
  <2> QED
    BY <2>1, FS_EmptySet DEF CountInv
<1>2. TypeOK /\ LockInv /\ SaveInv /\ CountInv /\ [Next]_vars => CountInv'
  BY CountingStep
<1> QED
  BY <1>1, <1>2, Saving, PTL DEF Spec

\* At every moment, also between the two halves of an add() and after saves
\* that raised, the failures missing from the file are counted.
THEOREM CounterCovers == ASSUME Guarded PROVE Spec => []CounterCoversLoss
<1>1. CountInv => CounterCoversLoss
  BY DEF CountInv, CounterCoversLoss, Adding
<1> QED
  BY <1>1, Counting, PTL

\* Unless saves raise, a crash loses at most flush_every failures.
THEOREM LossIsBounded == ASSUME Guarded PROVE Spec => []LossBounded
<1>1. TypeOK /\ LockInv /\ CountInv => LossBounded
  <2> SUFFICES ASSUME TypeOK, LockInv, CountInv, up, ~raised
               PROVE  Cardinality(Unsaved) <= FlushEvery
    BY DEF LossBounded
  <2>1. Cardinality(Unsaved) \in Nat
    BY FS_Difference, FS_CardinalityType DEF CountInv, Unsaved
  <2>2. ~(Adding /\ Flushing)
    BY DEF Adding, Flushing, LockInv
  <2> QED
    BY <2>1, <2>2 DEF CountInv, TypeOK
<1> QED
  BY <1>1, Counting, PTL

\* Between calls no flush that is due is missing, however the threads that
\* counted up to it interleaved.
THEOREM FlushIsNotSkipped == ASSUME Guarded PROVE Spec => []FlushNotSkipped
<1>1. TypeOK /\ LockInv /\ CountInv => FlushNotSkipped
  <2> SUFFICES ASSUME TypeOK, LockInv, CountInv, up, ~raised, owner = None
               PROVE  pending < FlushEvery
    BY DEF FlushNotSkipped
  <2>1. ~Flushing
    BY DEF Flushing, LockInv
  <2> QED
    BY <2>1 DEF CountInv, TypeOK
<1> QED
  BY <1>1, Counting, PTL

-----------------------------------------------------------------------------
(* The reasons, for keys that join to different texts.                        *)

JoinInjective == \A k, l \in Keys : Join[k] = Join[l] => k = l

\* A document has each entry's reason of now, and what was acknowledged is the
\* reason in the file and, while a process lives, in its memory.
ReasonInv ==
    /\ \A t \in Threads : pc[t] = "write" =>
         \A k \in entries : buffer[t].reasons[Join[k]] = ReasonOf(k)
    /\ \A t \in Threads : pc[t] = "saved" =>
         \A k \in entries : file.reasons[Join[k]] = ReasonOf(k)
    /\ \A k \in Keys : acked[k] # None =>
         /\ file.reasons[Join[k]] = acked[k]
         /\ up => ReasonOf(k) = acked[k]

LEMMA DocumentReasons ==
    ASSUME JoinInjective, TypeOK, NEW d \in Documents, NEW k \in entries
    PROVE  d.reasons[Join[k]] = ReasonOf(k)
<1>1. PICK r \in [JoinedKeys -> Reasons \union {None}] :
           /\ d = Content("dict", entries, r)
           /\ \A j \in JoinedKeys :
                LET joined == {l \in entries : Join[l] = j}
                IN  IF joined = {} THEN r[j] = None
                                   ELSE \E l \in joined : r[j] = ReasonOf(l)
  BY DEF Documents
<1>2. k \in Keys /\ entries \subseteq Keys /\ Join[k] \in JoinedKeys
  BY DEF TypeOK
<1>3. {l \in entries : Join[l] = Join[k]} = {k}
  BY <1>2 DEF JoinInjective
<1>4. r[Join[k]] = ReasonOf(k)
  BY <1>1, <1>2, <1>3
<1> QED
  BY <1>1, <1>4 DEF Content

LEMMA ReasonStep ==
    ASSUME Guarded, JoinInjective, TypeOK, LockInv, SaveInv, ReasonInv,
           [Next]_vars
    PROVE  ReasonInv'
<1>1. CASE Construct
  <2>1. reasons' = LoadedReasons(file, file.entries)
    BY <1>1 DEF Construct, Guarded
  <2>2. ASSUME NEW k \in Keys, acked[k] # None
        PROVE  ReasonOf(k)' = acked[k]
    <3>1. k \in file.entries /\ file.reasons[Join[k]] = acked[k]
      BY <2>2 DEF SaveInv, ReasonInv
    <3>2. reasons'[k] = acked[k]
      BY <2>1, <3>1 DEF LoadedReasons
    <3> QED
      BY <2>2, <3>2 DEF ReasonOf
  <2>3. \A t \in Threads : pc[t] = "idle"
    BY <1>1 DEF Construct, LockInv
  <2> QED
    BY <1>1, <2>2, <2>3 DEF Construct, ReasonInv
<1>2. CASE Crash
  BY <1>2 DEF Crash, ReasonInv
<1>3. ASSUME NEW t \in Threads, GuardedStep(t) PROVE ReasonInv'
  <2>1. \A u \in Threads : pc[t] \notin {"idle", "lock"} /\ u # t
                           => pc[u] \in {"idle", "lock"}
    BY DEF LockInv
  <2>2. up /\ up'
    BY <1>3 DEF GuardedStep, CallAdd, CallFlush, Acquire, AddPresent, AddEntry,
                AddReason, Snapshot, Put, PutRaises, Raise, Return, LockInv
  <2>3. CASE /\ UNCHANGED <<reasons, file, acked>>
             /\ \A u \in Threads : pc'[u] \notin {"write", "saved"}
    BY <2>2, <2>3 DEF ReasonInv, ReasonOf
  <2>4. CASE CallAdd(t) \/ CallFlush(t)
    BY <2>4 DEF CallAdd, CallFlush, Goto, ReasonInv, ReasonOf, TypeOK
  <2>5. CASE Acquire(t)
    BY <2>5 DEF Acquire, Goto, ReasonInv, ReasonOf, TypeOK
  <2>6. CASE AddPresent(t)
    BY <2>1, <2>3, <2>6 DEF AddPresent, End, Goto, TypeOK
  <2>7. CASE AddEntry(t)
    BY <2>1, <2>3, <2>7 DEF AddEntry, Goto, TypeOK
  <2>8. CASE AddReason(t)
    <3>1. /\ reasons' = [reasons EXCEPT ![call[t].key] = call[t].type]
          /\ UNCHANGED <<file, acked>>
          /\ pc[t] = "reason"
          /\ pc' \in {[pc EXCEPT ![t] = "snapshot"], [pc EXCEPT ![t] = "idle"]}
      BY <2>8 DEF AddReason, End, Goto
    <3>2. \A u \in Threads : pc'[u] \notin {"write", "saved"}
      BY <2>1, <3>1 DEF TypeOK
    <3>3. \A k \in Keys : acked[k] # None => k # call[t].key
      BY <3>1 DEF SaveInv
    <3>4. \A k \in Keys : acked[k] # None => ReasonOf(k)' = ReasonOf(k)
      BY <3>1, <3>3 DEF ReasonOf, TypeOK
    <3> QED
      BY <2>2, <3>1, <3>2, <3>4 DEF ReasonInv
  <2>9. CASE Snapshot(t)
    <3>1. /\ UNCHANGED <<up, file, entries, reasons, acked>>
          /\ pc' = [pc EXCEPT ![t] = "write"]
          /\ \A u \in Threads \ {t} : buffer'[u] = buffer[u]
      BY <2>9 DEF Snapshot, Guarded, Goto, TypeOK
    <3>2. \A k \in entries : buffer'[t].reasons[Join[k]] = ReasonOf(k)
      BY <2>9, DocumentReasons DEF Snapshot, Guarded, TypeOK
    <3>3. \A k \in Keys : ReasonOf(k)' = ReasonOf(k)
      BY <3>1 DEF ReasonOf
    <3>4. \A u \in Threads \ {t} : pc'[u] = pc[u]
      BY <3>1 DEF TypeOK
    <3>5. \A u \in Threads : pc'[u] # "saved" /\ (pc'[u] = "write" => u = t)
      BY <2>1, <2>9, <3>1, <3>4 DEF Snapshot, Guarded, TypeOK
    <3>6. entries \subseteq Keys
      BY DEF TypeOK
    <3> QED
      BY <3>1, <3>2, <3>3, <3>5, <3>6 DEF ReasonInv
  <2>10. ASSUME NEW c, c = buffer[t], pc[t] = "write"
         PROVE  /\ \A k \in entries : c.reasons[Join[k]] = ReasonOf(k)
                /\ \A k \in Keys : acked[k] # None =>
                     c.reasons[Join[k]] = acked[k]
    <3>1. \A k \in Keys : acked[k] # None => k \in entries
      BY <2>2 DEF SaveInv
    <3> QED
      BY <2>2, <2>10, <3>1 DEF ReasonInv
  <2>11. CASE Put(t)
    <3>1. /\ file' = buffer[t] /\ pc[t] = "write"
          /\ UNCHANGED <<up, entries, reasons, acked>>
          /\ pc' = [pc EXCEPT ![t] = "saved"]
      BY <2>11 DEF Put, Goto
    <3>2. \A u \in Threads : pc'[u] # "write"
      BY <2>1, <3>1 DEF TypeOK
    <3>3. \A k \in Keys : ReasonOf(k)' = ReasonOf(k)
      BY <3>1 DEF ReasonOf
    <3>4. entries \subseteq Keys
      BY DEF TypeOK
    <3> QED
      BY <2>10, <3>1, <3>2, <3>3, <3>4 DEF ReasonInv
  <2>12. CASE PutRaises(t)
    <3>1. /\ file' \in {file, buffer[t]} /\ pc[t] = "write"
          /\ UNCHANGED <<up, entries, reasons, acked>>
          /\ pc' = [pc EXCEPT ![t] = "idle"]
      BY <2>12 DEF PutRaises, Raise, End, Goto
    <3>2. \A u \in Threads : pc'[u] \notin {"write", "saved"}
      BY <2>1, <3>1 DEF TypeOK
    <3>3. \A k \in Keys : ReasonOf(k)' = ReasonOf(k)
      BY <3>1 DEF ReasonOf
    <3>4. \A k \in Keys : acked[k] # None => file'.reasons[Join[k]] = acked[k]
      BY <2>10, <3>1 DEF ReasonInv
    <3> QED
      BY <3>1, <3>2, <3>3, <3>4 DEF ReasonInv
  <2>13. CASE Return(t)
    <3>1. /\ UNCHANGED <<up, file, entries, reasons>> /\ pc[t] = "saved"
          /\ pc' = [pc EXCEPT ![t] = "idle"]
          /\ acked' = [k \in Keys |->
                         IF k \in entries THEN ReasonOf(k) ELSE acked[k]]
      BY <2>13 DEF Return, End, Goto, LockInv
    <3>2. \A u \in Threads : pc'[u] \notin {"write", "saved"}
      BY <2>1, <3>1 DEF TypeOK
    <3>3. \A k \in Keys : ReasonOf(k)' = ReasonOf(k)
      BY <3>1 DEF ReasonOf
    <3>4. \A k \in Keys : acked'[k] # None =>
            file.reasons[Join[k]] = acked'[k] /\ ReasonOf(k) = acked'[k]
      BY <2>2, <3>1 DEF ReasonInv
    <3> QED
      BY <3>1, <3>2, <3>3, <3>4 DEF ReasonInv
  <2> QED
    BY <1>3, <2>4, <2>5, <2>6, <2>7, <2>8, <2>9, <2>11, <2>12, <2>13
       DEF GuardedStep
<1>4. CASE UNCHANGED vars
  BY <1>4 DEF vars, ReasonInv, ReasonOf
<1> QED
  BY <1>1, <1>2, <1>3, <1>4, GuardedNext

\* What was flushed with a reason is in the file with that reason for ever,
\* when no two keys join to one text.
THEOREM AckedReasonsStay ==
    ASSUME Guarded, JoinInjective PROVE Spec => []AckedReasonsDurable
<1>1. Init => ReasonInv
  BY DEF Init, ReasonInv
<1>2. TypeOK /\ LockInv /\ SaveInv /\ ReasonInv /\ [Next]_vars => ReasonInv'
  BY ReasonStep
<1>3. ReasonInv => AckedReasonsDurable
  BY DEF ReasonInv, AckedReasonsDurable
<1> QED
  BY <1>1, <1>2, <1>3, Saving, PTL DEF Spec

-----------------------------------------------------------------------------
(* The registry implements the ledger.                                        *)

\* Every step of the registry is a step of FailureLedger or leaves it alone:
\* constructing opens, entries.add records, a put that takes effect persists,
\* the end of the process loses what was not persisted.
THEOREM Implementation == ASSUME Guarded PROVE Spec => ImplementsLedger
<1>1. Init => Ledger!Init
  <2>1. Missing.entries = {} /\ Torn.entries = {} /\ NotDict.entries = {}
    BY DEF Missing, Torn, NotDict, Content
  <2> QED
    BY <2>1 DEF Init, Ledger!Init
<1>2. TypeOK /\ LockInv /\ SaveInv /\ [Next]_vars
        => [Ledger!Next]_(Ledger!ledger)
  <2> SUFFICES ASSUME TypeOK, LockInv, SaveInv, [Next]_vars
               PROVE  Ledger!Next \/ UNCHANGED Ledger!ledger
    OBVIOUS
  <2>1. CASE Construct
    BY <2>1 DEF Construct, Guarded, Ledger!Next, Ledger!Open
  <2>2. CASE Crash
    BY <2>2 DEF Crash, Ledger!Next, Ledger!Lose
  <2>3. ASSUME NEW t \in Threads, GuardedStep(t)
        PROVE  Ledger!Next \/ UNCHANGED Ledger!ledger
    <3>1. CASE AddEntry(t)
      <4>1. /\ entries' = entries \union {call[t].key}
            /\ call[t].key \in Keys \ entries
            /\ up /\ UNCHANGED <<up, file>>
        BY <3>1 DEF AddEntry, LockInv, TypeOK, Calls
      <4> QED
        BY <4>1 DEF Ledger!Next, Ledger!Record
    <3>2. CASE Put(t) \/ PutRaises(t)
      <4>1. /\ up /\ UNCHANGED <<up, entries>>
            /\ file' = file \/ file'.entries = entries
        BY <3>2 DEF Put, PutRaises, Raise, LockInv, SaveInv
      <4> QED
        BY <4>1 DEF Ledger!Next, Ledger!Persist, Ledger!ledger
    <3>3. CASE ~AddEntry(t) /\ ~Put(t) /\ ~PutRaises(t)
      <4>1. UNCHANGED <<up, file, entries>>
        BY <2>3, <3>3
           DEF GuardedStep, CallAdd, CallFlush, Acquire, AddPresent,
               AddReason, Snapshot, Return
      <4> QED
        BY <4>1 DEF Ledger!ledger
    <3> QED
      BY <3>1, <3>2, <3>3
  <2>4. CASE UNCHANGED vars
    BY <2>4 DEF vars, Ledger!ledger
  <2> QED
    BY <2>1, <2>2, <2>3, <2>4, GuardedNext
<1> QED
  BY <1>1, <1>2, Saving, PTL DEF Spec, ImplementsLedger, Ledger!Spec
=============================================================================
