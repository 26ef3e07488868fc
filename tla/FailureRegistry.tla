--------------------------- MODULE FailureRegistry ---------------------------
(* The FailureRegistry of src/idi_ftm2j_shared/failures.py: the permanent     *)
(* failures of a pipeline, kept in memory by one process, written as a whole  *)
(* to one JSON file after every FlushEvery new ones and read back when the    *)
(* next process constructs its registry.                                      *)
(*                                                                            *)
(* Threads share the registry.  add() and flush() hold its reentrant lock;    *)
(* save() and load() are public and take no lock.  A step of a thread is the  *)
(* code between two points where another thread, or a crash, can intervene.   *)
(* The file is an S3 object (replaced atomically), a local file (truncated,   *)
(* then written) or absent (file_path empty).                                 *)
EXTENDS Integers, FiniteSets

CONSTANTS
    Threads,        \* threads of the pipeline process
    Keys,           \* failure keys: pairs of strings
    JoinedKeys,     \* the texts " ".join(key) can yield
    Join,           \* Join[k] is " ".join(k)
    FailureTypes,   \* what the classifier can return
    DoNotRetry,     \* FailureClassifier.do_not_retry
    FlushEvery,     \* flush_every
    Storage,        \* "s3", "local" or "none": the kind of file_path
    DirectCalls,    \* the lock-free methods that callers use themselves
    EmptyReason,    \* the reason "" written for an entry that has none
    None            \* no thread, key, failure type or reason

ASSUME ConstantsAssumption ==
    /\ Join \in [Keys -> JoinedKeys]
    /\ DoNotRetry \subseteq FailureTypes
    /\ FlushEvery \in Nat \ {0}
    /\ Storage \in {"s3", "local", "none"}
    /\ DirectCalls \subseteq {"save", "load"}
    /\ None \notin Threads \union Keys \union FailureTypes \union {EmptyReason}
    /\ EmptyReason \notin FailureTypes

VARIABLES
    up,         \* does a process with a constructed registry exist
    file,       \* what file_path holds
    entries,    \* _entries
    reasons,    \* _reasons, None where the dict has no such key
    pending,    \* _pending
    owner,      \* the thread that holds _lock, or None
    pc,         \* where each thread is
    call,       \* the call each thread is making
    buffer,     \* the thread's file content: to be written, or just read
    acked,      \* history: the reason under which a flush that returned had
                \* each key, None for a key no flush has returned for
    raised      \* history: has a save raised since the last successful flush

vars == <<up, file, entries, reasons, pending, owner, pc, call, buffer,
          acked, raised>>

Reasons == FailureTypes \union {EmptyReason}

PCs == {"idle", "lock", "check", "reason", "snapshot", "write", "rewrite",
        "saved", "read", "bind", "fill"}

-----------------------------------------------------------------------------
(* File contents.  A missing file, text that is not JSON (any proper prefix   *)
(* of a registry document) and JSON that is not an object hold no entry.      *)

Content(kind, es, rs) == [kind |-> kind, entries |-> es, reasons |-> rs]
NoReasons == [j \in JoinedKeys |-> None]
Missing == Content("missing", {}, NoReasons)
Torn == Content("torn", {}, NoReasons)
NotDict == Content("not a dict", {}, NoReasons)

Contents ==
    [kind : {"missing", "torn", "not a dict", "dict"},
     entries : SUBSET Keys,
     reasons : [JoinedKeys -> Reasons \union {None}]]

\* self._reasons.get(e, "")
ReasonOf(k) == IF reasons[k] = None THEN EmptyReason ELSE reasons[k]

\* Mutant: a save that writes only what the file does not have yet.
DocumentsOfNewEntries ==
    {Content("dict", entries \ file.entries,
             [j \in JoinedKeys |->
                IF \E k \in entries \ file.entries : Join[k] = j
                THEN EmptyReason ELSE None])}

\* The documents save() can build: of the entries whose keys join to one text,
\* the one the set iterates last leaves its reason.
Documents ==
    {Content("dict", entries, rs) :
        rs \in {r \in [JoinedKeys -> Reasons \union {None}] :
                  \A j \in JoinedKeys :
                    LET joined == {k \in entries : Join[k] = j}
                    IN  IF joined = {} THEN r[j] = None
                                       ELSE \E k \in joined : r[j] = ReasonOf(k)}}

\* Mutant: a load that restores the keys only.
LoadedReasonsNone(content, es) == [k \in Keys |-> None]

\* The reasons load() finds in a document for the entries es.
LoadedReasons(content, es) ==
    [k \in Keys |-> IF k \in es THEN content.reasons[Join[k]] ELSE None]

-----------------------------------------------------------------------------
Request(op, k, f) == [op |-> op, key |-> k, type |-> f]

IdleCall == Request("idle", None, None)

Calls ==
    [op : {"add"}, key : Keys, type : DoNotRetry] \union
    [op : {"idle", "flush", "save", "load"}, key : {None}, type : {None}]

Locked(t) == call[t].op \in {"add", "flush"}

Goto(t, label) == pc' = [pc EXCEPT ![t] = label]

\* The call of t ends, by return or by exception; "with" releases the lock.
End(t) ==
    /\ Goto(t, "idle")
    /\ call' = [call EXCEPT ![t] = IdleCall]
    /\ buffer' = [buffer EXCEPT ![t] = Missing]
    /\ owner' = IF Locked(t) THEN None ELSE owner

Init ==
    /\ up = FALSE
    /\ entries = {}
    /\ reasons = [k \in Keys |-> None]
    /\ pending = 0
    /\ owner = None
    /\ pc = [t \in Threads |-> "idle"]
    /\ call = [t \in Threads |-> IdleCall]
    /\ buffer = [t \in Threads |-> Missing]
    /\ file \in {Missing, Torn, NotDict}
    /\ acked = [k \in Keys |-> None]
    /\ raised = FALSE

-----------------------------------------------------------------------------
(* The process.                                                               *)

\* __init__ with its load(): no other thread has the registry yet.  An S3
\* error leaves no registry, which is the state before.
Construct ==
    /\ ~up
    /\ up' = TRUE
    /\ LET found == IF Storage = "none" THEN Missing ELSE file
       IN  /\ entries' = found.entries
           /\ reasons' = LoadedReasons(found, found.entries)
    /\ pending' = 0
    /\ raised' = FALSE
    /\ UNCHANGED <<file, owner, pc, call, buffer, acked>>

\* The process is killed or ends, wherever its threads are; an S3 object is
\* then as before or as written, a local file as far as it was written.
Crash ==
    /\ up
    /\ up' = FALSE
    /\ entries' = {}
    /\ reasons' = [k \in Keys |-> None]
    /\ pending' = 0
    /\ owner' = None
    /\ pc' = [t \in Threads |-> "idle"]
    /\ call' = [t \in Threads |-> IdleCall]
    /\ buffer' = [t \in Threads |-> Missing]
    /\ raised' = FALSE
    /\ UNCHANGED <<file, acked>>

-----------------------------------------------------------------------------
(* add() and flush().                                                         *)

\* add() of a permanent failure reaches the lock; of a retryable one it
\* returns at once, which changes nothing.
CallAdd(t) ==
    /\ up /\ pc[t] = "idle"
    /\ \E k \in Keys, f \in DoNotRetry :
         call' = [call EXCEPT ![t] = Request("add", k, f)]
    /\ Goto(t, "lock")
    /\ UNCHANGED <<up, file, entries, reasons, pending, owner, buffer,
                   acked, raised>>

CallFlush(t) ==
    /\ up /\ pc[t] = "idle"
    /\ call' = [call EXCEPT ![t] = Request("flush", None, None)]
    /\ Goto(t, "lock")
    /\ UNCHANGED <<up, file, entries, reasons, pending, owner, buffer,
                   acked, raised>>

\* Mutant: a lock that does not exclude.
AcquireHeld(t) ==
    /\ pc[t] = "lock"
    /\ owner' = t
    /\ Goto(t, IF call[t].op = "add" THEN "check" ELSE "snapshot")
    /\ UNCHANGED <<up, file, entries, reasons, pending, call, buffer,
                   acked, raised>>

Acquire(t) ==
    /\ pc[t] = "lock"
    /\ owner = None
    /\ owner' = t
    /\ Goto(t, IF call[t].op = "add" THEN "check" ELSE "snapshot")
    /\ UNCHANGED <<up, file, entries, reasons, pending, call, buffer,
                   acked, raised>>

\* add() finds the key and returns: the first reason stays.
AddPresent(t) ==
    /\ pc[t] = "check"
    /\ call[t].key \in entries
    /\ End(t)
    /\ UNCHANGED <<up, file, entries, reasons, pending, acked, raised>>

\* Mutant: add() does not look for the key.
AddEntryUnchecked(t) ==
    /\ pc[t] = "check"
    /\ entries' = entries \union {call[t].key}
    /\ Goto(t, "reason")
    /\ UNCHANGED <<up, file, reasons, pending, owner, call, buffer,
                   acked, raised>>

AddEntry(t) ==
    /\ pc[t] = "check"
    /\ call[t].key \notin entries
    /\ entries' = entries \union {call[t].key}
    /\ Goto(t, "reason")
    /\ UNCHANGED <<up, file, reasons, pending, owner, call, buffer,
                   acked, raised>>

\* Mutant: one failure too many before the flush.
AddReasonFlushesLate(t) ==
    /\ pc[t] = "reason"
    /\ reasons' = [reasons EXCEPT ![call[t].key] = call[t].type]
    /\ pending' = pending + 1
    /\ IF pending + 1 > FlushEvery
       THEN Goto(t, "snapshot") /\ UNCHANGED <<owner, call, buffer>>
       ELSE End(t)
    /\ UNCHANGED <<up, file, entries, acked, raised>>

\* Mutant: the counter is reset before the save, not after it.
AddReasonResetsEarly(t) ==
    /\ pc[t] = "reason"
    /\ reasons' = [reasons EXCEPT ![call[t].key] = call[t].type]
    /\ pending' = IF pending + 1 >= FlushEvery THEN 0 ELSE pending + 1
    /\ IF pending + 1 >= FlushEvery
       THEN Goto(t, "snapshot") /\ UNCHANGED <<owner, call, buffer>>
       ELSE End(t)
    /\ UNCHANGED <<up, file, entries, acked, raised>>

\* The reason and the count; the flush follows when enough are pending.
AddReason(t) ==
    /\ pc[t] = "reason"
    /\ reasons' = [reasons EXCEPT ![call[t].key] = call[t].type]
    /\ pending' = pending + 1
    /\ IF pending + 1 >= FlushEvery
       THEN Goto(t, "snapshot") /\ UNCHANGED <<owner, call, buffer>>
       ELSE End(t)
    /\ UNCHANGED <<up, file, entries, acked, raised>>

-----------------------------------------------------------------------------
(* save(), by itself or inside flush().                                       *)

CallSave(t) ==
    /\ up /\ pc[t] = "idle" /\ "save" \in DirectCalls
    /\ call' = [call EXCEPT ![t] = Request("save", None, None)]
    /\ Goto(t, "snapshot")
    /\ UNCHANGED <<up, file, entries, reasons, pending, owner, buffer,
                   acked, raised>>

\* The document is built from the entries of this moment.  With an empty
\* file_path save() returns at once.
Snapshot(t) ==
    /\ pc[t] = "snapshot"
    /\ IF Storage = "none"
       THEN Goto(t, "saved") /\ UNCHANGED buffer
       ELSE /\ \E document \in Documents :
                 buffer' = [buffer EXCEPT ![t] = document]
            /\ Goto(t, "write")
    /\ UNCHANGED <<up, file, entries, reasons, pending, owner, call,
                   acked, raised>>

\* Without the lock the set can grow while it is iterated: RuntimeError.
SnapshotRaises(t) ==
    /\ pc[t] = "snapshot" /\ Storage # "none" /\ ~Locked(t)
    /\ \E u \in Threads : pc[u] = "reason"
    /\ End(t)
    /\ UNCHANGED <<up, file, entries, reasons, pending, acked, raised>>

\* Mutant: an exception leaves the lock held.
RaiseKeepsLock(t) ==
    /\ Goto(t, "idle")
    /\ call' = [call EXCEPT ![t] = IdleCall]
    /\ buffer' = [buffer EXCEPT ![t] = Missing]
    /\ raised' = TRUE
    /\ UNCHANGED <<up, entries, reasons, pending, owner, acked>>

Raise(t) ==
    /\ End(t)
    /\ raised' = TRUE
    /\ UNCHANGED <<up, entries, reasons, pending, acked>>

\* put_object replaces the object.
Put(t) ==
    /\ pc[t] = "write" /\ Storage = "s3"
    /\ file' = buffer[t]
    /\ Goto(t, "saved")
    /\ UNCHANGED <<up, entries, reasons, pending, owner, call, buffer,
                   acked, raised>>

\* put_object raises: the request failed, or only its answer was lost.
PutRaises(t) ==
    /\ pc[t] = "write" /\ Storage = "s3"
    /\ file' \in {file, buffer[t]}
    /\ Raise(t)

\* write_bytes opens the local file, which truncates it, or cannot open it.
Truncate(t) ==
    /\ pc[t] = "write" /\ Storage = "local"
    /\ file' = Torn
    /\ Goto(t, "rewrite")
    /\ UNCHANGED <<up, entries, reasons, pending, owner, call, buffer,
                   acked, raised>>

OpenRaises(t) ==
    /\ pc[t] = "write" /\ Storage = "local"
    /\ Raise(t)
    /\ UNCHANGED file

\* The bytes arrive.  Over a file that another writer has truncated or filled
\* since, the longer of the two texts can leave its tail.
Rewrite(t) ==
    /\ pc[t] = "rewrite"
    /\ \/ file' = buffer[t]
       \/ /\ file # Torn \/ \E u \in Threads \ {t} : pc[u] = "rewrite"
          /\ file' = Torn
    /\ Goto(t, "saved")
    /\ UNCHANGED <<up, entries, reasons, pending, owner, call, buffer,
                   acked, raised>>

\* The disk fills up half-way.
RewriteRaises(t) ==
    /\ pc[t] = "rewrite"
    /\ file' = Torn
    /\ Raise(t)

\* Mutant: flush() subtracts one batch from the counter.
ReturnSubtracts(t) ==
    /\ pc[t] = "saved"
    /\ IF Locked(t)
       THEN /\ pending' = pending - FlushEvery
            /\ raised' = FALSE
            /\ acked' = [k \in Keys |->
                           IF k \in entries THEN ReasonOf(k) ELSE acked[k]]
       ELSE UNCHANGED <<pending, raised, acked>>
    /\ End(t)
    /\ UNCHANGED <<up, file, entries, reasons>>

\* save() returns to its caller, or flush() resets the counter and returns.
Return(t) ==
    /\ pc[t] = "saved"
    /\ IF Locked(t)
       THEN /\ pending' = 0
            /\ raised' = FALSE
            /\ acked' = [k \in Keys |->
                           IF k \in entries THEN ReasonOf(k) ELSE acked[k]]
       ELSE UNCHANGED <<pending, raised, acked>>
    /\ End(t)
    /\ UNCHANGED <<up, file, entries, reasons>>

-----------------------------------------------------------------------------
(* load() on a registry in use.                                               *)

CallLoad(t) ==
    /\ up /\ pc[t] = "idle" /\ "load" \in DirectCalls
    /\ call' = [call EXCEPT ![t] = Request("load", None, None)]
    /\ Goto(t, "read")
    /\ UNCHANGED <<up, file, entries, reasons, pending, owner, buffer,
                   acked, raised>>

LoadRead(t) ==
    /\ pc[t] = "read"
    /\ buffer' = [buffer EXCEPT ![t] = IF Storage = "none" THEN Missing
                                                           ELSE file]
    /\ Goto(t, "bind")
    /\ UNCHANGED <<up, file, entries, reasons, pending, owner, call,
                   acked, raised>>

\* An S3 error other than NoSuchKey, or a local file that cannot be read.
LoadRaises(t) ==
    /\ pc[t] = "read" /\ Storage # "none"
    /\ End(t)
    /\ UNCHANGED <<up, file, entries, reasons, pending, acked, raised>>

LoadBind(t) ==
    /\ pc[t] = "bind"
    /\ entries' = buffer[t].entries
    /\ Goto(t, "fill")
    /\ UNCHANGED <<up, file, reasons, pending, owner, call, buffer,
                   acked, raised>>

\* The new dict and the loop that fills it from the entries of this moment;
\* an add() during the loop stops it anywhere with a RuntimeError.
LoadFill(t) ==
    /\ pc[t] = "fill"
    /\ \E es \in SUBSET entries :
         /\ es = entries \/ \E u \in Threads : pc[u] = "reason"
         /\ reasons' = LoadedReasons(buffer[t], es)
    /\ End(t)
    /\ UNCHANGED <<up, file, entries, pending, acked, raised>>

-----------------------------------------------------------------------------
Step(t) ==
    \/ Acquire(t) \/ AddPresent(t) \/ AddEntry(t) \/ AddReason(t)
    \/ Snapshot(t) \/ SnapshotRaises(t)
    \/ Put(t) \/ PutRaises(t)
    \/ Truncate(t) \/ OpenRaises(t) \/ Rewrite(t) \/ RewriteRaises(t)
    \/ Return(t)
    \/ LoadRead(t) \/ LoadRaises(t) \/ LoadBind(t) \/ LoadFill(t)

CallNext(t) == CallAdd(t) \/ CallFlush(t) \/ CallSave(t) \/ CallLoad(t)

Next ==
    \/ Construct
    \/ Crash
    \/ \E t \in Threads : CallNext(t) \/ Step(t)

Spec == Init /\ [][Next]_vars

\* A thread inside a call keeps running: the calls it blocks in, S3 requests
\* and file writes, return or raise.  Nothing is assumed of the lock's order,
\* of callers, or of the process living on.
Fairness == \A t \in Threads : WF_vars(Step(t))

FairSpec == Spec /\ Fairness

-----------------------------------------------------------------------------
(* What the registry is for, over an S3 file that one process writes through  *)
(* add() and flush().                                                         *)

TypeOK ==
    /\ up \in BOOLEAN
    /\ file \in Contents
    /\ entries \in SUBSET Keys
    /\ reasons \in [Keys -> Reasons \union {None}]
    /\ pending \in Nat
    /\ owner \in Threads \union {None}
    /\ pc \in [Threads -> PCs]
    /\ call \in [Threads -> Calls]
    /\ \A t \in Threads : pc[t] \in {"check", "reason"} => call[t].op = "add"
    /\ buffer \in [Threads -> Contents]
    /\ acked \in [Keys -> Reasons \union {None}]
    /\ raised \in BOOLEAN

\* What a crash at this moment forgets.
Unsaved == entries \ file.entries

\* flush() is the only writer of the file, and its snapshot is never stale:
\* whatever is not in the file is still counted in _pending (or about to be),
\* also after a save that raised with or without effect.
CounterCoversLoss ==
    up => Cardinality(Unsaved)
            <= pending + (IF \E t \in Threads : pc[t] = "reason" THEN 1 ELSE 0)

\* Unless saves raise, a crash at any moment loses at most flush_every
\* failures, whichever threads were inside add() or flush().
LossBounded == up /\ ~raised => Cardinality(Unsaved) <= FlushEvery

\* Between calls fewer than flush_every failures wait, unless a save raised:
\* no interleaving of add() and flush() skips the flush that is due.
FlushNotSkipped == up /\ ~raised /\ owner = None => pending < FlushEvery

\* Once a flush() that covered a key has returned, every registry constructed
\* from the file knows the key: across later flushes, failing ones, crashes
\* and restarts.
AckedKnown == up => \A k \in Keys : acked[k] # None => k \in entries

\* and the file has it, under the reason it was flushed with.
AckedReasonsDurable ==
    \A k \in Keys : acked[k] # None => file.reasons[Join[k]] = acked[k]

\* Of the threads that add one key with different failure types the first
\* decides the reason, for as long as the process lives.
FirstReasonKept ==
    [][\A k \in Keys : up /\ up' /\ reasons[k] # None
                        => reasons'[k] = reasons[k]]_vars

\* A thread that takes the lock gives it back, whichever step raises.
LockReleased == \A t \in Threads : owner = t ~> owner # t

\* The registry implements the ledger: known is _entries, durable is what the
\* S3 object holds.
Ledger == INSTANCE FailureLedger WITH known <- entries, durable <- file.entries

ImplementsLedger == Ledger!Spec
=============================================================================
