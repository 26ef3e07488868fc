---------------------------- MODULE SharedClient ----------------------------
(* _get_s3_client of src/idi_ftm2j_shared/storage.py: every S3 operation of   *)
(* the storage functions goes through one client per process, created on      *)
(* first use behind a double-checked lock.  Clients are numbered in the order *)
(* they are created; 0 is None.                                               *)
EXTENDS Integers

CONSTANTS Threads, None

ASSUME NoneAssumption == None \notin Threads

VARIABLES
    client,     \* _s3_client
    owner,      \* who holds _s3_client_lock
    pc,         \* where each thread is
    got,        \* the client each thread's last call returned, 0 for none
    made        \* history: how many clients were created

vars == <<client, owner, pc, got, made>>

Init ==
    /\ client = 0
    /\ owner = None
    /\ pc = [t \in Threads |-> "idle"]
    /\ got = [t \in Threads |-> 0]
    /\ made = 0

Goto(t, label) == pc' = [pc EXCEPT ![t] = label]

\* The first look, outside the lock.
Look(t) ==
    /\ pc[t] = "idle"
    /\ Goto(t, IF client = 0 THEN "lock" ELSE "return")
    /\ UNCHANGED <<client, owner, got, made>>

Acquire(t) ==
    /\ pc[t] = "lock" /\ owner = None
    /\ owner' = t
    /\ Goto(t, "look again")
    /\ UNCHANGED <<client, got, made>>

\* Mutant: the second look is missing.
LookAgainNever(t) ==
    /\ pc[t] = "look again"
    /\ Goto(t, "create")
    /\ UNCHANGED <<client, owner, got, made>>

\* The second look, inside the lock: another thread may have been faster.
LookAgain(t) ==
    /\ pc[t] = "look again"
    /\ IF client = 0
       THEN Goto(t, "create") /\ UNCHANGED owner
       ELSE Goto(t, "return") /\ owner' = None
    /\ UNCHANGED <<client, got, made>>

\* Mutant: the lock is kept by whoever created the client.
CreateKeepsLock(t) ==
    /\ pc[t] = "create"
    /\ made' = made + 1
    /\ client' = made + 1
    /\ Goto(t, "return")
    /\ UNCHANGED <<owner, got>>

Create(t) ==
    /\ pc[t] = "create"
    /\ made' = made + 1
    /\ client' = made + 1
    /\ owner' = None
    /\ Goto(t, "return")
    /\ UNCHANGED got

\* MAX_WORKERS is no number, or boto3 finds no region: the caller gets the
\* exception and the next one tries again.
CreateRaises(t) ==
    /\ pc[t] = "create"
    /\ owner' = None
    /\ Goto(t, "idle")
    /\ UNCHANGED <<client, got, made>>

\* The global is read once more, outside the lock.
Return(t) ==
    /\ pc[t] = "return"
    /\ got' = [got EXCEPT ![t] = client]
    /\ Goto(t, "idle")
    /\ UNCHANGED <<client, owner, made>>

Step(t) ==
    \/ Acquire(t) \/ LookAgain(t) \/ Create(t) \/ CreateRaises(t) \/ Return(t)

Next == \E t \in Threads : Look(t) \/ Step(t)

Spec == Init /\ [][Next]_vars

-----------------------------------------------------------------------------
TypeOK ==
    /\ client \in Nat
    /\ owner \in Threads \union {None}
    /\ pc \in [Threads ->
                 {"idle", "lock", "look again", "create", "return"}]
    /\ got \in [Threads -> Nat]
    /\ made \in Nat

\* "created once per process" and "shared": however many threads race through
\* the first look, and also after failed attempts, one client is created and
\* no caller is ever handed another one or None.
OneClient ==
    /\ made <= 1
    /\ client = made
    /\ \A t \in Threads : got[t] # 0 => got[t] = client
    /\ \A t \in Threads : pc[t] = "return" => client # 0
=============================================================================
