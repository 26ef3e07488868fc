---------------------------- MODULE StorageProofs ----------------------------
(* For any threads, paths and contents: the storage functions keep to the     *)
(* protocol of the shared client, S3 paths are atomic registers, and a local  *)
(* save that met no other one sticks.  The type invariant carries the         *)
(* refinement: what is stored as gzip was compressed, and nothing else was.   *)
EXTENDS Storage, TLAPS

USE NoneAssumption, PathsAssumption, ContentsAssumption, NoneIsNothing

-----------------------------------------------------------------------------
(* The shared client by itself.  Inductive with OneClient: a thread is past   *)
(* the lock exactly while it holds it, and one about to create has seen,      *)
(* inside the lock, that there is no client.                                  *)

HolderInv ==
    \A t \in Threads :
      /\ owner = t <=> pc[t] \in {"look again", "create"}
      /\ pc[t] = "create" => client = 0

ClientInv == TypeOK /\ HolderInv /\ OneClient

LEMMA ClientStep == ClientInv /\ [Next]_vars => ClientInv'
<1> SUFFICES ASSUME ClientInv, [Next]_vars PROVE ClientInv'
  OBVIOUS
<1>1. ASSUME NEW t \in Threads, Look(t) PROVE ClientInv'
  BY <1>1 DEF Look, Goto, ClientInv, TypeOK, HolderInv, OneClient
<1>2. ASSUME NEW t \in Threads, Acquire(t) PROVE ClientInv'
  BY <1>2 DEF Acquire, Goto, ClientInv, TypeOK, HolderInv, OneClient
<1>3. ASSUME NEW t \in Threads, LookAgain(t) PROVE ClientInv'
  <2>1. \A u \in Threads \ {t} : pc[u] \notin {"look again", "create"}
    BY <1>3 DEF LookAgain, ClientInv, HolderInv
  <2>2. CASE client = 0
    BY <1>3, <2>1, <2>2
       DEF LookAgain, Goto, ClientInv, TypeOK, HolderInv, OneClient
  <2>3. CASE client # 0
    BY <1>3, <2>1, <2>3
       DEF LookAgain, Goto, ClientInv, TypeOK, HolderInv, OneClient
  <2> QED
    BY <2>2, <2>3
<1>4. ASSUME NEW t \in Threads, Create(t) PROVE ClientInv'
  <2>1. client = 0 /\ made = 0
    BY <1>4 DEF Create, ClientInv, HolderInv, OneClient
  <2>2. \A u \in Threads : got[u] = 0 /\ pc[u] # "return"
    BY <2>1 DEF ClientInv, OneClient
  <2>3. \A u \in Threads \ {t} : pc[u] \notin {"look again", "create"}
    BY <1>4 DEF Create, ClientInv, HolderInv
  <2>4. /\ client' = 1 /\ made' = 1 /\ owner' = None /\ got' = got
        /\ pc' = [pc EXCEPT ![t] = "return"]
    BY <1>4, <2>1 DEF Create, Goto
  <2>5. TypeOK'
    BY <2>4 DEF ClientInv, TypeOK
  <2>6. HolderInv'
    BY <2>3, <2>4 DEF ClientInv, TypeOK, HolderInv
  <2>7. OneClient'
    BY <2>2, <2>4 DEF OneClient
  <2> QED
    BY <2>5, <2>6, <2>7 DEF ClientInv
<1>5. ASSUME NEW t \in Threads, CreateRaises(t) PROVE ClientInv'
  BY <1>5 DEF CreateRaises, Goto, ClientInv, TypeOK, HolderInv, OneClient
<1>6. ASSUME NEW t \in Threads, Return(t) PROVE ClientInv'
  BY <1>6 DEF Return, Goto, ClientInv, TypeOK, HolderInv, OneClient
<1>7. CASE UNCHANGED vars
  BY <1>7 DEF vars, ClientInv, TypeOK, HolderInv, OneClient
<1> QED
  BY <1>1, <1>2, <1>3, <1>4, <1>5, <1>6, <1>7 DEF Next, Step

\* One client per process, for every number of threads and every interleaving.
THEOREM CreatedOnce == Spec => []OneClient
<1>1. Init => ClientInv
  BY DEF Init, ClientInv, TypeOK, HolderInv, OneClient
<1>2. ClientInv => OneClient
  BY DEF ClientInv
<1> QED
  BY <1>1, <1>2, ClientStep, PTL DEF Spec

-----------------------------------------------------------------------------
(* The storage functions.                                                     *)

\* Decoding inverts what a save or an earlier process stored.
LEMMA Decoded ==
    /\ \A c \in Contents : /\ Object(c, None) \in Objects
                           /\ Bytes(Object(c, None)) = c
                           /\ Object(Gzip(c), "gzip") \in Objects
                           /\ Bytes(Object(Gzip(c), "gzip")) = c
    /\ \A o \in Objects \union {None} : Bytes(o) \in Contents
<1>1. ASSUME NEW c \in Contents
      PROVE  Object(c, None) \in Objects /\ Object(Gzip(c), "gzip") \in Objects
  BY DEF Objects
<1>2. ASSUME NEW c \in Contents
      PROVE  Bytes(Object(c, None)) = c /\ Bytes(Object(Gzip(c), "gzip")) = c
  <2>1. Object(c, None) # None /\ Object(Gzip(c), "gzip") # None
    BY <1>1
  <2> QED
    BY <2>1 DEF Bytes, Object, Gzip, Gunzip
<1>3. ASSUME NEW o \in Objects \union {None} PROVE Bytes(o) \in Contents
  <2>1. CASE o = None
    BY <2>1 DEF Bytes
  <2>2. CASE o \in Objects
    BY <1>2, <2>2 DEF Objects
  <2> QED
    BY <2>1, <2>2
<1> QED
  BY <1>1, <1>2, <1>3

LEMMA CallFields ==
    \A r \in Calls : /\ r.op \in Ops /\ r.path \in Paths
                     /\ r.content \in Contents /\ r.compress \in BOOLEAN
                     /\ r.op # "save" => ~r.compress
BY DEF Calls

LEMMA FoundIsAnswer ==
    ASSUME NEW t \in Threads, NEW c \in Contents \union {Torn}
    PROVE  Found(t, c) \in Answers
BY DEF Found, Parsed, Answers

-----------------------------------------------------------------------------
(* Every step keeps the types.                                                *)

LEMMA TypeInit == StorageInit => StorageTypeOK
<1> SUFFICES ASSUME StorageInit PROVE StorageTypeOK
  OBVIOUS
<1> QED
  BY DEF StorageInit, StorageTypeOK

\* A thread that is busy has a call of its own.
LEMMA Busy ==
    ASSUME StorageTypeOK, NEW t \in Threads, at[t] # "idle"
    PROVE  /\ call[t] \in Calls /\ call[t].op \in Ops /\ call[t].path \in Paths
           /\ call[t].content \in Contents
           /\ call[t].op # "save" => ~call[t].compress
<1>1. call[t] \in Calls
  BY DEF StorageTypeOK
<1> QED
  BY <1>1, CallFields

LEMMA StoredIsObject ==
    ASSUME NEW r \in Calls
    PROVE  Stored(r) \in Objects /\ Bytes(Stored(r)) = r.content
BY CallFields, Decoded DEF Stored

\* A call that ends with an answer, whatever it did before.
LEMMA FinishKeepsTypes ==
    ASSUME StorageTypeOK, NEW t \in Threads, at[t] # "idle",
           NEW a \in Answers, Finish(t, a), call' = call,
           object' \in [S3Paths -> Objects \union {None}],
           file' \in [LocalPaths -> Contents \union {None, Torn}],
           lone' \in [LocalPaths -> Contents \union {None}]
    PROVE  StorageTypeOK'
<1>1. a # None
  OBVIOUS
<1>2. /\ at' = [at EXCEPT ![t] = "done"]
      /\ answer' = [answer EXCEPT ![t] = a]
  BY DEF Finish, At
<1>3. /\ at' \in [Threads -> {"idle", "client", "s3", "upload",
                              "local", "rewrite", "done"}]
      /\ answer' \in [Threads -> Answers \union {None}]
  BY <1>2 DEF StorageTypeOK
<1>4. \A u \in Threads :
        /\ call'[u] = None <=> at'[u] = "idle"
        /\ answer'[u] # None <=> at'[u] = "done"
        /\ at'[u] \in {"client", "s3", "upload"} => call'[u].path \in S3Paths
        /\ at'[u] \in {"local", "rewrite"} => call'[u].path \in LocalPaths
        /\ at'[u] \in {"upload", "rewrite"} => call'[u].op \in Saves
  BY <1>1, <1>2 DEF StorageTypeOK
<1> QED
  BY <1>3, <1>4 DEF StorageTypeOK

LEMMA RequestTypes ==
    ASSUME StorageTypeOK, NEW t \in Threads, Request(t) PROVE StorageTypeOK'
<1>1. PICK r \in Calls : /\ call' = [call EXCEPT ![t] = r]
                         /\ at' = [at EXCEPT ![t] = IF r.path \in S3Paths
                                                    THEN "client" ELSE "local"]
  BY DEF Request, At
<1>2. at[t] = "idle" /\ answer[t] = None
  BY DEF Request, StorageTypeOK
<1>3. r # None /\ (r.path \notin S3Paths => r.path \in LocalPaths)
  BY CallFields DEF LocalPaths
<1>4. /\ at' \in [Threads -> {"idle", "client", "s3", "upload",
                              "local", "rewrite", "done"}]
      /\ call' \in [Threads -> Calls \union {None}]
  BY <1>1 DEF StorageTypeOK
<1>5. UNCHANGED <<object, file, answer, lone>>
  BY DEF Request
<1>6. \A u \in Threads :
        /\ call'[u] = None <=> at'[u] = "idle"
        /\ answer'[u] # None <=> at'[u] = "done"
        /\ at'[u] \in {"client", "s3", "upload"} => call'[u].path \in S3Paths
        /\ at'[u] \in {"local", "rewrite"} => call'[u].path \in LocalPaths
        /\ at'[u] \in {"upload", "rewrite"} => call'[u].op \in Saves
  BY <1>1, <1>2, <1>3, <1>5 DEF StorageTypeOK
<1> QED
  BY <1>4, <1>5, <1>6 DEF StorageTypeOK

\* A step of a busy thread that stays busy and changes neither S3 nor calls.
LEMMA AtKeepsTypes ==
    ASSUME StorageTypeOK, NEW t \in Threads, at[t] \notin {"idle", "done"},
           NEW s \in {"client", "s3", "upload", "local", "rewrite"}, At(t, s),
           s \in {"client", "s3", "upload"} => call[t].path \in S3Paths,
           s \in {"local", "rewrite"} => call[t].path \in LocalPaths,
           s \in {"upload", "rewrite"} => call[t].op \in Saves,
           UNCHANGED <<object, call, answer>>,
           file' \in [LocalPaths -> Contents \union {None, Torn}],
           lone' \in [LocalPaths -> Contents \union {None}]
    PROVE  StorageTypeOK'
BY DEF StorageTypeOK, At

LEMMA WorkTypes ==
    ASSUME StorageTypeOK, NEW t \in Threads, Work(t) PROVE StorageTypeOK'
<1> DEFINE p == call[t].path
<1>0. /\ object \in [S3Paths -> Objects \union {None}]
      /\ file \in [LocalPaths -> Contents \union {None, Torn}]
      /\ lone \in [LocalPaths -> Contents \union {None}]
      /\ at[t] \in {"client", "s3", "upload"} => p \in S3Paths
      /\ at[t] \in {"local", "rewrite"} => p \in LocalPaths
      /\ at[t] \in {"upload", "rewrite"} => call[t].op \in Saves
  BY DEF StorageTypeOK
<1>a. {"raised", "saved", "yes", "no"} \subseteq Answers
  BY DEF Answers
<1>1. CASE SeekClient(t)
  BY <1>1 DEF SeekClient, storage, StorageTypeOK
<1>2. CASE ClientReady(t)
  BY <1>0, <1>2, AtKeepsTypes DEF ClientReady
<1>3. CASE ClientRaises(t)
  BY <1>0, <1>a, <1>3, FinishKeepsTypes DEF ClientRaises
<1>4. CASE Get(t)
  <2>1. object[p] \in Objects \union {None}
    BY <1>0, <1>4 DEF Get
  <2>2. Found(t, Bytes(object[p])) \in Answers
    BY <2>1, Decoded, FoundIsAnswer
  <2> QED
    BY <1>0, <1>4, <2>2, FinishKeepsTypes DEF Get
<1>5. CASE Head(t)
  BY <1>0, <1>a, <1>5, FinishKeepsTypes DEF Head, Exists
<1>6. CASE ReadLocal(t)
  <2>1. (IF file[p] = None THEN Empty ELSE file[p]) \in Contents \union {Torn}
    BY <1>0, <1>6 DEF ReadLocal
  <2>2. /\ Found(t, IF file[p] = None THEN Empty ELSE file[p]) \in Answers
        /\ Found(t, Torn) \in Answers
    BY <2>1, FoundIsAnswer
  <2>3. at[t] = "local" /\ UNCHANGED <<object, file, call, lone>>
    BY <1>6 DEF ReadLocal
  <2>4. \E a \in Answers : Finish(t, a)
    BY <1>6, <1>a, <2>2 DEF ReadLocal, Exists
  <2> QED
    BY <1>0, <2>3, <2>4, FinishKeepsTypes
<1>7. CASE Put(t) \/ Complete(t)
  <2>1. at[t] \in {"s3", "upload"} /\ Store(t, Stored(call[t]))
    BY <1>7 DEF Put, Complete
  <2>2. Stored(call[t]) \in Objects
    BY <2>1, Busy, StoredIsObject
  <2>3. object' \in [S3Paths -> Objects \union {None}]
    BY <1>0, <2>1, <2>2 DEF Store
  <2> QED
    BY <1>0, <1>a, <2>1, <2>3, FinishKeepsTypes DEF Store
<1>8. CASE Upload(t)
  BY <1>0, <1>8, AtKeepsTypes DEF Upload, Saves
<1>9. CASE Truncate(t)
  <2>1. call[t].content \in Contents /\ at[t] = "local" /\ call[t].op \in Saves
    BY <1>9, Busy DEF Truncate
  <2>2. /\ file' \in [LocalPaths -> Contents \union {None, Torn}]
        /\ lone' \in [LocalPaths -> Contents \union {None}]
    BY <1>0, <1>9, <2>1 DEF Truncate
  <2>3. At(t, "rewrite") /\ UNCHANGED <<object, call, answer>>
    BY <1>9 DEF Truncate
  <2> QED
    BY <1>0, <2>1, <2>2, <2>3, AtKeepsTypes
<1>10. CASE Rewrite(t)
  <2>1. call[t].content \in Contents /\ at[t] = "rewrite"
    BY <1>10, Busy DEF Rewrite
  <2>2. file' \in [LocalPaths -> Contents \union {None, Torn}]
    BY <1>0, <1>10, <2>1 DEF Rewrite
  <2>3. Finish(t, "saved") /\ UNCHANGED <<object, call, lone>>
    BY <1>10 DEF Rewrite
  <2> QED
    BY <1>0, <1>a, <2>1, <2>2, <2>3, FinishKeepsTypes
<1>11. CASE RewriteRaises(t)
  <2>1. at[t] = "rewrite" /\ Finish(t, "raised") /\ UNCHANGED <<object, call>>
    BY <1>11 DEF RewriteRaises
  <2>2. /\ file' \in [LocalPaths -> Contents \union {None, Torn}]
        /\ lone' \in [LocalPaths -> Contents \union {None}]
    BY <1>0, <1>11 DEF RewriteRaises
  <2> QED
    BY <1>0, <1>a, <2>1, <2>2, FinishKeepsTypes
<1>12. CASE Raise(t)
  <2>1. at[t] # "idle" /\ Finish(t, "raised")
        /\ UNCHANGED <<object, file, call, lone>>
    BY <1>12 DEF Raise
  <2> QED
    BY <1>0, <1>a, <2>1, FinishKeepsTypes
<1>13. CASE Leave(t)
  BY <1>13 DEF Leave, At, StorageTypeOK
<1> QED
  BY <1>1, <1>2, <1>3, <1>4, <1>5, <1>6, <1>7, <1>8, <1>9, <1>10, <1>11,
     <1>12, <1>13 DEF Work

LEMMA TypeStep ==
    StorageTypeOK /\ [StorageNext]_storageVars => StorageTypeOK'
<1>1. CASE UNCHANGED storageVars
  BY <1>1 DEF storageVars, storage, StorageTypeOK
<1> QED
  BY <1>1, RequestTypes, WorkTypes DEF StorageNext

\* Types, for every number of threads and paths: above all that what lies in S3
\* as gzip is gzip, so that no load can fail to decompress it.
THEOREM StorageTypes == StorageSpec => []StorageTypeOK
BY TypeInit, TypeStep, PTL DEF StorageSpec

-----------------------------------------------------------------------------
(* The functions use the client as SharedClient says.                         *)

LEMMA ClientSteps == [StorageNext]_storageVars => [Next]_vars
<1>1. CASE UNCHANGED storageVars
  BY <1>1 DEF storageVars, clientVars
<1>2. ASSUME NEW t \in Threads, Request(t) PROVE UNCHANGED vars
  BY <1>2 DEF Request, clientVars
<1>3. ASSUME NEW t \in Threads, Work(t) PROVE [Next]_vars
  <2>1. CASE SeekClient(t)
    BY <2>1 DEF SeekClient, Next, Step
  <2>2. CASE ClientReady(t)
    BY <2>2 DEF ClientReady, Next, Step
  <2>3. CASE ClientRaises(t)
    BY <2>3 DEF ClientRaises, Next, Step
  <2>4. CASE ~(SeekClient(t) \/ ClientReady(t) \/ ClientRaises(t))
    BY <1>3, <2>4
       DEF Work, Get, Head, ReadLocal, Put, Upload, Complete, Store, Truncate,
           Rewrite, RewriteRaises, Raise, Leave, clientVars
  <2> QED
    BY <2>1, <2>2, <2>3, <2>4
<1> QED
  BY <1>1, <1>2, <1>3 DEF StorageNext

\* One client for all calls of all threads: the storage functions implement
\* SharedClient, so what is proved of it holds of them.
THEOREM OneClientForAll == StorageSpec => []OneClient
<1>1. StorageInit => Init
  BY DEF StorageInit
<1>2. StorageSpec => Spec
  BY <1>1, ClientSteps, PTL DEF StorageSpec, Spec
<1> QED
  BY <1>2, CreatedOnce, PTL

-----------------------------------------------------------------------------
(* S3 paths are atomic registers.                                             *)

LEMMA RegisterInit == StorageInit => Register!Init
<1> SUFFICES ASSUME StorageInit PROVE Register!Init
  OBVIOUS
<1>1. [p \in S3Paths |-> Value(object[p])] \in
        [S3Paths -> Contents \union {None}]
  BY Decoded DEF StorageInit, Value
<1>2. [t \in Threads |-> Seen(t)] = [t \in Threads |-> None]
  BY DEF StorageInit, Seen
<1> QED
  BY <1>1, <1>2 DEF Register!Init

\* What a step that is another thread's business, or another path's, leaves.
LEMMA Unseen ==
    ASSUME UNCHANGED object,
           \A u \in Threads : Seen(u)' = Seen(u)
    PROVE  UNCHANGED Register!register
BY DEF Register!register

\* How a call on S3 that is under way looks to the register.
LEMMA SeenBusy ==
    ASSUME StorageTypeOK, NEW t \in Threads, at[t] # "idle",
           call[t].path \in S3Paths
    PROVE  /\ Seen(t) = [op |-> IF call[t].op \in Saves THEN "save"
                                ELSE call[t].op,
                         path |-> call[t].path, content |-> call[t].content,
                         answer |-> answer[t]]
           /\ Seen(t) # None
<1>1. call[t] # None /\ answer[t] \in Answers \union {None}
  BY DEF StorageTypeOK
<1>2. Seen(t) = [op |-> IF call[t].op \in Saves THEN "save" ELSE call[t].op,
                 path |-> call[t].path, content |-> call[t].content,
                 answer |-> answer[t]]
  BY <1>1 DEF Seen
<1>3. (IF call[t].op \in Saves THEN "save" ELSE call[t].op) \in Ops
  BY Busy DEF Ops
<1>4. Seen(t) \in [op : Ops, path : Paths, content : Contents,
                   answer : Answers \union {None}]
  BY <1>1, <1>2, <1>3, Busy
<1> QED
  BY <1>2, <1>4

\* An answer given is an answer the register gives.
LEMMA FinishSeen ==
    ASSUME StorageTypeOK, NEW t \in Threads, at[t] # "idle",
           call[t].path \in S3Paths, NEW a, Finish(t, a), UNCHANGED call
    PROVE  Register!Answer(t, a)
<1>1. answer' = [answer EXCEPT ![t] = a]
  BY DEF Finish
<1>2. call[t] # None
  BY DEF StorageTypeOK
<1>3. Seen(t)' = [Seen(t) EXCEPT !.answer = a]
  <2>1. Seen(t)' = [op |-> IF call[t].op \in Saves THEN "save" ELSE call[t].op,
                    path |-> call[t].path, content |-> call[t].content,
                    answer |-> a]
    BY <1>1, <1>2 DEF Seen, StorageTypeOK
  <2> QED
    BY <2>1, SeenBusy
<1>4. \A u \in Threads \ {t} : Seen(u)' = Seen(u)
  BY <1>1 DEF Seen, StorageTypeOK
<1> QED
  BY <1>3, <1>4 DEF Register!Answer

\* Nothing of a call on a local file is seen.
LEMMA LocalUnseen ==
    ASSUME StorageTypeOK, NEW t \in Threads, at[t] # "idle",
           call[t].path \notin S3Paths, UNCHANGED <<object, call>>,
           \A u \in Threads \ {t} : answer'[u] = answer[u]
    PROVE  UNCHANGED Register!register
<1>1. \A u \in Threads : Seen(u)' = Seen(u)
  BY DEF Seen
<1> QED
  BY <1>1, Unseen

LEMMA ReadStep ==
    ASSUME StorageTypeOK, NEW t \in Threads, Get(t) \/ Head(t)
    PROVE  Register!Read(t)
<1> DEFINE p == call[t].path
<1>1. /\ at[t] = "s3" /\ p \in S3Paths /\ answer[t] = None
      /\ object[p] \in Objects \union {None}
      /\ UNCHANGED <<object, call>>
  BY DEF Get, Head, StorageTypeOK
<1>2. call[t].op \in {"load", "load_json", "exists"} /\ call[t].op \notin Saves
  BY DEF Get, Head, Saves
<1>3. Register!Pending(t) /\ Seen(t).op # "save"
  BY <1>1, <1>2, SeenBusy DEF Register!Pending
<1>4. Value(object[p]) = None <=> object[p] = None
  BY <1>1, Decoded DEF Value, Answers
<1>5. Finish(t, Register!Observed(Seen(t)))
  <2>1. Seen(t).op = call[t].op /\ Seen(t).path = p
    BY <1>1, <1>2, SeenBusy
  <2>2. CASE Get(t)
    BY <1>1, <1>4, <2>1, <2>2
       DEF Get, Found, Parsed, Value, Bytes, Register!Observed, Register!Parsed
  <2>3. CASE Head(t)
    BY <1>1, <1>4, <2>1, <2>3 DEF Head, Exists, Register!Observed
  <2> QED
    BY <2>2, <2>3
<1>6. Register!Answer(t, Register!Observed(Seen(t)))
  BY <1>1, <1>5, FinishSeen
<1> QED
  BY <1>1, <1>3, <1>6 DEF Register!Read

LEMMA SaveStep ==
    ASSUME StorageTypeOK, NEW t \in Threads, Put(t) \/ Complete(t)
    PROVE  Register!Save(t)
<1> DEFINE p == call[t].path
<1>1. /\ at[t] \in {"s3", "upload"} /\ call[t].op \in Saves
      /\ p \in S3Paths /\ answer[t] = None
      /\ object \in [S3Paths -> Objects \union {None}]
      /\ Store(t, Stored(call[t]))
  BY DEF Put, Complete, StorageTypeOK, Saves
<1>2. Register!Pending(t) /\ Seen(t).op = "save" /\ Seen(t).path = p
      /\ Seen(t).content = call[t].content
  BY <1>1, SeenBusy DEF Register!Pending
<1>3. Stored(call[t]) # None /\ Bytes(Stored(call[t])) = call[t].content
  BY <1>1, Busy, StoredIsObject
<1>4. [q \in S3Paths |-> Value(object[q])]' =
        [[q \in S3Paths |-> Value(object[q])] EXCEPT ![p] = call[t].content]
  BY <1>1, <1>3 DEF Store, Value
<1>5. Register!Answer(t, "saved")
  BY <1>1, FinishSeen DEF Store
<1> QED
  BY <1>2, <1>4, <1>5 DEF Register!Save

LEMMA RequestStep ==
    ASSUME StorageTypeOK, NEW t \in Threads, Request(t)
    PROVE  Register!Request(t) \/ UNCHANGED Register!register
<1>1. PICK r \in Calls : call' = [call EXCEPT ![t] = r]
  BY DEF Request
<1>2. UNCHANGED <<object, answer>> /\ Seen(t) = None /\ answer[t] = None
  BY DEF Request, Seen, StorageTypeOK
<1>3. \A u \in Threads \ {t} : Seen(u)' = Seen(u)
  BY <1>1, <1>2 DEF Seen, StorageTypeOK
<1>4. r # None /\ call'[t] = r
  BY <1>1 DEF StorageTypeOK
<1>5. CASE r.path \in S3Paths
  <2> DEFINE seen == [op |-> IF r.op \in Saves THEN "save" ELSE r.op,
                      path |-> r.path, content |-> r.content, answer |-> None]
  <2>1. Seen(t)' = seen
    BY <1>2, <1>4, <1>5 DEF Seen
  <2>2. seen \in Register!Requests
    BY <1>5, CallFields DEF Register!Requests, Ops, Saves
  <2>3. [u \in Threads |-> Seen(u)]' =
          [[u \in Threads |-> Seen(u)] EXCEPT ![t] = seen]
    BY <1>3, <2>1
  <2>4. Register!Request(t)
    BY <1>2, <2>2, <2>3 DEF Register!Request
  <2> QED
    BY <2>4
<1>6. CASE r.path \notin S3Paths
  <2>1. Seen(t)' = None
    BY <1>4, <1>6 DEF Seen
  <2> QED
    BY <1>2, <1>3, <2>1, Unseen
<1> QED
  BY <1>5, <1>6

LEMMA LeaveStep ==
    ASSUME StorageTypeOK, NEW t \in Threads, Leave(t)
    PROVE  Register!Return(t) \/ UNCHANGED Register!register
<1>1. /\ call' = [call EXCEPT ![t] = None] /\ object' = object
      /\ answer' = [answer EXCEPT ![t] = None] /\ answer[t] # None
      /\ at[t] = "done"
  BY DEF Leave, StorageTypeOK
<1>2. Seen(t)' = None /\ \A u \in Threads \ {t} : Seen(u)' = Seen(u)
  BY <1>1 DEF Seen, StorageTypeOK
<1>3. CASE call[t].path \in S3Paths
  <2>1. Seen(t) # None /\ Seen(t).answer # None
    BY <1>1, <1>3, SeenBusy
  <2>2. [u \in Threads |-> Seen(u)]' =
          [[u \in Threads |-> Seen(u)] EXCEPT ![t] = None]
    BY <1>2
  <2>3. Register!Return(t)
    BY <1>1, <2>1, <2>2 DEF Register!Return, Register!Pending
  <2> QED
    BY <2>3
<1>4. CASE call[t].path \notin S3Paths
  <2>1. Seen(t) = None
    BY <1>4 DEF Seen
  <2> QED
    BY <1>1, <1>2, <2>1, Unseen
<1> QED
  BY <1>3, <1>4

LEMMA WorkStep ==
    ASSUME StorageTypeOK, NEW t \in Threads, Work(t)
    PROVE  Register!Next \/ UNCHANGED Register!register
<1>1. CASE SeekClient(t) \/ ClientReady(t) \/ Upload(t)
  <2>1. UNCHANGED <<object, call, answer>>
    BY <1>1 DEF SeekClient, storage, ClientReady, Upload
  <2> QED
    BY <2>1, Unseen DEF Seen
<1>2. CASE ClientRaises(t) \/ Raise(t)
  <2>1. at[t] # "idle" /\ Finish(t, "raised") /\ UNCHANGED <<object, call>>
    BY <1>2 DEF ClientRaises, Raise
  <2>2. CASE call[t].path \in S3Paths
    BY <2>1, <2>2, SeenBusy, FinishSeen DEF Register!Raise, Register!Next
  <2>3. CASE call[t].path \notin S3Paths
    BY <2>1, <2>3, LocalUnseen DEF Finish, StorageTypeOK
  <2> QED
    BY <2>2, <2>3
<1>3. CASE Get(t) \/ Head(t)
  BY <1>3, ReadStep DEF Register!Next
<1>4. CASE Put(t) \/ Complete(t)
  BY <1>4, SaveStep DEF Register!Next
<1>5. CASE ReadLocal(t) \/ Truncate(t) \/ Rewrite(t) \/ RewriteRaises(t)
  <2>1. /\ at[t] # "idle" /\ UNCHANGED <<object, call>>
        /\ \A u \in Threads \ {t} : answer'[u] = answer[u]
    BY <1>5 DEF ReadLocal, Truncate, Rewrite, RewriteRaises, Finish,
                StorageTypeOK
  <2>2. call[t].path \notin S3Paths
    BY <1>5 DEF ReadLocal, Truncate, Rewrite, RewriteRaises, StorageTypeOK,
                LocalPaths
  <2> QED
    BY <2>1, <2>2, LocalUnseen
<1>6. CASE Leave(t)
  BY <1>6, LeaveStep DEF Register!Next
<1> QED
  BY <1>1, <1>2, <1>3, <1>4, <1>5, <1>6 DEF Work

\* Every step of the storage functions is a step of the register or none: a
\* load finds one save's content, whole and decompressed, on every S3 path.
THEOREM AtomicRegister == StorageSpec => ImplementsRegister
<1>1. StorageTypeOK /\ [StorageNext]_storageVars
        => [Register!Next]_(Register!register)
  <2>1. CASE UNCHANGED storageVars
    BY <2>1, Unseen DEF storageVars, storage, Seen
  <2>2. ASSUME StorageTypeOK, NEW t \in Threads, Request(t) \/ Work(t)
        PROVE  [Register!Next]_(Register!register)
    BY <2>2, RequestStep, WorkStep DEF Register!Next
  <2> QED
    BY <2>1, <2>2 DEF StorageNext
<1> QED
  BY <1>1, RegisterInit, StorageTypes, PTL
     DEF StorageSpec, ImplementsRegister, Register!Spec

-----------------------------------------------------------------------------
(* Local files.                                                               *)

\* A save that met no other one is the only one writing, and what it will
\* write goes into an empty file.
LoneWriter ==
    \A p \in LocalPaths, t \in Threads :
      lone[p] # None /\ Rewriting(t, p) =>
        /\ file[p] = Empty
        /\ call[t].content = lone[p]
        /\ \A u \in Threads \ {t} : ~Rewriting(u, p)

LoneInv == StorageTypeOK /\ LoneWriter /\ LoneSaveSticks

LEMMA LoneStep == LoneInv /\ [StorageNext]_storageVars => LoneInv'
<1> SUFFICES ASSUME LoneInv, [StorageNext]_storageVars
             PROVE  (LoneWriter /\ LoneSaveSticks)'
  BY TypeStep DEF LoneInv
<1> USE DEF LoneInv
<1>1. CASE UNCHANGED storageVars
  BY <1>1 DEF storageVars, storage, LoneWriter, LoneSaveSticks, Rewriting
\* Who begins or goes on without writing a local file.
<1>2. ASSUME NEW t \in Threads,
             Request(t) \/ Work(t),
             UNCHANGED <<file, lone>>,
             at[t] # "rewrite", at'[t] # "rewrite",
             \A u \in Threads \ {t} : at'[u] = at[u] /\ call'[u] = call[u]
      PROVE  (LoneWriter /\ LoneSaveSticks)'
  <2>1. \A u \in Threads, p \in LocalPaths : Rewriting(u, p)' <=> Rewriting(u, p)
    BY <1>2 DEF Rewriting
  <2>2. \A u \in Threads, p \in LocalPaths :
          Rewriting(u, p)' => call'[u] = call[u]
    BY <1>2 DEF Rewriting
  <2> QED
    BY <1>2, <2>1, <2>2 DEF LoneWriter, LoneSaveSticks
<1>3. ASSUME NEW t \in Threads, Truncate(t)
      PROVE  (LoneWriter /\ LoneSaveSticks)'
  <2> DEFINE p == call[t].path
  <2>1. /\ at[t] = "local" /\ p \in LocalPaths /\ UNCHANGED call
        /\ at' = [at EXCEPT ![t] = "rewrite"]
        /\ file' = [file EXCEPT ![p] = Empty]
        /\ lone' = [lone EXCEPT ![p] =
                      IF \E u \in Threads : Rewriting(u, p) THEN None
                      ELSE call[t].content]
    BY <1>3 DEF Truncate, At, StorageTypeOK
  <2>2. \A u \in Threads, q \in LocalPaths :
          Rewriting(u, q)' <=> Rewriting(u, q) \/ (u = t /\ q = p)
    BY <2>1 DEF Rewriting, StorageTypeOK
  <2>3. file'[p] = Empty /\ \A q \in LocalPaths \ {p} :
                              file'[q] = file[q] /\ lone'[q] = lone[q]
    BY <2>1 DEF StorageTypeOK
  <2>4. lone'[p] # None =>
          lone'[p] = call[t].content /\ \A u \in Threads : ~Rewriting(u, p)
    BY <2>1 DEF StorageTypeOK
  <2>5. LoneWriter'
    BY <2>1, <2>2, <2>3, <2>4 DEF LoneWriter
  <2>6. LoneSaveSticks'
    BY <2>1, <2>2, <2>3 DEF LoneSaveSticks
  <2> QED
    BY <2>5, <2>6
<1>4. ASSUME NEW t \in Threads, Rewrite(t) \/ RewriteRaises(t)
      PROVE  (LoneWriter /\ LoneSaveSticks)'
  <2> DEFINE p == call[t].path
  <2>1. /\ at[t] = "rewrite" /\ p \in LocalPaths /\ UNCHANGED call
        /\ at' = [at EXCEPT ![t] = "done"]
    BY <1>4 DEF Rewrite, RewriteRaises, Finish, At, StorageTypeOK
  <2>2. \A u \in Threads, q \in LocalPaths :
          Rewriting(u, q)' <=> Rewriting(u, q) /\ u # t
    BY <2>1 DEF Rewriting, StorageTypeOK
  <2>3. \A q \in LocalPaths \ {p} : file'[q] = file[q] /\ lone'[q] = lone[q]
    BY <1>4, <2>1 DEF Rewrite, RewriteRaises, StorageTypeOK
  <2>4. ~Rewriting(t, p)' /\ Rewriting(t, p)
        /\ \A q \in LocalPaths \ {p} : ~Rewriting(t, q)
    BY <2>1, <2>2 DEF Rewriting
  <2>5. lone'[p] # None => lone[p] # None /\ lone'[p] = lone[p]
                           /\ file'[p] = lone[p]
    <3>1. CASE Rewrite(t)
      <4>1. lone' = lone
        BY <3>1 DEF Rewrite
      <4>2. lone[p] # None => file[p] = Empty /\ call[t].content = lone[p]
        BY <2>1, <2>4 DEF LoneWriter
      <4> QED
        BY <2>1, <3>1, <4>1, <4>2 DEF Rewrite, StorageTypeOK
    <3>2. CASE RewriteRaises(t)
      BY <2>1, <3>2 DEF RewriteRaises, StorageTypeOK
    <3> QED
      BY <1>4, <3>1, <3>2
  <2>6. lone'[p] # None => \A u \in Threads : ~Rewriting(u, p)'
    BY <2>1, <2>2, <2>4, <2>5 DEF LoneWriter
  <2>7. LoneWriter'
    BY <2>1, <2>2, <2>3, <2>6 DEF LoneWriter
  <2>8. LoneSaveSticks'
    <3>1. ASSUME NEW q \in LocalPaths, lone'[q] # None,
                 \A u \in Threads : ~Rewriting(u, q)'
          PROVE  file'[q] = lone'[q]
      <4>1. CASE q = p
        BY <2>5, <3>1, <4>1
      <4>2. CASE q # p
        <5>1. \A u \in Threads : ~Rewriting(u, q)
          BY <2>2, <2>4, <3>1, <4>2
        <5> QED
          BY <2>3, <3>1, <4>2, <5>1 DEF LoneSaveSticks
      <4> QED
        BY <4>1, <4>2
    <3> QED
      BY <3>1 DEF LoneSaveSticks
  <2> QED
    BY <2>7, <2>8
<1>5. ASSUME NEW t \in Threads, Request(t)
      PROVE  (LoneWriter /\ LoneSaveSticks)'
  BY <1>2, <1>5 DEF Request, At, StorageTypeOK
<1>6. ASSUME NEW t \in Threads, Work(t),
             ~(Truncate(t) \/ Rewrite(t) \/ RewriteRaises(t))
      PROVE  (LoneWriter /\ LoneSaveSticks)'
  <2>1. /\ UNCHANGED <<file, lone>>
        /\ at[t] # "rewrite" /\ at'[t] # "rewrite"
        /\ \A u \in Threads \ {t} : at'[u] = at[u] /\ call'[u] = call[u]
    BY <1>6
       DEF Work, SeekClient, storage, ClientReady, ClientRaises, Get, Head,
           ReadLocal, Put, Upload, Complete, Store, Raise, Leave, Finish, At,
           StorageTypeOK
  <2> QED
    BY <1>2, <1>6, <2>1
<1> QED
  BY <1>1, <1>3, <1>4, <1>5, <1>6 DEF StorageNext

\* A local save that returned and met no other one has left its content, for
\* every number of threads and files.
THEOREM SavesStick == StorageSpec => []LoneSaveSticks
<1>1. StorageInit => LoneInv
  BY TypeInit
     DEF StorageInit, LoneInv, LoneWriter, LoneSaveSticks, Rewriting
<1>2. LoneInv => LoneSaveSticks
  BY DEF LoneInv
<1> QED
  BY <1>1, <1>2, LoneStep, PTL DEF StorageSpec
=============================================================================
