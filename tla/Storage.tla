------------------------------- MODULE Storage -------------------------------
(* The functions of src/idi_ftm2j_shared/storage.py, called by several        *)
(* threads: load_content, load_json, key_exists, save_content, save_json and  *)
(* save_stream, on S3 objects through the shared client and on local files.   *)
(* A step is what S3 or the file system does at once.  open_zip is left out:  *)
(* it changes nothing and reads through another library.                      *)
EXTENDS SharedClient

CONSTANTS
    Paths, S3Paths,
    Contents,       \* what callers save
    Empty,          \* b""
    Json,           \* the contents that json.loads accepts
    LargePlain,     \* the contents of _MULTIPART_THRESHOLD bytes or more
    LargeZipped,    \* those that are that large after compression, too
    Torn            \* part of a content, or parts of two: not JSON

ASSUME PathsAssumption == S3Paths \subseteq Paths
ASSUME ContentsAssumption == Empty \in Contents /\ Torn \notin Contents \union Json

LocalPaths == Paths \ S3Paths

VARIABLES
    object,     \* S3: path -> the object's body and encoding, or None
    file,       \* local: path -> the file's content, or None
    call,       \* what each thread is asked to do, or None
    at,         \* how far the call is
    answer,     \* what it is about to return, None while that is open
    lone        \* history: what the last local save wrote, None if it failed
                \* or met another one

clientVars == vars
storage == <<object, file, call, at, answer, lone>>
storageVars == <<clientVars, storage>>

Ops == {"load", "load_json", "exists", "save", "stream"}
Saves == {"save", "stream"}

\* A read has no content to save, and a stream is never compressed.
Calls ==
    { r \in [op : Ops, path : Paths, content : Contents, compress : BOOLEAN] :
        /\ r.op \notin Saves => r.content = Empty
        /\ r.op # "save" => ~r.compress }

\* gzip.compress, and its inverse.
Gzip(c) == [gzip |-> c]
Gunzip(b) == b.gzip

Object(b, e) == [body |-> b, encoding |-> e]

Objects ==
    { Object(c, None) : c \in Contents } \union
    { Object(Gzip(c), "gzip") : c \in Contents }

Answers ==
    Contents \union
    {Torn, "empty container", "yes", "no", "saved", "raised"}

ASSUME NoneIsNothing ==
    /\ None \notin Calls
    /\ None \notin Objects
    /\ None \notin Answers \union {"gzip"}
    /\ None \notin [op : Ops, path : Paths, content : Contents,
                     answer : Answers \union {None}]

\* Another process may have left anything there that these functions write.
StorageInit ==
    /\ Init
    /\ object \in [S3Paths -> Objects \union {None}]
    /\ file \in [LocalPaths -> Contents \union {None, Torn}]
    /\ call = [t \in Threads |-> None]
    /\ at = [t \in Threads |-> "idle"]
    /\ answer = [t \in Threads |-> None]
    /\ lone = [p \in LocalPaths |-> None]

At(t, stage) == at' = [at EXCEPT ![t] = stage]

Finish(t, a) ==
    /\ answer' = [answer EXCEPT ![t] = a]
    /\ At(t, "done")

\* The caller's thread enters one of the functions, which begins by telling S3
\* from local paths.
Request(t) ==
    /\ call[t] = None
    /\ \E r \in Calls :
         /\ call' = [call EXCEPT ![t] = r]
         /\ At(t, IF r.path \in S3Paths THEN "client" ELSE "local")
    /\ UNCHANGED <<clientVars, object, file, answer, lone>>

-----------------------------------------------------------------------------
(* The shared client.                                                         *)

SeekClient(t) ==
    /\ at[t] = "client"
    /\ Look(t) \/ Acquire(t) \/ LookAgain(t) \/ Create(t)
    /\ UNCHANGED storage

ClientReady(t) ==
    /\ at[t] = "client"
    /\ Return(t)
    /\ At(t, "s3")
    /\ UNCHANGED <<object, file, call, answer, lone>>

ClientRaises(t) ==
    /\ at[t] = "client"
    /\ CreateRaises(t)
    /\ Finish(t, "raised")
    /\ UNCHANGED <<object, file, call, lone>>

-----------------------------------------------------------------------------
(* Reading.                                                                   *)

\* json.loads; an empty body counts as a missing file.
Parsed(c) ==
    IF c = Empty THEN "empty container" ELSE IF c \in Json THEN c ELSE "raised"

Found(t, c) == IF call[t].op = "load_json" THEN Parsed(c) ELSE c

\* _s3_get_bytes, and b"" for NoSuchKey.
Bytes(o) ==
    IF o = None THEN Empty
    ELSE IF o.encoding = "gzip" THEN Gunzip(o.body) ELSE o.body

Get(t) ==
    /\ at[t] = "s3" /\ call[t].op \in {"load", "load_json"}
    /\ Finish(t, Found(t, Bytes(object[call[t].path])))
    /\ UNCHANGED <<clientVars, object, file, call, lone>>

Exists(f) == IF f = None THEN "no" ELSE "yes"

Head(t) ==
    /\ at[t] = "s3" /\ call[t].op = "exists"
    /\ Finish(t, Exists(object[call[t].path]))
    /\ UNCHANGED <<clientVars, object, file, call, lone>>

Rewriting(t, p) == at[t] = "rewrite" /\ call[t].path = p

\* A read that overlaps a write may also find part of it.
ReadLocal(t) ==
    LET p == call[t].path IN
    /\ at[t] = "local" /\ call[t].op \notin Saves
    /\ \/ /\ call[t].op = "exists"
          /\ Finish(t, Exists(file[p]))
       \/ /\ call[t].op # "exists"
          /\ Finish(t, Found(t, IF file[p] = None THEN Empty ELSE file[p]))
       \/ /\ call[t].op # "exists" /\ \E u \in Threads : Rewriting(u, p)
          /\ Finish(t, Found(t, Torn))
    /\ UNCHANGED <<clientVars, object, file, call, lone>>

-----------------------------------------------------------------------------
(* Writing to S3.                                                             *)

Large(r) == r.content \in IF r.compress THEN LargeZipped ELSE LargePlain

Stored(r) ==
    IF r.compress THEN Object(Gzip(r.content), "gzip")
                  ELSE Object(r.content, None)

Store(t, o) ==
    /\ object' = [object EXCEPT ![call[t].path] = o]
    /\ Finish(t, "saved")
    /\ UNCHANGED <<clientVars, file, call, lone>>

Put(t) ==
    /\ at[t] = "s3" /\ call[t].op = "save" /\ ~Large(call[t])
    /\ Store(t, Stored(call[t]))

\* Parts are uploaded; nobody sees them.
Upload(t) ==
    /\ at[t] = "s3"
    /\ \/ call[t].op = "stream"
       \/ call[t].op = "save" /\ Large(call[t])
    /\ At(t, "upload")
    /\ UNCHANGED <<clientVars, object, file, call, answer, lone>>

\* Mutant: ExtraArgs is not passed on.
CompleteBare(t) ==
    /\ at[t] = "upload"
    /\ Store(t, Object(Stored(call[t]).body, None))

Complete(t) ==
    /\ at[t] = "upload"
    /\ Store(t, Stored(call[t]))

-----------------------------------------------------------------------------
(* Writing to a local file.                                                   *)

\* Mutant: the file is opened without being truncated.
TruncateNot(t) ==
    LET p == call[t].path IN
    /\ at[t] = "local" /\ call[t].op \in Saves
    /\ lone' = [lone EXCEPT ![p] =
                  IF \E u \in Threads : Rewriting(u, p) THEN None
                  ELSE call[t].content]
    /\ At(t, "rewrite")
    /\ UNCHANGED <<clientVars, object, file, call, answer>>

Truncate(t) ==
    LET p == call[t].path IN
    /\ at[t] = "local" /\ call[t].op \in Saves
    /\ file' = [file EXCEPT ![p] = Empty]
    /\ lone' = [lone EXCEPT ![p] =
                  IF \E u \in Threads : Rewriting(u, p) THEN None
                  ELSE call[t].content]
    /\ At(t, "rewrite")
    /\ UNCHANGED <<clientVars, object, call, answer>>

\* The content goes over what is there by now, which is nothing unless
\* another thread is writing the same file.
Rewrite(t) ==
    LET p == call[t].path  c == call[t].content IN
    /\ at[t] = "rewrite"
    /\ \E f \in IF file[p] = Empty THEN {c} ELSE {c, Torn} :
         file' = [file EXCEPT ![p] = f]
    /\ Finish(t, "saved")
    /\ UNCHANGED <<clientVars, object, call, lone>>

\* The disk is full, or the stream that is copied breaks off.
RewriteRaises(t) ==
    LET p == call[t].path IN
    /\ at[t] = "rewrite"
    /\ \E f \in {file[p], Torn} : file' = [file EXCEPT ![p] = f]
    /\ lone' = [lone EXCEPT ![p] = None]
    /\ Finish(t, "raised")
    /\ UNCHANGED <<clientVars, object, call>>

-----------------------------------------------------------------------------
\* Anything else that raises: S3 refuses or does not answer, an upload is given
\* up, the answer to a put is lost after it took effect, a file cannot be
\* opened.
Raise(t) ==
    /\ \/ at[t] \in {"s3", "upload", "local"}
       \/ at[t] = "done" /\ call[t].path \in S3Paths /\ answer[t] = "saved"
    /\ Finish(t, "raised")
    /\ UNCHANGED <<clientVars, object, file, call, lone>>

Leave(t) ==
    /\ at[t] = "done"
    /\ call' = [call EXCEPT ![t] = None]
    /\ answer' = [answer EXCEPT ![t] = None]
    /\ At(t, "idle")
    /\ UNCHANGED <<clientVars, object, file, lone>>

Work(t) ==
    \/ SeekClient(t) \/ ClientReady(t) \/ ClientRaises(t)
    \/ Get(t) \/ Head(t) \/ ReadLocal(t)
    \/ Put(t) \/ Upload(t) \/ Complete(t)
    \/ Truncate(t) \/ Rewrite(t) \/ RewriteRaises(t)
    \/ Raise(t) \/ Leave(t)

StorageNext == \E t \in Threads : Request(t) \/ Work(t)

StorageSpec == StorageInit /\ [][StorageNext]_storageVars

\* A thread inside a function goes on when it can: S3 and the file system
\* answer or fail.  The lock is not assumed to be fair.
FairStorageSpec == StorageSpec /\ \A t \in Threads : WF_storageVars(Work(t))

-----------------------------------------------------------------------------
StorageTypeOK ==
    /\ object \in [S3Paths -> Objects \union {None}]
    /\ file \in [LocalPaths -> Contents \union {None, Torn}]
    /\ call \in [Threads -> Calls \union {None}]
    /\ at \in [Threads -> {"idle", "client", "s3", "upload",
                           "local", "rewrite", "done"}]
    /\ answer \in [Threads -> Answers \union {None}]
    /\ lone \in [LocalPaths -> Contents \union {None}]
    /\ \A t \in Threads :
         /\ call[t] = None <=> at[t] = "idle"
         /\ answer[t] # None <=> at[t] = "done"
         /\ at[t] \in {"client", "s3", "upload"} => call[t].path \in S3Paths
         /\ at[t] \in {"local", "rewrite"} => call[t].path \in LocalPaths
         /\ at[t] \in {"upload", "rewrite"} => call[t].op \in Saves

\* What S3 holds under a path: its content, however it is encoded.
Value(o) == IF o = None THEN None ELSE Bytes(o)

\* A call on an S3 path as its caller sees it.
Seen(t) ==
    IF call[t] = None THEN None
    ELSE IF call[t].path \notin S3Paths THEN None
    ELSE [op |-> IF call[t].op \in Saves THEN "save" ELSE call[t].op,
          path |-> call[t].path, content |-> call[t].content,
          answer |-> answer[t]]

Register == INSTANCE StorageRegister WITH
    Paths <- S3Paths,
    value <- [p \in S3Paths |-> Value(object[p])],
    call  <- [t \in Threads |-> Seen(t)]

\* An S3 path is an atomic register: whatever a save compressed, put or
\* uploaded in parts, a load that any thread makes finds the content of exactly
\* one save, whole and decompressed, and never a mixture, an older one than a
\* returned save left, or bytes that are still compressed.
ImplementsRegister == Register!Spec

\* A local file promises less, since it is rewritten in place: a save that
\* returned and met no other save has left its content, whatever state failed
\* or overlapping saves had left the file in.
LoneSaveSticks ==
    \A p \in LocalPaths :
      lone[p] # None /\ (\A t \in Threads : ~Rewriting(t, p))
        => file[p] = lone[p]

\* Once there is a client, every call returns or raises: nobody waits for the
\* client's lock for ever, also if earlier attempts to create it raised.
CallsReturn == \A t \in Threads : client # 0 /\ call[t] # None ~> call[t] = None
=============================================================================
