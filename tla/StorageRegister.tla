-------------------------- MODULE StorageRegister ----------------------------
(* What the S3 half of src/idi_ftm2j_shared/storage.py promises to its        *)
(* callers: each path is an atomic register.  A save takes effect whole, at   *)
(* one moment between its call and its return, or not at all; a load finds    *)
(* the content of one save, however that save compressed or uploaded it.      *)
(* Only an exception leaves open whether the save has taken effect.           *)
CONSTANTS Threads, Paths, Contents, Json, Empty, None

VARIABLES value, call

register == <<value, call>>

Requests ==
    [op : {"save", "load", "load_json", "exists"}, path : Paths,
     content : Contents, answer : {None}]

Init ==
    /\ value \in [Paths -> Contents \union {None}]
    /\ call = [t \in Threads |-> None]

Request(t) ==
    /\ call[t] = None
    /\ \E r \in Requests : call' = [call EXCEPT ![t] = r]
    /\ UNCHANGED value

\* json.loads of a content.  Nothing at all counts as an empty container.
Parsed(c) ==
    IF c = Empty THEN "empty container" ELSE IF c \in Json THEN c ELSE "raised"

Observed(r) ==
    LET c == IF value[r.path] = None THEN Empty ELSE value[r.path] IN
    CASE r.op = "load"      -> c
      [] r.op = "load_json" -> Parsed(c)
      [] r.op = "exists"    -> IF value[r.path] = None THEN "no" ELSE "yes"

Pending(t) == call[t] # None /\ call[t].answer = None

Answer(t, a) == call' = [call EXCEPT ![t].answer = a]

Save(t) ==
    /\ Pending(t) /\ call[t].op = "save"
    /\ value' = [value EXCEPT ![call[t].path] = call[t].content]
    /\ Answer(t, "saved")

Read(t) ==
    /\ Pending(t) /\ call[t].op # "save"
    /\ Answer(t, Observed(call[t]))
    /\ UNCHANGED value

Raise(t) ==
    /\ call[t] # None
    /\ Answer(t, "raised")
    /\ UNCHANGED value

Return(t) ==
    /\ call[t] # None /\ ~Pending(t)
    /\ call' = [call EXCEPT ![t] = None]
    /\ UNCHANGED value

Next ==
    \E t \in Threads : Request(t) \/ Save(t) \/ Read(t) \/ Raise(t) \/ Return(t)

Spec == Init /\ [][Next]_register
=============================================================================
