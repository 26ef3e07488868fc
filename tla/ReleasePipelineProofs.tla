------------------------ MODULE ReleasePipelineProofs ------------------------
(* Theorems about ReleasePipeline, for any number of pushes and failures.     *)
EXTENDS ReleasePipeline, TLAPS

CommitType ==
    [past : SUBSET Nat, version : Nat, kind : Kinds \union {"src", None},
     bot : BOOLEAN]

\* A commit is behind itself, it has behind it what those behind it have, and
\* versions do not fall along a history.
WellFormed(cs) ==
    /\ cs \in Seq(CommitType)
    /\ \A d \in 1 .. Len(cs) :
         /\ d \in cs[d].past /\ cs[d].past \subseteq 1 .. d
         /\ \A c \in cs[d].past : /\ cs[c].past \subseteq cs[d].past
                                  /\ cs[c].version <= cs[d].version

\* The version of c is new.
IsBump(c) == \A p \in Past(c) \ {c} : commits[p].version < commits[c].version

TagFor(b, c) == [version |-> VersionOf(b, c), commit |-> c]

TagOK(t) == /\ t.commit \in 1 .. Len(commits)
            /\ \/ t = TagFor("dev", t.commit)
               \/ t = TagFor("main", t.commit) /\ IsBump(t.commit)

TagsOK == /\ \A t \in tags : TagOK(t)
          /\ \A t, u \in tags : t.version = u.version => t = u

\* How far a run's version and build jobs have come is told by its target, the
\* tags and its dist.
RunOK(b, r) ==
    /\ r \in RunType
    /\ r.status["version"] \in {"tag", "release", "ok"} =>
         r.target \in 1 .. Len(commits) /\ (b = "main" => IsBump(r.target))
    /\ r.status["version"] \in {"release", "ok"} => TagFor(b, r.target) \in tags
    /\ r.status["build"] = "ok" =>
         b = "main" /\ r.status["version"] = "ok" /\ r.dist = r.target
    /\ r.status["sync"] = "push" => r.fetched \in [Branches -> 1 .. Len(commits)]

RunsOK(b) ==
    /\ \A r : r \in running[b] \/ (r = waiting[b] /\ r # None) => RunOK(b, r)
    /\ waiting[b] # None => waiting[b].status = [job \in Jobs |-> "todo"]

DistsOK == PackagesMatchTags

IInv ==
    /\ WellFormed(commits)
    /\ head \in [Branches -> 1 .. Len(commits)]
    /\ waiting \in [Branches -> UNION {RunType, {None}}]
    /\ running \in [Branches -> SUBSET RunType]
    /\ TagsOK
    /\ \A b \in Branches : RunsOK(b)
    /\ DistsOK

-----------------------------------------------------------------------------
(* Histories.                                                                 *)

\* DOMAIN commits, as the provers like it.
LEMMA Domain ==
    ASSUME WellFormed(commits)
    PROVE  /\ DOMAIN commits = 1 .. Len(commits) /\ Len(commits) \in Nat
           /\ \A c \in 1 .. Len(commits) : commits[c] \in CommitType
BY DEF WellFormed

\* A commit that builds on known ones and does not lower their versions leaves
\* the history well formed.
LEMMA Appended ==
    ASSUME WellFormed(commits),
           NEW parents \in SUBSET (1 .. Len(commits)),
           NEW commit \in CommitType,
           commit.past = Upon(parents),
           \A c \in parents : commits[c].version <= commit.version
    PROVE  LET cs == Append(commits, commit)
           IN  /\ WellFormed(cs)
               /\ Len(cs) = Len(commits) + 1
               /\ \A c \in 1 .. Len(commits) : cs[c] = commits[c]
               /\ cs[New] = commit
<1> DEFINE cs == Append(commits, commit)
<1>1. /\ cs \in Seq(CommitType) /\ Len(cs) = Len(commits) + 1
      /\ \A c \in 1 .. Len(commits) : cs[c] = commits[c]
      /\ cs[New] = commit
  BY DEF WellFormed, New
<1> HIDE DEF cs
<1>2. Len(commits) \in Nat
  BY DEF WellFormed
<1>3. ASSUME NEW d \in 1 .. Len(commits)
      PROVE  /\ d \in cs[d].past /\ cs[d].past \subseteq 1 .. d
             /\ \A c \in cs[d].past : /\ cs[c].past \subseteq cs[d].past
                                      /\ cs[c].version <= cs[d].version
  <2>1. /\ d \in commits[d].past /\ commits[d].past \subseteq 1 .. d
        /\ \A c \in commits[d].past : /\ commits[c].past \subseteq commits[d].past
                                      /\ commits[c].version <= commits[d].version
    BY DEF WellFormed
  <2>2. \A c \in commits[d].past : c \in 1 .. Len(commits)
    BY <2>1, <1>2
  <2>3. cs[d] = commits[d] /\ \A c \in commits[d].past : cs[c] = commits[c]
    BY <2>2, <1>1
  <2>4. QED
    BY <2>1, <2>3
<1>4. /\ New \in cs[New].past /\ cs[New].past \subseteq 1 .. New
      /\ \A c \in cs[New].past : /\ cs[c].past \subseteq cs[New].past
                                 /\ cs[c].version <= cs[New].version
  <2>1. cs[New].past = {c \in 1 .. Len(commits) :
                          \E p \in parents : c \in commits[p].past} \union {New}
    BY <1>1, Domain DEF Upon, Past
  <2>2. ASSUME NEW c \in cs[New].past, c # New
        PROVE  /\ c \in 1 .. Len(commits)
               /\ cs[c].past \subseteq cs[New].past
               /\ cs[c].version <= cs[New].version
    <3>1. PICK p \in parents : c \in commits[p].past
      BY <2>1, <2>2
    <3>2. /\ commits[p].past \subseteq 1 .. p
          /\ commits[c].past \subseteq commits[p].past
          /\ commits[c].version <= commits[p].version
      BY <3>1 DEF WellFormed
    <3>3. c \in 1 .. Len(commits)
      BY <3>1, <3>2, <1>2
    <3>4. commits[c] \in CommitType /\ commits[p] \in CommitType
      BY <3>3, Domain
    <3>5. commits[c].version <= commit.version
      BY <3>2, <3>4 DEF CommitType
    <3>6. QED
      BY <3>2, <3>3, <3>5, <2>1, <1>1 DEF Past
  <2>3. cs[New].version <= cs[New].version
    BY <1>1 DEF CommitType
  <2>4. cs[New].past \subseteq 1 .. New
    BY <2>2, <1>2 DEF New
  <2>5. ASSUME NEW c \in cs[New].past
        PROVE  /\ cs[c].past \subseteq cs[New].past
               /\ cs[c].version <= cs[New].version
    <3>1. CASE c = New
      BY <2>3, <3>1
    <3>2. CASE c # New
      BY <2>2, <3>2
    <3>3. QED
      BY <3>1, <3>2
  <2>6. QED
    BY <2>1, <2>4, <2>5
<1>5. QED
  <2>1. \A d \in 1 .. Len(cs) : d \in 1 .. Len(commits) \/ d = New
    BY <1>1, <1>2 DEF New
  <2>2. WellFormed(cs)
    BY <1>1, <1>3, <1>4, <2>1 DEF WellFormed
  <2>3. QED
    BY <2>2, <1>1 DEF cs

-----------------------------------------------------------------------------
(* What a step that only adds leaves true.                                    *)

Grown ==
    /\ WellFormed(commits)'
    /\ Len(commits) <= Len(commits')
    /\ \A c \in 1 .. Len(commits) : commits'[c] = commits[c]
    /\ tags \subseteq tags'

LEMMA Stays ==
    ASSUME WellFormed(commits), UNCHANGED commits, tags \subseteq tags'
    PROVE  Grown
BY Domain DEF Grown, WellFormed

LEMMA CommitKept ==
    ASSUME WellFormed(commits), Grown, NEW c \in 1 .. Len(commits)
    PROVE  /\ c \in 1 .. Len(commits')
           /\ Past(c)' = Past(c)
           /\ IsBump(c) => IsBump(c)'
           /\ \A b \in Branches : TagFor(b, c)' = TagFor(b, c)
<1>1. Len(commits) \in Nat /\ Len(commits') \in Nat
  BY Domain DEF Grown, WellFormed
<1>2. c \in 1 .. Len(commits') /\ Past(c)' = Past(c) /\ commits'[c] = commits[c]
  BY <1>1 DEF Grown, Past
<1>3. \A p \in Past(c) : p \in 1 .. Len(commits)
  BY <1>1 DEF WellFormed, Past
<1>4. IsBump(c) => IsBump(c)'
  BY <1>2, <1>3 DEF IsBump, Grown
<1>5. \A b \in Branches : TagFor(b, c)' = TagFor(b, c)
  BY <1>2 DEF TagFor, VersionOf, Stable, Alpha
<1>6. QED
  BY <1>2, <1>4, <1>5

LEMMA TypeKept ==
    ASSUME WellFormed(commits), Grown
    PROVE  \A r \in RunType : r \in RunType'
<1>1. DOMAIN commits \subseteq DOMAIN commits'
  BY Domain DEF Grown, WellFormed
<1>2. QED
  BY <1>1 DEF RunType

LEMMA RunKept ==
    ASSUME WellFormed(commits), Grown,
           NEW b \in Branches, NEW r, RunOK(b, r)
    PROVE  RunOK(b, r)'
<1>0. 1 .. Len(commits) \subseteq 1 .. Len(commits')
  BY Domain DEF Grown, WellFormed
<1>1. /\ r \in RunType'
      /\ r.status["sync"] = "push" => r.fetched \in [Branches -> 1 .. Len(commits')]
  BY <1>0, TypeKept DEF RunOK
<1>2. CASE r.status["version"] \in {"tag", "release", "ok"}
  <2>1. r.target \in 1 .. Len(commits)
    BY <1>2 DEF RunOK
  <2>2. QED
    BY <1>1, <2>1, CommitKept DEF RunOK, Grown
<1>3. CASE r.status["version"] \notin {"tag", "release", "ok"}
  BY <1>1, <1>3 DEF RunOK
<1>4. QED
  BY <1>2, <1>3

LEMMA TagsKept ==
    ASSUME WellFormed(commits), Grown, TagsOK, UNCHANGED tags
    PROVE  TagsOK'
<1>1. ASSUME NEW t \in tags
      PROVE  TagOK(t)'
  <2>1. TagOK(t)
    BY DEF TagsOK
  <2>2. t.commit \in 1 .. Len(commits)
    BY <2>1 DEF TagOK
  <2>3. QED
    BY <2>1, <2>2, CommitKept DEF TagOK, Branches
<1>2. QED
  BY <1>1 DEF TagsOK

LEMMA DistsKept ==
    ASSUME DistsOK, tags \subseteq tags', UNCHANGED <<packages, assets>>
    PROVE  DistsOK'
BY DEF DistsOK, PackagesMatchTags

\* No branch loses the commit it points to.
HeadsKept == \A b \in Branches : head[b] \in commits'[head'[b]].past

\* What a step may do to the queue and to the runs.
Queued == /\ waiting' \in [Branches -> UNION {RunType', {None}}]
          /\ \A b \in Branches :
               \/ waiting'[b] \in {waiting[b], None}
               \/ \E before, after \in 1 .. Len(commits') :
                    waiting'[b] = Run(before, after)

Advanced == /\ running' \in [Branches -> SUBSET RunType']
            /\ \A b \in Branches : \A r \in running'[b] :
                 r \in running[b] \/ RunOK(b, r)'

LEMMA FreshRun ==
    ASSUME WellFormed(commits)', NEW b \in Branches,
           NEW before \in 1 .. Len(commits'), NEW after \in 1 .. Len(commits')
    PROVE  RunOK(b, Run(before, after))'
<1>1. DOMAIN commits' = 1 .. Len(commits')
  BY DEF WellFormed
<1>2. QED
  BY <1>1 DEF RunOK, Run, RunType, Jobs, Statuses

LEMMA Composed ==
    ASSUME IInv, Grown, head' \in [Branches -> 1 .. Len(commits')],
           Queued, Advanced, TagsOK', DistsOK'
    PROVE  IInv'
<1>1. ASSUME NEW b \in Branches PROVE RunsOK(b)'
  <2>1. ASSUME NEW r, r = waiting'[b], r # None
        PROVE  RunOK(b, r)' /\ r.status = [job \in Jobs |-> "todo"]
    <3>1. CASE r = waiting[b]
      BY <2>1, <3>1, RunKept DEF IInv, RunsOK
    <3>2. CASE \E before, after \in 1 .. Len(commits') : r = Run(before, after)
      BY <3>2, FreshRun DEF Grown, Run
    <3>3. QED
      BY <2>1, <3>1, <3>2 DEF Queued
  <2>2. ASSUME NEW r \in running'[b] PROVE RunOK(b, r)'
    <3>1. r \in running[b] \/ RunOK(b, r)'
      BY DEF Advanced
    <3>2. CASE r \in running[b]
      BY <3>2, RunKept DEF IInv, RunsOK
    <3>3. QED
      BY <3>1, <3>2
  <2>3. QED
    BY <2>1, <2>2 DEF RunsOK
<1>2. QED
  BY <1>1 DEF IInv, Grown, Queued, Advanced

-----------------------------------------------------------------------------
(* Pushes.                                                                    *)

LEMMA Pushed ==
    ASSUME IInv, Grown, NEW b \in Branches, NEW c \in 1 .. Len(commits'),
           NEW cs, Push(b, cs, c)
    PROVE  head' \in [Branches -> 1 .. Len(commits')] /\ Queued
<1>1. /\ Len(commits) \in Nat /\ Len(commits') \in Nat
      /\ 1 .. Len(commits) \subseteq 1 .. Len(commits')
  BY Domain DEF IInv, Grown, WellFormed
<1>2. head' \in [Branches -> 1 .. Len(commits')]
  BY <1>1 DEF IInv, Push
<1>3. head[b] \in 1 .. Len(commits')
  BY <1>1 DEF IInv
<1>4. Run(head[b], c) \in RunType'
  BY <1>3, FreshRun DEF Grown, RunOK
<1>5. \/ waiting' = waiting
      \/ waiting' = [waiting EXCEPT ![b] = Run(head[b], c)]
  BY DEF Push
<1>6. waiting \in [Branches -> UNION {RunType', {None}}]
  BY TypeKept DEF IInv
<1>7. waiting' \in [Branches -> UNION {RunType', {None}}]
  BY <1>4, <1>5, <1>6
<1>8. QED
  BY <1>2, <1>3, <1>5, <1>6, <1>7 DEF Queued

LEMMA PushedNew ==
    ASSUME IInv, NEW b \in Branches,
           NEW parents \in SUBSET (1 .. Len(commits)), NEW commit \in CommitType,
           commit.past = Upon(parents),
           \A p \in parents : commits[p].version <= commit.version,
           PushNew(b, commit), UNCHANGED tags
    PROVE  /\ Grown /\ head' \in [Branches -> 1 .. Len(commits')] /\ Queued
           /\ New \in 1 .. Len(commits') /\ commits'[New] = commit
<1>1. /\ WellFormed(commits') /\ Len(commits') = Len(commits) + 1
      /\ \A c \in 1 .. Len(commits) : commits'[c] = commits[c]
      /\ commits'[New] = commit
  BY Appended DEF IInv, PushNew
<1>2. Len(commits) \in Nat
  BY Domain DEF IInv
<1>3. Grown /\ New \in 1 .. Len(commits')
  BY <1>1, <1>2 DEF Grown, New, WellFormed
<1>4. QED
  BY <1>1, <1>3, Pushed DEF PushNew

LEMMA HeadsStay ==
    ASSUME IInv, Grown, UNCHANGED head
    PROVE  HeadsKept /\ head' \in [Branches -> 1 .. Len(commits')]
<1>1. /\ Len(commits) \in Nat /\ Len(commits') \in Nat
      /\ 1 .. Len(commits) \subseteq 1 .. Len(commits')
  BY Domain DEF IInv, Grown, WellFormed
<1>2. \A b \in Branches : head[b] \in 1 .. Len(commits)
  BY DEF IInv
<1>3. HeadsKept
  BY <1>1, <1>2 DEF HeadsKept, Grown, WellFormed
<1>4. QED
  BY <1>1, <1>3 DEF IInv

LEMMA PushKeepsHeads ==
    ASSUME IInv, Grown, NEW b \in Branches, NEW c \in 1 .. Len(commits'),
           NEW cs, Push(b, cs, c), head[b] \in commits'[c].past
    PROVE  HeadsKept
<1>1. head' = [head EXCEPT ![b] = c]
  BY DEF Push
<1>2. \A x \in Branches : /\ head[x] \in 1 .. Len(commits)
                         /\ commits'[head[x]] = commits[head[x]]
                         /\ head[x] \in commits[head[x]].past
  BY DEF IInv, WellFormed, Grown
<1>3. QED
  BY <1>1, <1>2 DEF HeadsKept, IInv

LEMMA QueueStays ==
    ASSUME IInv, Grown, UNCHANGED waiting
    PROVE  Queued
BY TypeKept DEF IInv, Queued

LEMMA RunsOnlyKept ==
    ASSUME IInv, Grown, UNCHANGED running
    PROVE  Advanced
BY TypeKept DEF IInv, Advanced

LEMMA MergeKeeps ==
    ASSUME IInv, NEW b \in Branches, NEW kind \in Kinds, Merge(b, kind)
    PROVE  IInv' /\ HeadsKept
<1> DEFINE commit == Commit(Upon({head[b]}), commits[head[b]].version, kind, FALSE)
<1>1. head[b] \in 1 .. Len(commits) /\ commits[head[b]] \in CommitType
  BY Domain DEF IInv
<1>2. Upon({head[b]}) \in SUBSET Nat /\ head[b] \in Upon({head[b]})
  BY <1>1, Domain DEF IInv, Upon, New, Past, WellFormed
<1>3. /\ commit \in CommitType /\ commit.past = Upon({head[b]})
      /\ commits[head[b]].version <= commit.version
  <2>1. commits[head[b]].version \in Nat
    BY <1>1 DEF CommitType
  <2>2. commit \in CommitType
    BY <1>2, <2>1 DEF Commit, CommitType
  <2>3. commit.past = Upon({head[b]}) /\ commit.version = commits[head[b]].version
    BY DEF Commit
  <2> HIDE DEF commit
  <2>4. QED
    BY <2>1, <2>2, <2>3
<1>4. PushNew(b, commit) /\ UNCHANGED <<running, tags, packages, assets>>
  BY DEF Merge
<1>5. /\ Grown /\ head' \in [Branches -> 1 .. Len(commits')] /\ Queued
      /\ commits'[New] = commit /\ New \in 1 .. Len(commits')
  <2> HIDE DEF commit
  <2>1. QED
    BY <1>1, <1>3, <1>4, PushedNew
<1>6. HeadsKept
  <2> HIDE DEF commit
  <2>1. head[b] \in commits'[New].past
    BY <1>2, <1>3, <1>5
  <2>2. QED
    BY <2>1, <1>4, <1>5, PushKeepsHeads DEF PushNew
<1>7. IInv'
  BY <1>4, <1>5, Composed, RunsOnlyKept, TagsKept, DistsKept DEF IInv
<1>8. QED
  BY <1>6, <1>7

LEMMA PromoteKeeps ==
    ASSUME IInv, Promote
    PROVE  IInv' /\ HeadsKept
<1> DEFINE parents == {head["main"], head["dev"]}
           commit == Commit(Upon(parents), Larger(commits[head["main"]].version,
                                                  commits[head["dev"]].version),
                            None, FALSE)
<1>1. /\ \A b \in Branches : /\ head[b] \in 1 .. Len(commits)
                             /\ commits[head[b]] \in CommitType
      /\ parents \in SUBSET (1 .. Len(commits))
  BY Domain DEF IInv, Branches
<1>2. Upon(parents) \in SUBSET Nat /\ head["main"] \in Upon(parents)
  BY <1>1, Domain DEF IInv, Upon, New, Past, WellFormed, Branches
<1>3. /\ commit \in CommitType /\ commit.past = Upon(parents)
      /\ \A p \in parents : commits[p].version <= commit.version
  <2>1. \A b \in Branches : commits[head[b]].version \in Nat
    BY <1>1 DEF CommitType
  <2>2. Larger(commits[head["main"]].version, commits[head["dev"]].version) \in Nat
    BY <2>1 DEF Larger, Branches
  <2>3. commit \in CommitType
    BY <1>2, <2>2 DEF Commit, CommitType
  <2>4. /\ commit.past = Upon(parents)
        /\ commit.version = Larger(commits[head["main"]].version,
                                   commits[head["dev"]].version)
    BY DEF Commit
  <2> HIDE DEF commit
  <2>5. \A p \in parents : commits[p].version <= commit.version
    BY <2>1, <2>4 DEF Larger, Branches
  <2>6. QED
    BY <2>3, <2>4, <2>5
<1>4. PushNew("main", commit) /\ UNCHANGED <<running, tags, packages, assets>>
  BY DEF Promote
<1>5. /\ Grown /\ head' \in [Branches -> 1 .. Len(commits')] /\ Queued
      /\ commits'[New] = commit /\ New \in 1 .. Len(commits')
  <2> HIDE DEF commit, parents
  <2>1. QED
    BY <1>1, <1>3, <1>4, PushedNew DEF Branches
<1>6. HeadsKept
  <2> HIDE DEF commit, parents
  <2>1. head["main"] \in commits'[New].past
    BY <1>2, <1>3, <1>5
  <2>2. QED
    BY <2>1, <1>4, <1>5, PushKeepsHeads DEF PushNew, Branches
<1>7. IInv'
  BY <1>4, <1>5, Composed, RunsOnlyKept, TagsKept, DistsKept DEF IInv
<1>8. QED
  BY <1>6, <1>7

-----------------------------------------------------------------------------
(* Steps of a run.                                                            *)

LEMMA BecomesAdvances ==
    ASSUME IInv, Grown, NEW b \in Branches, NEW r \in running[b],
           NEW run, RunOK(b, run)', Becomes(b, r, run)
    PROVE  Advanced
<1>1. running \in [Branches -> SUBSET RunType'] /\ run \in RunType'
  BY TypeKept DEF IInv, RunOK
<1>2. QED
  BY <1>1 DEF Advanced, Becomes

\* A step of a run that pushes nothing.
LEMMA JobKeeps ==
    ASSUME IInv, NEW b \in Branches, NEW r \in running[b], NEW run,
           RunOK(b, run)', Becomes(b, r, run), TagsOK', DistsOK',
           UNCHANGED <<commits, head, waiting>>, tags \subseteq tags'
    PROVE  IInv' /\ HeadsKept
<1>1. Grown
  BY Stays DEF IInv
<1>2. QED
  BY <1>1, BecomesAdvances, QueueStays, HeadsStay, Composed

LEMMA RunFields ==
    ASSUME NEW r \in RunType', NEW job \in Jobs, NEW st \in Statuses
    PROVE  /\ Goto(r, job, st) \in RunType'
           /\ r.status \in [Jobs -> Statuses]
           /\ Goto(r, job, st).status = [r.status EXCEPT ![job] = st]
           /\ Goto(r, job, st).target = r.target
           /\ Goto(r, job, st).fetched = r.fetched
           /\ Goto(r, job, st).dist = r.dist
BY DEF RunType, Goto

LEMMA OldRun ==
    ASSUME IInv, NEW b \in Branches, NEW r \in running[b]
    PROVE  RunOK(b, r) /\ (Grown => RunOK(b, r)')
BY RunKept DEF IInv, RunsOK

\* A job that ends, other than version and build with success.
LEMMA GotoOK ==
    ASSUME NEW b \in Branches, NEW r, RunOK(b, r)',
           NEW job \in Jobs, NEW st \in {"ok", "failed"},
           st = "ok" => job \notin {"version", "build"},
           job = "version" => r.status["version"] # "ok"
    PROVE  RunOK(b, Goto(r, job, st))'
<1>1. r \in RunType' /\ st \in Statuses
  BY DEF RunOK, Statuses
<1>2. QED
  <2> DEFINE g == Goto(r, job, st)
  <2>1. /\ g \in RunType' /\ g.target = r.target /\ g.fetched = r.fetched
        /\ g.dist = r.dist /\ g.status = [r.status EXCEPT ![job] = st]
        /\ r.status \in [Jobs -> Statuses]
    BY <1>1, RunFields
  <2> HIDE DEF g
  <2>2. /\ g.status["version"] \in {"tag", "release", "ok"}
             => g.status["version"] = r.status["version"]
        /\ g.status["build"] = "ok" => r.status["build"] = "ok"
        /\ g.status["sync"] = "push" => r.status["sync"] = "push"
        /\ r.status["version"] = "ok" => g.status["version"] = "ok"
    BY <2>1 DEF Jobs
  <2>3. RunOK(b, g)'
    BY <2>1, <2>2 DEF RunOK
  <2>4. QED
    BY <2>3 DEF g

\* What Ready says of the jobs before.
LEMMA ReadyFacts ==
    ASSUME NEW b \in Branches, NEW r, NEW job \in Jobs, Ready(b, r, job)
    PROVE  /\ r.status[job] = "todo"
           /\ job \in {"build", "publish", "assets", "sync"}
                => r.status["version"] = "ok"
           /\ job \in {"publish", "assets"} => r.status["build"] = "ok"
           /\ job = "build" => b = "main"
<1>1. /\ "version" \in Upstream["build"] /\ "version" \in Upstream["sync"]
      /\ {"version", "build"} \subseteq Upstream["publish"]
      /\ {"version", "build"} \subseteq Upstream["assets"]
  BY DEF Upstream, Jobs
<1>2. job = "build" => b = "main"
  BY DEF Ready, WillRun, Wanted, Jobs
<1>3. QED
  BY <1>1, <1>2 DEF Ready

LEMMA FailKeeps ==
    ASSUME IInv, NEW b \in Branches, NEW r \in running[b], Fail(b, r)
    PROVE  IInv' /\ HeadsKept
<1>1. PICK job \in Jobs :
        /\ Ready(b, r, job) \/ r.status[job] \notin {"todo", "ok", "failed"}
        /\ Becomes(b, r, Goto(r, job, "failed"))
  BY DEF Fail
<1>2. r.status[job] # "ok"
  BY <1>1, ReadyFacts
<1>3. Grown
  BY Stays DEF IInv, Fail
<1>4. RunOK(b, Goto(r, job, "failed"))'
  BY <1>2, <1>3, OldRun, GotoOK
<1>5. QED
  BY <1>1, <1>3, <1>4, JobKeeps, TagsKept, DistsKept DEF IInv, Fail

LEMMA FinishKeeps ==
    ASSUME IInv, NEW b \in Branches, NEW r \in running[b], Finish(b, r)
    PROVE  IInv' /\ HeadsKept
<1>1. Grown
  BY Stays DEF IInv, Finish
<1>2. Advanced
  BY <1>1, TypeKept DEF IInv, Finish, Advanced
<1>3. QED
  BY <1>1, <1>2, QueueStays, HeadsStay, Composed, TagsKept, DistsKept
     DEF IInv, Finish

LEMMA StartKeeps ==
    ASSUME IInv, NEW b \in Branches, Start(b) \/ StartFails(b)
    PROVE  IInv' /\ HeadsKept
<1>1. /\ waiting[b] # None /\ waiting' = [waiting EXCEPT ![b] = None]
      /\ UNCHANGED <<commits, head, tags, packages, assets>>
  BY DEF Start, StartFails
<1>2. Grown
  BY <1>1, Stays DEF IInv
<1>3. Queued
  BY <1>1, <1>2, TypeKept DEF IInv, Queued
<1>4. PICK r : r = waiting[b]
  OBVIOUS
<1>5. /\ RunOK(b, r) /\ r.status = [job \in Jobs |-> "todo"] /\ r \in RunType
      /\ RunOK(b, r)'
  BY <1>1, <1>2, <1>4, RunKept DEF IInv, RunsOK, RunOK
<1>6. PICK run : run = Detected(r)
  OBVIOUS
<1>7. RunOK(b, run)'
  <2>1. Changed(commits, r.before, r.head) \in SUBSET (Kinds \union {"src"})
    <3>1. /\ r.before \in 1 .. Len(commits) /\ r.head \in 1 .. Len(commits)
          /\ Len(commits) \in Nat
      BY <1>5, Domain DEF RunType, IInv
    <3>2. \A c \in commits[r.head].past : commits[c] \in CommitType
      BY <3>1, Domain DEF IInv, WellFormed
    <3>3. QED
      BY <3>2 DEF Changed, CommitType
  <2>2. r \in RunType'
    BY <1>5 DEF RunOK
  <2>3. /\ run \in RunType' /\ run.status = [r.status EXCEPT !["changes"] = "ok"]
        /\ r.status \in [Jobs -> Statuses]
    BY <1>6, <2>1, <2>2 DEF Detected, Goto, RunType, Jobs, Statuses
  <2>4. QED
    BY <1>5, <2>3 DEF RunOK, Jobs
<1>8. Advanced
  <2>1. running' = running \/ running' = [running EXCEPT ![b] = {run}]
    BY <1>4, <1>6 DEF Start, StartFails
  <2>2. run \in RunType' /\ running \in [Branches -> SUBSET RunType']
    BY <1>2, <1>7, TypeKept DEF RunOK, IInv
  <2>3. QED
    BY <2>1, <2>2, <1>7 DEF Advanced
<1>9. QED
  BY <1>1, <1>2, <1>3, <1>8, HeadsStay, Composed, TagsKept, DistsKept DEF IInv

\* Jobs that end without touching what RunOK speaks of.
LEMMA DeployKeeps ==
    ASSUME IInv, NEW b \in Branches, NEW r \in running[b], Deploy(b, r)
    PROVE  IInv' /\ HeadsKept
<1>1. Grown
  BY Stays DEF IInv, Deploy
<1>2. RunOK(b, Goto(r, "pulumi", "ok"))'
  BY <1>1, OldRun, GotoOK DEF Jobs
<1>3. QED
  BY <1>1, <1>2, JobKeeps, TagsKept, DistsKept DEF IInv, Deploy

LEMMA ComputeAlphaKeeps ==
    ASSUME IInv, NEW b \in Branches, NEW r \in running[b], ComputeAlpha(b, r)
    PROVE  IInv' /\ HeadsKept
<1> DEFINE run == Tagging(r, r.head)
<1>1. Grown /\ UNCHANGED commits
  BY Stays DEF IInv, ComputeAlpha
<1>2. /\ r \in RunType' /\ RunOK(b, r)' /\ r.status["version"] = "todo" /\ b = "dev"
  BY <1>1, OldRun, ReadyFacts DEF RunOK, ComputeAlpha, Jobs
<1>3. r.head \in 1 .. Len(commits') /\ DOMAIN commits' = 1 .. Len(commits')
  BY <1>2 DEF RunType, Grown, WellFormed
<1>4. /\ run \in RunType' /\ run.target = r.head /\ run.fetched = r.fetched
      /\ run.dist = r.dist /\ run.status = [r.status EXCEPT !["version"] = "tag"]
      /\ r.status \in [Jobs -> Statuses]
  BY <1>2, <1>3 DEF Tagging, Goto, RunType, Jobs, Statuses
<1> HIDE DEF run
<1>5. RunOK(b, run)'
  BY <1>2, <1>3, <1>4 DEF RunOK, Jobs
<1>6. QED
  BY <1>1, <1>5, JobKeeps, TagsKept, DistsKept DEF IInv, ComputeAlpha, run

LEMMA PushTagKeeps ==
    ASSUME IInv, NEW b \in Branches, NEW r \in running[b], PushTag(b, r)
    PROVE  IInv' /\ HeadsKept
<1> DEFINE tag == TagFor(b, r.target)
<1>1. /\ r.status["version"] = "tag" /\ UNCHANGED <<commits, head, waiting>>
      /\ UNCHANGED <<packages, assets>> /\ tags \subseteq tags'
  BY DEF PushTag
<1>2. Grown
  BY <1>1, Stays DEF IInv
<1>3. /\ RunOK(b, r) /\ RunOK(b, r)' /\ r.target \in 1 .. Len(commits)
      /\ b = "main" => IsBump(r.target)
  BY <1>1, <1>2, OldRun DEF RunOK
<1>4. DistsOK'
  BY <1>1, DistsKept DEF IInv
<1>5. CASE \A t \in tags : t.version # tag.version
  <2>1. tags' = tags \union {tag} /\ Becomes(b, r, Goto(r, "version", "release"))
    BY <1>5 DEF PushTag, TagFor
  <2>2. TagOK(tag)
    BY <1>3 DEF TagOK, TagFor, Branches
  <2>3. \A t \in tags' : TagOK(t)'
    <3>1. ASSUME NEW t, TagOK(t) PROVE TagOK(t)'
      <4>1. t.commit \in 1 .. Len(commits)
        BY <3>1 DEF TagOK
      <4>2. QED
        BY <3>1, <4>1, <1>2, CommitKept DEF TagOK, Branches, IInv
    <3>2. QED
      BY <2>1, <2>2, <3>1 DEF IInv, TagsOK
  <2>4. TagsOK'
    BY <1>5, <2>1, <2>3 DEF IInv, TagsOK
  <2>5. TagFor(b, r.target)' = tag
    BY <1>2, <1>3, CommitKept DEF IInv
  <2>6. RunOK(b, Goto(r, "version", "release"))'
    <3> DEFINE g == Goto(r, "version", "release")
    <3>1. /\ g \in RunType' /\ g.target = r.target /\ g.fetched = r.fetched
          /\ g.dist = r.dist /\ g.status = [r.status EXCEPT !["version"] = "release"]
          /\ r.status \in [Jobs -> Statuses]
      BY <1>3, RunFields DEF RunOK, Jobs, Statuses
    <3> HIDE DEF g
    <3>2. TagFor(b, g.target)' \in tags'
      BY <2>1, <2>5, <3>1
    <3>3. RunOK(b, g)'
      BY <1>1, <1>3, <3>1, <3>2 DEF RunOK, Jobs
    <3>4. QED
      BY <3>3 DEF g
  <2>7. QED
    BY <1>1, <1>4, <2>1, <2>4, <2>6, JobKeeps
<1>6. CASE ~ \A t \in tags : t.version # tag.version
  <2>1. UNCHANGED tags /\ Becomes(b, r, Goto(r, "version", "failed"))
    BY <1>6 DEF PushTag, TagFor
  <2>2. RunOK(b, Goto(r, "version", "failed"))'
    BY <1>1, <1>3, GotoOK DEF Jobs
  <2>3. QED
    BY <1>1, <1>2, <1>4, <2>1, <2>2, JobKeeps, TagsKept DEF IInv
<1>7. QED
  BY <1>5, <1>6

LEMMA ReleaseKeeps ==
    ASSUME IInv, NEW b \in Branches, NEW r \in running[b], Release(b, r)
    PROVE  IInv' /\ HeadsKept
<1> DEFINE g == Goto(r, "version", "ok")
<1>1. Grown
  BY Stays DEF IInv, Release
<1>2. RunOK(b, r)' /\ r.status["version"] = "release"
  BY <1>1, OldRun DEF Release
<1>3. /\ g \in RunType' /\ g.target = r.target /\ g.fetched = r.fetched
      /\ g.dist = r.dist /\ g.status = [r.status EXCEPT !["version"] = "ok"]
      /\ r.status \in [Jobs -> Statuses]
  BY <1>2, RunFields DEF RunOK, Jobs, Statuses
<1> HIDE DEF g
<1>4. RunOK(b, g)'
  BY <1>2, <1>3 DEF RunOK, Jobs
<1>5. QED
  BY <1>1, <1>4, JobKeeps, TagsKept, DistsKept DEF IInv, Release, g

\* The tag that is built is the run's own, since no other has its name.
LEMMA BuildKeeps ==
    ASSUME IInv, NEW b \in Branches, NEW r \in running[b], Build(b, r)
    PROVE  IInv' /\ HeadsKept
<1>1. PICK t \in tags :
        /\ t.version = VersionOf(b, r.target)
        /\ Becomes(b, r, [Goto(r, "build", "ok") EXCEPT !.dist = t.commit])
  BY DEF Build
<1> DEFINE run == [Goto(r, "build", "ok") EXCEPT !.dist = t.commit]
<1>2. Grown
  BY Stays DEF IInv, Build
<1>3. /\ RunOK(b, r) /\ RunOK(b, r)' /\ r.status["version"] = "ok" /\ b = "main"
  BY <1>2, OldRun, ReadyFacts DEF Build, Jobs
<1>4. TagFor(b, r.target) \in tags
  BY <1>3 DEF RunOK
<1>5. t.commit = r.target
  BY <1>1, <1>4 DEF IInv, TagsOK, TagFor
<1>6. r \in RunType' /\ r.target \in DOMAIN commits'
  BY <1>2, <1>3 DEF RunOK, Grown, WellFormed
<1>7. /\ run \in RunType' /\ run.target = r.target /\ run.fetched = r.fetched
      /\ run.dist = r.target /\ run.status = [r.status EXCEPT !["build"] = "ok"]
      /\ r.status \in [Jobs -> Statuses]
  BY <1>5, <1>6 DEF Goto, RunType, Jobs, Statuses
<1> HIDE DEF run
<1>8. RunOK(b, run)'
  BY <1>3, <1>7 DEF RunOK, Jobs
<1>9. QED
  BY <1>1, <1>2, <1>8, JobKeeps, TagsKept, DistsKept DEF IInv, Build, run

LEMMA DistIsTagged ==
    ASSUME IInv, NEW b \in Branches, NEW r, RunOK(b, r), r.status["build"] = "ok"
    PROVE  Dist(r) \in tags /\ Dist(r).version = VersionOf(b, r.target)
BY DEF RunOK, Dist, TagFor, VersionOf

LEMMA PublishKeeps ==
    ASSUME IInv, NEW b \in Branches, NEW r \in running[b], Publish(b, r)
    PROVE  IInv' /\ HeadsKept
<1>1. Grown
  BY Stays DEF IInv, Publish
<1>2. RunOK(b, r) /\ RunOK(b, r)' /\ r.status["build"] = "ok"
  BY <1>1, OldRun, ReadyFacts DEF Publish, Jobs
<1>3. DistsOK'
  BY <1>2, DistIsTagged DEF IInv, Publish, DistsOK, PackagesMatchTags
<1>4. /\ RunOK(b, Goto(r, "publish", "ok"))'
      /\ RunOK(b, Goto(r, "publish", "failed"))'
  BY <1>2, GotoOK DEF Jobs
<1>5. QED
  BY <1>1, <1>3, <1>4, JobKeeps, TagsKept DEF IInv, Publish

LEMMA UploadKeeps ==
    ASSUME IInv, NEW b \in Branches, NEW r \in running[b], Upload(b, r)
    PROVE  IInv' /\ HeadsKept
<1>1. Grown
  BY Stays DEF IInv, Upload
<1>2. RunOK(b, r) /\ RunOK(b, r)' /\ r.status["build"] = "ok"
  BY <1>1, OldRun, ReadyFacts DEF Upload, Jobs
<1>3. DistsOK'
  BY <1>2, DistIsTagged DEF IInv, Upload, DistsOK, PackagesMatchTags
<1>4. RunOK(b, Goto(r, "assets", "ok"))'
  BY <1>2, GotoOK DEF Jobs
<1>5. QED
  BY <1>1, <1>3, <1>4, JobKeeps, TagsKept DEF IInv, Upload

LEMMA FetchKeeps ==
    ASSUME IInv, NEW b \in Branches, NEW r \in running[b], Fetch(b, r)
    PROVE  IInv' /\ HeadsKept
<1>1. PICK found : found = head
  OBVIOUS
<1> DEFINE run == [Goto(r, "sync", "push") EXCEPT !.fetched = found]
<1>2. Grown
  BY Stays DEF IInv, Fetch
<1>3. RunOK(b, r)' /\ r \in RunType' /\ r.status["sync"] = "todo"
  BY <1>2, OldRun, ReadyFacts DEF RunOK, Fetch, Jobs
<1>4. /\ found \in [Branches -> DOMAIN commits']
      /\ found \in [Branches -> 1 .. Len(commits')]
  BY <1>1, Domain DEF IInv, Fetch
<1>5. /\ run \in RunType' /\ run.target = r.target /\ run.fetched = found
      /\ run.dist = r.dist /\ run.status = [r.status EXCEPT !["sync"] = "push"]
      /\ r.status \in [Jobs -> Statuses]
  BY <1>3, <1>4 DEF Goto, RunType, Jobs, Statuses
<1>6. Becomes(b, r, run)
  BY <1>1 DEF Fetch
<1> HIDE DEF run
<1>7. RunOK(b, run)'
  BY <1>3, <1>4, <1>5 DEF RunOK, Jobs
<1>8. QED
  BY <1>2, <1>6, <1>7, JobKeeps, TagsKept, DistsKept DEF IInv, Fetch

\* A bump commit has a version above all those behind it.
LEMMA PushBumpKeeps ==
    ASSUME IInv, NEW b \in Branches, NEW r \in running[b], PushBump(b, r)
    PROVE  IInv' /\ HeadsKept
<1>1. /\ RunOK(b, r) /\ r \in RunType /\ r.status["version"] = "todo" /\ b = "main"
  BY OldRun, ReadyFacts DEF RunOK, PushBump, Jobs
<1>2. UNCHANGED <<tags, packages, assets>> /\ DistsOK'
  BY DistsKept DEF PushBump, IInv
<1>3. CASE head[b] = r.head
  <2> DEFINE commit == BumpCommit(r)
  <2>1. r.head \in 1 .. Len(commits) /\ commits[r.head] \in CommitType
    BY <1>1, Domain DEF IInv, RunType
  <2>2. commits[r.head].version \in Nat
    BY <2>1 DEF CommitType
  <2>3. Upon({r.head}) \in SUBSET Nat /\ r.head \in Upon({r.head})
    BY <2>1, Domain DEF IInv, Upon, New, Past, WellFormed
  <2>4. /\ commit \in CommitType /\ commit.past = Upon({r.head})
        /\ commit.version = commits[r.head].version + 1
    <3>1. commits[r.head].version + 1 \in Nat
      BY <2>2
    <3>2. commit = Commit(Upon({r.head}), commits[r.head].version + 1, "src", TRUE)
      BY DEF BumpCommit
    <3> HIDE DEF commit
    <3>3. QED
      BY <2>3, <3>1, <3>2 DEF Commit, CommitType
  <2>5. PushNew(b, commit) /\ Becomes(b, r, Tagging(r, New))
    BY <1>3 DEF PushBump
  <2> HIDE DEF commit
  <2>6. /\ Grown /\ head' \in [Branches -> 1 .. Len(commits')] /\ Queued
        /\ commits'[New] = commit /\ New \in 1 .. Len(commits')
    BY <1>2, <2>1, <2>2, <2>4, <2>5, PushedNew
  <2>7. HeadsKept
    <3>1. head[b] \in commits'[New].past
      BY <1>3, <2>3, <2>4, <2>6
    <3>2. QED
      BY <3>1, <2>5, <2>6, PushKeepsHeads DEF PushNew
  <2>8. PICK c : c = New
    OBVIOUS
  <2>9. IsBump(c)'
    <3>1. ASSUME NEW p \in commits'[c].past, p # c
          PROVE  commits'[p].version < commits'[c].version
      <4>1. p \in Upon({r.head})
        BY <3>1, <2>4, <2>6, <2>8
      <4>2. p \in 1 .. Len(commits) /\ p \in commits[r.head].past
        BY <3>1, <4>1, <2>8, Domain DEF IInv, Upon, Past
      <4>3. commits[p].version <= commits[r.head].version /\ commits[p].version \in Nat
        BY <4>2, <2>1, Domain DEF IInv, WellFormed, CommitType
      <4>4. commits'[p] = commits[p]
        BY <4>2, <2>6 DEF Grown
      <4>5. QED
        BY <4>3, <4>4, <2>2, <2>4, <2>6, <2>8
    <3>2. QED
      BY <3>1 DEF IsBump, Past
  <2> DEFINE run == Tagging(r, c)
  <2>10. RunOK(b, r)' /\ r \in RunType'
    BY <2>6, OldRun DEF RunOK
  <2>11. c \in 1 .. Len(commits') /\ DOMAIN commits' = 1 .. Len(commits')
    BY <2>6, <2>8 DEF Grown, WellFormed
  <2>12. /\ run \in RunType' /\ run.target = c /\ run.fetched = r.fetched
         /\ run.dist = r.dist /\ run.status = [r.status EXCEPT !["version"] = "tag"]
         /\ r.status \in [Jobs -> Statuses]
    BY <2>10, <2>11 DEF Tagging, Goto, RunType, Jobs, Statuses
  <2>13. Becomes(b, r, run)
    BY <2>5, <2>8
  <2> HIDE DEF run
  <2>14. RunOK(b, run)'
    BY <1>1, <2>9, <2>10, <2>11, <2>12 DEF RunOK, Jobs
  <2>15. Advanced
    BY <2>6, <2>13, <2>14, BecomesAdvances
  <2>16. QED
    BY <1>2, <2>6, <2>7, <2>15, Composed, TagsKept DEF IInv
<1>4. CASE head[b] # r.head
  <2>1. /\ Becomes(b, r, Goto(r, "version", "failed"))
        /\ UNCHANGED <<commits, head, waiting>>
    BY <1>4 DEF PushBump
  <2>2. Grown
    BY <1>2, <2>1, Stays DEF IInv
  <2>3. RunOK(b, Goto(r, "version", "failed"))'
    BY <1>1, <2>2, OldRun, GotoOK DEF Jobs
  <2>4. QED
    BY <1>2, <2>1, <2>2, <2>3, JobKeeps, TagsKept DEF IInv
<1>5. QED
  BY <1>3, <1>4

\* sync-dev moves dev to the fetched main or to a merge of it, in both cases
\* over what dev has.
LEMMA PushDevKeeps ==
    ASSUME IInv, NEW b \in Branches, NEW r \in running[b], PushDev(b, r)
    PROVE  IInv' /\ HeadsKept
<1>1. PICK main, dev : main = r.fetched["main"] /\ dev = r.fetched["dev"]
  OBVIOUS
<1>2. RunOK(b, r) /\ r \in RunType /\ r.status["sync"] = "push"
  BY OldRun DEF RunOK, PushDev
<1>3. main \in 1 .. Len(commits) /\ dev \in 1 .. Len(commits)
  BY <1>1, <1>2 DEF RunOK, Branches
<1>4. UNCHANGED <<tags, packages, assets>> /\ DistsOK'
  BY DistsKept DEF PushDev, IInv
<1>5. \E st \in {"ok", "failed"} : Becomes(b, r, Goto(r, "sync", st))
  BY DEF PushDev, Ok
<1>6. ASSUME Grown, head' \in [Branches -> 1 .. Len(commits')], Queued, HeadsKept
      PROVE  IInv' /\ HeadsKept
  <2>1. \A st \in {"ok", "failed"} : RunOK(b, Goto(r, "sync", st))'
    BY <1>6, OldRun, GotoOK DEF Jobs
  <2>2. Advanced
    BY <1>5, <1>6, <2>1, BecomesAdvances
  <2>3. QED
    BY <1>4, <1>6, <2>2, Composed, TagsKept DEF IInv
<1>7. CASE UNCHANGED <<commits, head, waiting>>
  BY <1>4, <1>6, <1>7, Stays, HeadsStay, QueueStays DEF IInv
<1>8. CASE /\ dev \in Past(main) /\ head["dev"] = dev
           /\ Push("dev", commits, main) /\ UNCHANGED commits
  <2>1. Grown
    BY <1>4, <1>8, Stays DEF IInv
  <2>2. main \in 1 .. Len(commits') /\ head["dev"] \in commits'[main].past
    BY <1>3, <1>8 DEF Past
  <2>3. QED
    BY <1>6, <1>8, <2>1, <2>2, Pushed, PushKeepsHeads DEF Branches
<1>9. CASE /\ head["dev"] = dev
           /\ PushNew("dev", Commit(Upon({main, dev}),
                                    Larger(commits[main].version,
                                           commits[dev].version),
                                    None, TRUE))
  <2> DEFINE commit == Commit(Upon({main, dev}),
                              Larger(commits[main].version, commits[dev].version),
                              None, TRUE)
  <2>1. commits[main].version \in Nat /\ commits[dev].version \in Nat
    BY <1>3, Domain DEF IInv, CommitType
  <2>2. Upon({main, dev}) \in SUBSET Nat /\ dev \in Upon({main, dev})
    BY <1>3, Domain DEF IInv, Upon, New, Past, WellFormed
  <2>3. Larger(commits[main].version, commits[dev].version) \in Nat
    BY <2>1 DEF Larger
  <2>4. /\ commit \in CommitType /\ commit.past = Upon({main, dev})
        /\ commit.version = Larger(commits[main].version, commits[dev].version)
    BY <2>2, <2>3 DEF Commit, CommitType
  <2>5. PushNew("dev", commit) /\ head["dev"] = dev
    BY <1>9
  <2> HIDE DEF commit
  <2>6. \A p \in {main, dev} : commits[p].version <= commit.version
    BY <2>1, <2>4 DEF Larger
  <2>7. /\ Grown /\ head' \in [Branches -> 1 .. Len(commits')] /\ Queued
        /\ commits'[New] = commit /\ New \in 1 .. Len(commits')
    BY <1>3, <1>4, <2>4, <2>5, <2>6, PushedNew DEF Branches
  <2>8. head["dev"] \in commits'[New].past
    BY <2>2, <2>4, <2>5, <2>7
  <2>9. HeadsKept
    BY <2>5, <2>7, <2>8, PushKeepsHeads DEF PushNew, Branches
  <2>10. QED
    BY <1>6, <2>7, <2>9
<1>10. QED
  BY <1>1, <1>7, <1>8, <1>9 DEF PushDev

-----------------------------------------------------------------------------
LEMMA InitHolds == Init => IInv
<1> SUFFICES ASSUME Init PROVE IInv
  OBVIOUS
<1> DEFINE root == Commit({1}, 0, None, FALSE)
<1>1. root \in CommitType /\ root.past = {1} /\ root.version = 0
  BY DEF Commit, CommitType
<1>2. commits = <<root>>
  BY DEF Init
<1> HIDE DEF root
<1>3. commits \in Seq(CommitType) /\ Len(commits) = 1 /\ commits[1] = root
  BY <1>1, <1>2
<1>4. WellFormed(commits)
  BY <1>1, <1>3 DEF WellFormed
<1>5. QED
  BY <1>3, <1>4 DEF Init, IInv, TagsOK, RunsOK, DistsOK, PackagesMatchTags, Branches

LEMMA StepKeeps == IInv /\ Next => IInv' /\ HeadsKept
<1> SUFFICES ASSUME IInv, Next PROVE IInv' /\ HeadsKept
  OBVIOUS
<1>1. CASE Users
  BY <1>1, MergeKeeps, PromoteKeeps DEF Users
<1>2. ASSUME NEW b \in Branches, RunStep(b) \/ Fault(b)
      PROVE  IInv' /\ HeadsKept
  <2>1. CASE Start(b) \/ StartFails(b)
    BY <2>1, StartKeeps
  <2>2. ASSUME NEW r \in running[b], JobStep(b, r) \/ Finish(b, r) \/ Fail(b, r)
        PROVE  IInv' /\ HeadsKept
    <3>1. CASE Finish(b, r)
      BY <3>1, FinishKeeps
    <3>2. CASE Fail(b, r)
      BY <3>2, FailKeeps
    <3>3. CASE JobStep(b, r)
      BY <3>3, ComputeAlphaKeeps, PushBumpKeeps, PushTagKeeps, ReleaseKeeps,
         BuildKeeps, PublishKeeps, UploadKeeps, FetchKeeps, PushDevKeeps,
         DeployKeeps DEF JobStep
    <3>4. QED
      BY <2>2, <3>1, <3>2, <3>3
  <2>3. QED
    BY <1>2, <2>1, <2>2 DEF RunStep, Fault
<1>3. QED
  BY <1>1, <1>2 DEF Next

LEMMA StutterKeeps == IInv /\ UNCHANGED vars => IInv'
BY DEF IInv, vars, WellFormed, TagsOK, TagOK, TagFor, VersionOf, Stable, Alpha,
       IsBump, Past, RunsOK, RunOK, RunType, DistsOK, PackagesMatchTags

THEOREM Inductive == Spec => []IInv
<1>1. IInv /\ [Next]_vars => IInv'
  BY StepKeeps, StutterKeeps
<1>2. QED
  BY InitHolds, <1>1, PTL DEF Spec

\* Of two tagged commits the one that builds on the other has the higher
\* version, whichever of deploy.yml's runs failed and wherever its pushes met.
THEOREM VersionsSort == Spec => []VersionsFollowHistory
<1>1. IInv => VersionsFollowHistory
  <2> SUFFICES ASSUME IInv, NEW t \in tags, NEW u \in tags,
                      t.commit \in Past(u.commit), t.commit # u.commit
               PROVE  Precedes(t.version, u.version)
    BY DEF VersionsFollowHistory
  <2> DEFINE c == t.commit
             d == u.commit
  <2>1. /\ c \in 1 .. Len(commits) /\ d \in 1 .. Len(commits)
        /\ commits[c].version \in Nat /\ commits[d].version \in Nat
        /\ TagOK(t) /\ TagOK(u)
    BY Domain DEF IInv, TagsOK, TagOK, CommitType
  <2>2. c < d /\ commits[c].version <= commits[d].version
    BY <2>1, Domain DEF IInv, WellFormed, Past
  <2> DEFINE v == t.version
             w == u.version
             m == commits[c].version
             n == commits[d].version
  <2>3. (v.base = m /\ v.alpha = 0) \/ (v.base = m + 1 /\ v.alpha = c)
    BY <2>1 DEF TagOK, TagFor, VersionOf, Stable, Alpha
  <2>4. (w.base = n /\ w.alpha = 0 /\ m < n) \/ (w.base = n + 1 /\ w.alpha = d)
    BY <2>1 DEF TagOK, TagFor, VersionOf, Stable, Alpha, IsBump
  <2>5. /\ c \in Nat \ {0} /\ d \in Nat \ {0} /\ m \in Nat /\ n \in Nat
        /\ c < d /\ m <= n
    BY <2>1, <2>2, Domain DEF IInv
  <2> HIDE DEF c, d, m, n, v, w
  <2>6. Precedes(v, w)
    BY <2>3, <2>4, <2>5 DEF Precedes
  <2>7. QED
    BY <2>6 DEF v, w
<1>2. QED
  BY Inductive, <1>1, PTL

\* PyPI and the releases hold what the tags name.
THEOREM PackagesAreTagged == Spec => []PackagesMatchTags
<1>1. IInv => PackagesMatchTags
  BY DEF IInv, DistsOK
<1>2. QED
  BY Inductive, <1>1, PTL

\* No push of a user or of the bot takes a commit away from main or dev.
THEOREM BranchesGrow == Spec => NothingLost
<1>1. IInv /\ [Next]_vars => [HeadsKept]_vars
  BY StepKeeps
<1>2. QED
  BY Inductive, <1>1, PTL DEF Spec, NothingLost, HeadsKept
=============================================================================
