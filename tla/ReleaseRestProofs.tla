-------------------------- MODULE ReleaseRestProofs --------------------------
(* What the release pipeline has done when it comes to rest, for any number   *)
(* of pushes: every change is accounted for by a tag or by a run that will    *)
(* see to it, and the same for deployments and for the version of dev.        *)
EXTENDS ReleasePipelineProofs, FiniteSetTheorems

Single(b) == \A r, q \in running[b] : r = q

\* What a run under way knows is so, and it got where it is by its if:s.
RunTrue(b, r) ==
    /\ r.changed = Changed(commits, r.before, r.head)
    /\ r.status["version"] \in {"tag", "release", "ok"} =>
         Versioned(r) /\ r.head \in Past(r.target)
    /\ r.status["sync"] = "push" => \A x \in Branches : r.fetched[x] \in Past(head[x])
    /\ r.status["sync"] \notin {"todo", "failed"} =>
         b = "main" /\ r.status["version"] = "ok"
    /\ ~failed => \A job \in Jobs : r.status[job] # "failed"

\* Along a branch come the deployed commit, the run under way, the pending
\* run and the head.
Ordered(b) ==
    /\ deployed[b] \in Past(head[b])
    /\ waiting[b] # None => /\ deployed[b] \in Past(waiting[b].head)
                            /\ waiting[b].head \in Past(head[b])
    /\ \A r \in running[b] :
         /\ deployed[b] \in Past(r.head) /\ r.head \in Past(head[b])
         /\ waiting[b] # None => r.head \in Past(waiting[b].head)

\* No run of main is for the root.
MainHeads == /\ \A r \in running["main"] : r.head # 1
             /\ waiting["main"] # None => waiting["main"].head # 1

\* p is the push that the bump c is on top of.
BumpOf(c, p) == p \in Past(c) \ {c} /\ \A q \in Past(c) \ {c} : q <= p

BumpsAnswer ==
    /\ \A c \in Bumps : c \in Past(head["main"]) /\ \E p \in UserPushes : BumpOf(c, p)
    /\ \A c, d \in Bumps, p \in UserPushes : BumpOf(c, p) /\ BumpOf(d, p) => c = d

VersionAt(b) == commits[head[b]].version

MainLeads == \A c \in 1 .. Len(commits) : commits[c].version <= VersionAt("main")

-----------------------------------------------------------------------------
(* Which run sees to what.                                                    *)

\* c is among the commits of a user's push that r was started for.
Answers(r, c) == ~commits[r.head].bot /\ c \in Past(r.head) \ Past(r.before)

WillTag(r, c) ==
    \/ r.status["version"] = "todo" /\ Answers(r, c)
    \/ r.status["version"] = "tag" /\ c \in Past(r.target)

WillDeploy(r, c) == r.status["pulumi"] = "todo" /\ Answers(r, c)

WillSync(r) ==
    /\ r.status["version"] \in {"tag", "release", "ok"}
    /\ \/ r.status["sync"] = "todo"
       \/ /\ r.status["sync"] = "push"
          /\ commits[r.fetched["main"]].version = VersionAt("main")

Pending(c) == waiting["main"] # None /\ Answers(waiting["main"], c)

TagDue(c) == Tagged(c) \/ Pending(c) \/ \E r \in running["main"] : WillTag(r, c)

TagsDue ==
    ~failed /\ ~replaced =>
      \A c \in Past(head["main"]) : commits[c].kind \in {"src", "github"} => TagDue(c)

DeployDue(c) ==
    \/ c \in Past(deployed["main"]) \/ Pending(c)
    \/ \E r \in running["main"] : WillDeploy(r, c)

DeploysDue ==
    ~failed /\ ~replaced /\ ProdReady =>
      \A c \in Past(head["main"]) : commits[c].kind = "pulumi" => DeployDue(c)

SyncDue ==
    ~failed /\ VersionAt("dev") # VersionAt("main") =>
      \E r \in running["main"] : WillSync(r)

Rest ==
    /\ deployed \in [Branches -> 1 .. Len(commits)]
    /\ failed \in BOOLEAN /\ replaced \in BOOLEAN
    /\ \A b \in Branches : /\ Single(b) /\ Ordered(b)
                           /\ \A r \in running[b] : RunTrue(b, r)
    /\ MainHeads /\ BumpsAnswer /\ MainLeads
    /\ TagsDue /\ DeploysDue /\ SyncDue

\* The two ends of a step, the first invariant known of both.
Sound == IInv /\ IInv' /\ Grown /\ HeadsKept

-----------------------------------------------------------------------------
(* Histories.                                                                 *)

LEMMA StepSound == IInv /\ Next => Sound
<1> SUFFICES ASSUME IInv, Next PROVE Sound
  OBVIOUS
<1>1. IInv' /\ HeadsKept
  BY StepKeeps
<1>2. /\ tags \subseteq tags'
      /\ UNCHANGED commits \/ \E commit : commits' = Append(commits, commit)
  <2>1. CASE Users
    BY <2>1 DEF Users, Merge, Promote, PushNew
  <2>2. ASSUME NEW b \in Branches, Start(b) \/ StartFails(b)
        PROVE  UNCHANGED <<tags, commits>>
    BY <2>2 DEF Start, StartFails
  <2>3. ASSUME NEW b \in Branches, NEW r \in running[b],
               JobStep(b, r) \/ Finish(b, r) \/ Fail(b, r)
        PROVE  /\ tags \subseteq tags'
               /\ UNCHANGED commits \/ \E commit : commits' = Append(commits, commit)
    <3>1. CASE PushBump(b, r)
      BY <3>1 DEF PushBump, PushNew
    <3>2. CASE PushDev(b, r)
      BY <3>2 DEF PushDev, PushNew
    <3>3. CASE PushTag(b, r)
      BY <3>3 DEF PushTag
    <3>4. CASE ComputeAlpha(b, r) \/ Release(b, r) \/ Build(b, r) \/ Publish(b, r)
      BY <3>4 DEF ComputeAlpha, Release, Build, Publish
    <3>5. CASE Upload(b, r) \/ Fetch(b, r) \/ Deploy(b, r) \/ Finish(b, r) \/ Fail(b, r)
      BY <3>5 DEF Upload, Fetch, Deploy, Finish, Fail
    <3> QED
      BY <2>3, <3>1, <3>2, <3>3, <3>4, <3>5 DEF JobStep
  <2> QED
    BY <2>1, <2>2, <2>3 DEF Next, RunStep, Fault
<1>4. Len(commits) <= Len(commits') /\ \A c \in 1 .. Len(commits) : commits'[c] = commits[c]
  <2>1. commits \in Seq(CommitType) /\ Len(commits) \in Nat
    BY Domain DEF IInv, WellFormed
  <2>2. CASE UNCHANGED commits
    BY <2>1, <2>2
  <2>3. ASSUME NEW commit, commits' = Append(commits, commit)
        PROVE  Len(commits) <= Len(commits') /\ \A c \in 1 .. Len(commits) : commits'[c] = commits[c]
    BY <2>1, <2>3
  <2> QED
    BY <1>2, <2>2, <2>3
<1> QED
  BY <1>1, <1>2, <1>4 DEF Sound, Grown, IInv

LEMMA PastFacts ==
    ASSUME IInv, NEW c \in 1 .. Len(commits)
    PROVE  /\ c \in Nat /\ c \in Past(c) /\ Past(c) \subseteq 1 .. c
           /\ Past(c) \subseteq 1 .. Len(commits)
           /\ \A p \in Past(c) : Past(p) \subseteq Past(c)
           /\ commits[c] \in CommitType /\ commits[c].version \in Nat
BY Domain DEF IInv, WellFormed, Past, CommitType

LEMMA OldCommit ==
    ASSUME Sound, NEW c \in 1 .. Len(commits)
    PROVE  /\ c \in 1 .. Len(commits') /\ commits'[c] = commits[c]
           /\ Past(c)' = Past(c)
BY CommitKept DEF Sound, IInv, Grown

LEMMA HeadFacts ==
    ASSUME Sound, NEW b \in Branches
    PROVE  /\ head[b] \in 1 .. Len(commits) /\ head'[b] \in 1 .. Len(commits')
           /\ head[b] \in Past(head[b])
           /\ Past(head[b]) \subseteq Past(head[b])'
<1>1. head[b] \in 1 .. Len(commits) /\ head'[b] \in 1 .. Len(commits')
  BY DEF Sound, IInv
<1>2. head[b] \in commits'[head'[b]].past
  BY DEF Sound, HeadsKept
<1>3. commits'[head[b]].past \subseteq commits'[head'[b]].past
  BY <1>1, <1>2 DEF Sound, IInv, WellFormed
<1>4. Past(head[b]) = commits'[head[b]].past
  BY <1>1, OldCommit DEF Past
<1> QED
  BY <1>1, <1>3, <1>4, PastFacts DEF Sound, Past

\* What is known of a run, under way or pending.
LEMMA RunFacts ==
    ASSUME IInv, NEW b \in Branches, NEW r,
           r \in running[b] \/ (r = waiting[b] /\ r # None)
    PROVE  /\ r \in RunType /\ RunOK(b, r)
           /\ r.before \in 1 .. Len(commits) /\ r.head \in 1 .. Len(commits)
           /\ r.status \in [Jobs -> Statuses]
           /\ r.status["version"] \in {"tag", "release", "ok"} =>
                r.target \in 1 .. Len(commits)
           /\ r.status["sync"] = "push" =>
                r.fetched \in [Branches -> 1 .. Len(commits)]
<1>1. RunOK(b, r)
  BY DEF IInv, RunsOK
<1>2. r \in RunType
  BY <1>1 DEF RunOK
<1> QED
  BY <1>1, <1>2, Domain DEF RunOK, RunType, IInv

\* The range of a run stays what it is.
LEMMA RangeStays ==
    ASSUME Sound, NEW before \in 1 .. Len(commits), NEW after \in 1 .. Len(commits)
    PROVE  Changed(commits, before, after)' = Changed(commits, before, after)
<1>1. commits'[after].past = commits[after].past /\ commits'[before].past = commits[before].past
  BY OldCommit
<1>2. \A c \in commits[after].past : commits'[c] = commits[c]
  BY PastFacts, OldCommit DEF Sound, Past
<1> QED
  BY <1>1, <1>2 DEF Changed

LEMMA AnswersStays ==
    ASSUME Sound, NEW r, r.before \in 1 .. Len(commits), r.head \in 1 .. Len(commits), NEW c
    PROVE  Answers(r, c)' <=> Answers(r, c)
BY OldCommit DEF Answers

LEMMA TaggedStays ==
    ASSUME Sound, NEW c, Tagged(c)
    PROVE  Tagged(c)'
<1>1. PICK t \in tags : t.version.alpha = 0 /\ c \in Past(t.commit)
  BY DEF Tagged
<1>2. t.commit \in 1 .. Len(commits)
  BY DEF Sound, IInv, TagsOK, TagOK
<1>3. Past(t.commit)' = Past(t.commit) /\ t \in tags'
  BY <1>2, OldCommit DEF Sound, Grown
<1> QED
  BY <1>1, <1>3 DEF Tagged

-----------------------------------------------------------------------------
(* What a step leaves true of what it does not touch.                         *)

LEMMA RunTrueStays ==
    ASSUME Sound, NEW b \in Branches, NEW r \in running[b], RunTrue(b, r),
           failed => failed'
    PROVE  RunTrue(b, r)'
<1>1. /\ r.before \in 1 .. Len(commits) /\ r.head \in 1 .. Len(commits)
      /\ r.status["version"] \in {"tag", "release", "ok"} =>
           r.target \in 1 .. Len(commits)
  BY RunFacts DEF Sound
<1>2. r.changed = Changed(commits, r.before, r.head)'
  BY <1>1, RangeStays DEF RunTrue
<1>3. Versioned(r)' <=> Versioned(r)
  BY <1>1, OldCommit DEF Versioned
<1>4. r.status["version"] \in {"tag", "release", "ok"} =>
        Versioned(r)' /\ r.head \in Past(r.target)'
  BY <1>1, <1>3, OldCommit DEF RunTrue
<1>5. r.status["sync"] = "push" => \A x \in Branches : r.fetched[x] \in Past(head[x])'
  BY HeadFacts DEF RunTrue
<1> QED
  BY <1>2, <1>4, <1>5 DEF RunTrue

\* The runs of a branch are as they were or gone, the queue as it was or with
\* a run for what is now the head.
LEMMA OrderedStays ==
    ASSUME Sound, NEW b \in Branches, Ordered(b),
           \A q \in running'[b] : \E r \in running[b] : q.head = r.head,
           \/ waiting'[b] \in {waiting[b], None}
           \/ waiting'[b].head = head'[b],
           deployed'[b] = deployed[b]
    PROVE  Ordered(b)'
<1>1. Past(head[b]) \subseteq Past(head[b])' /\ head[b] \in 1 .. Len(commits)
      /\ Past(head[b]) \subseteq 1 .. Len(commits)
  BY HeadFacts, PastFacts DEF Sound
<1>2. deployed'[b] \in Past(head[b])'
  BY <1>1 DEF Ordered
<1>3. \A q \in running'[b] : deployed'[b] \in Past(q.head)' /\ q.head \in Past(head[b])'
  <2> TAKE q \in running'[b]
  <2>1. PICK r \in running[b] : q.head = r.head
    OBVIOUS
  <2>2. deployed[b] \in Past(q.head) /\ q.head \in Past(head[b])
    BY <2>1 DEF Ordered
  <2>3. Past(q.head)' = Past(q.head)
    BY <1>1, <2>2, OldCommit
  <2> QED
    BY <1>1, <2>2, <2>3
<1>4. CASE waiting'[b] = None
  BY <1>2, <1>3, <1>4 DEF Ordered
<1>5. CASE waiting'[b] = waiting[b] /\ waiting[b] # None
  <2>1. /\ deployed[b] \in Past(waiting[b].head) /\ waiting[b].head \in Past(head[b])
        /\ \A r \in running[b] : r.head \in Past(waiting[b].head)
    BY <1>5 DEF Ordered
  <2>2. Past(waiting[b].head)' = Past(waiting[b].head)
    <3>1. waiting[b].head \in 1 .. Len(commits)
      BY <1>1, <2>1
    <3>2. PICK h : h = waiting[b].head
      OBVIOUS
    <3>3. Past(h)' = Past(h)
      BY <3>1, <3>2, OldCommit
    <3> QED
      BY <1>5, <3>2, <3>3
  <2> QED
    BY <1>1, <1>2, <1>3, <1>5, <2>1, <2>2 DEF Ordered
<1>6. CASE waiting'[b].head = head'[b]
  <2>1. head'[b] \in Past(head[b])'
    BY HeadFacts, PastFacts DEF Sound, IInv, WellFormed, Past
  <2> QED
    BY <1>2, <1>3, <1>6, <2>1 DEF Ordered
<1> QED
  BY <1>4, <1>5, <1>6

LEMMA BumpOfStays ==
    ASSUME Sound, NEW c \in 1 .. Len(commits), NEW p
    PROVE  BumpOf(c, p)' <=> BumpOf(c, p)
BY OldCommit DEF BumpOf

\* Nothing but a bump disturbs the bumps.
LEMMA BumpsStay ==
    ASSUME Sound, BumpsAnswer,
           \A c \in 1 .. Len(commits') :
             c \in 1 .. Len(commits) \/ ~(commits'[c].bot /\ commits'[c].kind = "src")
    PROVE  BumpsAnswer'
<1>1. DOMAIN commits = 1 .. Len(commits) /\ DOMAIN commits' = 1 .. Len(commits')
  BY Domain DEF Sound, IInv, Grown, WellFormed
<1>2. Bumps' = Bumps /\ Bumps \subseteq 1 .. Len(commits)
  BY <1>1, OldCommit DEF Bumps
<1>3. \A p \in 1 .. Len(commits) : p \in UserPushes <=> p \in UserPushes'
  BY <1>1, OldCommit DEF UserPushes
<1>4. \A c \in Bumps : \A p : BumpOf(c, p) => p \in 1 .. Len(commits)
  BY <1>2, PastFacts DEF BumpOf, Sound
<1>5. \A c \in Bumps : c \in Past(head["main"])' /\ \E p \in UserPushes' : BumpOf(c, p)'
  BY <1>2, <1>3, <1>4, BumpOfStays, HeadFacts DEF BumpsAnswer, Branches
<1>6. \A c, d \in Bumps, p \in UserPushes' : BumpOf(c, p)' /\ BumpOf(d, p)' => c = d
  BY <1>2, <1>3, <1>4, BumpOfStays DEF BumpsAnswer
<1> QED
  BY <1>2, <1>5, <1>6 DEF BumpsAnswer

LEMMA LeadStays ==
    ASSUME Sound, MainLeads, VersionAt("main") <= VersionAt("main")',
           \A c \in 1 .. Len(commits') :
             c \in 1 .. Len(commits) \/ commits'[c].version <= VersionAt("main")'
    PROVE  MainLeads'
<1> SUFFICES ASSUME NEW c \in 1 .. Len(commits')
             PROVE  commits'[c].version <= VersionAt("main")'
  BY DEF MainLeads
<1>1. VersionAt("main") \in Nat /\ VersionAt("main")' \in Nat
  <2>1. head["main"] \in 1 .. Len(commits) /\ head'["main"] \in 1 .. Len(commits')
    BY HeadFacts DEF Branches
  <2>2. \A d \in 1 .. Len(commits') : commits'[d] \in CommitType
    BY DEF Sound, Grown, WellFormed
  <2>3. \A d \in CommitType : d.version \in Nat
    BY DEF CommitType
  <2> QED
    BY <2>1, <2>2, <2>3, PastFacts DEF VersionAt, Sound
<1>2. CASE c \in 1 .. Len(commits)
  <2>1. commits'[c] = commits[c] /\ commits[c].version \in Nat
        /\ commits[c].version <= VersionAt("main")
    BY <1>2, OldCommit, PastFacts DEF MainLeads, Sound
  <2> QED
    BY <1>1, <2>1
<1> QED
  BY <1>2

-----------------------------------------------------------------------------
(* How what is due is handed on.                                              *)

\* From a run of main to the tags, the stack, or to a run.
RunsHandOn ==
    ~failed' => \A r \in running["main"], c \in 1 .. Len(commits) :
      /\ WillTag(r, c) /\ commits[c].kind \in {"src", "github"} =>
           Tagged(c)' \/ \E q \in running'["main"] : WillTag(q, c)'
      /\ WillDeploy(r, c) /\ commits[c].kind = "pulumi" /\ ProdReady =>
           c \in Past(deployed["main"])' \/ \E q \in running'["main"] : WillDeploy(q, c)'

\* From the pending run.
QueueHandsOn ==
    ~failed' /\ ~replaced' => \A c \in 1 .. Len(commits) : Pending(c) =>
      Pending(c)' \/ \E q \in running'["main"] : WillTag(q, c)' /\ WillDeploy(q, c)'

\* From a push.
NewSeen ==
    ~failed' /\ ~replaced' => \A c \in Past(head["main"])' \ Past(head["main"]) :
      /\ commits'[c].kind \in {"src", "github"} => TagDue(c)'
      /\ commits'[c].kind = "pulumi" => DeployDue(c)'

LEMMA DuesStay ==
    ASSUME Sound, Rest, failed => failed', replaced => replaced',
           Past(deployed["main"]) \subseteq Past(deployed["main"])',
           RunsHandOn, QueueHandsOn, NewSeen
    PROVE  TagsDue' /\ DeploysDue'
<1>1. Past(head["main"]) \subseteq 1 .. Len(commits)
  BY HeadFacts, PastFacts DEF Branches, Sound
<1>2. ASSUME ~failed', ~replaced', NEW c \in Past(head["main"]),
             commits[c].kind \in {"src", "github"}
      PROVE  TagDue(c)'
  <2>1. TagDue(c) /\ c \in 1 .. Len(commits)
    BY <1>1, <1>2 DEF Rest, TagsDue
  <2>2. CASE Tagged(c)
    BY <2>2, TaggedStays DEF TagDue
  <2>3. CASE Pending(c)
    BY <1>2, <2>1, <2>3 DEF QueueHandsOn, TagDue
  <2>4. CASE \E r \in running["main"] : WillTag(r, c)
    BY <1>2, <2>1, <2>4 DEF RunsHandOn, TagDue
  <2> QED
    BY <2>1, <2>2, <2>3, <2>4 DEF TagDue
<1>3. ASSUME ~failed', ~replaced', ProdReady, NEW c \in Past(head["main"]),
             commits[c].kind = "pulumi"
      PROVE  DeployDue(c)'
  <2>1. DeployDue(c) /\ c \in 1 .. Len(commits)
    BY <1>1, <1>3 DEF Rest, DeploysDue
  <2>2. CASE c \in Past(deployed["main"])
    BY <2>2 DEF DeployDue
  <2>3. CASE Pending(c)
    BY <1>3, <2>1, <2>3 DEF QueueHandsOn, DeployDue
  <2>4. CASE \E r \in running["main"] : WillDeploy(r, c)
    BY <1>3, <2>1, <2>4 DEF RunsHandOn, DeployDue
  <2> QED
    BY <2>1, <2>2, <2>3, <2>4 DEF DeployDue
<1>4. \A c \in Past(head["main"]) : commits'[c] = commits[c]
  BY <1>1, OldCommit
<1>5. TagsDue'
  <2> SUFFICES ASSUME ~failed', ~replaced', NEW c \in Past(head["main"])',
                      commits'[c].kind \in {"src", "github"}
               PROVE  TagDue(c)'
    BY DEF TagsDue
  <2> QED
    BY <1>2, <1>4 DEF NewSeen
<1>6. DeploysDue'
  <2> SUFFICES ASSUME ~failed', ~replaced', ProdReady, NEW c \in Past(head["main"])',
                      commits'[c].kind = "pulumi"
               PROVE  DeployDue(c)'
    BY DEF DeploysDue
  <2> QED
    BY <1>3, <1>4 DEF NewSeen
<1> QED
  BY <1>5, <1>6

\* A run as it was, or with another job done, sees to what it did.
LEMMA RunSees ==
    ASSUME Sound, NEW b \in Branches, NEW r \in running[b], NEW q,
           q.head = r.head, q.before = r.before, NEW c
    PROVE  /\ /\ WillTag(r, c) /\ q.target = r.target
              /\ q.status["version"] = r.status["version"]
              => WillTag(q, c)'
           /\ WillDeploy(r, c) /\ q.status["pulumi"] = r.status["pulumi"]
              => WillDeploy(q, c)'
<1>1. /\ r.before \in 1 .. Len(commits) /\ r.head \in 1 .. Len(commits)
      /\ r.status["version"] \in {"tag", "release", "ok"} =>
           r.target \in 1 .. Len(commits)
  BY RunFacts DEF Sound
<1>2. Answers(q, c)' <=> Answers(r, c)
  BY <1>1, AnswersStays DEF Answers
<1>3. r.status["version"] = "tag" => Past(r.target)' = Past(r.target)
  BY <1>1, OldCommit
<1> QED
  BY <1>2, <1>3 DEF WillTag, WillDeploy

LEMMA RunsStay ==
    ASSUME Sound, running["main"] \subseteq running'["main"]
    PROVE  RunsHandOn
BY RunSees DEF RunsHandOn, Branches

LEMMA QueueStaysDue ==
    ASSUME Sound, waiting'["main"] = waiting["main"]
    PROVE  QueueHandsOn
<1> SUFFICES ASSUME NEW c \in 1 .. Len(commits), Pending(c) PROVE Pending(c)'
  BY DEF QueueHandsOn
<1>1. PICK w : w = waiting["main"]
  OBVIOUS
<1>2. w # None /\ Answers(w, c)
  BY <1>1 DEF Pending
<1>3. w.before \in 1 .. Len(commits) /\ w.head \in 1 .. Len(commits)
  BY <1>1, <1>2, RunFacts DEF Sound, Branches
<1>4. Answers(w, c)'
  BY <1>2, <1>3, AnswersStays
<1> QED
  BY <1>1, <1>2, <1>4 DEF Pending

LEMMA NothingNew ==
    ASSUME Sound, head'["main"] = head["main"]
    PROVE  NewSeen
<1>1. Past(head["main"])' = Past(head["main"])
  <2>1. PICK h : h = head["main"] /\ h \in 1 .. Len(commits)
    BY HeadFacts DEF Branches
  <2>2. Past(h)' = Past(h)
    BY <2>1, OldCommit
  <2> QED
    BY <2>1, <2>2
<1> QED
  BY <1>1 DEF NewSeen

LEMMA DeployedStays ==
    ASSUME Sound, Rest, NEW b \in Branches, deployed'[b] = deployed[b]
    PROVE  Past(deployed[b])' = Past(deployed[b]) /\ deployed[b] \in Past(deployed[b])
<1>1. PICK d : d = deployed[b] /\ d \in 1 .. Len(commits)
  BY DEF Rest
<1>2. Past(d)' = Past(d) /\ d \in Past(d)
  BY <1>1, OldCommit, PastFacts DEF Sound
<1> QED
  BY <1>1, <1>2

\* What WillSync asks of a run is kept or brought up to date.
SyncHandsOn ==
    ~failed' => \A r \in running["main"] : WillSync(r) =>
      \E q \in running'["main"] :
        /\ q.status["version"] \in {"tag", "release", "ok"}
        /\ \/ q.status["sync"] = "todo"
           \/ /\ q.status["sync"] = "push"
              /\ \/ q.fetched = head
                 \/ q.fetched = r.fetched /\ r.status["sync"] = "push"

LEMMA SyncStays ==
    ASSUME Sound, Rest, failed => failed',
           VersionAt("dev")' = VersionAt("dev"), VersionAt("main")' = VersionAt("main"),
           SyncHandsOn
    PROVE  SyncDue'
<1> SUFFICES ASSUME ~failed', VersionAt("dev")' # VersionAt("main")'
             PROVE  \E q \in running'["main"] : WillSync(q)'
  BY DEF SyncDue
<1>1. PICK r \in running["main"] : WillSync(r)
  BY DEF Rest, SyncDue
<1>2. PICK q \in running'["main"] :
        /\ q.status["version"] \in {"tag", "release", "ok"}
        /\ \/ q.status["sync"] = "todo"
           \/ /\ q.status["sync"] = "push"
              /\ \/ q.fetched = head
                 \/ q.fetched = r.fetched /\ r.status["sync"] = "push"
  BY <1>1 DEF SyncHandsOn
<1>3. ASSUME q.status["sync"] = "push"
      PROVE  commits'[q.fetched["main"]].version = VersionAt("main")'
  <2>1. CASE q.fetched = head
    <3>1. commits'[head["main"]] = commits[head["main"]]
      BY HeadFacts, OldCommit DEF Branches
    <3> QED
      BY <2>1, <3>1 DEF VersionAt
  <2>2. CASE q.fetched = r.fetched /\ r.status["sync"] = "push"
    <3>1. r.fetched["main"] \in 1 .. Len(commits)
      BY <2>2, RunFacts DEF Sound, Branches
    <3>2. commits'[r.fetched["main"]] = commits[r.fetched["main"]]
      BY <3>1, OldCommit
    <3>3. commits[r.fetched["main"]].version = VersionAt("main")
      BY <1>1, <2>2 DEF WillSync
    <3> QED
      BY <2>2, <3>2, <3>3
  <2> QED
    BY <1>2, <1>3, <2>1, <2>2
<1>4. WillSync(q)'
  BY <1>2, <1>3 DEF WillSync
<1> QED
  BY <1>4

-----------------------------------------------------------------------------
(* Steps of a run that push nothing.                                          *)

LEMMA LoneRun ==
    ASSUME IInv, Rest, NEW b \in Branches, NEW r \in running[b], NEW q, Becomes(b, r, q)
    PROVE  running' = [running EXCEPT ![b] = {q}]
<1>1. running[b] = {r}
  BY DEF Rest, Single
<1> QED
  BY <1>1 DEF Becomes

\* A run that has another job done, in the words of RunTrue.
LEMMA RunTrueSame ==
    ASSUME Sound, NEW b \in Branches, NEW r \in running[b], RunTrue(b, r),
           failed => failed', NEW q,
           q.before = r.before, q.head = r.head, q.changed = r.changed,
           q.target = r.target, q.fetched = r.fetched,
           \/ q.status["version"] = r.status["version"]
           \/ r.status["version"] = "tag" /\ q.status["version"] = "release"
           \/ r.status["version"] = "release" /\ q.status["version"] = "ok"
           \/ q.status["version"] = "failed" /\ r.status["version"] # "ok",
           \/ q.status["sync"] \in {r.status["sync"], "failed"}
           \/ r.status["sync"] = "push" /\ q.status["sync"] = "ok",
           ~failed' => \A job \in Jobs : q.status[job] # "failed"
    PROVE  RunTrue(b, q)'
<1>1. RunTrue(b, r)'
  BY RunTrueStays
<1>2. Versioned(q)' <=> Versioned(r)'
  BY DEF Versioned
<1>3. q.status["version"] \in {"tag", "release", "ok"} =>
        Versioned(q)' /\ q.head \in Past(q.target)'
  BY <1>1, <1>2 DEF RunTrue
<1>4. /\ q.status["sync"] = "push" => \A x \in Branches : q.fetched[x] \in Past(head[x])'
      /\ q.status["sync"] \notin {"todo", "failed"} =>
           b = "main" /\ q.status["version"] = "ok"
  BY <1>1 DEF RunTrue
<1> QED
  BY <1>1, <1>3, <1>4 DEF RunTrue

LEMMA SyncSame ==
    ASSUME running["main"] \subseteq running'["main"]
    PROVE  SyncHandsOn
BY DEF SyncHandsOn, WillSync

\* The parts of Rest that speak of the runs of main are handed on.
LEMMA HandedOn ==
    ASSUME Sound, Rest, NEW b \in Branches, NEW r \in running[b], NEW q,
           running' = [running EXCEPT ![b] = {q}],
           q.before = r.before, q.head = r.head, q.target = r.target,
           q.fetched = r.fetched, q.status["sync"] = r.status["sync"],
           \/ q.status["version"] = r.status["version"]
           \/ r.status["version"] = "release" /\ q.status["version"] = "ok",
           q.status["pulumi"] = r.status["pulumi"]
    PROVE  RunsHandOn /\ SyncHandsOn
<1>1. CASE b # "main"
  BY <1>1, RunsStay, SyncSame DEF Sound, IInv
<1>2. CASE b = "main"
  <2>1. running["main"] = {r} /\ running'["main"] = {q}
    BY <1>2 DEF Rest, Single, Sound, IInv, Branches
  <2>2. RunsHandOn
    <3>1. ASSUME NEW c PROVE /\ WillTag(r, c) => WillTag(q, c)'
                             /\ WillDeploy(r, c) => WillDeploy(q, c)'
      <4>1. WillTag(r, c) => r.status["version"] = q.status["version"]
        BY DEF WillTag
      <4> QED
        BY <4>1, RunSees
    <3> QED
      BY <2>1, <3>1 DEF RunsHandOn
  <2>3. SyncHandsOn
    BY <2>1 DEF SyncHandsOn, WillSync
  <2> QED
    BY <2>2, <2>3
<1> QED
  BY <1>1, <1>2

LEMMA JobRest ==
    ASSUME Sound, Rest, NEW b \in Branches, NEW r \in running[b], NEW q,
           Becomes(b, r, q), q.before = r.before, q.head = r.head,
           RunTrue(b, q)', UNCHANGED <<commits, head, waiting, replaced>>,
           failed => failed', failed' \in BOOLEAN,
           \/ deployed' = deployed
           \/ deployed' = [deployed EXCEPT ![b] = r.head],
           RunsHandOn, SyncHandsOn \/ SyncDue'
    PROVE  Rest'
<1>1. running' = [running EXCEPT ![b] = {q}]
  BY LoneRun DEF Sound
<1>2. \A x \in Branches : running'[x] = IF x = b THEN {q} ELSE running[x]
  BY <1>1 DEF Sound, IInv
<1>3. r.head \in 1 .. Len(commits) /\ deployed \in [Branches -> 1 .. Len(commits)]
  BY RunFacts DEF Sound, Rest
<1>4. \A x \in Branches : Single(x)'
  BY <1>2 DEF Single, Rest
<1>5. ASSUME NEW x \in Branches, NEW p \in running'[x] PROVE RunTrue(x, p)'
  BY <1>2, RunTrueStays DEF Rest
<1>6. ASSUME NEW x \in Branches PROVE Ordered(x)'
  <2>1. \A p \in running'[x] : \E s \in running[x] : p.head = s.head
    BY <1>2
  <2>2. CASE deployed'[x] = deployed[x]
    BY <2>1, <2>2, OrderedStays DEF Rest
  <2>3. CASE deployed'[x] # deployed[x]
    <3>1. x = b /\ deployed'[x] = r.head
      BY <1>3, <2>3
    <3>2. \A c : Past(c)' = Past(c)
      BY DEF Past
    <3>3. /\ r.head \in Past(r.head) /\ r.head \in Past(head[b])
          /\ waiting[b] # None => /\ r.head \in Past(waiting[b].head)
                                  /\ waiting[b].head \in Past(head[b])
      BY <1>3, PastFacts DEF Sound, Rest, Ordered
    <3> QED
      BY <1>2, <3>1, <3>2, <3>3 DEF Ordered, Past
  <2> QED
    BY <2>2, <2>3
<1>7. MainHeads'
  BY <1>2 DEF Rest, MainHeads, Branches
<1>8. BumpsAnswer'
  BY BumpsStay DEF Rest
<1>9. VersionAt("main")' = VersionAt("main") /\ VersionAt("dev")' = VersionAt("dev")
  BY DEF VersionAt
<1>10. MainLeads'
  BY <1>9 DEF Rest, MainLeads
<1>11. TagsDue' /\ DeploysDue'
  <2>1. Past(deployed["main"]) \subseteq Past(deployed["main"])'
    <3>1. CASE deployed'["main"] = deployed["main"]
      BY <3>1, DeployedStays DEF Branches
    <3>2. CASE deployed'["main"] # deployed["main"]
      <4>1. b = "main" /\ deployed'["main"] = r.head
        BY <1>3, <3>2 DEF Branches
      <4>2. deployed["main"] \in Past(r.head)
        BY <4>1 DEF Rest, Ordered
      <4>3. Past(deployed["main"]) \subseteq Past(r.head)
        BY <1>3, <4>2, PastFacts DEF Sound
      <4> QED
        BY <4>1, <4>3 DEF Past
    <3> QED
      BY <3>1, <3>2
  <2> QED
    BY <2>1, DuesStay, QueueStaysDue, NothingNew
<1>12. SyncDue'
  BY <1>9, SyncStays
<1>13. /\ deployed' \in [Branches -> 1 .. Len(commits')]
       /\ failed' \in BOOLEAN /\ replaced' \in BOOLEAN
  BY <1>3 DEF Rest
<1> QED
  BY <1>4, <1>5, <1>6, <1>7, <1>8, <1>10, <1>11, <1>12, <1>13 DEF Rest

LEMMA GotoFields ==
    ASSUME IInv, NEW b \in Branches, NEW r \in running[b],
           NEW job \in Jobs, NEW st \in Statuses
    PROVE  LET g == Goto(r, job, st)
           IN  /\ g.before = r.before /\ g.head = r.head /\ g.changed = r.changed
               /\ g.target = r.target /\ g.fetched = r.fetched
               /\ g.status[job] = st
               /\ \A other \in Jobs \ {job} : g.status[other] = r.status[other]
<1>1. r \in RunType
  BY RunFacts
<1> QED
  BY <1>1 DEF RunType, Goto

\* Whatever fails, nothing is promised any more, and nobody is misled.
LEMMA FailRest ==
    ASSUME Sound, Rest, NEW b \in Branches, NEW r \in running[b], NEW job \in Jobs,
           r.status[job] # "ok", Becomes(b, r, Goto(r, job, "failed")), failed' = TRUE,
           UNCHANGED <<commits, head, waiting, deployed, replaced>>
    PROVE  Rest'
<1>1. PICK g : g = Goto(r, job, "failed")
  OBVIOUS
<1>2. /\ g.before = r.before /\ g.head = r.head /\ g.changed = r.changed
      /\ g.target = r.target /\ g.fetched = r.fetched
      /\ g.status[job] = "failed"
      /\ \A other \in Jobs \ {job} : g.status[other] = r.status[other]
  BY <1>1, GotoFields DEF Sound, Statuses
<1>3. RunTrue(b, g)'
  BY <1>2, RunTrueSame DEF Rest, Jobs
<1>4. RunsHandOn /\ SyncHandsOn
  BY DEF RunsHandOn, SyncHandsOn
<1> QED
  BY <1>1, <1>2, <1>3, <1>4, JobRest

LEMMA FailStepRest ==
    ASSUME Sound, Rest, NEW b \in Branches, NEW r \in running[b], Fail(b, r)
    PROVE  Rest'
<1>1. PICK job \in Jobs :
        /\ Ready(b, r, job) \/ r.status[job] \notin {"todo", "ok", "failed"}
        /\ Becomes(b, r, Goto(r, job, "failed"))
  BY DEF Fail
<1>2. r.status[job] # "ok"
  BY <1>1, ReadyFacts
<1> QED
  BY <1>1, <1>2, FailRest DEF Fail

\* A job other than version and sync that ends well.
LEMMA DoneRest ==
    ASSUME Sound, Rest, NEW b \in Branches, NEW r \in running[b], NEW q,
           NEW job \in {"build", "publish", "assets"},
           Becomes(b, r, q), q.before = r.before, q.head = r.head,
           q.changed = r.changed, q.target = r.target, q.fetched = r.fetched,
           q.status[job] = "ok",
           \A other \in Jobs \ {job} : q.status[other] = r.status[other],
           UNCHANGED <<commits, head, waiting, deployed, failed, replaced>>
    PROVE  Rest'
<1>1. /\ q.status["version"] = r.status["version"] /\ q.status["sync"] = r.status["sync"]
      /\ q.status["pulumi"] = r.status["pulumi"]
  BY DEF Jobs
<1>2. ~failed => \A other \in Jobs : q.status[other] # "failed"
  BY DEF Rest, RunTrue
<1>3. RunTrue(b, q)'
  BY <1>1, <1>2, RunTrueSame DEF Rest
<1>4. running' = [running EXCEPT ![b] = {q}]
  BY LoneRun DEF Sound
<1>5. RunsHandOn /\ SyncHandsOn
  BY <1>1, <1>4, HandedOn
<1>6. failed' \in BOOLEAN
  BY DEF Rest
<1> QED
  BY <1>3, <1>5, <1>6, JobRest

LEMMA BuildPublishUploadRest ==
    ASSUME Sound, Rest, NEW b \in Branches, NEW r \in running[b],
           Build(b, r) \/ Publish(b, r) \/ Upload(b, r)
    PROVE  Rest'
<1>1. CASE Build(b, r)
  <2>1. PICK d : Becomes(b, r, [Goto(r, "build", "ok") EXCEPT !.dist = d])
    BY <1>1 DEF Build
  <2>2. PICK q : q = [Goto(r, "build", "ok") EXCEPT !.dist = d]
    OBVIOUS
  <2>3. r \in RunType
    BY RunFacts DEF Sound
  <2>4. /\ q.before = r.before /\ q.head = r.head /\ q.changed = r.changed
        /\ q.target = r.target /\ q.fetched = r.fetched
        /\ q.status["build"] = "ok"
        /\ \A other \in Jobs \ {"build"} : q.status[other] = r.status[other]
    BY <2>2, <2>3 DEF RunType, Goto, Jobs
  <2> QED
    BY <1>1, <2>1, <2>2, <2>4, DoneRest DEF Build
<1>2. ASSUME NEW job \in {"publish", "assets"}, Becomes(b, r, Goto(r, job, "ok")),
             UNCHANGED <<commits, head, waiting, deployed, failed, replaced>>
      PROVE  Rest'
  <2>1. PICK q : q = Goto(r, job, "ok")
    OBVIOUS
  <2>2. /\ q.before = r.before /\ q.head = r.head /\ q.changed = r.changed
        /\ q.target = r.target /\ q.fetched = r.fetched
        /\ q.status[job] = "ok"
        /\ \A other \in Jobs \ {job} : q.status[other] = r.status[other]
    BY <2>1, GotoFields DEF Sound, Jobs, Statuses
  <2> QED
    BY <1>2, <2>1, <2>2, DoneRest
<1>3. CASE Publish(b, r)
  <2>1. CASE Becomes(b, r, Goto(r, "publish", "ok")) /\ UNCHANGED failed
    BY <1>2, <1>3, <2>1 DEF Publish
  <2>2. CASE Becomes(b, r, Goto(r, "publish", "failed")) /\ failed' = TRUE
    <3>1. r.status["publish"] # "ok"
      BY <1>3, ReadyFacts DEF Publish, Jobs
    <3> QED
      BY <1>3, <2>2, <3>1, FailRest DEF Publish, Jobs
  <2> QED
    BY <1>3, <2>1, <2>2 DEF Publish
<1>4. CASE Upload(b, r)
  BY <1>2, <1>4 DEF Upload
<1> QED
  BY <1>1, <1>3, <1>4

\* A version job that is ready was wanted.
LEMMA ReadyVersion ==
    ASSUME NEW b \in Branches, NEW r, Ready(b, r, "version")
    PROVE  Versioned(r) /\ r.status["version"] = "todo"
BY DEF Ready, WillRun, Wanted

LEMMA ComputeAlphaRest ==
    ASSUME Sound, Rest, NEW b \in Branches, NEW r \in running[b], ComputeAlpha(b, r)
    PROVE  Rest'
<1>1. PICK q : q = Tagging(r, r.head)
  OBVIOUS
<1>2. /\ Becomes(b, r, q) /\ b = "dev" /\ UNCHANGED <<commits, head, waiting, replaced>>
      /\ UNCHANGED <<deployed, failed>> /\ Versioned(r) /\ r.status["version"] = "todo"
  BY <1>1, ReadyVersion DEF ComputeAlpha
<1>3. r \in RunType /\ r.head \in 1 .. Len(commits)
  BY RunFacts DEF Sound
<1>4. /\ q.before = r.before /\ q.head = r.head /\ q.changed = r.changed
      /\ q.target = r.head /\ q.fetched = r.fetched /\ q.status["version"] = "tag"
      /\ \A other \in Jobs \ {"version"} : q.status[other] = r.status[other]
  BY <1>1, <1>3 DEF Tagging, RunType, Goto, Jobs
<1>5. RunTrue(b, r) /\ RunTrue(b, r)'
  BY <1>2, RunTrueStays DEF Rest
<1>6. Versioned(q)' /\ q.head \in Past(q.target)'
  <2>1. Versioned(q)'
    BY <1>2, <1>4 DEF Versioned
  <2>2. r.head \in Past(r.head)
    BY <1>3, PastFacts DEF Sound
  <2> QED
    BY <1>2, <1>4, <2>1, <2>2 DEF Past
<1>7. q.status["sync"] \in {"todo", "failed"}
  BY <1>2, <1>4, <1>5 DEF RunTrue, Jobs
<1>8. ~failed' => \A job \in Jobs : q.status[job] # "failed"
  BY <1>2, <1>4, <1>5 DEF RunTrue
<1>9. RunTrue(b, q)'
  BY <1>4, <1>5, <1>6, <1>7, <1>8 DEF RunTrue
<1>10. RunsHandOn /\ SyncHandsOn
  BY <1>2, LoneRun, RunsStay, SyncSame DEF Sound, IInv, Branches
<1>11. failed' \in BOOLEAN
  BY <1>2 DEF Rest
<1> QED
  BY <1>2, <1>4, <1>9, <1>10, <1>11, JobRest

\* With the tag, what the run had to tag is tagged.
LEMMA PushTagRest ==
    ASSUME Sound, Rest, NEW b \in Branches, NEW r \in running[b], PushTag(b, r)
    PROVE  Rest'
<1> DEFINE tag == [version |-> VersionOf(b, r.target), commit |-> r.target]
<1>1. /\ r.status["version"] = "tag"
      /\ UNCHANGED <<commits, head, waiting, deployed, replaced>>
  BY DEF PushTag
<1>2. CASE /\ tags' = tags \union {tag} /\ UNCHANGED failed
           /\ Becomes(b, r, Goto(r, "version", "release"))
  <2>1. PICK q : q = Goto(r, "version", "release")
    OBVIOUS
  <2>2. /\ q.before = r.before /\ q.head = r.head /\ q.changed = r.changed
        /\ q.target = r.target /\ q.fetched = r.fetched /\ q.status["version"] = "release"
        /\ \A other \in Jobs \ {"version"} : q.status[other] = r.status[other]
    BY <2>1, GotoFields DEF Sound, Jobs, Statuses
  <2>3. ~failed => \A job \in Jobs : q.status[job] # "failed"
    BY <2>2 DEF Rest, RunTrue
  <2>4. RunTrue(b, q)'
    BY <1>1, <1>2, <2>2, <2>3, RunTrueSame DEF Rest, Jobs
  <2>5. running' = [running EXCEPT ![b] = {q}]
    BY <1>2, <2>1, LoneRun DEF Sound
  <2>6. RunsHandOn /\ SyncHandsOn
    <3>1. CASE b # "main"
      BY <2>5, <3>1, RunsStay, SyncSame DEF Sound, IInv
    <3>2. CASE b = "main"
      <4>1. running["main"] = {r} /\ running'["main"] = {q}
        BY <2>5, <3>2 DEF Rest, Single, Sound, IInv, Branches
      <4>2. ASSUME NEW c, WillTag(r, c) PROVE Tagged(c)'
        <5>1. c \in Past(r.target)
          BY <1>1, <4>2 DEF WillTag
        <5>2. c \in Past(r.target)'
          BY <1>1, <5>1 DEF Past
        <5>3. tag \in tags' /\ tag.version.alpha = 0 /\ tag.commit = r.target
          BY <1>2, <3>2 DEF VersionOf, Stable
        <5> QED
          BY <5>2, <5>3 DEF Tagged
      <4>3. \A c : WillDeploy(r, c) => WillDeploy(q, c)'
        BY <2>2, RunSees DEF Jobs
      <4>4. RunsHandOn
        BY <4>1, <4>2, <4>3 DEF RunsHandOn
      <4>5. SyncHandsOn
        BY <2>2, <4>1 DEF SyncHandsOn, WillSync, Jobs
      <4> QED
        BY <4>4, <4>5
    <3> QED
      BY <3>1, <3>2
  <2>7. failed' \in BOOLEAN
    BY <1>2 DEF Rest
  <2> QED
    BY <1>1, <1>2, <2>1, <2>2, <2>4, <2>6, <2>7, JobRest
<1>3. CASE failed' = TRUE /\ Becomes(b, r, Goto(r, "version", "failed"))
  BY <1>1, <1>3, FailRest DEF Jobs
<1> QED
  BY <1>2, <1>3 DEF PushTag

LEMMA ReleaseRest ==
    ASSUME Sound, Rest, NEW b \in Branches, NEW r \in running[b], Release(b, r)
    PROVE  Rest'
<1>1. PICK q : q = Goto(r, "version", "ok")
  OBVIOUS
<1>2. /\ Becomes(b, r, q) /\ r.status["version"] = "release"
      /\ UNCHANGED <<commits, head, waiting, deployed, failed, replaced>>
  BY <1>1 DEF Release
<1>3. /\ q.before = r.before /\ q.head = r.head /\ q.changed = r.changed
      /\ q.target = r.target /\ q.fetched = r.fetched /\ q.status["version"] = "ok"
      /\ \A other \in Jobs \ {"version"} : q.status[other] = r.status[other]
  BY <1>1, GotoFields DEF Sound, Jobs, Statuses
<1>4. ~failed => \A job \in Jobs : q.status[job] # "failed"
  BY <1>3 DEF Rest, RunTrue
<1>5. RunTrue(b, q)'
  BY <1>2, <1>3, <1>4, RunTrueSame DEF Rest, Jobs
<1>6. RunsHandOn /\ SyncHandsOn
  BY <1>2, <1>3, LoneRun, HandedOn DEF Sound, Jobs
<1>7. failed' \in BOOLEAN
  BY <1>2 DEF Rest
<1> QED
  BY <1>2, <1>3, <1>5, <1>6, <1>7, JobRest

\* What sync-dev fetches is up to date when it is fetched.
LEMMA FetchRest ==
    ASSUME Sound, Rest, NEW b \in Branches, NEW r \in running[b], Fetch(b, r)
    PROVE  Rest'
<1>1. PICK q : q = [Goto(r, "sync", "push") EXCEPT !.fetched = head]
  OBVIOUS
<1>2. /\ Becomes(b, r, q) /\ Ready(b, r, "sync")
      /\ UNCHANGED <<commits, head, waiting, deployed, failed, replaced>>
  BY <1>1 DEF Fetch
<1>3. r.status["sync"] = "todo" /\ r.status["version"] = "ok" /\ b = "main"
  <2>1. b = "main"
    BY <1>2 DEF Ready, WillRun, Wanted
  <2> QED
    BY <1>2, <2>1, ReadyFacts DEF Jobs
<1>4. r \in RunType
  BY RunFacts DEF Sound
<1>5. /\ q.before = r.before /\ q.head = r.head /\ q.changed = r.changed
      /\ q.target = r.target /\ q.fetched = head /\ q.status["sync"] = "push"
      /\ \A other \in Jobs \ {"sync"} : q.status[other] = r.status[other]
  BY <1>1, <1>4 DEF RunType, Goto, Jobs
<1>6. q.status["version"] = "ok" /\ q.status["pulumi"] = r.status["pulumi"]
  BY <1>3, <1>5 DEF Jobs
<1>7. RunTrue(b, q)'
  <2>1. RunTrue(b, r)'
    BY <1>2, RunTrueStays DEF Rest
  <2>2. Versioned(q)' /\ q.head \in Past(q.target)'
    BY <1>3, <1>5, <2>1 DEF RunTrue, Versioned
  <2>3. \A x \in Branches : q.fetched[x] \in Past(head[x])'
    BY <1>2, <1>5, HeadFacts
  <2>4. ~failed' => \A job \in Jobs : q.status[job] # "failed"
    BY <1>5, <2>1 DEF RunTrue
  <2> QED
    BY <1>3, <1>5, <1>6, <2>1, <2>2, <2>3, <2>4 DEF RunTrue
<1>8. running["main"] = {r} /\ running'["main"] = {q}
  BY <1>2, <1>3, LoneRun DEF Rest, Single, Sound, IInv, Branches
<1>9. RunsHandOn
  <2>1. \A c : /\ WillTag(r, c) => WillTag(q, c)'
               /\ WillDeploy(r, c) => WillDeploy(q, c)'
    BY <1>3, <1>5, <1>6, RunSees
  <2> QED
    BY <1>8, <2>1 DEF RunsHandOn
<1>10. SyncHandsOn
  BY <1>5, <1>6, <1>8 DEF SyncHandsOn
<1>11. failed' \in BOOLEAN
  BY <1>2 DEF Rest
<1> QED
  BY <1>2, <1>5, <1>7, <1>9, <1>10, <1>11, JobRest

\* What the run had to deploy is deployed.
LEMMA DeployRest ==
    ASSUME Sound, Rest, NEW b \in Branches, NEW r \in running[b], Deploy(b, r)
    PROVE  Rest'
<1>1. PICK q : q = Goto(r, "pulumi", "ok")
  OBVIOUS
<1>2. /\ Becomes(b, r, q) /\ deployed' = [deployed EXCEPT ![b] = r.head]
      /\ UNCHANGED <<commits, head, waiting, failed, replaced>>
  BY <1>1 DEF Deploy
<1>3. /\ q.before = r.before /\ q.head = r.head /\ q.changed = r.changed
      /\ q.target = r.target /\ q.fetched = r.fetched /\ q.status["pulumi"] = "ok"
      /\ \A other \in Jobs \ {"pulumi"} : q.status[other] = r.status[other]
  BY <1>1, GotoFields DEF Sound, Jobs, Statuses
<1>4. ~failed => \A job \in Jobs : q.status[job] # "failed"
  BY <1>3 DEF Rest, RunTrue
<1>5. q.status["version"] = r.status["version"] /\ q.status["sync"] = r.status["sync"]
  BY <1>3 DEF Jobs
<1>6. RunTrue(b, q)'
  BY <1>2, <1>3, <1>4, <1>5, RunTrueSame DEF Rest
<1>7. running' = [running EXCEPT ![b] = {q}]
  BY <1>2, LoneRun DEF Sound
<1>8. RunsHandOn /\ SyncHandsOn
  <2>1. CASE b # "main"
    BY <1>7, <2>1, RunsStay, SyncSame DEF Sound, IInv
  <2>2. CASE b = "main"
    <3>1. running["main"] = {r} /\ running'["main"] = {q}
      BY <1>7, <2>2 DEF Rest, Single, Sound, IInv, Branches
    <3>2. ASSUME NEW c, WillDeploy(r, c) PROVE c \in Past(deployed["main"])'
      <4>1. c \in Past(r.head) /\ deployed'["main"] = r.head
        BY <1>2, <2>2, <3>2 DEF WillDeploy, Answers, Rest
      <4> QED
        BY <1>2, <4>1 DEF Past
    <3>3. \A c : WillTag(r, c) => WillTag(q, c)'
      BY <1>3, <1>5, RunSees
    <3>4. RunsHandOn
      BY <3>1, <3>2, <3>3 DEF RunsHandOn
    <3>5. SyncHandsOn
      BY <1>3, <1>5, <3>1 DEF SyncHandsOn, WillSync
    <3> QED
      BY <3>4, <3>5
  <2> QED
    BY <2>1, <2>2
<1>9. failed' \in BOOLEAN
  BY <1>2 DEF Rest
<1> QED
  BY <1>2, <1>3, <1>6, <1>8, <1>9, JobRest

-----------------------------------------------------------------------------
(* A run begins and ends.                                                     *)

LEMMA StartRest ==
    ASSUME Sound, Rest, NEW b \in Branches, Start(b)
    PROVE  Rest'
<1>1. PICK w : w = waiting[b]
  OBVIOUS
<1>2. PICK q : q = Detected(w)
  OBVIOUS
<1>3. /\ w # None /\ running[b] = {} /\ waiting' = [waiting EXCEPT ![b] = None]
      /\ running' = [running EXCEPT ![b] = {q}]
      /\ UNCHANGED <<commits, head, tags, deployed, failed, replaced>>
  BY <1>1, <1>2 DEF Start
<1>4. /\ w \in RunType /\ w.status = [job \in Jobs |-> "todo"]
      /\ w.head \in 1 .. Len(commits) /\ w.before \in 1 .. Len(commits)
  BY <1>1, <1>3, RunFacts DEF Sound, IInv, RunsOK
<1>5. /\ q.before = w.before /\ q.head = w.head
      /\ q.changed = Changed(commits, w.before, w.head)
      /\ q.status["changes"] = "ok"
      /\ \A other \in Jobs \ {"changes"} : q.status[other] = "todo"
  BY <1>2, <1>4 DEF Detected, Goto, RunType, Jobs
<1>6. /\ q.status["version"] = "todo" /\ q.status["sync"] = "todo"
      /\ q.status["pulumi"] = "todo"
  BY <1>5 DEF Jobs
<1>7. RunTrue(b, q)'
  BY <1>3, <1>5, <1>6 DEF RunTrue
<1>8. \A x \in Branches : /\ running'[x] = IF x = b THEN {q} ELSE running[x]
                          /\ waiting'[x] = IF x = b THEN None ELSE waiting[x]
  BY <1>3 DEF Sound, IInv
<1>9. \A x \in Branches : Single(x)' /\ \A r \in running'[x] : RunTrue(x, r)'
  BY <1>3, <1>7, <1>8, RunTrueStays DEF Single, Rest
<1>10. ASSUME NEW x \in Branches PROVE Ordered(x)'
  <2>1. CASE x # b
    BY <1>3, <1>8, <2>1, OrderedStays DEF Rest
  <2>2. CASE x = b
    BY <1>1, <1>3, <1>5, <1>8, <2>2 DEF Rest, Ordered, Past
  <2> QED
    BY <2>1, <2>2
<1>11. MainHeads'
  BY <1>1, <1>3, <1>5, <1>8 DEF Rest, MainHeads, Branches
<1>12. BumpsAnswer' /\ MainLeads'
  BY <1>3, BumpsStay DEF Rest, MainLeads, VersionAt
<1>13. RunsHandOn /\ SyncHandsOn
  BY <1>3, <1>8, RunsStay, SyncSame DEF Branches
<1>14. QueueHandsOn
  <2>1. CASE b # "main"
    BY <1>8, <2>1, QueueStaysDue DEF Branches
  <2>2. CASE b = "main"
    <3>1. q \in running'["main"]
      BY <1>8, <2>2
    <3>2. ASSUME NEW c, Pending(c) PROVE WillTag(q, c)' /\ WillDeploy(q, c)'
      <4>1. Answers(w, c)
        BY <1>1, <2>2, <3>2 DEF Pending
      <4>2. Answers(q, c)'
        BY <1>3, <1>5, <4>1 DEF Answers, Past
      <4> QED
        BY <1>6, <4>2 DEF WillTag, WillDeploy
    <3> QED
      BY <3>1, <3>2 DEF QueueHandsOn
  <2> QED
    BY <2>1, <2>2
<1>15. TagsDue' /\ DeploysDue'
  BY <1>3, <1>13, <1>14, DuesStay, NothingNew DEF Past
<1>16. SyncDue'
  BY <1>3, <1>13, SyncStays DEF VersionAt
<1>17. /\ deployed' \in [Branches -> 1 .. Len(commits')]
       /\ failed' \in BOOLEAN /\ replaced' \in BOOLEAN
  BY <1>3 DEF Rest
<1> QED
  BY <1>9, <1>10, <1>11, <1>12, <1>15, <1>16, <1>17 DEF Rest

LEMMA StartFailsRest ==
    ASSUME Sound, Rest, NEW b \in Branches, StartFails(b)
    PROVE  Rest'
<1>1. /\ waiting' = [waiting EXCEPT ![b] = None] /\ failed'
      /\ UNCHANGED <<commits, head, running, deployed, replaced>>
  BY DEF StartFails
<1>2. \A x \in Branches : waiting'[x] \in {waiting[x], None}
  BY <1>1 DEF Sound, IInv
<1>3. \A x \in Branches : Single(x)' /\ \A r \in running'[x] : RunTrue(x, r)'
  BY <1>1, RunTrueStays DEF Single, Rest
<1>4. \A x \in Branches : Ordered(x)'
  BY <1>1, <1>2, OrderedStays DEF Rest
<1>5. MainHeads'
  BY <1>1, <1>2 DEF Rest, MainHeads, Branches
<1>6. BumpsAnswer' /\ MainLeads'
  BY <1>1, BumpsStay DEF Rest, MainLeads, VersionAt
<1>7. TagsDue' /\ DeploysDue' /\ SyncDue'
  BY <1>1 DEF TagsDue, DeploysDue, SyncDue
<1>8. failed' \in BOOLEAN
  BY DEF StartFails
<1> QED
  BY <1>1, <1>3, <1>4, <1>5, <1>6, <1>7, <1>8 DEF Rest

\* What is wanted is done when the run is over, unless something failed.
LEMMA OverDone ==
    ASSUME IInv, Rest, ~failed, NEW b \in Branches, NEW r \in running[b], Over(b, r)
    PROVE  /\ Versioned(r) => r.status["version"] = "ok"
           /\ Versioned(r) /\ b = "main" => r.status["sync"] = "ok"
           /\ Provisioned(b, r) => r.status["pulumi"] = "ok"
<1>1. \A job \in Jobs : r.status[job] # "failed"
  BY DEF Rest, RunTrue
<1>2. /\ Upstream["version"] = {"changes"} /\ Upstream["pulumi"] = {"changes"}
      /\ Upstream["sync"] = {"changes", "version"}
      /\ {"changes", "version", "sync", "pulumi"} \subseteq Jobs
  BY DEF Upstream, Jobs
<1>3. /\ Wanted(b, r, "changes") /\ Wanted(b, r, "version") = Versioned(r)
      /\ Wanted(b, r, "sync") = (b = "main") /\ Wanted(b, r, "pulumi") = Provisioned(b, r)
  BY DEF Wanted
<1>4. /\ Versioned(r) => WillRun(b, r, "version")
      /\ Versioned(r) /\ b = "main" => WillRun(b, r, "sync")
      /\ Provisioned(b, r) => WillRun(b, r, "pulumi")
  BY <1>1, <1>2, <1>3 DEF WillRun
<1> QED
  BY <1>2, <1>4 DEF Over

LEMMA FinishRest ==
    ASSUME Sound, Rest, NEW b \in Branches, NEW r \in running[b], Finish(b, r)
    PROVE  Rest'
<1>1. /\ Over(b, r) /\ running' = [running EXCEPT ![b] = @ \ {r}]
      /\ UNCHANGED <<commits, head, waiting, tags, deployed, failed, replaced>>
  BY DEF Finish
<1>2. \A x \in Branches : running'[x] = IF x = b THEN {} ELSE running[x]
  <2>1. running[b] \ {r} = {}
    BY DEF Rest, Single
  <2> QED
    BY <1>1, <2>1 DEF Sound, IInv
<1>3. \A x \in Branches : Single(x)' /\ \A q \in running'[x] : RunTrue(x, q)'
  BY <1>1, <1>2, RunTrueStays DEF Single, Rest
<1>4. \A x \in Branches : Ordered(x)'
  BY <1>1, <1>2, OrderedStays DEF Rest
<1>5. MainHeads' /\ BumpsAnswer' /\ MainLeads'
  BY <1>1, <1>2, BumpsStay DEF Rest, MainHeads, Branches, MainLeads, VersionAt
<1>6. ASSUME ~failed, b = "main", NEW c \in 1 .. Len(commits), Answers(r, c),
             commits[c].kind \in {"src", "github", "pulumi"}
      PROVE  commits[c].kind \in r.changed /\ ~commits[r.head].bot
  <2>1. r.changed = Changed(commits, r.before, r.head)
    BY DEF Rest, RunTrue
  <2>2. commits[c].kind # None
    BY <1>6, ConstantsAssumption
  <2> QED
    BY <1>6, <2>1, <2>2 DEF Answers, Changed, Past
<1>7. RunsHandOn
  <2> SUFFICES ASSUME ~failed, b = "main", NEW c \in 1 .. Len(commits)
               PROVE  /\ ~(WillTag(r, c) /\ commits[c].kind \in {"src", "github"})
                      /\ ~(WillDeploy(r, c) /\ commits[c].kind = "pulumi" /\ ProdReady)
    <3>1. CASE b = "main"
      <4>1. \A q \in running["main"] : q = r
        BY <3>1 DEF Rest, Single
      <4> QED
        BY <1>1, <3>1, <4>1 DEF RunsHandOn
    <3>2. CASE b # "main"
      BY <1>2, <3>2, RunsStay DEF Branches
    <3> QED
      BY <3>1, <3>2
  <2>1. ASSUME WillTag(r, c), commits[c].kind \in {"src", "github"} PROVE FALSE
    <3>1. Versioned(r)
      BY <1>6, <2>1 DEF WillTag, Rest, RunTrue, Versioned
    <3>2. r.status["version"] = "ok"
      BY <1>1, <3>1, OverDone DEF Sound
    <3> QED
      BY <2>1, <3>2 DEF WillTag
  <2>2. ASSUME WillDeploy(r, c), commits[c].kind = "pulumi", ProdReady PROVE FALSE
    <3>1. Provisioned(b, r)
      BY <1>6, <2>2 DEF WillDeploy, Provisioned
    <3>2. r.status["pulumi"] = "ok"
      BY <1>1, <3>1, OverDone DEF Sound
    <3> QED
      BY <2>2, <3>2 DEF WillDeploy
  <2> QED
    BY <2>1, <2>2
<1>8. SyncHandsOn
  <2>1. CASE b # "main"
    BY <1>2, <2>1, SyncSame DEF Branches
  <2>2. ASSUME b = "main", ~failed, NEW q \in running["main"], WillSync(q) PROVE FALSE
    <3>1. q = r
      BY <2>2 DEF Rest, Single
    <3>2. Versioned(r)
      BY <2>2, <3>1 DEF WillSync, Rest, RunTrue
    <3>3. r.status["sync"] = "ok"
      BY <1>1, <2>2, <3>2, OverDone DEF Sound
    <3> QED
      BY <2>2, <3>1, <3>3 DEF WillSync
  <2> QED
    BY <1>1, <2>1, <2>2 DEF SyncHandsOn
<1>9. TagsDue' /\ DeploysDue'
  BY <1>1, <1>7, DuesStay, QueueStaysDue, NothingNew DEF Past
<1>10. SyncDue'
  BY <1>1, <1>8, SyncStays DEF VersionAt
<1>11. /\ deployed' \in [Branches -> 1 .. Len(commits')]
       /\ failed' \in BOOLEAN /\ replaced' \in BOOLEAN
  BY <1>1 DEF Rest
<1> QED
  BY <1>3, <1>4, <1>5, <1>9, <1>10, <1>11 DEF Rest

-----------------------------------------------------------------------------
(* Pushes.                                                                    *)

LEMMA PushFacts ==
    ASSUME Sound, Rest, NEW b \in Branches, NEW c \in 1 .. Len(commits'),
           Push(b, commits', c)
    PROVE  /\ \A x \in Branches : head'[x] = IF x = b THEN c ELSE head[x]
           /\ replaced' \in BOOLEAN /\ (replaced => replaced')
           /\ waiting[b] # None => running[b] # {}
           /\ \/ /\ UNCHANGED <<waiting, replaced>>
                 /\ Changed(commits', head[b], c) \subseteq {"docs"}
              \/ /\ Run(head[b], c) # None
                 /\ \A x \in Branches :
                      waiting'[x] = IF x = b THEN Run(head[b], c) ELSE waiting[x]
                 /\ ~replaced' => waiting[b] = None \/ commits[waiting[b].head].bot
<1>1. head[b] \in Nat /\ c \in Nat
  BY HeadFacts, PastFacts, Domain DEF Sound, IInv, Grown, WellFormed
<1>2. Run(head[b], c) # None
  BY <1>1, NoneAssumption DEF Run
<1> QED
  BY <1>2 DEF Push, Sound, IInv, Rest

LEMMA PushedCommit ==
    ASSUME Sound, NEW parents \in SUBSET (1 .. Len(commits)),
           NEW commit, commits' = Append(commits, commit), commit.past = Upon(parents)
    PROVE  /\ New \in 1 .. Len(commits') /\ New \notin 1 .. Len(commits) /\ New # 1
           /\ commits'[New] = commit
           /\ \A c \in 1 .. Len(commits') : c \in 1 .. Len(commits) \/ c = New
           /\ \A c : c \in commits'[New].past <=> c = New \/ \E p \in parents : c \in Past(p)
<1>1. commits \in Seq(CommitType) /\ Len(commits) \in Nat
  BY DEF Sound, IInv, WellFormed
<1>2. /\ Len(commits') = Len(commits) + 1 /\ commits'[New] = commit
  BY <1>1 DEF New
<1>3. Len(commits) # 0
  BY <1>1, HeadFacts DEF Branches
<1>4. /\ New \in 1 .. Len(commits') /\ New \notin 1 .. Len(commits) /\ New # 1
      /\ \A c \in 1 .. Len(commits') : c \in 1 .. Len(commits) \/ c = New
  BY <1>1, <1>2, <1>3 DEF New
<1>5. commits'[New].past = Upon(parents)
  BY <1>2
<1>6. \A c : c \in commits'[New].past <=> c = New \/ \E p \in parents : c \in Past(p)
  <2>1. \A p \in parents : Past(p) \subseteq DOMAIN commits
    BY PastFacts, Domain DEF Sound, IInv
  <2> QED
    BY <1>5, <2>1 DEF Upon
<1> QED
  BY <1>2, <1>4, <1>6

LEMMA QueuePushed ==
    ASSUME Sound, Rest, NEW b \in Branches, NEW c \in 1 .. Len(commits'),
           Push(b, commits', c)
    PROVE  QueueHandsOn
<1>1. CASE waiting'["main"] = waiting["main"]
  BY <1>1, QueueStaysDue
<1>2. CASE waiting'["main"] # waiting["main"]
  <2>1. ~replaced' => waiting["main"] = None \/ commits[waiting["main"].head].bot
    BY <1>2, PushFacts DEF Branches
  <2> QED
    BY <2>1 DEF QueueHandsOn, Pending, Answers
<1> QED
  BY <1>1, <1>2

\* The parts of Rest that a push leaves true whatever is pushed.
LEMMA PushOrder ==
    ASSUME Sound, Rest, NEW b \in Branches, NEW c \in 1 .. Len(commits'),
           Push(b, commits', c), UNCHANGED deployed,
           \A x \in Branches : \A q \in running'[x] : \E r \in running[x] : q.head = r.head
    PROVE  /\ \A x \in Branches : Ordered(x)'
           /\ (b = "main" => c # 1) => MainHeads'
           /\ deployed' \in [Branches -> 1 .. Len(commits')]
           /\ Past(deployed["main"]) \subseteq Past(deployed["main"])'
<1>1. \A x \in Branches : \/ waiting'[x] = waiting[x]
                          \/ /\ waiting'[x].head = head'[x]
                             /\ x = b /\ waiting'[x].head = c
  <2>1. Run(head[b], c).head = c
    BY DEF Run
  <2>2. \A x \in Branches : \/ waiting'[x] = waiting[x]
                            \/ x = b /\ waiting'[x] = Run(head[b], c) /\ head'[x] = c
    BY PushFacts
  <2> QED
    BY <2>1, <2>2
<1>2. \A x \in Branches : Ordered(x)'
  BY <1>1, OrderedStays DEF Rest
<1>3. (b = "main" => c # 1) => MainHeads'
  BY <1>1 DEF Rest, MainHeads, Branches
<1>4. deployed' \in [Branches -> 1 .. Len(commits')]
  BY OldCommit DEF Rest
<1>5. Past(deployed["main"]) \subseteq Past(deployed["main"])'
  BY DeployedStays DEF Branches
<1> QED
  BY <1>2, <1>3, <1>4, <1>5

\* A user's push leaves the version of the branch as it is.
LEMMA UserPushRest ==
    ASSUME Sound, Rest, NEW b \in Branches,
           NEW parents \in SUBSET (1 .. Len(commits)), head[b] \in parents,
           NEW commit, commit.past = Upon(parents), commit.bot = FALSE,
           commit.version = VersionAt(b), PushNew(b, commit),
           UNCHANGED <<running, tags, deployed, failed>>
    PROVE  Rest'
<1>1. PICK n : n = New
  OBVIOUS
<1>2. /\ commits' = Append(commits, commit) /\ Push(b, commits', n)
      /\ n \in 1 .. Len(commits') /\ n \notin 1 .. Len(commits) /\ n # 1
      /\ commits'[n] = commit
      /\ \A c \in 1 .. Len(commits') : c \in 1 .. Len(commits) \/ c = n
      /\ \A c : c \in commits'[n].past <=> c = n \/ \E p \in parents : c \in Past(p)
  <2>1. commits' = Append(commits, commit)
    BY DEF PushNew
  <2> QED
    BY <1>1, <2>1, PushedCommit DEF PushNew
<1>3. \A x \in Branches : Single(x)' /\ \A r \in running'[x] : RunTrue(x, r)'
  BY RunTrueStays DEF Single, Rest
<1>4. /\ \A x \in Branches : Ordered(x)'
      /\ MainHeads' /\ deployed' \in [Branches -> 1 .. Len(commits')]
      /\ Past(deployed["main"]) \subseteq Past(deployed["main"])'
  <2>1. \A x \in Branches : \A q \in running'[x] : \E r \in running[x] : q.head = r.head
    OBVIOUS
  <2> QED
    BY <1>2, <2>1, PushOrder
<1>5. BumpsAnswer'
  BY <1>2, BumpsStay DEF Rest
<1>6. ASSUME NEW x \in Branches PROVE VersionAt(x)' = VersionAt(x)
  <2>1. CASE x = b
    BY <1>2, <2>1, PushFacts DEF VersionAt
  <2>2. CASE x # b
    BY <1>2, <2>2, PushFacts, HeadFacts, OldCommit DEF VersionAt
  <2> QED
    BY <2>1, <2>2
<1>7. MainLeads'
  <2>1. VersionAt("main") <= VersionAt("main")'
    BY <1>6, HeadFacts, PastFacts DEF Branches, VersionAt, Sound
  <2>2. commits'[n].version <= VersionAt("main")'
    BY <1>2, <1>6, HeadFacts DEF VersionAt, Rest, MainLeads, Branches
  <2> QED
    BY <1>2, <2>1, <2>2, LeadStays DEF Rest
<1>8. NewSeen
  <2>1. CASE b # "main"
    BY <1>2, <2>1, PushFacts, NothingNew DEF Branches
  <2>2. CASE b = "main"
    <3>1. head'["main"] = n /\ head["main"] \in 1 .. Len(commits)
      BY <1>2, <2>2, PushFacts, HeadFacts DEF Branches
    <3>2. Past(head["main"])' = commits'[n].past /\ Past(head["main"]) = commits'[head["main"]].past
      BY <3>1, OldCommit DEF Past
    <3> SUFFICES ASSUME NEW c \in commits'[n].past, c \notin Past(head["main"]),
                        commits'[c].kind \in {"src", "github", "pulumi"}
                 PROVE  Pending(c)'
      BY <3>2 DEF NewSeen, TagDue, DeployDue
    <3>3. CASE Changed(commits', head[b], n) \subseteq {"docs"}
      <4>1. commits'[c].kind # None
        BY ConstantsAssumption
      <4>2. commits'[c].kind \in Changed(commits', head[b], n)
        BY <2>2, <3>2, <4>1 DEF Changed
      <4> QED
        BY <3>3, <4>2
    <3>4. CASE ~(Changed(commits', head[b], n) \subseteq {"docs"})
      <4>1. PICK w : w = waiting'["main"]
        OBVIOUS
      <4>2. w = Run(head[b], n) /\ w # None
        BY <1>2, <2>2, <3>4, <4>1, PushFacts DEF Branches
      <4>3. w.before = head["main"] /\ w.head = n
        BY <2>2, <4>2 DEF Run
      <4>4. Answers(w, c)'
        BY <1>2, <3>2, <4>3 DEF Answers, Past
      <4> QED
        BY <4>1, <4>2, <4>4 DEF Pending
    <3> QED
      BY <3>3, <3>4
  <2> QED
    BY <2>1, <2>2
<1>9. replaced' \in BOOLEAN /\ (replaced => replaced')
  BY <1>2, PushFacts
<1>10. TagsDue' /\ DeploysDue'
  BY <1>2, <1>4, <1>8, <1>9, DuesStay, RunsStay, QueuePushed
<1>11. SyncDue'
  BY <1>6, SyncStays, SyncSame DEF Branches
<1>12. failed' \in BOOLEAN
  BY DEF Rest
<1> QED
  BY <1>3, <1>4, <1>5, <1>7, <1>9, <1>10, <1>11, <1>12 DEF Rest

LEMMA MergeRest ==
    ASSUME Sound, Rest, NEW b \in Branches, NEW kind \in Kinds, Merge(b, kind)
    PROVE  Rest'
<1>1. PICK commit : commit = Commit(Upon({head[b]}), commits[head[b]].version, kind, FALSE)
  OBVIOUS
<1>2. /\ commit.past = Upon({head[b]}) /\ commit.bot = FALSE
      /\ commit.version = VersionAt(b)
  BY <1>1 DEF Commit, VersionAt
<1>3. {head[b]} \in SUBSET (1 .. Len(commits))
  BY HeadFacts
<1> QED
  BY <1>1, <1>2, <1>3, UserPushRest DEF Merge

LEMMA PromoteRest ==
    ASSUME Sound, Rest, Promote
    PROVE  Rest'
<1>1. PICK commit : commit = Commit(Upon({head["main"], head["dev"]}),
                                    Larger(commits[head["main"]].version,
                                           commits[head["dev"]].version), None, FALSE)
  OBVIOUS
<1>2. {head["main"], head["dev"]} \in SUBSET (1 .. Len(commits))
  BY HeadFacts DEF Branches
<1>3. Larger(commits[head["main"]].version, commits[head["dev"]].version) = VersionAt("main")
  <2>1. /\ commits[head["main"]].version \in Nat /\ commits[head["dev"]].version \in Nat
        /\ commits[head["dev"]].version <= VersionAt("main")
    BY <1>2, PastFacts DEF Rest, MainLeads, Sound
  <2> QED
    BY <2>1 DEF Larger, VersionAt
<1>4. /\ commit.past = Upon({head["main"], head["dev"]}) /\ commit.bot = FALSE
      /\ commit.version = VersionAt("main")
  BY <1>1, <1>3 DEF Commit
<1>5. PushNew("main", commit) /\ UNCHANGED <<running, tags, deployed, failed>>
  BY <1>1 DEF Promote
<1> QED
  BY <1>2, <1>4, <1>5, UserPushRest DEF Branches

-----------------------------------------------------------------------------
(* The bot's pushes.                                                          *)

\* The bump is the one answer to the push that its run was started for: with
\* another, main would have moved on.
LEMMA BumpAnswers ==
    ASSUME Sound, Rest, NEW n \in 1 .. Len(commits'), NEW p \in UserPushes,
           n \notin 1 .. Len(commits), p = head["main"], head'["main"] = n,
           commits'[n].bot, commits'[n].kind = "src",
           \A c \in 1 .. Len(commits') : c \in 1 .. Len(commits) \/ c = n,
           \A c : c \in commits'[n].past <=> c = n \/ c \in Past(p)
    PROVE  BumpsAnswer'
<1>1. DOMAIN commits = 1 .. Len(commits) /\ DOMAIN commits' = 1 .. Len(commits')
  BY Domain DEF Sound, IInv, Grown, WellFormed
<1>2. /\ Bumps \subseteq 1 .. Len(commits)
      /\ \A c \in Bumps' : c \in Bumps \/ c = n
      /\ \A u \in UserPushes' : u \in UserPushes
      /\ UserPushes \subseteq UserPushes' \intersect (1 .. Len(commits))
  BY <1>1, OldCommit DEF Bumps, UserPushes
<1>3. /\ p \in 1 .. Len(commits) /\ p \in Nat /\ p \in Past(p) /\ Past(p) \subseteq 1 .. p
      /\ p # n /\ n \notin Past(p)
  BY <1>2, PastFacts DEF Sound
<1>4. Past(n)' = commits'[n].past
  BY DEF Past
<1>5. \A u : BumpOf(n, u)' <=> u = p
  <2>1. \A u : BumpOf(n, u)' <=> u \in Past(p) /\ \A q \in Past(p) : q <= u
    BY <1>3, <1>4 DEF BumpOf
  <2> QED
    BY <1>3, <2>1
<1>6. \A c \in Bumps : ~BumpOf(c, p)
  <2> SUFFICES ASSUME NEW c \in Bumps, BumpOf(c, p) PROVE FALSE
    OBVIOUS
  <2>1. c \in Past(p)
    BY DEF Rest, BumpsAnswer
  <2>2. p \in Past(c) /\ p # c /\ c \in 1 .. Len(commits)
    BY <1>2 DEF BumpOf
  <2>3. Past(c) \subseteq 1 .. c /\ c \in Nat
    BY <2>2, PastFacts DEF Sound
  <2> QED
    BY <1>3, <2>1, <2>2, <2>3
<1>7. \A c \in Bumps : \A u : BumpOf(c, u)' <=> BumpOf(c, u)
  BY <1>2, BumpOfStays
<1>8. \A c \in Bumps' : c \in Past(head["main"])' /\ \E u \in UserPushes' : BumpOf(c, u)'
  <2> TAKE c \in Bumps'
  <2>1. CASE c = n
    BY <1>2, <1>4, <1>5, <2>1 DEF Past
  <2>2. CASE c \in Bumps
    BY <1>2, <1>7, <2>2, HeadFacts DEF Rest, BumpsAnswer, Branches
  <2> QED
    BY <1>2, <2>1, <2>2
<1>9. \A c, d \in Bumps', u \in UserPushes' : BumpOf(c, u)' /\ BumpOf(d, u)' => c = d
  <2> TAKE c, d \in Bumps', u \in UserPushes'
  <2> HAVE BumpOf(c, u)' /\ BumpOf(d, u)'
  <2>1. CASE c = n \/ d = n
    BY <1>2, <1>5, <1>6, <1>7, <2>1
  <2>2. CASE c \in Bumps /\ d \in Bumps
    BY <1>2, <1>7, <2>2 DEF Rest, BumpsAnswer
  <2> QED
    BY <1>2, <2>1, <2>2
<1> QED
  BY <1>8, <1>9 DEF BumpsAnswer

LEMMA PushBumpRest ==
    ASSUME Sound, Rest, NEW b \in Branches, NEW r \in running[b], PushBump(b, r)
    PROVE  Rest'
<1>1. /\ b = "main" /\ Versioned(r) /\ r.status["version"] = "todo"
      /\ UNCHANGED <<tags, deployed>>
  BY ReadyVersion DEF PushBump
<1>2. CASE head[b] # r.head
  BY <1>1, <1>2, FailRest DEF PushBump, Jobs
<1>3. CASE head[b] = r.head
  <2>1. PICK n, commit, q :
          n = New /\ commit = BumpCommit(r) /\ q = Tagging(r, New)
    OBVIOUS
  <2>2. /\ commits' = Append(commits, commit) /\ Push(b, commits', n)
        /\ Becomes(b, r, q) /\ UNCHANGED failed
    BY <1>3, <2>1 DEF PushBump, PushNew
  <2>3. /\ r \in RunType /\ r.head \in 1 .. Len(commits) /\ r.head # 1
        /\ r.head = head["main"]
    BY <1>1, <1>3, RunFacts DEF Sound, Rest, MainHeads
  <2>4. /\ commit.past = Upon({r.head}) /\ commit.version = VersionAt("main") + 1
        /\ commit.kind = "src" /\ commit.bot = TRUE
    BY <2>1, <2>3 DEF BumpCommit, Commit, VersionAt
  <2>5. /\ n \in 1 .. Len(commits') /\ n \notin 1 .. Len(commits) /\ n # 1
        /\ commits'[n] = commit
        /\ \A c \in 1 .. Len(commits') : c \in 1 .. Len(commits) \/ c = n
        /\ \A c : c \in commits'[n].past <=> c = n \/ c \in Past(r.head)
    <3>1. {r.head} \in SUBSET (1 .. Len(commits))
      BY <2>3
    <3> QED
      BY <2>1, <2>2, <2>4, <3>1, PushedCommit
  <2>6. /\ q.before = r.before /\ q.head = r.head /\ q.changed = r.changed
        /\ q.target = n /\ q.fetched = r.fetched /\ q.status["version"] = "tag"
        /\ \A other \in Jobs \ {"version"} : q.status[other] = r.status[other]
    BY <2>1, <2>3 DEF Tagging, RunType, Goto, Jobs
  <2>7. \A x \in Branches : running'[x] = IF x = b THEN {q} ELSE running[x]
    BY <2>2, LoneRun DEF Sound, IInv
  <2>8. running["main"] = {r} /\ running'["main"] = {q}
    BY <1>1, <2>7 DEF Rest, Single
  <2>9. r.status["sync"] \in {"todo", "failed"}
    BY <1>1 DEF Rest, RunTrue
  <2>10. q.status["sync"] = r.status["sync"] /\ q.status["pulumi"] = r.status["pulumi"]
    BY <2>6 DEF Jobs
  <2>11. \A c : Past(c)' = commits'[c].past
    BY DEF Past
  <2>12. RunTrue(b, q)'
    <3>1. RunTrue(b, r)'
      BY <2>2, RunTrueStays DEF Rest
    <3>2. Versioned(q)'
      BY <1>1, <2>3, <2>6, OldCommit DEF Versioned
    <3>3. q.head \in Past(q.target)'
      BY <2>3, <2>5, <2>6, <2>11, PastFacts DEF Sound
    <3>4. ~failed' => \A job \in Jobs : q.status[job] # "failed"
      BY <2>6, <3>1 DEF RunTrue
    <3> QED
      BY <2>6, <2>9, <2>10, <3>1, <3>2, <3>3, <3>4 DEF RunTrue
  <2>13. \A x \in Branches : Single(x)' /\ \A p \in running'[x] : RunTrue(x, p)'
    BY <2>2, <2>7, <2>12, RunTrueStays DEF Single, Rest
  <2>14. /\ \A x \in Branches : Ordered(x)'
         /\ MainHeads' /\ deployed' \in [Branches -> 1 .. Len(commits')]
         /\ Past(deployed["main"]) \subseteq Past(deployed["main"])'
    <3>1. \A x \in Branches : \A p \in running'[x] : \E s \in running[x] : p.head = s.head
      BY <2>6, <2>7
    <3> QED
      BY <1>1, <2>2, <2>5, <3>1, PushOrder
  <2>15. /\ head'["main"] = n /\ head'["dev"] = head["dev"]
         /\ replaced' \in BOOLEAN /\ (replaced => replaced')
    BY <1>1, <2>2, <2>5, PushFacts DEF Branches
  <2>16. BumpsAnswer'
    <3>1. r.head \in UserPushes
      BY <1>1, <2>3, Domain DEF UserPushes, Versioned, Sound, IInv, WellFormed, CommitType
    <3> QED
      BY <2>3, <2>4, <2>5, <2>15, <3>1, BumpAnswers
  <2>17. VersionAt("main")' = VersionAt("main") + 1 /\ VersionAt("main") \in Nat
    BY <2>3, <2>4, <2>5, <2>15, PastFacts DEF VersionAt, Sound
  <2>18. MainLeads'
    <3>1. commits'[n].version <= VersionAt("main")'
      BY <2>4, <2>5, <2>17
    <3> QED
      BY <2>5, <2>17, <3>1, LeadStays DEF Rest
  <2>19. RunsHandOn
    <3>1. ASSUME NEW c, WillTag(r, c) PROVE WillTag(q, c)'
      <4>1. c \in Past(r.head)
        BY <1>1, <3>1 DEF WillTag, Answers
      <4> QED
        BY <2>5, <2>6, <2>11, <4>1 DEF WillTag
    <3>2. \A c : WillDeploy(r, c) => WillDeploy(q, c)'
      BY <2>6, <2>10, RunSees
    <3> QED
      BY <2>8, <3>1, <3>2 DEF RunsHandOn
  <2>20. NewSeen
    <3>1. WillTag(q, n)'
      BY <2>5, <2>6, <2>11 DEF WillTag
    <3>2. \A c \in Past(head["main"])' \ Past(head["main"]) : c = n
      BY <2>3, <2>5, <2>11, <2>15
    <3> QED
      BY <2>4, <2>5, <2>8, <3>1, <3>2 DEF NewSeen, TagDue
  <2>21. TagsDue' /\ DeploysDue'
    BY <2>2, <2>5, <2>14, <2>15, <2>19, <2>20, DuesStay, QueuePushed
  <2>22. SyncDue'
    <3>1. ~failed' => q.status["sync"] = "todo"
      BY <2>9, <2>10, <2>12 DEF RunTrue, Jobs
    <3> QED
      BY <2>6, <2>8, <3>1 DEF SyncDue, WillSync
  <2>23. failed' \in BOOLEAN
    BY <2>2 DEF Rest
  <2> QED
    BY <2>13, <2>14, <2>15, <2>16, <2>18, <2>21, <2>22, <2>23 DEF Rest
<1> QED
  BY <1>2, <1>3

\* The run whose sync-dev ends well.
LEMMA Synced ==
    ASSUME Sound, Rest, NEW b \in Branches, NEW r \in running[b],
           r.status["sync"] = "push", Becomes(b, r, Goto(r, "sync", "ok")),
           UNCHANGED failed
    PROVE  /\ b = "main" /\ running["main"] = {r}
           /\ r.fetched \in [Branches -> 1 .. Len(commits)]
           /\ \A x \in Branches : r.fetched[x] \in Past(head[x])
           /\ \E q : /\ q = Goto(r, "sync", "ok") /\ q.head = r.head /\ q.before = r.before
                     /\ \A x \in Branches :
                          running'[x] = IF x = b THEN {q} ELSE running[x]
                     /\ RunTrue(b, q)'
           /\ RunsHandOn
<1>1. PICK q : q = Goto(r, "sync", "ok")
  OBVIOUS
<1>2. /\ q.before = r.before /\ q.head = r.head /\ q.changed = r.changed
      /\ q.target = r.target /\ q.fetched = r.fetched /\ q.status["sync"] = "ok"
      /\ \A other \in Jobs \ {"sync"} : q.status[other] = r.status[other]
  BY <1>1, GotoFields DEF Sound, Jobs, Statuses
<1>3. /\ q.status["version"] = r.status["version"] /\ q.status["pulumi"] = r.status["pulumi"]
  BY <1>2 DEF Jobs
<1>4. b = "main" /\ \A x \in Branches : r.fetched[x] \in Past(head[x])
  BY DEF Rest, RunTrue
<1>5. /\ running["main"] = {r}
      /\ \A x \in Branches : running'[x] = IF x = b THEN {q} ELSE running[x]
  BY <1>1, <1>4, LoneRun DEF Rest, Single, Sound, IInv
<1>6. ~failed => \A job \in Jobs : q.status[job] # "failed"
  BY <1>2 DEF Rest, RunTrue
<1>7. RunTrue(b, q)'
  BY <1>2, <1>3, <1>6, RunTrueSame DEF Rest
<1>8. RunsHandOn
  <2>1. \A c : /\ WillTag(r, c) => WillTag(q, c)'
               /\ WillDeploy(r, c) => WillDeploy(q, c)'
    BY <1>2, <1>3, RunSees
  <2> QED
    BY <1>4, <1>5, <2>1 DEF RunsHandOn
<1>9. r.fetched \in [Branches -> 1 .. Len(commits)]
  BY RunFacts DEF Sound
<1> QED
  BY <1>1, <1>2, <1>4, <1>5, <1>7, <1>8, <1>9

\* dev is moved to a commit with the version of the fetched main, or keeps its
\* own if that is higher.
LEMMA DevPushed ==
    ASSUME Sound, Rest, NEW b \in Branches, NEW r \in running[b],
           r.status["sync"] = "push", Becomes(b, r, Goto(r, "sync", "ok")),
           NEW c \in 1 .. Len(commits'), Push("dev", commits', c),
           commits'[c].version \in Nat,
           commits'[c].version <= VersionAt("main"),
           VersionAt("dev") <= commits'[c].version,
           commits[r.fetched["main"]].version <= commits'[c].version,
           \A d \in 1 .. Len(commits') :
             d \in 1 .. Len(commits) \/ (d = c /\ commits'[c].kind = None),
           UNCHANGED <<tags, deployed, failed>>
    PROVE  Rest'
<1>0. UNCHANGED failed
  OBVIOUS
<1>1. /\ b = "main" /\ running["main"] = {r} /\ RunsHandOn
      /\ r.fetched \in [Branches -> 1 .. Len(commits)]
  BY <1>0, Synced
<1>2. PICK q : /\ q = Goto(r, "sync", "ok") /\ q.head = r.head /\ q.before = r.before
               /\ \A x \in Branches : running'[x] = IF x = b THEN {q} ELSE running[x]
               /\ RunTrue(b, q)'
  BY <1>0, Synced
<1>3. \A x \in Branches : Single(x)' /\ \A p \in running'[x] : RunTrue(x, p)'
  BY <1>2, RunTrueStays DEF Single, Rest
<1>4. /\ \A x \in Branches : Ordered(x)'
      /\ MainHeads' /\ deployed' \in [Branches -> 1 .. Len(commits')]
      /\ Past(deployed["main"]) \subseteq Past(deployed["main"])'
  <2>1. \A x \in Branches : \A p \in running'[x] : \E s \in running[x] : p.head = s.head
    BY <1>2
  <2> QED
    BY <2>1, PushOrder DEF Branches
<1>5. BumpsAnswer'
  BY BumpsStay, ConstantsAssumption DEF Rest
<1>6. /\ head'["main"] = head["main"] /\ head'["dev"] = c
      /\ replaced' \in BOOLEAN /\ (replaced => replaced')
  BY PushFacts DEF Branches
<1>7. VersionAt("main")' = VersionAt("main") /\ VersionAt("main") \in Nat
  BY <1>6, HeadFacts, OldCommit, PastFacts DEF VersionAt, Sound, Branches
<1>8. MainLeads'
  BY <1>7, LeadStays DEF Rest
<1>9. TagsDue' /\ DeploysDue'
  BY <1>1, <1>4, <1>6, DuesStay, QueuePushed, NothingNew DEF Branches
<1>10. SyncDue'
  <2>1. VersionAt("dev")' = commits'[c].version
    BY <1>6 DEF VersionAt
  <2>2. VersionAt("dev") \in Nat
    BY HeadFacts, PastFacts DEF VersionAt, Sound, Branches
  <2> SUFFICES ASSUME ~failed PROVE VersionAt("dev")' = VersionAt("main")'
    BY DEF SyncDue
  <2>3. CASE VersionAt("dev") = VersionAt("main")
    BY <1>7, <2>1, <2>2, <2>3
  <2>4. CASE VersionAt("dev") # VersionAt("main")
    <3>1. WillSync(r)
      BY <1>1, <2>4 DEF Rest, SyncDue
    <3>2. commits[r.fetched["main"]].version = VersionAt("main")
      BY <3>1 DEF WillSync
    <3> QED
      BY <1>7, <2>1, <3>2
  <2> QED
    BY <2>3, <2>4
<1>11. failed' \in BOOLEAN
  BY DEF Rest
<1> QED
  BY <1>3, <1>4, <1>5, <1>6, <1>8, <1>9, <1>10, <1>11 DEF Rest

LEMMA PushDevRest ==
    ASSUME Sound, Rest, NEW b \in Branches, NEW r \in running[b], PushDev(b, r)
    PROVE  Rest'
<1>1. PICK main, dev : main = r.fetched["main"] /\ dev = r.fetched["dev"]
  OBVIOUS
<1>2. r.status["sync"] = "push" /\ UNCHANGED <<tags, deployed>>
  BY DEF PushDev
<1>3. CASE /\ Becomes(b, r, Goto(r, "sync", "failed")) /\ failed' = TRUE
           /\ UNCHANGED <<commits, head, waiting, replaced>>
  BY <1>2, <1>3, FailRest DEF Jobs
<1>4. /\ main \in 1 .. Len(commits) /\ dev \in 1 .. Len(commits)
      /\ main \in Past(head["main"]) /\ dev \in Past(head["dev"])
  BY <1>1, <1>2, RunFacts DEF Sound, Rest, RunTrue, Branches
<1>5. /\ commits[main].version \in Nat /\ commits[dev].version \in Nat
      /\ commits[main].version <= VersionAt("main")
      /\ commits[dev].version <= VersionAt("main")
      /\ VersionAt("main") \in Nat /\ VersionAt("dev") \in Nat
      /\ VersionAt("dev") <= VersionAt("main")
  BY <1>4, HeadFacts, PastFacts DEF Rest, MainLeads, VersionAt, Sound, Branches
<1>6. \A c, d \in 1 .. Len(commits) :
        c \in Past(d) => commits[c].version <= commits[d].version
  BY DEF Sound, IInv, WellFormed, Past
<1>7. CASE main \in Past(dev) /\ Ok(b, r) /\ UNCHANGED <<commits, head, waiting, replaced>>
  <2>1. /\ b = "main" /\ running["main"] = {r} /\ RunsHandOn
    BY <1>2, <1>7, Synced DEF Ok
  <2>2. PICK q : /\ q = Goto(r, "sync", "ok") /\ q.head = r.head /\ q.before = r.before
                 /\ RunTrue(b, q)'
    BY <1>2, <1>7, Synced DEF Ok
  <2>3. commits[main].version <= VersionAt("dev")
    <3>1. main \in Past(head["dev"]) /\ head["dev"] \in 1 .. Len(commits)
      BY <1>4, <1>7, HeadFacts, PastFacts DEF Sound, Branches
    <3> QED
      BY <1>4, <1>6, <3>1 DEF VersionAt
  <2>4. SyncDue'
    <3> SUFFICES ASSUME ~failed, VersionAt("dev") # VersionAt("main") PROVE FALSE
      BY <1>7 DEF Ok, SyncDue, VersionAt
    <3>1. WillSync(r)
      BY <2>1 DEF Rest, SyncDue
    <3>2. commits[main].version = VersionAt("main")
      BY <1>1, <1>2, <3>1 DEF WillSync
    <3> QED
      BY <1>5, <2>3, <3>2
  <2>5. failed' \in BOOLEAN
    BY <1>7 DEF Ok, Rest
  <2> QED
    BY <1>2, <1>7, <2>1, <2>2, <2>4, <2>5, JobRest DEF Ok
<1>8. CASE /\ dev \in Past(main) /\ head["dev"] = dev
           /\ Push("dev", commits, main) /\ Ok(b, r) /\ UNCHANGED commits
  <2>1. VersionAt("dev") <= commits[main].version
    BY <1>4, <1>6, <1>8 DEF VersionAt
  <2>2. main \in 1 .. Len(commits') /\ Push("dev", commits', main)
    BY <1>4, <1>8
  <2>3. \A d \in 1 .. Len(commits') :
          d \in 1 .. Len(commits) \/ (d = main /\ commits'[main].kind = None)
    <3>1. commits' = commits
      BY <1>8
    <3>2. 1 .. Len(commits') = 1 .. Len(commits)
      BY <3>1
    <3> QED
      BY <3>2
  <2>4. /\ commits'[main].version \in Nat
        /\ commits'[main].version <= VersionAt("main")
        /\ VersionAt("dev") <= commits'[main].version
        /\ commits[r.fetched["main"]].version <= commits'[main].version
    BY <1>1, <1>5, <1>8, <2>1
  <2>5. Becomes(b, r, Goto(r, "sync", "ok")) /\ UNCHANGED <<tags, deployed, failed>>
    BY <1>2, <1>8 DEF Ok
  <2> QED
    BY <1>2, <2>2, <2>3, <2>4, <2>5, DevPushed
<1>9. CASE /\ head["dev"] = dev /\ Ok(b, r)
           /\ PushNew("dev", Commit(Upon({main, dev}),
                                    Larger(commits[main].version, commits[dev].version),
                                    None, TRUE))
  <2>1. PICK n, commit :
          /\ n = New
          /\ commit = Commit(Upon({main, dev}),
                             Larger(commits[main].version, commits[dev].version),
                             None, TRUE)
    OBVIOUS
  <2>2. commits' = Append(commits, commit) /\ Push("dev", commits', n)
    BY <1>9, <2>1 DEF PushNew
  <2>3. /\ commit.past = Upon({main, dev}) /\ commit.kind = None
        /\ commit.version = Larger(commits[main].version, commits[dev].version)
    BY <2>1 DEF Commit
  <2>4. /\ n \in 1 .. Len(commits') /\ commits'[n] = commit
        /\ \A c \in 1 .. Len(commits') : c \in 1 .. Len(commits) \/ c = n
    <3>1. {main, dev} \in SUBSET (1 .. Len(commits))
      BY <1>4
    <3> QED
      BY <2>1, <2>2, <2>3, <3>1, PushedCommit
  <2>5. /\ commit.version \in Nat /\ commit.version <= VersionAt("main")
        /\ VersionAt("dev") <= commit.version
        /\ commits[main].version <= commit.version
    BY <1>5, <1>9, <2>3 DEF Larger, VersionAt
  <2> QED
    BY <1>1, <1>2, <1>9, <2>2, <2>3, <2>4, <2>5, DevPushed DEF Ok
<1> QED
  BY <1>1, <1>3, <1>7, <1>8, <1>9 DEF PushDev

-----------------------------------------------------------------------------
(* The invariant.                                                             *)

LEMMA InitRest == Init => Rest
<1> SUFFICES ASSUME Init PROVE Rest
  OBVIOUS
<1>1. PICK root : root = Commit({1}, 0, None, FALSE)
  OBVIOUS
<1>2. /\ commits = <<root>> /\ Len(commits) = 1 /\ commits[1] = root
      /\ root.past = {1} /\ root.version = 0 /\ root.kind = None /\ root.bot = FALSE
  BY <1>1 DEF Init, Commit
<1>3. /\ head = [b \in Branches |-> 1] /\ waiting = [b \in Branches |-> None]
      /\ running = [b \in Branches |-> {}] /\ deployed = [b \in Branches |-> 1]
      /\ failed = FALSE /\ replaced = FALSE
  BY DEF Init
<1>4. Past(1) = {1} /\ VersionAt("main") = 0 /\ VersionAt("dev") = 0
  BY <1>2, <1>3 DEF Past, VersionAt, Branches
<1>5. MainLeads /\ MainHeads /\ SyncDue
  BY <1>2, <1>3, <1>4 DEF MainLeads, MainHeads, SyncDue, Branches
<1>6. BumpsAnswer
  <2>1. DOMAIN commits = {1}
    BY <1>2
  <2> QED
    BY <1>2, <2>1 DEF BumpsAnswer, Bumps
<1>7. TagsDue /\ DeploysDue
  BY <1>2, <1>3, <1>4, ConstantsAssumption DEF TagsDue, DeploysDue, Branches
<1>8. \A b \in Branches : Single(b) /\ Ordered(b) /\ \A r \in running[b] : RunTrue(b, r)
  BY <1>3, <1>4 DEF Single, Ordered
<1>9. deployed \in [Branches -> 1 .. Len(commits)]
  BY <1>2, <1>3
<1> QED
  BY <1>3, <1>5, <1>6, <1>7, <1>8, <1>9 DEF Rest

LEMMA StepRest == IInv /\ Rest /\ Next => Rest'
<1> SUFFICES ASSUME IInv, Rest, Next PROVE Rest'
  OBVIOUS
<1>1. Sound
  BY StepSound
<1>2. CASE Users
  BY <1>1, <1>2, MergeRest, PromoteRest DEF Users
<1>3. ASSUME NEW b \in Branches, RunStep(b) \/ Fault(b)
      PROVE  Rest'
  <2>1. CASE Start(b) \/ StartFails(b)
    BY <1>1, <2>1, StartRest, StartFailsRest
  <2>2. ASSUME NEW r \in running[b], JobStep(b, r) \/ Finish(b, r) \/ Fail(b, r)
        PROVE  Rest'
    <3>1. CASE Finish(b, r) \/ Fail(b, r)
      BY <1>1, <3>1, FinishRest, FailStepRest
    <3>2. CASE JobStep(b, r)
      BY <1>1, <3>2, ComputeAlphaRest, PushBumpRest, PushTagRest, ReleaseRest,
         BuildPublishUploadRest, FetchRest, PushDevRest, DeployRest DEF JobStep
    <3> QED
      BY <2>2, <3>1, <3>2
  <2> QED
    BY <1>3, <2>1, <2>2 DEF RunStep, Fault
<1> QED
  BY <1>2, <1>3 DEF Next

LEMMA StutterRest == IInv /\ Rest /\ UNCHANGED vars => Rest'
<1> SUFFICES ASSUME IInv, Rest, UNCHANGED vars PROVE Rest'
  OBVIOUS
<1>1. UNCHANGED <<commits, head, waiting, running, tags, deployed, failed, replaced>>
  BY DEF vars
<1>2. /\ \A c, d : (Past(c) = Past(c)') /\ (BumpOf(c, d) <=> BumpOf(c, d)')
      /\ VersionAt("main") = VersionAt("main")' /\ VersionAt("dev") = VersionAt("dev")'
      /\ Bumps' = Bumps /\ UserPushes' = UserPushes
  BY <1>1 DEF Past, BumpOf, VersionAt, Bumps, UserPushes
<1>3. MainHeads' /\ BumpsAnswer' /\ MainLeads'
  BY <1>1, <1>2 DEF Rest, MainHeads, BumpsAnswer, MainLeads
<1>4. \A b \in Branches : Single(b)' /\ Ordered(b)'
  BY <1>1, <1>2 DEF Rest, Single, Ordered
<1>5. \A b \in Branches : \A r \in running'[b] : RunTrue(b, r)'
  BY <1>1, <1>2 DEF Rest, RunTrue, Versioned
<1>6. \A r, c : /\ WillTag(r, c)' <=> WillTag(r, c)
                /\ WillDeploy(r, c)' <=> WillDeploy(r, c)
                /\ WillSync(r)' <=> WillSync(r)
                /\ Answers(r, c)' <=> Answers(r, c)
  BY <1>1, <1>2 DEF WillTag, WillDeploy, WillSync, Answers
<1>7. \A c : TagDue(c)' <=> TagDue(c)
  BY <1>1, <1>2, <1>6 DEF TagDue, Tagged, Pending
<1>8. \A c : DeployDue(c)' <=> DeployDue(c)
  BY <1>1, <1>2, <1>6 DEF DeployDue, Pending
<1>9. TagsDue' /\ DeploysDue' /\ SyncDue'
  BY <1>1, <1>2, <1>6, <1>7, <1>8 DEF Rest, TagsDue, DeploysDue, SyncDue
<1> QED
  BY <1>1, <1>3, <1>4, <1>5, <1>9 DEF Rest

LEMMA RestInductive == Spec => [](IInv /\ Rest)
<1>1. Init => IInv /\ Rest
  BY InitHolds, InitRest
<1>2. IInv /\ Rest /\ [Next]_vars => (IInv /\ Rest)'
  BY StepKeeps, StutterKeeps, StepRest, StutterRest
<1> QED
  BY <1>1, <1>2, PTL DEF Spec

-----------------------------------------------------------------------------
\* Every state of the pipeline has the shape that TypeOK gives it; a branch has
\* at most one run under way, since its concurrency group holds the others back.
THEOREM TypeCorrect == Spec => []TypeOK
<1>1. IInv /\ Rest => TypeOK
  <2> SUFFICES ASSUME IInv, Rest PROVE TypeOK
    OBVIOUS
  <2>1. DOMAIN commits = 1 .. Len(commits)
    BY Domain DEF IInv
  <2>2. \A c \in DOMAIN commits :
          /\ Past(c) \subseteq 1 .. c
          /\ commits[c].version \in Nat
          /\ commits[c].kind \in Kinds \union {"src", None}
          /\ commits[c].bot \in BOOLEAN
    BY <2>1, PastFacts DEF CommitType
  <2>3. \A b \in Branches : Cardinality(running[b]) <= 1
    <3> TAKE b \in Branches
    <3>1. CASE running[b] = {}
      BY <3>1, FS_EmptySet
    <3>2. CASE running[b] # {}
      <4>1. PICK r : r \in running[b]
        BY <3>2
      <4>2. running[b] = {r}
        BY <4>1 DEF Rest, Single
      <4> QED
        BY <4>2, FS_Singleton
    <3> QED
      BY <3>1, <3>2
  <2>4. \A t \in tags : t.commit \in DOMAIN commits
    BY <2>1 DEF IInv, TagsOK, TagOK
  <2>5. /\ \A t \in tags \union packages : t.commit \in DOMAIN commits
        /\ \A a \in assets : a.dist.commit \in DOMAIN commits
    BY <2>4 DEF IInv, DistsOK, PackagesMatchTags
  <2> QED
    BY <2>1, <2>2, <2>3, <2>5 DEF TypeOK, IInv, Rest
<1> QED
  BY RestInductive, <1>1, PTL

\* Loop prevention: each bump of the version is on top of a push of a user, and
\* no two are on top of the same, however runs are queued, replaced or fail.
THEOREM BumpsBounded == Spec => []BotAnswersUsers
<1>1. IInv /\ Rest => BotAnswersUsers
  <2> SUFFICES ASSUME IInv, Rest PROVE BotAnswersUsers
    OBVIOUS
  <2> DEFINE f == [c \in Bumps |-> CHOOSE p \in UserPushes : BumpOf(c, p)]
  <2>1. \A c \in Bumps : f[c] \in UserPushes /\ BumpOf(c, f[c])
    BY DEF Rest, BumpsAnswer
  <2>2. f \in Injection(Bumps, UserPushes)
    <3>1. f \in [Bumps -> UserPushes]
      BY <2>1
    <3>2. \A c, d \in Bumps : f[c] = f[d] => c = d
      <4> TAKE c, d \in Bumps
      <4> HIDE DEF f
      <4> QED
        BY <2>1 DEF Rest, BumpsAnswer
    <3> HIDE DEF f
    <3> QED
      BY <3>1, <3>2 DEF Injection, IsInjective
  <2>3. IsFiniteSet(UserPushes)
    <3>1. Len(commits) \in Nat /\ UserPushes \subseteq 1 .. Len(commits)
      BY Domain DEF IInv, UserPushes
    <3>2. IsFiniteSet(1 .. Len(commits))
      BY <3>1, FS_Interval
    <3> QED
      BY <3>1, <3>2, FS_Subset
  <2> HIDE DEF f
  <2> QED
    BY <2>2, <2>3, FS_Injection DEF BotAnswersUsers
<1> QED
  BY RestInductive, <1>1, PTL

\* At rest, with nothing failed and no user's pending run replaced, every
\* change of the package and of the workflows on main is in a tagged commit.
THEOREM ChangesAreTagged == Spec => []ChangesTagged
<1>1. Rest => ChangesTagged
  BY DEF Rest, TagsDue, TagDue, Pending, ChangesTagged, Quiet, Branches
<1> QED
  BY RestInductive, <1>1, PTL

\* And every change of the infrastructure on main is deployed to prod.
THEOREM ProdIsDeployed == Spec => []ProdDeployed
<1>1. Rest => ProdDeployed
  BY DEF Rest, DeploysDue, DeployDue, Pending, ProdDeployed, Quiet, Branches
<1> QED
  BY RestInductive, <1>1, PTL

\* At rest, with nothing failed, dev has the version of main: sync-dev merges
\* what main is when it fetches, not the commit that triggered the run.
THEOREM DevIsCaughtUp == Spec => []DevCatchesUp
<1>1. Rest => DevCatchesUp
  BY DEF Rest, SyncDue, VersionAt, DevCatchesUp, Quiet, Branches
<1> QED
  BY RestInductive, <1>1, PTL

\* A stack is deployed from ever newer commits: the runs of a branch are for
\* ever later pushes and never overlap.
THEOREM StacksMoveForward == Spec => DeploysForward
<1> DEFINE A == \A b \in Branches : deployed[b] \in commits'[deployed'[b]].past
<1>1. IInv /\ Rest /\ Next => A
  <2> SUFFICES ASSUME IInv, Rest, Next, NEW b \in Branches
               PROVE  deployed[b] \in commits'[deployed'[b]].past
    OBVIOUS
  <2>1. Sound
    BY StepSound
  <2>2. CASE deployed'[b] = deployed[b]
    BY <2>1, <2>2, DeployedStays DEF Past
  <2>3. CASE deployed'[b] # deployed[b]
    <3>1. PICK x \in Branches : \E r \in running[x] : Deploy(x, r)
      <4>1. ~Users
        BY <2>3 DEF Users, Merge, Promote
      <4>2. PICK x \in Branches : RunStep(x) \/ Fault(x)
        BY <4>1 DEF Next
      <4>3. ~Fault(x) /\ ~Start(x) /\ \A r \in running[x] : ~Finish(x, r)
        BY <2>3 DEF Fault, StartFails, Fail, Start, Finish
      <4>4. ASSUME NEW r \in running[x], JobStep(x, r) PROVE Deploy(x, r)
        <5>1. ~ComputeAlpha(x, r) /\ ~PushBump(x, r) /\ ~PushTag(x, r) /\ ~Release(x, r)
          BY <2>3 DEF ComputeAlpha, PushBump, PushTag, Release
        <5>2. ~Build(x, r) /\ ~Publish(x, r) /\ ~Upload(x, r)
          BY <2>3 DEF Build, Publish, Upload
        <5>3. ~Fetch(x, r) /\ ~PushDev(x, r)
          BY <2>3 DEF Fetch, PushDev
        <5> QED
          BY <4>4, <5>1, <5>2, <5>3 DEF JobStep
      <4> QED
        BY <4>2, <4>3, <4>4 DEF RunStep
    <3>2. PICK r \in running[x] : Deploy(x, r)
      BY <3>1
    <3>3. b = x /\ deployed'[b] = r.head /\ UNCHANGED commits
      BY <2>3, <3>2 DEF Deploy, Rest
    <3> QED
      BY <3>2, <3>3 DEF Rest, Ordered, Past
  <2> QED
    BY <2>2, <2>3
<1>2. IInv /\ Rest /\ [Next]_vars => [A]_vars
  BY <1>1
<1> QED
  BY RestInductive, <1>2, PTL DEF Spec, DeploysForward
=============================================================================
