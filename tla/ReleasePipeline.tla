--------------------------- MODULE ReleasePipeline ---------------------------
(* The release pipeline of .github/workflows/deploy.yml: what becomes of the  *)
(* pushes to main and dev, the bot's own included, when runs are queued and   *)
(* replaced, jobs fail between two pushes, and branches move underneath a run.*)
(*                                                                            *)
(* A commit is what it builds on, the version in its pyproject.toml and the   *)
(* part of the repository it changes.  A job is one step between two effects  *)
(* that others can see; everything before the first of them belongs to it.    *)
(* Re-runs by hand and workflow_dispatch are left out.                        *)
EXTENDS Integers, Sequences, FiniteSets

CONSTANTS
    Kinds,      \* what a pull request changes: "src" (package and lock file),
                \* "github", "pulumi", "docs" (ignored by the trigger)
    ProdReady,  \* vars.PROD_INFRA_READY
    None

ASSUME ConstantsAssumption ==
    /\ Kinds \subseteq {"src", "github", "pulumi", "docs"}
    /\ ProdReady \in BOOLEAN
    /\ None \notin Nat \union {"src", "github", "pulumi", "docs"}

VARIABLES
    commits,    \* every commit pushed, in the order of the pushes
    head,       \* the commit each branch points to
    waiting,    \* the pending run of each branch's concurrency group, or None
    running,    \* the runs of each branch under way
    tags,       \* the pushed tags
    packages,   \* what PyPI has
    assets,     \* what is attached to the GitHub releases
    deployed,   \* the commit each branch's Pulumi stack was deployed from
    failed,     \* history: has a job failed or a push been rejected
    replaced    \* history: has the pending run of a user's push given way to a
                \* newer one

vars == <<commits, head, waiting, running, tags, packages, assets, deployed,
          failed, replaced>>

Branches == {"main", "dev"}

-----------------------------------------------------------------------------
(* Commits and versions.                                                      *)

Commit(past, version, kind, bot) ==
    [past |-> past, version |-> version, kind |-> kind, bot |-> bot]

\* The commit with everything it builds on.
Past(c) == commits[c].past

New == Len(commits) + 1

\* What a commit on top of those in parents has behind it.
Upon(parents) ==
    {c \in DOMAIN commits : \E p \in parents : c \in Past(p)} \union {New}

\* X.Y.Z by its patch number; alpha is zero for a stable version.  The number
\* of the run grows along dev as the commits do and is abstracted to them.
Stable(patch) == [base |-> patch, alpha |-> 0]

\* Mutant: the alpha keeps the committed version as its base.
AlphaUnbumped(c) == [base |-> commits[c].version, alpha |-> c]

Alpha(c) == [base |-> commits[c].version + 1, alpha |-> c]

\* v sorts before w.
Precedes(v, w) ==
    \/ v.base < w.base
    \/ v.base = w.base /\ v.alpha # 0 /\ (w.alpha = 0 \/ v.alpha < w.alpha)

-----------------------------------------------------------------------------
(* Runs and their jobs.                                                       *)

Jobs == {"changes", "version", "build", "publish", "assets", "sync", "pulumi"}

\* The jobs each job needs, directly or through others.
Upstream ==
    [job \in Jobs |->
       CASE job = "changes"              -> {}
         [] job \in {"version", "pulumi"} -> {"changes"}
         [] job \in {"build", "sync"}     -> {"changes", "version"}
         [] OTHER                        -> {"changes", "version", "build"}]

\* github.event: the branch moved from before to after.  The version job first
\* pushes the bump, then the tag, then creates the release.  changed is what
\* the changes job found, target the commit the version job tags, fetched what
\* sync-dev found, dist the commit built.
Run(before, after) ==
    [before |-> before, head |-> after,
     status |-> [job \in Jobs |-> "todo"],
     changed |-> {}, target |-> None, fetched |-> None, dist |-> None]

ASSUME NoneAssumption ==
    None \notin [before : Nat, head : Nat, status : {[job \in Jobs |-> "todo"]},
                 changed : {{}}, target : {None}, fetched : {None}, dist : {None}]

Goto(r, job, status) == [r EXCEPT !.status[job] = status]

\* What the paths filter finds.
Changed(cs, before, after) ==
    {cs[c].kind : c \in cs[after].past \ cs[before].past} \ {None}

\* Mutant: the committer of the head commit is not looked at.
VersionedFromBots(r) == r.changed \intersect {"src", "github"} # {}

\* Mutant: changes of the workflows make no version.
VersionedForSource(r) == "src" \in r.changed /\ ~commits[r.head].bot

Versioned(r) ==
    r.changed \intersect {"src", "github"} # {} /\ ~commits[r.head].bot

\* Mutant: the infrastructure is deployed only with a release.
ProvisionedWithRelease(b, r) ==
    /\ {"src", "pulumi"} \subseteq r.changed /\ ~commits[r.head].bot
    /\ b = "main" => ProdReady

Provisioned(b, r) ==
    /\ "pulumi" \in r.changed /\ ~commits[r.head].bot
    /\ b = "main" => ProdReady

\* The if: of each job.
Wanted(b, r, job) ==
    CASE job = "version" -> Versioned(r)
      [] job = "build"   -> "src" \in r.changed /\ b = "main"
      [] job = "sync"    -> b = "main"
      [] job = "pulumi"  -> Provisioned(b, r)
      [] OTHER           -> TRUE

\* A job is skipped, with all that need it, when its condition is false or one
\* that it needs has failed.
WillRun(b, r, job) ==
    \A needed \in Upstream[job] \union {job} :
       Wanted(b, r, needed) /\ r.status[needed] # "failed"

Ready(b, r, job) ==
    /\ WillRun(b, r, job)
    /\ r.status[job] = "todo"
    /\ \A needed \in Upstream[job] : r.status[needed] = "ok"

Over(b, r) == \A job \in Jobs : WillRun(b, r, job) => r.status[job] = "ok"

-----------------------------------------------------------------------------
Init ==
    /\ commits = <<Commit({1}, 0, None, FALSE)>>
    /\ head = [b \in Branches |-> 1]
    /\ waiting = [b \in Branches |-> None]
    /\ running = [b \in Branches |-> {}]
    /\ tags = {} /\ packages = {} /\ assets = {}
    /\ deployed = [b \in Branches |-> 1]
    /\ failed = FALSE /\ replaced = FALSE

\* Branch b now points to commit c of cs.  A push that changes more than docs
\* queues a run; of the runs that wait in a concurrency group the newest stays.
\* A run waits only for one under way, so a free group takes it before the next
\* push.
Push(b, cs, c) ==
    /\ waiting[b] # None => running[b] # {}
    /\ head' = [head EXCEPT ![b] = c]
    /\ IF Changed(cs, head[b], c) \subseteq {"docs"}
       THEN UNCHANGED <<waiting, replaced>>
       ELSE /\ waiting' = [waiting EXCEPT ![b] = Run(head[b], c)]
            /\ replaced' = \/ replaced
                           \/ waiting[b] # None /\ ~commits[waiting[b].head].bot

PushNew(b, commit) ==
    /\ commits' = Append(commits, commit)
    /\ Push(b, Append(commits, commit), New)

\* A pull request is merged into dev, or as a hotfix into main.
Merge(b, kind) ==
    /\ PushNew(b, Commit(Upon({head[b]}), commits[head[b]].version, kind, FALSE))
    /\ UNCHANGED <<running, tags, packages, assets, deployed, failed>>

Larger(v, w) == IF v > w THEN v ELSE w

\* dev is merged into main.  Only the bot edits the version, on main, so the
\* merge keeps the larger one.
Promote ==
    /\ head["dev"] \notin Past(head["main"])
    /\ PushNew("main", Commit(Upon({head["main"], head["dev"]}),
                              Larger(commits[head["main"]].version,
                                     commits[head["dev"]].version),
                              None, FALSE))
    /\ UNCHANGED <<running, tags, packages, assets, deployed, failed>>

-----------------------------------------------------------------------------
\* The changes job of a run.
Detected(r) ==
    [Goto(r, "changes", "ok") EXCEPT
       !.changed = Changed(commits, r.before, r.head)]

\* Mutant: runs of one branch overlap.
StartAtOnce(b) ==
    /\ waiting[b] # None
    /\ waiting' = [waiting EXCEPT ![b] = None]
    /\ running' = [running EXCEPT ![b] =
                     @ \union {Detected(waiting[b])}]
    /\ UNCHANGED <<commits, head, tags, packages, assets, deployed, failed,
                   replaced>>

\* The pending run starts when the branch has no other; its changes job looks
\* at what was pushed.
Start(b) ==
    /\ waiting[b] # None /\ running[b] = {}
    /\ waiting' = [waiting EXCEPT ![b] = None]
    /\ running' = [running EXCEPT ![b] = {Detected(waiting[b])}]
    /\ UNCHANGED <<commits, head, tags, packages, assets, deployed, failed,
                   replaced>>

\* Without the changes job the run ends with nothing done.
StartFails(b) ==
    /\ waiting[b] # None /\ running[b] = {}
    /\ waiting' = [waiting EXCEPT ![b] = None]
    /\ failed' = TRUE
    /\ UNCHANGED <<commits, head, running, tags, packages, assets, deployed,
                   replaced>>

Becomes(b, r, run) == running' = [running EXCEPT ![b] = (@ \ {r}) \union {run}]

\* A job fails before its next effect: a runner dies, a service answers with
\* an error.
Fail(b, r) ==
    /\ \E job \in Jobs :
         /\ Ready(b, r, job) \/ r.status[job] \notin {"todo", "ok", "failed"}
         /\ Becomes(b, r, Goto(r, job, "failed"))
    /\ failed' = TRUE
    /\ UNCHANGED <<commits, head, waiting, tags, packages, assets, deployed,
                   replaced>>

Finish(b, r) ==
    /\ Over(b, r)
    /\ running' = [running EXCEPT ![b] = @ \ {r}]
    /\ UNCHANGED <<commits, head, waiting, tags, packages, assets, deployed,
                   failed, replaced>>

-----------------------------------------------------------------------------
(* The version job.  On dev the version is computed and nothing committed.    *)

VersionOf(b, c) == IF b = "main" THEN Stable(commits[c].version) ELSE Alpha(c)

Tagging(r, c) == [Goto(r, "version", "tag") EXCEPT !.target = c]

ComputeAlpha(b, r) ==
    /\ b = "dev" /\ Ready(b, r, "version")
    /\ Becomes(b, r, Tagging(r, r.head))
    /\ UNCHANGED <<commits, head, waiting, tags, packages, assets, deployed,
                   failed, replaced>>

BumpCommit(r) == Commit(Upon({r.head}), commits[r.head].version + 1, "src", TRUE)

\* Mutant: the bump is pushed by force.
PushBumpForced(b, r) ==
    /\ b = "main" /\ Ready(b, r, "version")
    /\ PushNew(b, BumpCommit(r))
    /\ Becomes(b, r, Tagging(r, New))
    /\ UNCHANGED <<tags, packages, assets, deployed, failed>>

\* The bump is committed on top of the commit that was checked out; the push
\* is rejected when main has moved on.
PushBump(b, r) ==
    /\ b = "main" /\ Ready(b, r, "version")
    /\ IF head[b] = r.head
       THEN /\ PushNew(b, BumpCommit(r))
            /\ Becomes(b, r, Tagging(r, New))
            /\ UNCHANGED failed
       ELSE /\ Becomes(b, r, Goto(r, "version", "failed"))
            /\ failed' = TRUE
            /\ UNCHANGED <<commits, head, waiting, replaced>>
    /\ UNCHANGED <<tags, packages, assets, deployed>>

\* The tag is pushed, unless one of that name exists.
PushTag(b, r) ==
    LET tag == [version |-> VersionOf(b, r.target), commit |-> r.target]
    IN  /\ r.status["version"] = "tag"
        /\ IF \A t \in tags : t.version # tag.version
           THEN /\ tags' = tags \union {tag}
                /\ Becomes(b, r, Goto(r, "version", "release"))
                /\ UNCHANGED failed
           ELSE /\ Becomes(b, r, Goto(r, "version", "failed"))
                /\ failed' = TRUE
                /\ UNCHANGED tags
        /\ UNCHANGED <<commits, head, waiting, packages, assets, deployed,
                       replaced>>

\* Without the release the jobs behind it do not run.
Release(b, r) ==
    /\ r.status["version"] = "release"
    /\ Becomes(b, r, Goto(r, "version", "ok"))
    /\ UNCHANGED <<commits, head, waiting, tags, packages, assets, deployed,
                   failed, replaced>>

-----------------------------------------------------------------------------
(* build-dist, publish and upload-release-assets.                             *)

\* Mutant: the commit that triggered the run is built.
BuildTriggering(b, r) ==
    /\ Ready(b, r, "build")
    /\ Becomes(b, r, [Goto(r, "build", "ok") EXCEPT !.dist = r.head])
    /\ UNCHANGED <<commits, head, waiting, tags, packages, assets, deployed,
                   failed, replaced>>

\* The tagged commit is built.
Build(b, r) ==
    /\ Ready(b, r, "build")
    /\ \E t \in tags :
         /\ t.version = VersionOf(b, r.target)
         /\ Becomes(b, r, [Goto(r, "build", "ok") EXCEPT !.dist = t.commit])
    /\ UNCHANGED <<commits, head, waiting, tags, packages, assets, deployed,
                   failed, replaced>>

\* A distribution bears the version of the commit it was built from.
Dist(r) ==
    [version |-> Stable(commits[r.dist].version), commit |-> r.dist]

\* PyPI takes each version once.
Publish(b, r) ==
    /\ Ready(b, r, "publish")
    /\ IF \A p \in packages : p.version # Dist(r).version
       THEN /\ packages' = packages \union {Dist(r)}
            /\ Becomes(b, r, Goto(r, "publish", "ok"))
            /\ UNCHANGED failed
       ELSE /\ Becomes(b, r, Goto(r, "publish", "failed"))
            /\ failed' = TRUE
            /\ UNCHANGED packages
    /\ UNCHANGED <<commits, head, waiting, tags, assets, deployed, replaced>>

Upload(b, r) ==
    /\ Ready(b, r, "assets")
    /\ assets' = assets \union
                   {[release |-> VersionOf(b, r.target), dist |-> Dist(r)]}
    /\ Becomes(b, r, Goto(r, "assets", "ok"))
    /\ UNCHANGED <<commits, head, waiting, tags, packages, deployed, failed,
                   replaced>>

-----------------------------------------------------------------------------
(* sync-dev and deploy-pulumi.                                                *)

\* Mutant: the commit that triggered the run is merged.
FetchTriggering(b, r) ==
    /\ Ready(b, r, "sync")
    /\ Becomes(b, r, [Goto(r, "sync", "push") EXCEPT
                        !.fetched = [main |-> r.head, dev |-> head["dev"]]])
    /\ UNCHANGED <<commits, head, waiting, tags, packages, assets, deployed,
                   failed, replaced>>

\* Both branches are fetched, main as it is now.
Fetch(b, r) ==
    /\ Ready(b, r, "sync")
    /\ Becomes(b, r, [Goto(r, "sync", "push") EXCEPT !.fetched = head])
    /\ UNCHANGED <<commits, head, waiting, tags, packages, assets, deployed,
                   failed, replaced>>

Ok(b, r) == Becomes(b, r, Goto(r, "sync", "ok")) /\ UNCHANGED failed

\* Mutant: the push is repeated until it is accepted, of what was fetched once.
PushDevRepeated(b, r) ==
    LET main == r.fetched["main"]
        dev  == r.fetched["dev"]
    IN  /\ r.status["sync"] = "push"
        /\ head["dev"] = dev
        /\ IF main \in Past(dev)
           THEN UNCHANGED <<commits, head, waiting, replaced>>
           ELSE IF dev \in Past(main)
           THEN Push("dev", commits, main) /\ UNCHANGED commits
           ELSE PushNew("dev", Commit(Upon({main, dev}),
                                      Larger(commits[main].version,
                                             commits[dev].version),
                                      None, TRUE))
        /\ Ok(b, r)
        /\ UNCHANGED <<tags, packages, assets, deployed>>

\* The fetched main is merged into the fetched dev, by moving dev forward if
\* that is possible; the push is rejected when dev has moved since.
PushDev(b, r) ==
    LET main == r.fetched["main"]
        dev  == r.fetched["dev"]
    IN  /\ r.status["sync"] = "push"
        /\ \/ /\ main \in Past(dev)
              /\ head["dev"] = dev
              /\ Ok(b, r)
              /\ UNCHANGED <<commits, head, waiting, replaced>>
           \/ /\ main \notin Past(dev) /\ dev \in Past(main)
              /\ head["dev"] = dev
              /\ Push("dev", commits, main)
              /\ Ok(b, r)
              /\ UNCHANGED commits
           \/ /\ main \notin Past(dev) /\ dev \notin Past(main)
              /\ head["dev"] = dev
              /\ PushNew("dev", Commit(Upon({main, dev}),
                                       Larger(commits[main].version,
                                              commits[dev].version),
                                       None, TRUE))
              /\ Ok(b, r)
           \/ /\ head["dev"] # dev
              /\ Becomes(b, r, Goto(r, "sync", "failed"))
              /\ failed' = TRUE
              /\ UNCHANGED <<commits, head, waiting, replaced>>
        /\ UNCHANGED <<tags, packages, assets, deployed>>

\* pulumi up, with the commit that triggered the run.
Deploy(b, r) ==
    /\ Ready(b, r, "pulumi")
    /\ deployed' = [deployed EXCEPT ![b] = r.head]
    /\ Becomes(b, r, Goto(r, "pulumi", "ok"))
    /\ UNCHANGED <<commits, head, waiting, tags, packages, assets, failed,
                   replaced>>

-----------------------------------------------------------------------------
JobStep(b, r) ==
    \/ ComputeAlpha(b, r) \/ PushBump(b, r) \/ PushTag(b, r) \/ Release(b, r)
    \/ Build(b, r) \/ Publish(b, r) \/ Upload(b, r)
    \/ Fetch(b, r) \/ PushDev(b, r) \/ Deploy(b, r)

RunStep(b) == Start(b) \/ \E r \in running[b] : JobStep(b, r) \/ Finish(b, r)

Fault(b) == StartFails(b) \/ \E r \in running[b] : Fail(b, r)

Users == Promote \/ \E b \in Branches, kind \in Kinds : Merge(b, kind)

Next == Users \/ \E b \in Branches : RunStep(b) \/ Fault(b)

Spec == Init /\ [][Next]_vars

-----------------------------------------------------------------------------
Statuses == {"todo", "tag", "release", "push", "ok", "failed"}

RunType ==
    [before : DOMAIN commits, head : DOMAIN commits,
     status : [Jobs -> Statuses],
     changed : SUBSET (Kinds \union {"src"}),
     target : DOMAIN commits \union {None},
     fetched : [Branches -> DOMAIN commits] \union {None},
     dist : DOMAIN commits \union {None}]

TypeOK ==
    /\ \A c \in DOMAIN commits :
         /\ Past(c) \subseteq 1 .. c
         /\ commits[c].version \in Nat
         /\ commits[c].kind \in Kinds \union {"src", None}
         /\ commits[c].bot \in BOOLEAN
    /\ head \in [Branches -> DOMAIN commits]
    /\ waiting \in [Branches -> RunType \union {None}]
    /\ running \in [Branches -> SUBSET RunType]
    /\ \A b \in Branches : Cardinality(running[b]) <= 1
    /\ \A t \in tags \union packages : t.commit \in DOMAIN commits
    /\ \A a \in assets : a.dist.commit \in DOMAIN commits
    /\ deployed \in [Branches -> DOMAIN commits]
    /\ failed \in BOOLEAN /\ replaced \in BOOLEAN

\* Versions sort as history does: of two tagged commits, stable or alpha, the
\* one that builds on the other has the higher version.
VersionsFollowHistory ==
    \A t, u \in tags :
      t.commit \in Past(u.commit) \ {u.commit} => Precedes(t.version, u.version)

\* What PyPI has under a version is the commit with that tag, and so is what
\* is attached to a release: no package is a release behind its tag.
PackagesMatchTags ==
    /\ packages \subseteq tags
    /\ \A a \in assets : a.dist \in tags /\ a.dist.version = a.release

Bumps == {c \in DOMAIN commits : commits[c].bot /\ commits[c].kind = "src"}

UserPushes == {c \in DOMAIN commits \ {1} : ~commits[c].bot}

\* Loop prevention: what the bot pushes never makes it push again, so it bumps
\* the version at most once for each push of a user.
BotAnswersUsers == Cardinality(Bumps) <= Cardinality(UserPushes)

Quiet == \A b \in Branches : waiting[b] = None /\ running[b] = {}

\* Every change of the package and of the workflows that reached main is in a
\* tagged commit once the pipeline has come to rest, unless something failed
\* on the way or a pending run was replaced.
Tagged(c) == \E t \in tags : t.version.alpha = 0 /\ c \in Past(t.commit)

ChangesTagged ==
    Quiet /\ ~failed /\ ~replaced =>
      \A c \in Past(head["main"]) :
         commits[c].kind \in {"src", "github"} => Tagged(c)

\* and so every change of the infrastructure is deployed to prod.
ProdDeployed ==
    Quiet /\ ~failed /\ ~replaced /\ ProdReady =>
      \A c \in Past(head["main"]) :
         commits[c].kind = "pulumi" => c \in Past(deployed["main"])

\* After a stable release dev has its version, also when pull requests were
\* merged into either branch meanwhile and pending runs were replaced.
DevCatchesUp ==
    Quiet /\ ~failed =>
      commits[head["dev"]].version = commits[head["main"]].version

\* "every change to the reusable workflows produces a new immutable tag".
EveryChangeTagged ==
    Quiet /\ ~failed =>
      \A c \in Past(head["main"]) : commits[c].kind = "github" => Tagged(c)

\* No push takes anything away from a branch.
NothingLost == [][\A b \in Branches : head[b] \in commits'[head'[b]].past]_vars

\* A stack is never deployed from an older commit than before.
DeploysForward ==
    [][\A b \in Branches : deployed[b] \in commits'[deployed'[b]].past]_vars

\* Once users stop pushing, the pipeline comes to rest.
Settles == <>[]Quiet
=============================================================================
