# Verification of idi-ftm2j-shared

`idi-ftm2j-shared` is the Python package that the FTM2J pipelines share: a
registry of permanent failures, storage helpers for S3 and local files, an HTTP
client with a rate limiter, access to SEC EDGAR, and loggers. The repository
also holds the GitHub workflows that release it and two Pulumi stacks. This
directory models the parts whose behaviour depends on interleavings, failures
and restarts, checks them with TLC and proves the most important results with
TLAPS. Paths below are relative to the repository; `failures.py` and the like
are the modules of `src/idi_ftm2j_shared/`.

## Inventory

| Part | State | Operations | Hard because | Correct means |
|---|---|---|---|---|
| Failure registry (`failures.py`) | `_entries`, `_reasons`, `_pending`, a reentrant lock; one JSON file | `__init__`/`load`, `save`, `add`, `flush`, `in` | threads share it; `save` and `load` are public and lock-free; a save can raise before or after it took effect; the process can die anywhere and the next one starts from the file | what a `flush()` returned for is never forgotten; a crash costs at most `flush_every` failures; the first reason stays; the lock is given back |
| Shared S3 client (`storage.py:21-44`) | `_s3_client`, a lock | `_get_s3_client` | double-checked lock, creation can raise | one client, seen by all |
| Storage functions (`storage.py`) | S3 objects, local files | load, save, stream, exists, zip | two encodings and two ways to upload must leave one object; an S3 put is atomic but its answer can be lost; a local file is rewritten in place | an S3 path is an atomic register; a local save that meets no other one leaves its content |
| API client (`api.py`) | `_last_request`, a lock, the session with its retries | `rate_limit`, `get`, `post`, `_query_with_error_handling`, `query_endpoint` | threads share the limiter; it sleeps with the lock held; the adapter repeats requests below it; many kinds of failure become one dict | spacing of requests; every query returns; the dict tells failure from success |
| Daily index (`sec.py:93-193`) | a suspended generator | `get_daily_index`, `next` | it is pulled lazily while SEC goes on publishing; single queries fail, a row can raise | each day once, whole and in order |
| Filing queries (`sec.py:197-493`) | `manifest.parquet`, `manifest.json` in S3, generators | `get_filing`, `iter_filings_by_*` | the scraper writes while a query runs; of two filters one compares dates as text, the other parses them | no matching filing missing, none that does not match, none twice |
| Loggers (`logs.py`) | `_configured_loggers`, handlers of process-wide loggers | `get_logger`, `_configure_cloudwatch` | check and add are apart and unlocked; CloudWatch can raise in between | handlers once per logger |
| Release pipeline (`.github/workflows/deploy.yml`) | branches, tags, releases, package index, stacks | jobs of concurrent runs | runs are queued and replaced, each can fail between two pushes, the bot pushes to both branches while users do | versions sort as history does; tag, release and package agree; changes are released; no loop |
| Stacks (`pulumi-*`) | AWS resources | `pulumi up` | import of an existing bucket | declarations, mostly |

How they interact. `FailureRegistry` saves and loads through
`save_json`/`load_json`, which for S3 go through the shared client.
`SecClient.query_endpoint` passes the limiter and then the session.
`get_daily_index` makes one such query per day and decides by the dict's keys.
The filing queries read S3 through the shared client. All of them log through
`get_logger`. The release pipeline publishes the package and deploys the stacks; it
calls none of the package's code.

## Modules

| Module | Models |
|---|---|
| `FailureLedger` | what a registry promises: failures become known, are made durable together, and a restart may lose those that are not durable |
| `FailureRegistry` | the registry, its threads, its file, crashes and restarts; refines `FailureLedger` |
| `MCFailureRegistry` | the instance and the bound for TLC |
| `FailureRegistryProofs` | its theorems |
| `SharedClient` | the double-checked creation of the S3 client |
| `StorageRegister` | what the storage functions promise of an S3 path: an atomic register |
| `Storage` | the storage functions, on S3 through `SharedClient` (which it extends) and on local files; refines `StorageRegister` |
| `StorageProofs` | the theorems of `SharedClient` and `Storage` |
| `QueryResult` | which keys the dict of a query has, for each end of an HTTP exchange; shared by the next two |
| `ApiClient`, `ApiClientProofs` | rate limiter, retries, queries |
| `DailyIndex`, `DailyIndexProofs` | the generator of `get_daily_index` |
| `SecQuery`, `MCSecQuery`, `SecQueryProofs` | the generators over scraped filings, their instance, their theorems |
| `Loggers`, `LoggersProofs` | `get_logger` |
| `ReleasePipeline` | `deploy.yml`: pushes, the queue of runs, jobs, tags, packages, stacks |
| `MCReleasePipeline` | the bounds for TLC |
| `ReleasePipelineProofs` | its theorems about versions, tags and branches |
| `ReleaseRestProofs` | its theorems about what has been done when it rests |

Names follow the source: a variable or an action is called like the attribute
or the function it stands for. Operators whose comment begins with *Mutant:* are
broken variants of the definition that follows them. Nothing uses them: each
records a slip the properties must notice when the variant takes the place of
the definition.

### FailureRegistry

A step is the code between two points where another thread or a crash can
intervene: taking the lock, the test and the insertion (`check`), the reason and
the counter (`reason`), building the document (`snapshot`), writing it (`write`,
for a local file also `rewrite`), the return of the save (`saved`). `add()` and
`flush()` are requests with a program counter, because `add()` calls `flush()`
inside its own critical section; the lock is reentrant, so its owner is all that
counts. `save()` and `load()` used directly are requests of the same kind that
never take the lock; `DirectCalls` says which of them callers use.

The file is a record of what `load()` can tell apart: missing, torn (not JSON),
JSON that is no object, or a document with entries and reasons by joined key.
With an empty `file_path` (`Storage = "none"`) there is no file and `Snapshot` is
the early return of `save()`; no run has that value, `Typing` covers it.
`Join` is `" ".join` as a function on keys, which need not be injective. What
`save()` writes for two entries with one joined key depends on the order in
which Python iterates the set: `Documents` is the set of all documents it can
build. `Put` replaces an S3 object; `PutRaises` leaves it old or new;
`Truncate`, `Rewrite` and their failing forms rewrite a local file in place. The
construction of a registry is one step, since no other thread has it yet.

History variables: `acked` is the reason under which a `flush()` that returned
last covered each key, `raised` says that a save raised since the counter was
last reset.

Abstractions. A snapshot of entries and reasons is one step also without the
lock, except that it may raise while another thread is between `_entries.add`
and the reason. Keys are pairs, so the length test of line 108 drops nothing
`save()` wrote. `add()` of a retryable failure changes nothing and is not a
step. A put has taken effect by the time its call raises, or the next process
loads, or never does: one that S3 carries out still later is not modelled.

### Storage

A call is a record of the function, the path, the content to be saved and
whether it is compressed; `save_json` is `save` and `load_json` is `load` with
`Parsed` on top. A step is what S3 or the file system does at once. On S3 a call
first goes through `SharedClient`'s steps for the same thread, then does one
request, or for `upload_fileobj` two: the upload of parts nobody sees and its
completion. An object is a body with an encoding, and `Gzip(c)` is another body
than `c`, so that a lost `ContentEncoding` shows. `LargePlain` and `LargeZipped`
say which contents reach `_MULTIPART_THRESHOLD` before and after compression. A
local file is truncated, then written; whoever reads in between finds nothing or
a part (`Torn`), and whoever writes over another writer may leave a mixture.
Every step of a call may raise instead, and a finished save may raise because its
answer was lost. `lone` is a history variable: what the last local save wrote,
unless it failed or met another one.

`StorageRegister` has neither client nor encodings nor uploads: a save takes effect whole at
one moment between call and return. The refinement maps an object to its decoded
body and a call to what its caller sees.

### ApiClient

Time is counted in ticks and only differences exist: `elapsed` is
`time.time() - _last_request` cut off at the limit, and a sleeping thread has a
`timer`. `Tick` can happen between any two steps. `Gate` reads the elapsed time
and begins the sleep, `Grant` ends it and sets `_last_request`; `Exchange` is
one request of the adapter, which may be repeated after a pause from
`Pauses` without passing the limiter; `Answer` builds the dict. The retries and
their pauses are urllib3's (2.x) and requests' behaviour as configured in
`session`: external, modelled from how the code uses them. `get()` and `post()`
end in the same ways, so a request is either; that urllib3 repeats a `post()` too
is what `allowed_methods` asks for.

### DailyIndex

A query with its retries is one step (`Fetch`), whose dict is `QueryResult`'s.
A file is a sequence of lines of four kinds: one that names the column, one
that matches the pattern behind it, one that matches it but has eight digits that
are no date, any other. `Parse` handles one line: it suspends the generator at a
row, and ends it at a row without a date, whose `ValueError` nobody catches
(`_parse_yyyymmdd`). `Publish` is SEC. A day without a file can
only fail; a published one can fail too. History: `fetched`, what each day's
query brought, and `yielded`.

### SecQuery

A call of `iter_filings_by_form_type` or `iter_filings_by_discovered`, with its
arguments in `query`; `get_filing` is a list of one filing with failures
included. The scraper is another program and writes to the bucket at any time,
so no state of the bucket is kept: `Read` finds any parquet and `Load` any
manifest. A filing is a number in the order in which `sort_values` puts the keys.
Its `filing_date` is a text: `SpeltAs` says how it is written (an ISO date, a
compact one such as 20240115, one with a time behind it, one that is no date, a
null), `FiledAt` which instant it stands for, with `DayLength` instants to a day.
`ReadFilter` is the reader's predicate, which compares the text (`TextFrom`,
`TextUpTo`; `YearOf` is there because a compact date sorts behind all ISO dates of
its year). `RowMatches` is the mask, which compares what `pandas.to_datetime` makes of
the column that was read: it takes the format of the first text (`Leads`) and turns
what is written otherwise into NaT (`Understood`). This is pandas 3's behaviour, the
version of the lock file, and external. Dates of scraping are instants for both.
History: `rows`, the parquet that was read, `found`, what each load found, and
`yielded`.

The caller is `Pull` and `Abandon`. An error of S3, a row whose date
`date.fromisoformat` does not take and a manifest that lacks a field end the iteration
with an exception.

### ReleasePipeline

A commit is the set of commits it has behind it, the version in its
`pyproject.toml`, the part of the repository it changes and whether the bot
committed it. `Push` is what GitHub does at each push: it moves the branch and,
unless only docs changed, puts a run into the branch's concurrency group, where
it takes the place of a run that was waiting. A run keeps `github.event.before`
and the commit that triggered it, the status of each job and what jobs hand on:
the changes found, the commit to tag, the fetched branches, the commit built.
`Start` takes the waiting run if the branch has none under way, and includes the
`changes` job. Each job is one step, or one step per effect that others can see:
the bump, the tag and the release of `version`, the fetch and the push of
`sync-dev`. `WillRun` is GitHub's rule that a job is skipped with all that need it
if its condition is false or one it needs failed. `Fail` ends a job before its next effect.

Versions `X.Y.Z` are counted by their patch number; an alpha is that of the next
patch and a number that grows along `dev` as the run number does. Which parts of
the repository a push changed is found as the paths filter finds it, by comparing
the run's head with its own `before`. A merge of two branches keeps the larger
version, since only the bot edits it, on `main`. GitHub, git and PyPI are
external: a push is rejected unless it moves the branch forward, a tag or a
version on PyPI is taken once.

History: `failed` says that a job failed or a push was rejected, `replaced` that
the waiting run of a user's push gave way to a newer one.

### SharedClient and Loggers

Both are small protocols of threads over a process-wide variable; the two looks
of `_get_s3_client` and the three stages of `get_logger` are steps.

## What is checked

| Run | Question and instance |
|---|---|
| `registry_s3` | 2 threads, 3 keys, 2 failure types, `flush_every` 2, S3, `add`/`flush` only, crashes and lost answers: nothing acknowledged is lost, losses are bounded and counted, first reasons stay, no flush that is due is skipped, the ledger is implemented |
| `registry_direct` | a local file and direct `save`/`load` calls: the lock is always given back |
| `storage` | 2 threads, an S3 path and a local one, an empty content and a large one, any state of both at the start, everything failing now and then: atomic register, lone local saves, one client, every call returns |
| `api_limited` | 2 threads, a limit of 2 ticks, up to two repetitions, a Retry-After of 1: grants are spaced, the lock is given back, a query past the limiter returns, the error key tells failures |
| `daily_index` | 3 days, files of up to 2 lines of every kind, all ranges: every day whole and in order, every pull answered, by a row, the end or a `ValueError` |
| `sec_query` | 6 filings of 2 form types, every spelling of a date, parquets of up to 3 documents, all ranges of 2 days, lists of up to 2 filings, any manifest under each key: nothing is loaded that was not asked for, whatever the dates look like, and nothing twice or out of order; an exhausted query has loaded every filing asked for, by filing date where dates are ISO texts |
| `loggers` | 3 threads, 2 names, one failing CloudWatch set-up per name: loggers are ready when handed out, settle, and duplicate handlers are bounded |
| `release` | up to 3 pushes of users to `main` and `dev`, of any kind, one job failing by itself, pushes rejected as often as branches move: versions, tags, packages and assets agree, changes are tagged and deployed, `dev` catches up, nothing is lost, the pipeline comes to rest |

Three keys and a batch of two give a full batch, a partial one and a duplicate;
two threads are enough for every pair of critical sections, and the direct calls
let one thread's save overtake the other's. `MaxPending` bounds the counter
where saves fail again and again. `MaxRetries = 2` has a first repetition,
without a pause, and a second one after a pause. Two lines suffice for a row above the header and one below it; three
days have a first, a middle and a last. Three documents are two of one filing and
one of another, or three filings whose dates are spelt in three ways; two days with
two instants each put dates before, after and at both ends of a range, and the
year that changes between them tells the order of texts from that of dates. No more than one list entry is looked at by a load, so two
show the order. `MaxFailures` bounds failing calls in
`Loggers`.

In `Storage` the empty content goes through `put_object` and the other one through
the multipart upload, each compressed or not; two threads give a reader between
the parts of a write and two writers at once; the local path and the S3 path
share nothing but the client. In `ReleasePipeline` three pushes are a running, a waiting
and a replacing run of one branch, or a feature on `dev`, its promotion and a
hotfix; the bot's own pushes come on top and are not bounded. `MaxPushes` bounds
the pushes, and a job fails by itself once (`~failed`), so that rejected pushes
still follow a failure.

Runs that end in a violation, each showing that the code does otherwise than a
comment, a docstring or a test of the repository says:

| Run | What the counterexample shows |
|---|---|
| `registry_torn_file` | a crash while a local file is rewritten loses everything flushed before |
| `api_send_spacing` | repetitions, and requests delayed behind the limiter, leave closer than the limit |
| `api_data_or_error` | a body that is not JSON gives neither `data` nor `error` |
| `release_every_change` | a change of the workflows whose run was replaced while it waited is never in a tagged version, although nothing failed |

Other differences between code and text, visible in the definitions but without a
run of their own:

- `save()` is public and takes no lock (`failures.py:115`): a document it has built before another thread's `flush()`
  and writes after it removes what was flushed. `AckedKnown` is violated as soon
  as `DirectCalls` contains `save`, which is why `Guarded` excludes it.
- `" ".join(e)` is not injective (`failures.py:129`): of two keys with one joined
  text the file holds one reason, and after a restart both have it. The runs use
  keys that join apart; `JoinInjective` is the assumption of `AckedReasonsStay`.
- `load_json` raises for an unknown `return_type` only if the file is missing or
  empty (`storage.py:107`), where line 102 promises a `ValueError`, and returns a
  list when a dict was asked for.
- The bot's sync push replaces the waiting run of a merged pull request, which then
  gets no alpha (`Push`), where README.md:224 says that every merge produces one.
- A change of the package whose run is replaced by one that sees only workflow
  changes is tagged and released, but not published until the next change of the
  package (`Wanted` for `build`).
- A hotfix of the stack on `main` reaches `dev` with a commit of the bot, whose run
  deploys nothing (`Provisioned`), so the `dev` stack waits for its next change.
- Alpha versions are spelled `X.Y.ZaN-sha` (`deploy.yml:106`), where README.md:142
  and the README's examples say `+sha`.
- A query by form type hands out a filing whose manifest has a `failure_reason`
  (`Wanted`) when its manifest was rewritten after the parquet; `sec.py:341` says
  failed filings are never returned.
- "Any predicate mismatch can only cost work, never correctness" (`sec.py:275`) holds
  for what is handed out beyond the query (`NothingElseLoaded`), not for what is
  missing. A date spelt 20240115 or with a time is dropped by the reader in the
  last year, or on the last day, of a range that includes it (`TextUpTo`), and
  one that is let through and stands first makes the mask drop every ISO date of
  the parquet (`Understood`), without an exception. `EveryFilingLoaded` is violated
  as soon as its condition `StoredAsISO`, which is the assumption of `sec.py:284`, is
  taken out.
- A row of a daily index whose eight digits are no date raises a `ValueError` out of the
  generator, so the rest of that day and all days behind it are not handed out
  (`Parse`); the docstring (`sec.py:152`) names a `ValueError` for bad arguments only.
- Changes of the workflows and of `uv.lock` are versioned and tagged too
  (`deploy.yml:52-59` and `72-76`), where README.md:69 says that version and publish jobs
  only run when `src/**` or `pyproject.toml` changed and README.md:220 that they are
  gated on `src/**`. `ChangesTagged` follows the workflow and its comment: under
  what the README says (`VersionedForSource`) it is violated.
- When the sync job has fetched a `main` that users moved past the bump, and `dev` can be
  moved forward to it, the head of `dev` is a user's commit, and the run its push
  starts versions and deploys (`PushDev`, `Versioned`); README.md:198 says that the
  push never triggers Deploy on `dev` again, because it is the bot's. This ends after one
  round, since the run of `dev` pushes no branch.
- A manifest without one of the fields that have no default is a `TypeError`
  (`Load`); `sec.py:209` says that missing keys fall back to the defaults.
- A status of the forcelist (429, 500, 502, 503, 504) that outlasts the retries
  is a `RetryError` without a response, so the dict has no `status_code`
  (`Outcome`), where `api.py:145` says that HTTP errors include it.
- The pauses between retries are 0, 4, 8 seconds (`Backoff`), where `api.py:27`
  says 1, 2, 4.
- A day whose query fails for any reason is passed over (`Fetch`); `sec.py:152`
  speaks of all filings, and of days without an index only as skipped.
- Two threads that ask for one logger at once both attach a console handler
  (`DuplicatesBounded` is the promise that remains), and a later call that names a
  log group is ignored for a configured name (`Call`), against `logs.py:79`.

**Fairness.** Liveness assumes weak fairness of each thread's steps inside a call
(`Step(t)`), which is what the operating system gives a runnable thread, given
that S3 and HTTP requests and file writes end: botocore and requests have
timeouts. In `Storage` that is `Work(t)`, which covers the client, S3 and the file
system: each answers or fails. Nothing is assumed about new calls, about the order in which locks are
granted, or about the process living on. `ApiClient` adds that time passes;
`DailyIndex` that a generator inside `next()` goes on, not that it is pulled.
`ReleasePipeline` assumes that runners are found and jobs end (`RunStep(b)`), and
nothing of users or faults. `Settles` holds since pushes are bounded and says that the
bot's pushes do not go on for ever by themselves and that no run waits for what will
not come: a sync job that repeated its rejected push without a new fetch would.
`GateReleased` and `LockReleased` are about the owner giving the lock back, not
about a waiter getting it, which Python's locks do not promise.

`CallsReturn` speaks of calls once there is a client: as long as creating it raises,
a thread may find the lock taken again and again.

**Deadlock.** Checking is off only in `DailyIndex` and `SecQuery`, where a
generator that is exhausted, abandoned or never made leaves nothing to do, and in
the runs of `ReleasePipeline`, which rests after the last push.

## What is proved

All proofs are checked by TLAPS for every value of the constants allowed by the
modules' assumptions.

`FailureRegistryProofs`
: `Typing` (`TypeOK`) holds for every kind of file and every use of the public
methods. The rest is for a registry over S3 that is used through
`add()` and `flush()` only, the assumption named `Guarded`; the differences
listed above show that it is needed. Their inductive invariant is built up in layers.
`Locking`: at most the owner is past the lock, and its call is one that takes
it. `Saving`: a document under way contains exactly what the owner will
acknowledge, entries of the file are always known, acknowledged keys are in the
file. `Counting`: what is missing from the file is no more than `_pending`
counts, plus the entry that waits for its reason. The invariants themselves are
not inductive: a stale document in a thread's buffer would break `AckedKnown`
at the next put, and only mutual exclusion together with the contents of the
buffer rules it out. From these follow `AckedStaysKnown`, `FirstReasonStays`,
`CounterCovers`, `LossIsBounded`, `FlushIsNotSkipped`, and `Implementation`, the refinement of
`FailureLedger`. `AckedReasonsStay` also needs `Join` to be injective, without
which it is false.

`StorageProofs`
: `CreatedOnce` (`OneClient` of `SharedClient`) from the invariant that only the
owner of the lock is inside it and that a thread about to create has seen no
client. For the storage functions `StorageTypes` (`StorageTypeOK`); `OneClientForAll`: the storage functions'
steps are steps of `SharedClient` or leave it alone, so `CreatedOnce` carries over;
`AtomicRegister`, the refinement of `StorageRegister` step by step, from the type
invariant, which says that an object's encoding is that of its body;
`SavesStick` (`LoneSaveSticks`) from the invariant that a writer in the middle of
its write which met nobody finds an empty file and is alone with it. All of them
for any threads, paths and contents; the assumption is that `None` is none of
the data.

`ApiClientProofs`
: `GrantsAreSpaced` (`GrantSpacing`) from the invariant that the last grant is at
least as long ago as `_last_request` says, and that the thread sleeping in the
limiter has a timer that covers what is missing to the limit; one thread at a
time is there because it holds the lock. `QueryTypes` (`TypeOK`) and `ErrorKeyTells`
(`ErrorTellsFailure`) from the types and the fact that a thread about to answer has
a reply.

`LoggersProofs`
: `LoggersAreReady`, `DuplicatesAreBounded` and `HandlersSettle`. The invariant
counts: until a name is configured its console handlers are no more than its failed
calls and the threads behind `AddConsole`; afterwards no thread comes to the ones
that are still before it, so that handlers and those threads together stay within
the failed calls and the number of threads.

`ReleasePipelineProofs`
: For any number of pushes, faults and kinds of changes. `Inductive` is one
invariant: what is behind a commit is behind those that build on it, versions do
not fall along a history and rise with a bump, every tag names the version of its
commit, stable ones are on bumps and no version is tagged twice, and what a run's
version and build jobs have done is told by its `target`, the tags and its `dist`. `VersionsSort`
(`VersionsFollowHistory`) and `PackagesAreTagged` (`PackagesMatchTags`) follow from
it; `BranchesGrow` (`NothingLost`) from the same case analysis of the steps.

`ReleaseRestProofs`
: What the pipeline owes, again for any number of pushes, faults and kinds. None of
`ChangesTagged`, `ProdDeployed` and `DevCatchesUp` says anything of a pipeline under
way, so none is inductive: `Rest` says for every moment who will see to what is not
done yet. A change on `main` is in a tag, or among the commits the waiting run
answers for, or with the run under way, which has still to bump, or has a target
that includes the change (`TagsDue`); the same for the deployed commit
(`DeploysDue`); and if `dev` lacks `main`'s version, the run under way is past its
bump and has still to fetch, or has fetched a `main` of that version (`SyncDue`).
`RunTrue` says what a run knows and that it got where it is by its `if:`s,
`Ordered` that deployed commit, running run, waiting run and head lie on one
history, `MainLeads` that no commit has a higher version than `main`, and
`BumpsAnswer` that every bump is on `main`, directly on a push of a user, and no two on the
same one. Each action's lemma shows that what was due is done or handed on
(`RunsHandOn`, `QueueHandsOn`, `SyncHandsOn`, `NewSeen`); a failed job or a replaced
run breaks the chain, which is why `failed` and `replaced` are in the properties. From it
follow `ChangesAreTagged`, `ProdIsDeployed`, `DevIsCaughtUp`, `BumpsBounded`
(`BotAnswersUsers`, by an injection of bumps into pushes), `StacksMoveForward`
(`DeploysForward`, from `Ordered`) and `TypeCorrect`. That a bump answers a push
once rests on the rejected push: with a second one on the same commit, `main` would
have moved on from the commit that was checked out.

`DailyIndexProofs`
: For any number of days, any range of them and files of any length. `Progress` says that the
days fetched are those the generator has passed and the one it is parsing,
`HandedOut` that what was yielded is exactly the rows behind it: with `InOrder` they
make an inductive invariant, from which `RowsInOrder` (`InOrder`), `RangeCovered`
(`EveryDayWhole`) and `TypeCorrect` follow.

`SecQueryProofs`
: For any filings, spellings, dates and instants to a day. Facts about the operators
come first. `TextOrder`: the reader lets a row through whose day is in the range, if its date is an
ISO text or the range is over dates of scraping.
`MaskByDay`: a row the mask keeps is one whose day is in the range (by integer
division: an instant is within a range of days if its day is). `LeadsUnderstand`:
where the dates of the forms asked for are ISO texts or no dates, whatever leads the
column lets the ISO ones be understood. `ChosenList`: the keys that `drop_duplicates`
and `sort_values` leave are the chosen filings, each once, in ascending order, for each
text that can lead (`Choices`). The invariant says that what was loaded and what is
still to do make up one of those lists (`Loaded`) and that what was yielded precedes
it. `OnceInOrder` (`EachOnceInOrder`), `OnlyAsked` (`NothingElseLoaded`), `AllLoaded`
(`EveryFilingLoaded`) and `TypeCorrect` follow. `OnlyAsked` needs nothing of the
spellings, since the mask stands behind the reader; `AllLoaded` needs `StoredAsISO`, and
rests on both filters.

The proofs made some assumptions explicit that every run satisfies: `None` is no
value of the data it stands beside (no integer, no sequence of keys, no fresh run), a
parquet is finite.

Only model-checked: everything under fairness (`LockReleased`, `CallsReturn`,
`GateReleased`, `QueryReturns`, `PullAnswered`, the release pipeline's `Settles`),
since the prover knows neither fairness nor `ENABLED`. The runs that end in a
violation show that what they check does not hold, so there is nothing to prove.

## What is not modelled

- The unlocked `session` property: two sessions differ in nothing a caller sees.
- A system clock that is set back while a thread is in the limiter.
- `open_zip`: it changes no state and reads through smart_open, by requests that
  are not tied to one version of the object.
- Puts that S3 carries out after the call that made them has raised.
- Two processes over one registry file: each writes its own whole set, so the
  later one wins; no promise of the repository speaks of it.
- `workflow_dispatch`, runs started again by hand and `main` merged into `dev` by
  hand; what builds and deployments do inside.
- `pipeline-docker.yml`, whose version and sync jobs repeat those of `deploy.yml`.
- The import of an existing bucket in `pulumi-shared/infra/storage.py`, which
  Pulumi decides about.
- Pushes that start a run of `deploy.yml` but change nothing its filters know (tests, say):
  their runs skip every job but `changes`.
- In `SecQuery` the text of keys (`s3_prefix`), dates in still other spellings
  (01/15/2024), one filing whose date is spelt in two ways, which counts as two, and a `date_scraped` column that is
  no timestamp with a time zone (`sec.py:395`).
- Log levels, record formats, the instance-id look-up.
- `types.py`, the checks-only workflows, the IAM tables of `pulumi-bootstrap`,
  the hooks under `.beads`.

## Plan

Built, in this order: the registry with its ledger, the S3 client, the API
client, the daily index, the loggers, the filing queries, the storage functions
with their register, the release pipeline. What would come next:

1. Proofs: that `ApiClient` implements an abstract limiter; that a registry used
   through `save()` and `load()` directly loses nothing but what a stale document
   overwrites.
2. Two `FailureRegistry` instances over one `StorageRegister`: what two concurrent
   processes can lose, and no more.
3. A clock that can be set back in `ApiClient`.
4. `SecQuery` with a bucket the scraper's steps write.
