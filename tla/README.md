# StubGraph: a TLA+ verification project

StubGraph keeps a graph of a code base (files, imports, API contracts), lets
people and language models change the files, and keeps the graph in step with
them. It is a FastAPI back end (`src/backend/app`, PostgreSQL, Redis with ARQ
workers, S3 or a local disk) and a React front end (`src/frontend/src`). This
directory holds TLA+ models of the parts where the order of events matters, the
TLC configurations that check them, and proofs for TLAPS.

All paths below are relative to `src/backend/app` unless they begin with `src/`.

1. [Inventory](#1-inventory)
2. [Modules, and how they correspond to the code](#2-modules)
3. [What the runs check](#3-runs)
4. [Fairness](#4-fairness)
5. [What is proved](#5-proofs)
6. [What the checks show about the code](#6-findings)
7. [What is not modelled](#7-not-modelled)
8. [Plan](#8-plan)

## 1. Inventory

| Component | Source | State it keeps | Operations | What is hard | Module |
| --- | --- | --- | --- | --- | --- |
| Task queue, producer | `services/task_queue.py`, `models.py` | `TaskJob` rows, a partial unique index over active rows, the Redis set of heavy jobs in flight | submit (find, guard, reconcile, create, enqueue, roll back), clean up | every `await` is an interleaving point; enqueue may time out after the broker has taken the job; five awaits of the reconciliation | TaskQueue, JobLifecycle |
| Task queue, workers | `task_handlers.py`, `arq_worker.py` | job status, ARQ's own record | load, touch, run, settle, free the slot, clean up, retry | redelivery after success, job time limit, worker death | TaskQueue |
| Snapshot store | `snapshots.py`, `services/project_service.py` | per content hash: archive, shared extracted root with a marker, one clone per project; objects in S3; `Project` rows | import, clean up, delete a project | no lock per content; crashes in extractions and wipes; cancelled threads that write on | SnapshotStore |
| Multipart upload | `snapshots.py` 338-505 | an upload in the bucket, a bounded queue, an error slot | create, read, put, upload part, shut down, complete, abort | the last parts failing, cancellation in each step of the shutdown | MultipartUpload |
| Project lock | `utils.py` 90-125, `async_db.py` | a PostgreSQL session-level advisory lock, the pool of connections | lock, body, commit inside it, unlock | the lock belongs to a connection, and a commit gives the connection back | ProjectLock |
| Scan and index | `scan.py`, `services/file_mutation_service.py`, `api/nodes.py` | `FileNode`, `FileEdge`, API rows, search rows, embeddings; the files | edit, rename, delete, patch, indexing job, project scan | files are read outside the lock and verified under it; keys without content; producers and consumers around bounded queues | ScanIndex, ScanPipeline |
| Graph and metrics | `graph.py`, `graph_traversal.py` | fan-in, fan-out and component columns of `FileNode` | full and incremental computation, deferred computation | computed outside the lock, written by row id | GraphMetrics |
| Import resolution | `resolve.py` | configuration files kept by `lru_cache` | resolve an import, language by language | names with dots, levels above the project, answers that outlive the configuration or the directory of a replacement | Resolve |
| Task runs and patches | `services/task_service.py`, `patches.py`, `storage.py` | `AnalysisRun` rows, patch blobs shared by hash | run, escalate, apply, delete, read a blob | blobs shared by runs of different expiry; a run deleted while another stores the same blob; patches that cross | TaskRuns |
| Agentic tool loop | `llm/agentic/*` | counters of calls, characters and tokens, whitelist, tool cache | ask, run tools, repeat for evidence or a self check | budgets that end inside a batch; a nested call starts a new meta and keeps the cache | AgenticLoop, AgenticTools |
| Choice and call of models | `llm/orchestrator.py`, `llm/policy.py`, `llm/routing_selector.py`, `services/routing_calibration_service.py` | calibrated thresholds and weights in Redis | calibrate, store, choose, call, ask again | values that change between the first call and the second | Routing |
| Usage and entitlements | `services/usage_service.py` | `OrgUsage` counters | check and increment | concurrent runs at the limit | TaskRuns |
| Authentication, organisations | `services/auth_service.py`, `services/org_service.py`, `policy.py`, `rbac.py` | users, sessions, memberships, the bootstrap sentinel | bootstrap, register, log in, add, change and remove members | the last active owner under concurrent demotions; roles judged before they are used | Accounts, Founding |
| Executor pools | `infra/fs_runtime.py`, `infra/cpu_runtime.py`, `infra/external_io_runtime.py`, `infra/runtime_lifecycle.py` | executors, semaphores, counts | run, time out, be cancelled, clean up | a cancelled caller frees its slot while its thread runs on; calls after the clean-up | Runtimes |
| Rate limit | `infra/rate_limit.py` | counters with a window in Redis | count, load the script again | lost answers, forgotten scripts, windows that pass | RateLimit |
| Caches over files | `infra/cache.py`, `context_pack.py`, `api/nodes.py` | search results, packs of texts and contracts | get, fill, sweep by prefix | a fill that overtakes a sweep; sweeps that leave one cache out | FileCaches |
| API coverage | `api_map.py`, `llm/agentic/tools.py` | prefixes of routers, index of routes | follow inclusions, match calls with routes | wildcards on either side, bounded depth and number | ApiMatching |
| Front end | `src/frontend/src/app/state` | editors, drafts, selection, tracked tasks | load, save, close, select a project, poll | answers that come after the selection has changed | none |

How they interact. A file call (`api/nodes.py`) takes the project lock, writes
the file, releases the lock, sweeps the packs and submits an indexing job through
the task queue; a worker runs `scan_files_async`, which reads the files without
the lock, takes the lock to verify and write, and then updates the metrics. A
project scan does the same for every file, through a pipeline of tasks, and removes
the rows of files it has not met. A run is charged to its organisation, chooses its
models, asks them (in the agentic loop, whose tools read files, index and caches),
stores its row, and applies its patch under the lock and indexes it itself. An
import stages an upload, hands it to a job, and the job extracts, clones and
commits a `Project`; deleting a project counts who else uses the content. Every
call into the file system, and every long computation, goes through the executor
pools.

What makes each correct:

- queue: one active row per key, a status that tells what the worker does, no
  row stranded without a failure, slots that go with the jobs, calls that end;
- snapshots: a marked root is whole, a live project keeps its files, content
  that nobody uses goes away;
- upload: an object in the bucket is whole or absent, nothing is left running
  or open;
- lock: bodies exclude each other, whoever is refused is refused for a reason,
  and every operation ends;
- scan: no path is skipped, no task is left, the pipeline ends; what is written
  to the index is what is on the disk, and a row that is out of date has a cause;
- metrics, caches, resolution, matching: what is kept or answered is what the
  source of it says, or the crossing that made it differ is known;
- runs: no more of them than the quota, escalations within their limit, a record
  that tells where the patch is, a loop within its budgets;
- models: a calibration's values are taken, a second call is no weaker than the
  first without a cause;
- accounts: an organisation keeps an owner, nobody acts beyond their role, one
  bootstrap;
- pools and rate limit: no permit lost or given twice, no client above its limit.

## 2. Modules

**TaskQueue** models the queue with its two sides. A task is one submit call:
the call and the row it may create share the provisional id. `pc` is the place
of the call in `_submit`, `_reserve_heavy_slot_async` and `_create_job_async`;
`wpc` is the place of the worker in the handlers of `task_handlers.py`. `status`
is `TaskJob.status`; `own` says that the row has the key and the queue of its
call (a row that was deleted is made anew without them); `inflight` is the Redis
set; `view` is what a reconciliation has read; `job` and `tries` are ARQ's.
ARQ is external: a job is queued once per id, delivered to one worker at a time,
again after `Retry` or the death of a worker, at most `MaxTries` times, and given
up after a job time limit. `KeyOf` stands for the hash of the payload.

**JobLifecycle** is the abstract specification: a job is accepted at most once
while no twin is active, starts, settles once, and is forgotten.
`TaskQueue!FollowsLifecycle` is the refinement (`accepted <- own`).

**SnapshotStore** models the directory of one content hash: archive, shared root,
marker, clones, objects, `Project` rows. Attempts of import jobs and deletions of
projects are the actors, one await per step. File contents are abstracted to how
complete a tree is: nothing, a part, the whole; an operation on a tree has a
first and a last step, and whoever writes or empties the same tree in between
tears it. A wipe takes two steps, and may stop half way. `stray` is the thread of
a cancelled extraction or clone that goes on (`run_in_executor` cannot stop it).
`clashed` is a history variable: contents on which operations overlapped.
`BeginRefused` is what SQLAlchemy does when `begin()` is called on a session that
has already queried; it is a constant so that the rest of the import can be
checked in spite of it (see [section 6](#6-findings)).

**MultipartUpload** models `_upload_archive_to_s3`: `phase` is the step of the
calling task, `wpc` that of each worker, `partQueue` the bounded queue, `error` the
slot `pipeline_error`, `upload` what the bucket knows. `hits` records the steps
at which cancellations struck. The semaphore shared by all S3 calls is held
during one call only and is left out.

**ProjectLock** models `project_lock_async` over the connection pool: `conn` is
the connection an operation's session holds, `idle` the pool's queue, `held` how
often a connection holds the advisory lock, `broken` the operations whose
transaction a failed statement has aborted. One process and one project. An
operation that asks for the lock anew after a mismatch is two operations.

**ScanPipeline** models a producer and its consumers around a bounded queue, as
`scan_project_async` runs them (`gathers`) and as the bounded batch runs of
`scan_files_async` and `_verify_scan_snapshot_async` do. Which of the two, and who
may raise, is chosen in the initial state from `Pipelines`. The event loop is
first in, first out, which is the guard `doomed = {}` of `Wake`. The queue has as
many places as there are consumers; with fewer batches than that, the stages of the
verification start fewer workers, and never fill it.

**ScanIndex** models one project's files and index: `disk`, `node` (the content
whose hash the file row has), `api` (the content that the API rows come from) and
`edges`. A content is named by the edit that wrote it, so that two contents
always differ (as modification times do); a rename keeps the content. The edits
are the calls of `api/nodes.py` and the patches of runs; each has an indexing
job, deduplicated by operation and paths as `submit_mutation_indexing_async` does.
A job stats, reads and resolves its paths outside the lock (`Stat`, `Read`,
`Resolve`), verifies and writes under it (`Commit`), reads again once (`Retry`) or
aborts. The scan (`BeginScan` to `RemoveRows`) reads the rows once, lists, judges
and verifies the files, scans its candidates as a job does, and removes the rest.
What happens under the lock is one step, which the first theorem about
ProjectLock justifies; a submit call is one step, for TaskQueue has its steps.
A job that dies (`JobDies`) differs from one that fails in that its row stays active and
blocks its key; a scan's death is its failure here, for no second scan follows. In the
run, the patch rewrites the file that imports and removes the file it imports. `how`, `missed`, `last` and `touched` are history variables. Not in the module:
the parsing of the texts, embeddings and their quota, files above the size limits
(whose hash is a function of their stat), several scans (the key of a scan makes
them one), search rows (written and deleted with the file row).

**TaskRuns** models task runs with what they share. `at` is the step of a run in
`run_task_async`; `charge` is what became of its unit of the daily quota: the row
of the day stays locked from the statement that raises it to the next commit,
which is the commit of the run or that of a contract that a tool builds on the
same session (`ContractCommits`). `retry` is the loop of agentic retries with its
escalations; `row` is the `AnalysisRun`; `blobs` the texts that have a blob;
`applying` the application of a patch that a run or a user is in the middle of,
`tree` how much of a patch is in the files, `index` and `patched` what the index
knows of it. The model, the quality gate and the self check are choices over what
they may say.

**AgenticTools** gives for each tool of the dispatch table the set of its possible
outcomes: code, the files whose text is in the answer, the files it whitelists,
and a size. What an index holds is left open; the kind of a file is not.
**AgenticLoop** extends it with the loop of `llm/agentic/call.py`: `meta` is the
record of the level that is running (calls, characters, tokens, whitelist), `prior`
those of the levels around it, `cache` the tool cache that all levels share. A
batch is answered until the calls or the characters run out; the calls after that
stay without an answer. A level without valid evidence, or one that the self check
refuses, starts a nested level with a new `meta`. `shown` and `spent` are history.

**Routing** models the choice of a model by thresholds of complexity and by
telemetry, and the call itself. `stored` is the Redis cache that a calibration
fills key by key (`todo`); `run` has what a run has read and chosen. Numbers are
thousandths. A stored value may expire at any time: calibrations come every hour
and their values live five minutes (`config.py:134`). `lacks` is what the
installed client does not know of the parameters of a call.

**Accounts** models changes of members under READ COMMITTED with row locks:
`step` is the place of a request between the policy and its commit, `seen` the
role that the policy read, `owners` the rows that its second statement found as it
began, one of which may be no owner any more when its lock comes. PostgreSQL's
deadlock detector is an action.
**Founding** models bootstrap, registration, log-in and the organisation that
requests without a user work in: `sentinel` is the row of the bootstrap, `locks`
the two advisory locks, `late` and `crossed` history.

**GraphMetrics** models a commit that changes edges (`Change`) and the metrics that
follow it outside the lock, incremental (`PartReads`, `PartWrites`) or whole
(`FullReads`, `FullWrites`); the components are computed by reachability (what every
closed set has, `Grown`), the fans by counting. **Resolve** is the resolution of an import as operators over paths
(`JsRelative`, `PyRelative`, `GoPackage` and their helpers). Its only state is the caches:
what a key was read from (`ReadFor`), which is the configuration and, for a `go.mod` or a
`go.work`, those of its replacements whose directory was there (`Localized`); the others
are no candidates, so a shorter prefix may win. A path that climbs above the root
and comes back by the root's own names is followed (`Bases`, `RootNames`). **ApiMatching** has the prefixes of routers
as a worklist, and the compatibility of two paths with wildcards as a recursive function
on the cells of their two positions.

**FileCaches** models requests that fill and changes that sweep, for one file whose
content is its own hash; **RateLimit** the counting script with what Redis may do
to it; **Runtimes** the pools (`calls` are callers, `jobs` their work in a thread
or process, `counts` the permits) and the ordered clean-up.

**Composition.** `ScanIndex` relies on what ProjectLock and TaskQueue promise; the
application of a patch is in ScanIndex as an edit and in TaskRuns with its record;
AgenticLoop is what `AskAgentic` of TaskRuns abstracts to a list of missing context
and a draft. Components that share nothing are checked side by side in one run:
`MCMachines` extends its four components, `MCTasks` its three (Accounts, TaskRuns and
AgenticLoop), and `MCServices` its seven (Founding, RateLimit, FileCaches, Routing,
GraphMetrics, Resolve and ApiMatching). Modules that one harness extends have no name in
common, which is why some of theirs begin with `Pipeline`, `Upload`, `Loop` and the like.
`part`, constant in a behaviour, says which component the behaviour is of, and the others'
variables stay as they are. The properties of a component are the definitions the theorems
state. Some assumptions are plain operators (`RunsAssumption` and the like), which
the harness states as `PartsAssumption`.
`MCTaskQueue`, `MCSnapshotStore`, `MCProjectLock`, `MCScanPipeline`, `MCScanIndex`
and `MCAgenticLoop` give names to small sets for one module each.

**TaskQueueProofs**, **SnapshotStoreProofs**, **ProjectLockProofs**,
**ScanIndexProofs**, **AccountsProofs**, **TaskRunsProofs** (of TaskRuns, AgenticLoop and
`MCTasks`), **ServicesProofs** (of the seven services and `MCServices`) and
**MachinesProofs** (of ScanPipeline, MultipartUpload, Runtimes and `MCMachines`) hold the
theorems.

In each module, an operator whose comment begins with "Mutant" is a wrong version
of the definition after it. `PROJECT.json` pairs each property with the mutant
that breaks it.

## 3. Runs

| Run | Instance | What it asks |
| --- | --- | --- |
| `queue_faults` | two submits of one payload, limit 1, two failures out of six kinds, fair | the inductive invariant, recorded and exclusive work, stranded rows, slots, successes; every call ends and every active row is settled |
| `queue_lifecycle` | two submits of a run and one of a scan, benign failures | TaskQueue implements JobLifecycle |
| `snapshot_faults` | two jobs with one content and two names, one of them delivered twice, two deletions, two failures of five kinds, S3 | marked roots, files of projects, content and objects left behind |
| `index` | two files, one importing the other, two edits of any kind, one scan, one failure | stale, orphaned and dangling rows are explained; rows change to what is there; a successful scan has caught up |
| `machines` | side by side: three operations under the lock on two connections with two faults; pipelines of three consumers and four batches with a failing producer or failing workers; an upload by two workers of five chunks; three pooled calls on two permits | exclusion and the pool's connections, whole results, nothing left running, permits; everything ends |
| `tasks` | side by side: two runs and one user, one long patch, a daily limit of one or two, two retries, one crash; the agentic loop with one file, four tools, three calls and a budget of three units; three of seven requests on an organisation with two owners and an admin | owners, roles, quota, escalations, patches, the loop's budgets and whitelist; everything ends |
| `services` | side by side: three founders with two addresses; one file, two readers and two changers; four requests with a limit of two; three files and two metric updates; patterns of up to three tokens and three routers; sixteen imports over eleven files; two calibrations and one run | what each of the seven components keeps or answers is right or explained |
| `snapshot_replay` | one job delivered twice, one crash | *violated*: a retry reuses the project |
| `snapshot_begin` | two jobs, no failure, `BeginRefused` | *violated*: an import makes its project |
| `lock_leak` | three operations, one writer, no failure | *violated*: who is refused is refused because of another operation |
| `pipeline_failing` | the scan with two consumers, one of which fails | *violated*: the pipeline ends |
| `agentic_whitelist` | the loop as in `tasks` | *violated*: files that were read are whitelisted |

Why the bounds are enough.

*Queue.* Two calls with one key are what the unique index, the find and the roll
back are about; two failures let an enqueue time out and a worker die in the same
behaviour, and a limit of one makes the second submit meet a full set and
reconcile. *Snapshots.* Three attempts of two jobs allow a redelivery to overlap
another job of the same content; two deletions can cross. *Upload.* Two workers and
five chunks in batches of four make the producer block at the full queue and the
last part fall into a batch of its own; two cancellations are the most that the
shutdown treats differently. *Lock.* Three operations on two connections can hold
all connections while one is needed to unlock. *Pipeline.* More batches than the
queue has room for are what the sentinels compete with. *Index.* One edit can
overtake the job of the other at every step, and the scan can overlap both.
*Pools.* Three calls on two permits and one worker make one wait for a permit and
one for the worker; two executors per kind let one be made again after its close.

*Runs.* Two runs share a limit of one (one is refused) or of two (both hold their
patch at once) and one blob; lists of missing context that are empty, blank, or two
that differ take every way through the stop reasons. The runs are alike, so of the
two orders of different requests one is explored. *Loop.* Three calls in batches of
two end inside a batch; a budget of three with answers of one and three units and
two for a minimized answer makes answers fit, be minimized, and be cut to nothing;
both nested levels happen. *Members.* Two owners and three requests can take away
both, can wait in a cycle of two and of three, and can take the actor's role
between its reading and its use.

*Founding.* Three users can be in the bootstrap, in a registration and in a request
without a user at once. *Caches.* Two fills and two sweeps can overtake each other.
*Rate limit.* Four requests, three of them of one client with one through a trusted
proxy, pass a limit of two. *Metrics.* Cycles of two and three files, a partial
update of up to two files and a whole one, crossing. *Matching.* All patterns of
up to three tokens over a letter and the two wildcards against all paths of up to
four segments, since two of them that meet do so in a path of at most four
(`MatchingAssumption`); graphs of up to three inclusions with a depth of two. *Imports.*
Each kind of import and of configuration, in a tree with all the targets, without some
of them, without the directory that replaces a Go module, and with that directory but
no Go file in it; so a cached replacement can outlive its directory, appear too late, and
hide or uncover a shorter prefix. Two names lead down to the root, by one of which an
import comes back. *Routing.* Two calibrations can leave thresholds and weights of different
windows behind, and change between the reads of a run.

The bounds are the constants `MaxFaults`, `MaxFailures`, `MaxCancels`, `MaxTries`,
`MaxCompleted`, `MaxCrashes`, `MaxMade`, `MaxWindows`, `MaxCalibrations`, `MaxDepth`,
`MaxPrefixes`, `Batches` and `Chunks`. `MaxRetries`, `MaxEscalations`, `MaxCalls`,
`CallCeiling`, `Budget`, `Limit` and `MaxComponent` are settings of the code with
small values. `index` uses symmetry between the edits, and `services` between
readers, changers, updaters and calibrators: their properties are invariants and
action properties, for which it is sound.

Deadlock is checked where a step for "all is over" is part of the model (queue,
snapshots, `tasks`, `services`), so that a state from which nobody can go on would
be found; `machines` and `index` have no such step, and what must end there is a
liveness property or stated of the states at rest.

## 4. Fairness

- TaskQueue: weak fairness of each submit call and each worker. The event loop
  runs every coroutine that can go on, and a worker keeps polling its queue.
  Failures are not fair.
- MultipartUpload, ScanPipeline: weak fairness of the tasks, for the same reason.
  Cancellations and failures are not fair.
- ProjectLock: weak fairness of each operation. Its statements have time limits
  (the pool's, the lock's), so that none waits for ever, and PostgreSQL grants a
  free lock to a waiter.
- Runtimes: weak fairness of each call, of the thread or process that has its job,
  and of the clean-up: executors work off their queues, and a call has a time limit.
- Accounts: weak fairness of each request; statements of the database end, and its
  detector breaks a cycle of waits (`DeadlockVictim`, part of the request's step).
- TaskRuns and AgenticLoop: weak fairness of each run, whose awaits (the model, the
  database, the files) all have time limits; users and crashes are not fair.
- The other modules have no liveness properties: what they promise at the end is
  stated of the states in which everything has come to rest.

## 5. Proofs

All theorems hold for every value of the constants that satisfies the named
assumptions of the modules (finite sets of tasks, positive limits, writers among
the operations, an owner among the first members, and the like).

**TaskQueueProofs.** `IndInv` strengthens unique keys and recorded work by what
links the call, the broker and the worker: a job runs exactly when a worker has
it (`JobMatchesWorker`), a call that has not enqueued yet has published nothing
(`NothingPublishedYet`), an active row without a job belongs to its call
(`ActiveHasOwner`), a settled row was settled by a delivery or given up by its
call (`TerminalHasCause`), and what a worker loaded as running is still so or has
a cause not to be (`LoadedRunning`). Without the last two, a redelivered worker
could find its row in any state. From `IndInv` follow `TypeCorrect`,
`KeysAreExclusive`, `WorkRecorded`, `WorkIsExclusive`, `StrandedRowsExplained`
and, as an action property, `SuccessIsKept`.

`SlotsAreExplained` is about the in-flight set in Redis and stands on an invariant of
its own, `SlotInv`, relative to `IndInv`. A slot has no owner in the code: who gives
it back depends on where its call and its job are. `SlotsHeld` follows it from the
guard to the release: in every step but those of a named leak somebody is still to
give it back (`Holds`). `HandlersHold` is the other direction, a job that begins or
works without its slot has lost it to a reconciliation or had none to begin with.
Both need that a call reconciles once and with rows it has listed (`ListedOnce`) and
that only heavy jobs come near the set (`HeavyOnly`).

`LifecycleImplemented`: with no failures but those named in `Benign`, every step of
TaskQueue is a step of JobLifecycle or leaves it alone. Enqueue time-outs and worker
deaths are excluded because they do break the life cycle, by delivering a job again
that has been settled.

**SnapshotStoreProofs.** Type correctness and the four invariants of the store.
`MarkedRootAlwaysWhole` and `ProjectsKeepTheirFiles` hold whatever fails, and follow
from `FileInv`. Its centre is `Mark`, what is known of a content that no two
operations touched at once: a marker that nobody is wiping stands for a whole root,
and each import may rely, from one step to the next, on what it saw (`Reliable`: no
marker while it extracts, no torn archive, a whole root while it clones, a whole copy
when it commits). Around it, a clone is listed for one wipe only and by an actor of
its content (`Listings`), and who is to wipe a content counted no other project of it
(`Counts`). `LeftOnlyByCrossedDeletions` and `OrphanObjectsExplained` are about
behaviours without a failure: `Cared` names, for every content of which anything is
left, who is still to list it or use it (an import or the last deletion on its way, a
live project, a wipe that has listed it, or two deletions that each counted the
other's project), and `ObjectCared` says the same of each object by its key.

**ProjectLockProofs.** `LockExcludes` and `PoolKeepsAll`. The invariant `IInv`
adds to the types and to `ConnsAccounted` (each connection is in one place) that an
operation which asks, is in its body or gives the lock back has a connection, that
the one in its body holds the lock with it (`Engaged`), and that at most one
connection holds the lock (`OneHolder`). A writer that has committed leaves the
lock behind on a connection in the pool, and only an operation that borrows this
very connection can be granted it again: the proof is where one sees that exclusion
survives the leak.

**ScanIndexProofs.** `TypeCorrect`; `IndexFollowsDisk` (a row changes only to what
is on the disk at that moment) and `ApiRowsFollow`, from a lemma on what a verified
write does to one path; `ScanLeavesNothing` (a scan that succeeds has brought
everything up to date that was not touched since it began and could be read) from
the inductive `ScanInv`. `ScanInv` follows a path that nobody touches through the
scan: its row is what the scan read at its start or is up to date (`Steady`), it is
absent, a candidate, or what its row says (`Marked`), every path has been looked at
before the candidates are scanned (`Walked`), and when the removal comes the
candidates are up to date or unreadable (`Written`). Each part is needed: without
`Steady`, another job's write between listing and removal could leave an older row.
`StaleRowsExplained` and `DanglingEdgesExplained` speak of the states at rest, and
what they say is not inductive: a stale row is right in the middle of a job.
`RestInv` says what holds on the way there. Each edit that waits for a job waits for
one on its own paths (`Asked`), and the last change of a path has asked (`LastAsked`);
once the job it waits for has written (`Served`), the row is what is on the disk or
could not be read (`RowsServed`), and an edge leads to a file, or to one that the job
is known to have missed or that a later change took away (`EdgesServed`, which needs
what a job has resolved but not written yet, `Resolved`). At rest, nothing is on its
way any more, and what is not `Served` is one of the cases the properties name.

**AccountsProofs.** `OwnerAlwaysRemains` and `ChangesWithinRole`. Neither property is
inductive; the argument is about rows. While a handler holds a row, no other
changes that member (`HeldIsKept`), so what it has judged still holds when it
writes: it holds the row of its subject (`SubjectHeld`), whose role it was allowed
to manage (`SubjectJudged`), and when the subject is an owner to be taken away, the
row of another one (`AnotherHeld`). That the counted owners need only be those that
the statement found as it began, some of them no owners any more by the time of
their lock, is `OwnersFound`. An insert holds no row: nobody is below who is no
member (`AnyoneManagesNone`). The role of the actor is not protected by any lock,
and the theorem has the exception `stale` that the property names. `OthersSound` and
`OwnSound` split the induction into what a step keeps of the other handlers and what
it establishes of its own.

**ServicesProofs.** `FoundedOnce`: one bootstrap, before any registration but one
that crossed it, and one organisation for nobody. The invariant adds that the
sentinel is there exactly when a bootstrap has been (`SentinelCounts`), that the
advisory locks are held by those in the steps between (`LockTypes`), and that a
bootstrap in the middle of hashing saw no user, so that any user there is crossed
it (`UnderWay`).

**TaskRunsProofs.** `RunTypes`, and three properties of runs from one invariant,
`TaskInv`, in three parts.

`QuotaAlwaysHolds`: the quota of a day is not passed, and no run that asked the model
is stored without a committed charge. The property alone is not inductive, since a
commit raises the count: `QuotaPart` adds that one run at most has an open charge (the
row of the day is locked until its commit) and that this charge fits under the limit,
so that `Commit` may keep it (`CommitKeeps`); `RunPart` follows each run through its
steps, with what it must have been charged in each of them. Failures and deaths roll
an open charge back (`FailKeeps`); applying and deleting never touch a charge
(`ApplyMoves`, `UserStepKeeps`).

`PatchesAlwaysExplained`: blobs, files, index and records of patches. The case that a
stored row misses its blob needs what comes before the row: a run between the blob and
the row needs the blob as well (`BlobsKept`), and a deletion that is about to take a
blob away did count no other row (`RemovedAlone`), so that a row it takes the blob
from has come since, which is what `dropped` records. That a failure on record is one
needs the failure that is still to be recorded: its patch is not in the files, or
another try has put it there since, which `again` records (`FailingHonestly`); and
once it is recorded, a try that works is still to be recorded itself
(`FailedHonestly`). Whoever applies a patch has the text of its row (`ApplyKnows`), and
a row is written once (`RowsFresh`).

`EscalationsBounded`: the bound on escalations is not inductive. `RetryPart` adds that
before the loop ends there are no more escalations than rounds, since a pass that goes
round raises both, and that only the last pass may add one and stop; that the limit is
passed only by blank missing context is a matter of the order of the stop reasons
(`PassKeepsRetry`).

`LoopAlwaysExplained`: the agentic loop keeps its budgets, its count of tokens and its
whitelist. What carries it is what every answer of a tool is like, whatever files,
index or database it meets (`Outcome`, a lemma for each kind of tool): it shows no
file that it does not whitelist, and shows all of them when it is well. `Unshown`
then says of each whitelisted file that was never shown which cached answer held it,
and that this one did not fit what was left, or was not well; a hit adds nothing to
the whitelist and what is left only shrinks, so it stays so (`CallKeeps`). The
characters overrun by less than one minimized answer because anything longer than
what is left is cut to it, or is the minimized answer itself (`CutFits`). That the
tokens in the end are all that were spent needs that before the end the level and
those above it have them together (`TokensSoFar`).

`LimitAlwaysHolds`, in ServicesProofs: no client is allowed more requests in a
window than the limit. What is needed beside it is that Redis counts no less than the
process allows: in the open window the count of a client is at least the number of
its requests that were allowed (`CountedAll`), and no request is dated later than
that window (`Dated`). A lost answer counts and allows nothing, which only widens the gap.

`CachesAlwaysExplained`, in ServicesProofs: what the caches keep and the index has
left behind is explained. A request that nothing has crossed since its last await
knows of file and index what is there now (`Knows`); the step that crosses it marks it
torn, and what a torn read stores is an exception the property names. A search result
that the index has left behind has a sweep that will take it (`SearchTaken`, which
also looks at the keys a sweep has listed and is still to delete), and disk and index
differ only while a change waits for its scan or has failed (`EditsWait`).

`RoutingAlwaysExplained`, in ServicesProofs: that stored thresholds are those the runs
take is a fact about the arithmetic of the calibration (`DerivedIsGood`): a window that
is not empty has a largest latency (`PeakExists`, by the least window without one), so
that what is derived are numbers, and the clamps put each at or above the one before.
It holds of what is stored and of what is still to be stored (`ThresholdsGood`). That a
run which asks again gets no weaker model follows from `RankIsMonotone`, and from what a
run keeps of the thresholds it has read (`RunPart`). The thresholds, samples and pools
of the configuration are assumed to be what the start of the program checks
(`RoutingAssumption`; config.py 491).

`MetricsAlwaysExplained`, in ServicesProofs: fans and components after updates that did
not cross. The property speaks of moments of rest alone; the invariant says what is on
record in between (`UpdateFits`): after a commit, what lies outside the files it has
touched, and outside the connected part it is in; once an update has read, all but what
it is going to write; and that what it has read is still so, for one update at most is
under way (`OneUpdates`). That a commit which changes the edges from one file leaves
the components of all files that are not connected with it as they were is
`FarFromChange`: no path of theirs comes to that file, before or after. Such paths are
reasoned about by closed sets (`GrownHolds`, `GrownLeast`), connection is symmetric
(`WeakBothWays`), and two files get one number exactly when each is reached from the
other (`SccsTell`), for the sets of files that have one number are told apart by
their first. Files are assumed finitely many and ordered (`MetricsAssumption`).

`ImportsAlwaysExplained`, in ServicesProofs: an import of the project's own names is
resolved to a file that is there and that the name may stand for, and an answer that a
new process would not give has to do with something read before the configuration changed,
or before the directory of a replacement appeared or vanished. The resolver tries
candidates in an order and takes the first that is in the tree (`FirstIsThere`); that each
candidate is the name with something appended is followed through the helpers on paths
(`ConcatNames`, `PlainIsAppended`, `MoreIsAppended`, `BaseIsAPath`), up to
`RelativeIsNamed`. Two processes that have read the same for what a lookup asks, configuration and
replacements, answer alike (`SeenAlike`, `AskedDecides`), and a relative import asks for
none. `ImportsAssumption` says what imports and trees are made of, and that the tree has
no file of the name that stands for "none".

`MatchingAlwaysExplained`, in ServicesProofs, is about two computations.
`patterns_compatible` fills a table over the positions in two patterns, a recursion that
the prover cannot unfold at will; what is proved instead is that the table is the only
function with its equation (`CompatibleIsComputed`), that "some path fits both patterns
from here on" has the same equation (`MeetEquation`, `MeetingComputes`), and that two
functions with this equation agree, by descent on the tokens that are left
(`CompatibleMeets`, with the least number of a set instead of an induction over data). What
it is to fit a pattern is a sequence of cuts (`Cuts`), which a path grows by one segment at a
time (`FitsStep`, `FitsAll`). The definition looks for a path among finitely many `Words`:
two patterns that meet do so in a path no longer than their tokens other than `{*}`
(`Slack`, `MeetShort`), and `MatchingAssumption` asks that the paths of that length are
there. Coverage follows from the keys under which routes and calls are looked up
(`KeysBegin`, `KeysMeet`): two patterns that meet share a key unless one of them begins with
a wildcard. The worklist of routers needs everything that was ever queued (`Queued`): it
contains whatever an inclusion brings from what was taken out of it, level by level
(`Levels`), and what is kept of it is cut to `MaxPrefixes` (`KeepsEnough`). When nothing is
queued any more, these are all ways from a root within the depth (`WaysAreBrought`).

**MachinesProofs.** Three machines that move batches, parts and permits around.

`ScansSettle`: a scan that returns has merged every batch, and nothing of it runs on
when it has ended. The queue is first in, first out, and its sentinels come last
(`SentinelsLast`), so that a consumer which ends of its own has left no batch behind
it (`EndedInOrder`); where no task has crashed each batch found is merged, in the
queue, or in a hand (`Accounted`), and when all tasks are gone it can only be merged.
A crash is always struck before the caller goes on (`NothingToClean`), and then it
raises.

`UploadsSettle`: a completed upload is whole, and workers and uploads are left over
only where the properties say. As long as no error is known, each part put into the
queue is there, with a worker, or uploaded (`PartsAccounted`). When the call looks at
the parts, all of them have been put, the queue is empty and the workers have stopped
(`AtRest`), so that none can be on its way and the error slot is final: the code's
look at the numbers of the parts alone, which the mutant keeps, would not do.

`PoolsAlwaysHold`: counts, permits and what outlives the clean-up. `Held` ties each
job to a call that waits for it, or was cancelled, and to an executor that has been
made; a job whose call was not cancelled has that call's permit. `Lineage` says that
every executor but the last of its kind is dead, and that a kind which nobody makes
again has one at most; `ClosedDown`, that a kind whose close is over has none, and no
job. The arithmetic (who joins or leaves the calls that are counted) is the two
lemmas `OneMoves` and `NoneMoves` on cardinalities.

**Types.** Each type invariant that a run checks is a theorem: `TypeCorrect` of the queue and of
the index, `StoreTypes`, `LockTypeCorrect`, `MembersTypeCorrect`, `RunTypes`,
`AgenticTypeCorrect`, `PipelineTypeCorrect`, `UploadTypeCorrect`, `PoolsTypeCorrect`,
`FoundingTypeCorrect`, `RateTypeCorrect`, `CachesTypeCorrect`, `RoutingTypeCorrect` and
`MetricsTypeCorrect`. Most are a conjunct of the invariant above; in three the bounds of the
numbers are an argument of their own:

- Routing: the weights that are stored and read are shares of a thousand, for each is at most
  the total they are divided by (`Share`, `NormalFits`). This needs that no weight
  is negative when they are divided, which the code sees to by taking its default weights
  (llm/routing_weights.py:25). That there is a model to choose needs that there are finitely
  many with telemetry (`RoutingAssumption`).
- GraphMetrics: component numbers are no more than the files (`MetricsSizes`), since each counts
  components, and there are no more of these than files (`NumbersFit`).
- AgenticLoop: levels are at most two deep, as each uses up one of the two retries that may be
  asked for (`LevelFits`: the level and the retries left are at most two together).

**Compositions.** A step of a composition is a step of one part that leaves the others'
variables alone (`MachinesTakeTurns` and its like), so that, fairness aside, a behaviour of it
is one of every part (`MachinesAreParts`, `ServicesAreParts`; `TasksAreParts` says it by the
invariants). `MachinesTypesHold`, `TasksTypesHold` and `ServicesTypesHold` state their types,
`MachinesHold`, `TasksHold` and `ServicesHold` everything else that the three runs check of
them but liveness: these theorems are about the very specifications that TLC runs.

Only model-checked: liveness (`QueueSettles`, `MachinesEnd`, `TasksEnd`), which
depends on fairness and ENABLED and is out of the prover's reach. No module that is proved
about uses a RECURSIVE operator.

## 6. Findings

Five runs are expected to find a violation, of something that the repository says
of itself:

- `snapshot_replay`: a comment says that a retry after the commit reuses the
  project; the first attempt has moved the staged upload away, and the second fails
  on it before it looks for the project.
- `snapshot_begin`: a test imports with a job id on a fresh session and expects a
  project; the look-up begins a transaction, and the explicit `begin()` after it is
  refused.
- `lock_leak`: after a commit inside the lock the unlock runs on another connection;
  the lock stays with an idle one, and operations are told of another operation
  that does not exist.
- `pipeline_failing`: the producer's sentinels are to keep the pipeline from
  hanging; when a consumer fails, the cancelled producer puts them into a full queue
  that nobody reads, and the scan waits for it.
- `agentic_whitelist`: a comment says that files read by the agentic tools are
  whitelisted for patching; the retries for evidence and of the self check start a
  new record and keep the tool cache, so a file read again is not noted.

The passing properties also say under which conditions things go wrong that the
code accepts, and these are worth a reader's attention:

- a second save of a file that is answered with the running job of the first
  (`StaleExplained`; the answer says `rescan_scheduled`), edges to a file that was
  deleted between the resolving of an import and the write (`DanglingEdgeExplained`),
  API rows that a scan's removal leaves (`ApiFollowsNode`), content that crossed
  deletions leave (`LeftOnlyByCrossedDeletes`), rows that a death strands together
  with their key (`StrandedOnlyByFailure`);
- missing context that is only blank stops no retry and is counted all the same, so
  the escalations pass their limit (`EscalationsExplained`; task_service.py 450, 1640);
- two tries of one patch that cross leave "failed" on record for a patch that is in
  the files, and a blob that an expired run deletes is missed by the others that
  share it (`PatchesExplained`; task_service.py 649, storage.py 170);
- a file is whitelisted although its answer was cut to nothing (`LoopExplained`),
  and the calls of a batch after the end of the budget stay unanswered
  (llm/agentic/call.py 469); the fallback of a semantic search passes a `dict` where
  the whitelist of a `ToolMeta` is expected (llm/agentic/tools.py 1160), and a loop
  variable shadows the `meta` of `compare_api_contract` (line 4056);
- the second request to a model after a self check ignores the telemetry that chose
  the first one, and more failures raise the thresholds, so that it can be given a
  weaker model; the profile's transform is applied when the weights are stored and
  again when they are read; a client that knows neither of two parameters fails, for
  the second error is not caught (`RoutingExplained`; llm/orchestrator.py 147);
- edits of a file sweep the packs and not the search results; a text that was cut
  or could not be read is kept under the hash of the whole; when the sweep fails
  after the write, the indexing is never queued (`CachesExplained`; context_pack.py
  92, api/nodes.py 342);
- partial metrics number their components from 0 again (`MetricsExplained`); an
  import with dots in its last part loses a suffix, and what a configuration said, and
  whether the directory of a Go replacement was there, is kept as long as the process
  lives: a directory that is created later stays unseen though no configuration file
  changes (`ImportsExplained`; resolve.py 466, 517, 565); routes and calls that
  begin with a wildcard are never matched, and a router that is included only from a
  cycle has no prefix (`MatchingExplained`; llm/agentic/tools.py 1493, 1592);
- a session that has read the policy has begun a transaction, and the `begin()` of
  the change of members on it is refused (`begun` in Accounts; org_service.py 132,
  179); an actor who loses their role in between still gets their change
  (`WithinActorsRole`);
- cancelled calls give their permit back while their thread runs on, a broken
  process pool is never made anew, and a call after the clean-up makes an executor
  that nobody closes (`PoolsHold`).

## 7. Not modelled

- Language indexers, extraction of routes and contracts, documentation, the edit
  engines of patches: pure functions of texts.
- Migrations, settings, logging, error mapping, HTTP wiring, front-end views: no
  protocol of their own.
- The front end is a program of its own beside the service. Its one hard case is an
  answer to a load of a file that is put into the editors of whatever project is
  open by the time it comes (`src/frontend/src/app/state/files/useFileEditors.ts:88`).
- The change of event loops that the executor pools allow for happens in tests only.
- `SET LOCAL statement_timeout` of the lock's wait, which outlives its savepoint
  (utils.py 109), is a failure of a statement in ProjectLock, not a clock.
- The language model, PostgreSQL, Redis, ARQ, S3 and the event loop are external;
  the modules have what the code relies on of them, in the comments of the actions.
- `PROJECT.json` gives for each component what of it is left out, and why.

## 8. Plan

What was planned is done: the queue, snapshots, upload, lock, pipeline and index
first, as the most exposed; then runs and patches, the agentic loop with its tools,
routing, members and founding, metrics, resolution, matching, caches, rate limit and
pools, composed into three runs; and proofs of the queue with its slots and its
refinement, the snapshot store, the lock, the index, members, founding, runs with
their quota, patches and retries, the agentic loop, the rate limit, the caches, the
choice of models, the metrics, the resolution of imports, the matching of routes, the
pipelines, the upload and the executor pools, and of the types of all of them.
Every invariant and every action property of a passing run is stated by a theorem.

What a next step would be, in this order: a refinement of `AskAgentic` in TaskRuns by
AgenticLoop; and a model of the front end's editors and selection beside the service.
