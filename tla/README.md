# A TLA+ model of agent-core-orchestrator

This directory specifies, model-checks and partly proves the orchestrator's
coordination code: the durable job queue, the durable chains built on it, the
idempotency store, the runtime of one hop over the LLM router, the hot-reloading
agent registry, the operational graph, the living wiki, and the plan loop of the
command line. The reference is the Python source (`src/src/agentcore/`);
`PROJECT.json` maps each definition to the lines it stands for, and lists the
components, runs, mutants, hazards, findings and theorems.

## 1. The system

One or more identical orchestrator processes (FastAPI on one asyncio event loop
each) share one Postgres database. Each process serves HTTP, drains the job
table with one serial worker loop, and runs a cleanup loop. When Postgres is
unreachable every stateful part falls back to memory of the process. A *chain* is
a sequence of agent *hops*; each hop calls a language model and either ends the
chain or delegates to the next agent.

| component | state | operations | hard behaviour | what makes it correct |
|---|---|---|---|---|
| job queue, worker loop (`state/jobs.py`) | table `agentcore_jobs`; `_fallback` list; per worker the claimed job and its heartbeat task | enqueue, claim, extend_lease, complete, fail, cleanup, purge, retry, cancel_chain, run_worker | claims of several processes interleave; leases expire; processes die or pause mid-handler; `fail` is two statements; `complete` names no owner | a job is not executed twice at once, is not lost, is not given up early; finished rows stay |
| durable chains (`orchestrator/app.py`) | hop rows, the chain's slot in the idempotency store, the wiki job | POST /run durable, `_runtime_chain_advance`, GET and DELETE /chains | successor enqueued before predecessor completes; slot is read, a model is called, slot is written; cancellation in between; hops repeated after a crash | a chain gets one final record and gets it eventually; cancellation and completion do not corrupt each other |
| idempotency store (`state/idempotency.py`) | table `agentcore_idempotency`; bounded dict per process; `_persistent` | get, put, cleanup; used by /run, /handoff, /signal | lookup, awaited execution and store are separate; errors are swallowed | an answered key is not executed again |
| runtime (`orchestrator/runtime.py`) | none between hops; within one its stage, re-asks and timer | execute, discovery, chunks, re-asks, SLA timeout, edit checks | nested retries, each call with its own timeout; cancellation at every await | bounded waiting; only validated outputs leave a hop |
| LLM router (`llm/`) | semaphore; boto3 threads | complete, bounded retry | backoff sleeps while holding a slot; a cancelled Bedrock call goes on in its thread | slots are returned on every path |
| agent registry (`spec/`) | specs by name, errors by path; the watcher's batch | load_dir, watch_agents_dir, upsert, remove_by_path, record_error, get | batches without an order; changes before the watcher listens; renames; files that stop parsing or vanish; agents looked up anew by each hop | the registry agrees with the directory, and settles on it; a running chain is not refused by agents that were there for it |
| graph memory (`memory/graph.py`) | NetworkX mirror per process; tables nodes, edges, events; a JSON file | add_node, add_edge, record_*, tag_*, operational_memory, save, load | a hop is a dozen autocommitted statements; mirrors of other processes are stale; upserts carry the mirror's labels | foreign keys hold; an event speaks of edges and labels that are there; labels are not lost |
| vector memory, retrieval (`memory/`, `retrieval/`) | tables | upsert, search, rank fusion | numeric | order of results |
| living wiki (`wiki/`) | page on each node's disk, row in Postgres, entry of the vector index | seed, incremental, write, merge, lint | sources change while a model writes about them; a failed upsert or index call is swallowed; several curators | a stale page is reported; the newest page is served and found; recorded sources are kept |
| sandbox, executors (`runtime/`) | a tree of files | apply file operations after a dry run, run commands | an op that fails after others were written | a patch that was checked is written whole |
| traces (`orchestrator/traces.py`) | append-only log | record, read | none | telemetry only |
| bootstrap, pool (`state/bootstrap.py`, `state/db.py`) | schema, connections | init, connection with retry | database down at start | visible to others as "persistent or not" |
| CLI plan loop (`cli.py`) | the chain's outputs by role, rounds, verdicts, the tree | chain, review rounds, override, route back, cap, apply, job row | each chain starts afresh and may lose what the last one made; the tree changes meanwhile; exceptions at every stage | only what was reviewed is written; done means tested; a capped loop ends |
| UI, client, adapters, contracts, settings | none, or the caller's | rendering, HTTP calls, validation, lookups | none | - |

How they interact: `/run` (durable) enqueues hop 0; the worker claims it and calls
`_runtime_chain_advance`, which reads the chain's slot through the idempotency store,
runs the hop in the runtime (router, registry, retrieval, graph) and then
enqueues hop n+1 or stores the final record; a clean chain also enqueues a wiki
refresh. `DELETE /chains/{id}` writes the same slot and cancels the rows.
`agentcore plan` runs the same runtime in its own process: chains of hops, review
rounds, then `apply_file_ops` on the repository and a wiki refresh of its own, beside
the server's curator. Every hop looks its agent up in the registry and records what
it did in the graph, which all processes share through Postgres.

## 2. Modules

| module | role |
|---|---|
| `JobTable` | the row of `agentcore_jobs` and each SQL statement's effect on one row, as pure operators |
| `JobQueue` | processes, leases, heartbeats, faults: the state machine of `state/jobs.py` |
| `DurableChain` | the chain handler and its routes over `JobTable`'s rows |
| `ChainPromise` | what a client of a chain may rely on; `DurableChain` implements it |
| `Idempotency` | the store in both modes and the lookup / execute / store handlers |
| `LlmRouter` | one call of the model: semaphore, retries, cancellation, as parts of actions |
| `HopRuntime` | `Runtime.execute`, several hops over one router |
| `Wiki` | one page in its three places, its curators, and the sources it is about |
| `FileOps` | one op of `apply_file_ops` and the dry run as pure operators, with a reference for the result |
| `PlanLoop` | `agentcore plan`: chains, review rounds, apply |
| `GraphMemory` | the graph's mirrors and tables, a hop as a program of statements |
| `Registry` | the spec directory, the watcher, the registry, and a chain that uses it |
| `MC*` (one per state machine) | instances for TLC |
| `JobQueueProofs`, `DurableChainProofs`, `IdempotencyProofs`, `HopRuntimeProofs`, `PlanLoopProofs`, `WikiProofs`, `GraphMemoryProofs`, `RegistryProofs` | theorems about the module they are named after; `HopRuntimeProofs` also about `LlmRouter`, `PlanLoopProofs` about `FileOps` |

`JobQueue` EXTENDS `JobTable`; `DurableChain` instantiates it, without its clock
(see 2.2), and instantiates `ChainPromise` through a refinement mapping. `HopRuntime` EXTENDS
`LlmRouter`, `PlanLoop` EXTENDS `FileOps`. A
definition preceded by `\* variant` is a plausible wrong version of the
definition after it; no specification uses it, it only serves the mutants in
`PROJECT.json`.

### 2.1 JobTable and JobQueue

Time is what remains, not what the clock says: a row's `lease` is
`locked_until - now()` and its `wait` is `run_after - now()`, both in ticks and
both stopping at 0. `Tick` moves the database clock. All calls of `jobs.py` are synchronous and so
block their process's event loop; that is why `Tick` waits for `Urgent`
work (a statement in progress, a heartbeat that is due) of processes that are not
paused. `Stall` and `Resume` are a paused process or a blocked loop, and cost a lapse.

| action | code |
|---|---|
| `Enqueue`, `Stash` | `enqueue`: INSERT ... ON CONFLICT, or `_enqueue_mem` when there is no table or the INSERT raised |
| `ClaimSelect`, `ClaimCommit` | `_claim_pg`: the CTE with FOR UPDATE SKIP LOCKED and the kind caps; then the UPDATE commits and `run_worker` starts the handler and the heartbeat, or goes to `fail` if the kind has no handler |
| `Heartbeat` | one round of `_heartbeat_loop`; a lease it could not extend ends the loop |
| `Complete` | the handler returned: `complete(job.id)` - by id alone |
| `FailSelect`, `FailUpdate` | the two autocommitted statements of `fail` |
| `ClaimMem`, `FinishMem` | the loop in memory mode |
| `CancelChain`, `RetryDeadLetter`, `PurgeDeadLetter`, `Cleanup` | the operator's routes and the cleanup loop, through any process that serves |
| `Start`, `Crash` | lifespan; shutdown cancels the loop, CancelledError passes every `except Exception`, so nothing is written |

`crashes` counts killed processes; `lapses` counts database calls whose exception
the code swallows, and pauses. Both are history variables that a property can condition on.
A lapse is injected where the swallowed call changes what happens next.

### 2.2 DurableChain and ChainPromise

A worker goes through `Claim`, `CheckSlot`, then one of `HopRaises`,
`HopDelegates`, `HopFinishes`, then perhaps `RefreshWiki`, then `Complete`. The cuts
are where a second process can interleave: each is one database statement, and the hop itself
is awaited. `DeleteCheck`, `DeleteStamp`, `DeleteRows` are the three statements of DELETE.
The queue has no clock here: a lease expires only when its owner is dead
(`LeaseExpires`). `JobQueue` justifies that while nothing lapses:
`LeaseOutlivesHandler`, proved, says a live process holds its lease while it executes.
A hop's result is `[run, kind]`: which attempt produced it, and what the wiki decision
looks at (a patch, a failed QA verdict, neither).

`ChainPromise` knows no queue: a hop begins only on a chain without an answer, a
DELETE begins only while no hop has answered, and only what has begun may answer.
The mapping takes `answer` to the slot, `working` to "some worker is past the check
and has not stored its outcome", `cancelling` to "a DELETE is between its check and
its store". `KeepsPromise` checks initial states and every step, crashes and repeated
hops included. A DELETE that has begun may overwrite the answer a hop stores meanwhile: the promise follows the code
in this, and so does not rule the loss out. The comment of the route (`app.py:692-696`) does: `CancelKeepsResults` states it, and is refuted (section 3).

### 2.3 Idempotency

An entry is its key's remaining time to live; `pg` and each process's `mem` are partial
functions from keys. `Arrive` is the lookup (a hit answers, a miss starts the
execution), `Finish` stores and answers, `Fail` is the error path that stores nothing.
`Start` probes Postgres once, `Crash` empties the dict. The history counters are `misreads`
(a failed lookup or probe), `stashes` (a failed store), `crashes`, `evictions`; `lapses` is
misreads and stashes together; `split` and `overlapped` remember that a process started without
Postgres and that two executions of a key overlapped. `done` remembers, per process, how long ago a
key was answered, so that a repeated execution can be recognised, and a replayed response that is older
than the last one given (a response is known by what is left of its time to live).

### 2.4 LlmRouter and HopRuntime

One process runs several `Runtime.execute()` calls, one per hop, which share the router.
An action is what a hop does from one await of the router to the next; `stage` says what it
asks the model for.

| stage | code | actions |
|---|---|---|
| `new` | rejections, then perhaps `_discover_and_run` | `Begin` |
| `discover` | its call, under 180 s; every error is logged and the hop goes on | `Discovered`, `GivesUp` |
| `prepare` | commands, executors, payload validation, `_split_payload` | `Prepare` |
| `chunks` | `_one_shot` per chunk, twice if the answer does not parse; then `_merge_outputs` and the contract | `Ask`, `Unparseable`, `ChunkAnswered`, `Merged` |
| `contract` | `_reask_with_contract`, checked again, then the edits | `Ask`, `Reasked` |
| `edits` | `_check_file_ops` or `_check_diffs` found errors: `_reask_with_diff_errors` | `CheckEdits`, `Ask`, `Reasked` |
| `ended` | outcome and graph enrichment, or an exception | `Delivers`, `Raises`, `Cancel` |

An answer is abstracted to what the hop tests: whether it parses, whether it has the
contract's shape, and which edits it carries; TLC chooses. `inGit` (is the repository root a
checkout) is chosen initially. A call is `waiting` for the semaphore, `sent`, or in `backoff`;
`Settles` is a return or a final exception, `Abandon` a cancellation, by `wait_for` (`Timeout`)
or from above (`Cancel`: the chain's cap or a shutdown). Only one of them leaves something
behind: boto3 runs in a thread, `orphans` counts those nobody waits for. The pool of
`to_thread` is assumed larger than the number of calls. Time (`left`, `waited`) is counted
while a call with a timeout is awaited; commands and executors run under timeouts of their own and count no ticks, nor does git, which
in part has none (`runtime.py:569, 590`, `sandbox.py:162`): `WaitBounded` is about the model, not about the whole hop.

`CheckEdits` follows the code to the letter: `_check_diffs` cleans up with
`contextlib.suppress`, and `runtime.py` does not import `contextlib`, so in a git checkout every
output with diffs and no `file_ops` ends its hop with a NameError.

### 2.5 Wiki

A text stands for the version of each source it was written from; a page also records its
`sources`, its `last_updated` (`at`) and, as history, the versions the model was shown (`seen`).
The model need not be shown all there is (`Batch`, `View`): a prompt holds at most `MaxFiles` files in an order nobody chose, the first
18000 characters of each (`Long` says which files have more, and stays as it is), and none that raises `OSError`. A seed records the files shown as sources, a revision keeps
the recorded ones, shown or not. A source that is there and was not shown whole is `Withheld` in `seen`.
`write()` is synchronous in a process, so a curator's steps are cut where other processes get in:

| action | code |
|---|---|
| `SeedStart`, `IncrementalStart` | `seed_from_repo` and `incremental` up to the model call: read the page, decide, show the files |
| `NoAnswer` | the call fails or returns nothing; it has no timeout |
| `Answer` | `write` up to the hash comparison: read again, merge the frontmatter |
| `Confirm` | equal hash: the file stays, the row is brought forward, nothing is indexed |
| `Replace`, `Mirror`, `Index` | temp file and rename; `_write_pg`; `upsert_page` |
| `Restart` | a crash between any two; the new process probes Postgres again |
| `Edit`, `Remove`, `Tick` | developers and the clock |

A read prefers Postgres and falls back to the disk when the query fails. The CLI resolves its
repository to an absolute path, the server's may be relative: `AbsoluteRoot`. `mishaps` names what
has gone wrong so far (a raced edit, an overlapped or overtaken write, a failed query, an unreadable file, a lost upsert of the
row or of the index); each property says which mishaps it does not survive.

### 2.6 FileOps and PlanLoop

A file is the bag of snippets it contains, because what an edit tests is how often its old text
occurs. Paths are flat and have one spelling: a path below a file (`a/b` where `a` is a file), `./a` beside `a`, and directories are left out. There the dry run accepts
ops that `apply_file_ops` then fails at, so `CheckedIsWritten` holds only without them. `CheckFileOps` is the dry run of `runtime.py`: each op alone, against the tree as it is.
The loop of `sandbox.py` takes one step per op, `WriteOp`, and stops at the first op it cannot do, keeping what it wrote; between
two ops somebody else may save a file. `at` counts the ops done, `touched` their paths; `base` is history, the tree before
the first op, and `None` once somebody else has edited. `Intended` is the reference the result is compared with.

| action | code |
|---|---|
| `HopDelivers`, `HopFails`, `HopCrashes` | one hop inside `_run_chain`; the exceptions `_safe_run_chain` catches; the others. A chain has a state of its own (`run`), an exception leaves the caller the state before (`state`) |
| `ReviewEnds` | a round that ends the loop: all approve, the environment-only override, or the cap |
| `RouteBack`, `RouteNowhere` | a rejection: a new chain from the role the first rejecter names, or a role that does not exist |
| `ReviewCrashes` | a verdict without `approved`: KeyError |
| `Apply` | are there edits to write, and may they be written |
| `WriteOp`, `WriteFails`, `WriteEnds` | a turn of `apply_file_ops`; its exception, after which nothing is reported; its return |
| `Finish` | the job row (best effort) and the wiki refresh |
| `UserEdit` | somebody else works in the tree |

Facts of the code the model keeps: a rejection that routes back to `qa` hands over diffs and notes
only, so that hop sees nothing of a patch made of `file_ops`; an answer that was asked for a second time is not
dry run again; the override counts a missing QA report as a clean one; `applied = []` after an exception
says nothing of what was already written; in a git checkout a patch of diffs alone ends its hop with the NameError
described in 2.4, so patches are `file_ops`.

### 2.7 GraphMemory

Each process has a `mirror` (label per node, undirected links) and a program `todo` of statements in the code's order: each is
one autocommitted statement in Postgres, and the mirror changes before the table does.
`EnrichGraph` is the program of a hop (`_enrich_graph`), `Afterwards` what an inline chain or a plan adds;
`Statement` runs the next one, `StatementFails` raises, which ends the program, `Crash` loses process and mirror.
Only a loop over `_merge_node_labels` has no order of its own: a `labels` statement holds the nodes that are left, and `Ready` offers any of them.
`tag_relevance` makes its record when it is called, labels the snippets its mirror knows, then asks the table
for all and labels those: `Remaining`. A label is the number of its record, so that an older one can be told from a newer one, and `makers` says, per record, who made it,
until that process ends; the hops bound the records. `Start` loads from Postgres, every project's rows, or from the
JSON file. The file's path, one symbol and one file node stand for all, as they are what tasks and projects share; with one symbol there are no edges
between symbols, which `merge_subgraph` adds too (`graph.py:709-712`).

### 2.8 Registry

Files are numbered as `sorted()` gives them; what a file says is a spec, or it is missing, broken (`SpecParseError`) or
garbled (any other exception). `LoadDir`, `Armed`, `TakeBatch`, `HandleChange` are `watch_agents_dir`: the initial
load file by file, the moment `awatch` starts to listen, a batch, one change of it in any order. `WatcherDies` is an exception of `_load_one`
that is no `SpecParseError`: the task ends, the server goes on. `Edit` is the directory's side, and what
watchfiles notices of it. `StartChain`, `Resolve`, `EndHop` are a chain whose hops look their agents up: the event
loop runs them between batches, never inside one. `doubts` is history: per file, the reasons for which the registry may
disagree with it.

## 3. Runs

| run | expected | question and answer |
|---|---|---|
| `job_queue` | holds | Leases, exclusion, attempts, giving up, finished rows and the bound of the fallback list (in `TypeOK`) over two processes (one of every project), three kinds of job, one crash, one lapse, one operator retry |
| `job_queue_live` | holds | `EveryJobSettles`: every live job is settled as long as its project keeps a process that reads the table |
| `job_queue_stale` | violated | `LostJobCompletesNothing`, what `_heartbeat_loop`'s docstring says: after losing its job a worker's `complete()` is a no-op. It is not: the UPDATE names the id only, so the peer's running row becomes `done` |
| `durable_chain` | holds | `KeepsPromise`, exclusion of hops, one output per hop and no wiki refresh after failure while nobody died, `ChainSettles` with a crash |
| `durable_chain_cancel` | violated | "the next hop will not be enqueued" (`app.py:687-689`): the slot is read before the hop only |
| `idempotency` | holds | a process repeats a key it answered only after a failed lookup, a crash or an eviction of its own; while every process has Postgres any repetition, by whatever process, costs a failed lookup or store; an older response masks a newer one only after a failed store, next to a failed lookup or an overlap; the dict stays bounded (in `TypeOK`) |
| `idempotency_twin` | violated | "the same key arriving twice must NOT re-execute" (`idempotency.py:3-4`): two overlapping deliveries both execute |
| `hop_runtime` | holds | slots are conserved, an outcome has the contract's shape, waiting is bounded by a multiple of the SLA, and a hop with an SLA ends though its provider never answers and another hop keeps the only slot |
| `wiki` | holds | `StaleIsReported`: a page that says other than its sources, as far as the model was shown them, is reported by lint, unless an edit raced a render. `NewestIsServed`, `IndexFollowsPage`: the row is no older than a file, and a search finds the row, unless an upsert was lost or writes overlapped. `SourcesKept`: no write drops a recorded source |
| `plan_loop` | holds | `WrittenIsReviewed`: what is written is the patch of the last round, approved or overridden. `CheckedIsWritten`: a patch dry run against this very tree, with one op per path, is written whole and reported. `DoneIsTested`, `PatchLostOnlyPastDeveloper`: what a rejection may lose. `CappedPlanEnds` |
| `graph` | holds | `TypeOK` with the foreign keys: no statement stores an edge whose nodes are missing, whatever failed before. `EventsAreBacked`: the audit log says only what is there. `TagsKept`: no label is lost, and only another process's older mirror may put an older one back |
| `registry` | holds | `RegistryAgrees`: a file whose changes were handled is registered as it is, but for four named reasons. `RegistrySettles`: so it becomes when edits stop, unless the watcher died. `RefusedOnlyIfMoved`: a handoff made in a chain is refused only if the registry changed under it |

The three violated runs are also the `findings` of `PROJECT.json`.

Eight more definitions state what a comment, a docstring, the documentation or a reader's expectation says and TLC refutes when they are given to it as a
property. They are not among the runs, and no other property uses them:

* `DurableChain!OneOutputPerHop`: "at-most-once hop OUTPUT" (`app.py:290`); after a crash a repeated hop can end the chain with an output
  its successor never saw. With no crash it holds: `OneOutputPerHopWithoutCrash`.
* `DurableChain!CancelKeepsResults`: a `done` or `failed` record is preserved "in a race between the last hop's terminal write and a concurrently-arriving
  DELETE" (`app.py:692-696`). DELETE reads the slot (`app.py:697`) and stamps it without a condition (`app.py:704`); a worker of another process stores its record in
  between, and the client sees `cancelled` with no hops. TLC needs seven states, no crash, and one hop. `KeepsPromise` holds because `ChainPromise` allows this.
* `HopRuntime!DeadlineIsSoft`: `sla_seconds` is a "soft deadline; runtime emits a warning trace but does not hard-kill" (`docs/SPEC.md:67`). `wait_for` cancels the
  call (`runtime.py:743-754`), even one that only waits for the semaphore, and the hop ends with `SLAExceeded`. `README.md:74-76` and that exception's docstring
  (`runtime.py:91-104`) agree with the code; `WaitBounded` and `HopsEnd` rest on what the code does.
* `LlmRouter!InFlightCapped`: the semaphore "caps in-flight provider calls per process" (`README.md:77-78`); a Bedrock request whose hop
  timed out goes on in its thread while its slot is used again.
* `PlanLoop!ApprovedHasPatch`: "iterates until unanimous approval, then applies" (`cli.py:325`); a rejection routed to `qa`, or an architect's chain cut
  short, leaves an approved round without a patch.
* `GraphMemory!RecallsOwnProject`: `operational_memory()` "filters by project" (`graph.py:175-178`); its join does not, and files have the same id in every
  project. Refuted with two projects and no fault.
* `Wiki!NothingIsWithheld`: a page that lint does not report says what its sources say, with every file readable and no race. With more than `MaxFiles` sources or a long one `last_updated` is renewed
  for sources the model has not seen (`curator.py:41-42, 230-237, 278-285`).
* `Registry!NeverRefusedMidChain`: in-flight tasks pin the spec version they started with (`spec/loader.py:4-5`); `snapshot()` has no caller.

Deadlock checking is off everywhere: these systems may stop for good when every
job id, call, chain, render or edit is used up and every process may have died.

### Bounds

* `MaxJobs = 2`, two workers: exclusion, caps, lease theft and cancellation each involve two
  processes and one or two rows; the third request kind competes for the same ids.
* `LockTicks = 2`, `BeatFloor = 1`: the least lease longer than the heartbeat interval,
  as 600 s is longer than 200 s; the order of beats and expiry is the same.
* `RetryTicks = 1`: a failed job is once not ready.
* one crash and one lapse: enough for every recovery path once, and for the mix of the two;
  `AttemptsBounded` counts them, so its bound is exercised and not vacuous.
* `FallbackMax = 1`: the list overflows with the second job.
* `MaxHops = 3`, three workers, one chain: a repeated hop next to its successor next to the
  successor's successor; chains share no key, slot or row. One crash suffices for all repetitions of one hop.
* `MaxCalls = 4`, two keys, `MemMax = 1`, `TtlTicks = 2`: eviction of the other key, expiry of an entry
  before the fourth call, two faults in one history. Symmetry over processes and keys is sound: no property
  or definition orders them, and the run has no temporal property.

* two hops, `Slots = 1`: one waits for the slot the other holds; the hop on Bedrock discovers commands and has
  an SLA of two ticks, longer than `DiscoveryTicks = 1`; the other has none and may keep the slot for ever.
  `MaxAttempts = 2`: one backoff. `MaxChunks = 2`: a chunk that is the last and one that is not, each with its two shots.
* `Wiki`: two curators, one with an absolute root; two sources, so that one can be removed and one stay; three renders: one that makes the page and
  two that meet each other or an edit; one edit, which may be a change, a removal or a return; `MaxFiles = 2`, `Long = {s2}`: one source that is shown whole and one that never is, and a file that cannot be read
  may be missing from a prompt; `Slack = 1` of `MaxClock = 2`: inside and outside of the slack. Two edits were checked with two renders and `MaxFiles = 1` (the cap leaves a source out), and with three renders and no long file. 
  `MaxMishaps = 1` separates the causes: each property excludes kinds of mishap, so it is tested against every other kind alone.
* `PlanLoop`: three rounds: one before and one after a rejection, and a second rejection that meets what the first left; two paths and two snippets: an
  old text that occurs zero times, once and twice; six patches: single, both files, twice one file, a create on a file that is there, an unknown op, a
  delete. One edit by somebody else.
* `GraphMemory`: two processes of one or of two projects, two tasks, two hops, two starts in all: either both processes run, or one runs, ends and loads again. One
  fault at any statement. One agent and one symbol: nothing compares agents. A hop adds its impact and labels its snippets (`Extras`).
* `Registry`: two files, two names, three specs: two files may want one name, one file may change its name, and a delegate may stop accepting; three edits: one per file and
  one that undoes; one chain.

### Fairness

Weak fairness only, and only on what the code itself schedules: a live process's loop polls,
commits and heartbeats; a handler ends, which assumes agents with `sla_seconds` (`HopsEnd` shows that such a hop does;
one without may wait for ever, and the field's default is None); a pause ends; the clock moves; an expired lease of
a dead process is noticed; in `HopRuntime`, timers that ran out fire and a free slot goes to the first waiter. In `PlanLoop` the command is one coroutine, which goes on (`WF_vars(Command)`; its review calls have no timeout, so this does assume that the
model answers); in `Registry` the event loop runs the watcher task and watchfiles delivers (`WF_vars(Watch)`). No fairness on clients, operators,
faults, cleanup, edits or model providers otherwise. `Wiki`, `GraphMemory` and `Idempotency` state safety only: a render has no timeout and may never end, and
what is lost there is not retried. Weak fairness of `Claim` is enough as each process picks its jobs in order
from a finite table and each job leaves the live states in finitely many claims.

## 4. Proofs

Eight modules hold theorems, for every value of the constants that the assumptions below allow. The runs check every property named here on a
small instance (but `AnswerStays`, which follows from one they check); TLC agreed with that and with the inductive invariants too before they were proved.

| module | theorem | statement |
|---|---|---|
| `JobQueueProofs` | `TypeCorrect`, `InvariantCorrect` | `TypeOK`; `QueueInvariant` |
| | `LeaseCorrect`, `ExclusionCorrect`, `GivingUpCorrect`, `FinishedRowsCorrect` | `LeaseOutlivesHandler`, `ExclusiveExecution`, `GivenUpOnlyAfterAllAttempts`, `FinishedRowsStay` |
| | `BudgetCorrect`, `AttemptsCorrect` | `BudgetInvariant`; `AttemptsBounded` |
| `DurableChainProofs` | `TypeInvariant`, `TypeCorrect` | `TypeInv`; `TypeOK` |
| | `Refinement`, `AnswersStay` | `KeepsPromise`: `DurableChain` implements `ChainPromise`; `AnswerStays` |
| | `QuietInvariant`, `OneHop`, `OneOutput`, `NoRefresh` | `QuietInv`; `OneHopAtATime`, `OneOutputPerHopWithoutCrash`, `NoRefreshAfterFailure` |
| `IdempotencyProofs` | `TypeInvariant`, `TypeCorrect` | `TypeInv`; `TypeOK` with the bound of the dict |
| | `RepeatsAlone`, `OwnRepeats` | `OneRepeating`; `OwnRepeatsPaidFor` |
| | `SharedInvariant`, `SharedRepeats` | `SharedInv`; `SharedRepeatsPaidFor` |
| | `StaleInvariant`, `StaleReplies` | `StaleInv`; `StaleRepliesExplained` |
| `HopRuntimeProofs` | `RouterInvariant`, `SlotsKept` | `RouterInv`; `SlotsConserved` of the router |
| | `TypeCorrect`, `HopInvariant` | `TypeOK`; `HopInv` |
| | `CheckedOutputs`, `WaitsBounded` | `OnlyCheckedOutputsLeave`, `WaitBounded` |
| `PlanLoopProofs` | `TypeInvariant`, `TypeCorrect` | `TypeInv`; `TypeOK` |
| | `FlowInvariant`, `PatchLost`, `DoneTested`, `WrittenReviewed` | `FlowInv`; `PatchLostOnlyPastDeveloper`, `DoneIsTested`, `WrittenIsReviewed` |
| | `WholeInvariant`, `CheckedWritten` | `WholeOK`; `CheckedIsWritten` |
| `WikiProofs` | `TypeInvariant`, `TypeCorrect` | `TypeInv`; `TypeOK` |
| | `PagesInvariant`, `NewestServed`, `IndexFollows`, `StaleReported`, `SourcesStay` | `PagesInv`; `NewestIsServed`, `IndexFollowsPage`, `StaleIsReported`, `SourcesKept` |
| `GraphMemoryProofs` | `GraphInvariant`, `TypeCorrect` | `GraphInv`; `TypeOK` with the foreign keys |
| | `EventsBacked`, `TagsStay` | `EventsAreBacked`, `TagsKept` |
| `RegistryProofs` | `TypeInvariant`, `TypeCorrect` | `TypeInv /\ RegistryInv`; `TypeOK` |
| | `Agreement`, `Welcome` | `RegistryAgrees`, `RefusedOnlyIfMoved` |

### Assumptions

Each is an `ASSUME` of the module that declares the constants. Marks (`NoWorker`, `NoProc`, `NoKey`, `None`, `NoSpec` and the like) are none of the things they stand
beside. Ticks, bounds and counters are naturals; a lease, a TTL, an `sla_seconds`, the
number of slots, of attempts, of chunks, of hops and of review rounds are positive; a request allows at least one attempt. The heartbeat interval is
positive and shorter than the lease (`HeartbeatAssumption`: true of the default 600 s; a `lock_seconds` of at most 15 would break it). A router
has finitely many hops. Agent files are numbered, as `sorted()` numbers them. Patches are sequences of ops, of any
length, and trees are trees. The sets of workers, processes, jobs, keys, chains, curators, sources, files and specs are arbitrary otherwise, infinite ones included, and so are the
bounds: nothing depends on their being small.

### Arguments

`JobQueueProofs`. Exclusion alone is not inductive: a claim must not take a row that is being
executed, which needs the row's lease to be alive, which needs the heartbeat to be ahead of it
(`LeaseOutlivesHandler`); a claim in progress must still have its row ready when it commits and
no other claim may hold it (`ClaimsAreSound`); a process without a lapse is not paused
(`PausesAreLapses`); and what `fail` read must still be true when it writes (`VerdictIsCurrent`).
Their conjunction is `QueueInvariant`. The proof regroups it per process (`HeldBy`, `Apart`), shows once
that a process whose row and local state a step leaves alone keeps its part (`Bystander`, `OneActor`,
`NoActor`), and then has one lemma per action for the process that acts. `FinishedRowsStay` follows
because under the invariant a process that reaches `complete` or `fail` still holds its row or finds it cancelled.

That `attempts` stays under its bound says nothing of the claims still to come, so `BudgetInvariant` counts, per job, both what is owed
and who will claim it. `HandsPaid`: the processes at work on a job are no more than the lapses, and one more if the row is `Kept` (cancelled, or
held on time by one of them). `ClaimsPaid`: once `attempts` has reached `max_attempts`, `attempts`, one for a row that will be claimed (`Open`), and one for each process whose `fail`
will put it back (`Requeuers`) are together within `max_attempts + crashes + lapses`. The two need each other: a row that is lost to a thief is paid by the lapse that
let its lease expire, and a process that fails a row it no longer holds is one of those `HandsPaid` has paid for. `QueueInvariant` supplies the case without lapses.

`DurableChainProofs`. For the refinement the types suffice: a worker that is busy holds a job, and a slot without an outcome has no output
(`BusyHolds`, `BlankRecords`). Each action's lemma gives the step of `ChainPromise` it is, or shows a stutter. `AnswerStays` is what this is worth to a client who polls: an answer that nothing in flight can change is final.
It says nothing of an answer that a DELETE in flight can still change. `RestStep` derives it from the steps of `ChainPromise`, without another look at workers or leases. For the properties of a run in which nobody died, `QuietInv` says that a busy worker has its job alone and that an
owner's lease is alive (`OwnJobs`), that the steps before one that was enqueued are past running (`PastSteps`), that a chain with an outcome or on its way to the wiki has
nothing queued or starting (`EndsOnce`), and that what a step was handed extends what the steps before it were handed (`CarriedOn`).

`IdempotencyProofs`. A repetition is discovered long after the fault that made it possible, so each proof keeps an account per key. `OwnInv`: to the
repetitions answered so far add the `Debtors`, the processes whose last answer is neither in the table they read nor in their dict, or that are repeating
it; misreads, crashes and evictions cover the sum. It needs `OneRepeating`, or two overlapping repetitions would be paid for once. `SharedInv`, while every process works with its
table: the repetitions, and one more if some answer is not in the table, are covered by lapses alone; neither a crash nor an eviction costs
anything. `StaleInv`: a dict is no older than its process's last answer unless the table has that (`KeptIsLatest`), the table has everything while no store failed
(`TableHasAll`), and a key is executed only when the table has nothing of it while no lookup failed and nothing overlapped (`NothingMasked`).

`HopRuntimeProofs`. `RouterInv` is `SlotsConserved` with the types and the bound of attempts; its lemmas are about a queue of distinct elements from which any may be
removed, and about the number of holders. `HopInv` says per hop which re-asks its stage implies, when its timer runs, and that what it has waited and may still wait for the call it awaits (`Spent`) is
covered by the calls begun (`Due`), of which there are at most as many as `WaitBounded` allows. The products of `Sla` are the only non-linear arithmetic; they are in lemmas of their own (`Mono`, `SlaType`).

`PlanLoopProofs`. `FlowInv` ties the phases together: what a chain holds at each role, that a missing patch means the rejection entered past the developer, that a report speaks of the patch beside it
or that patch is the empty one of an exception, that what is being written was reviewed. `WholeOK` is the loop invariant of `apply_file_ops`: the ops done so far wrote
what they would have written to the tree of the dry run, every other file is as it was then, each change is in `touched`. `NextUntouched` (the next op's file is still what the dry run saw) and `OneFile` (an op looks
at no other file) make each step possible; no induction over the list is needed, as the loop is the system's own.

`WikiProofs`. Every conjunct of `PagesInv` is conditioned on the mishaps its property excludes. `AloneOK`: without overlapping writes one curator writes at a time. `NewestOK` and `SourcesOK`: its page is newer than, and has the sources of, every copy it will
replace. `IndexOK`: between row and index stands at most that curator. `HonestOK`: every copy was written from its sources as they are, but for what was withheld, or is visibly older; and
what a model in progress was shown, and the sources of the page it will be merged with, are still as they were. The cap and the set of long files are arbitrary.

`GraphMemoryProofs`. `GraphInv` says what a program that was cut off anywhere, beside any other, may still write. `ProgramOK`: each statement left in a Postgres program finds what it `Needs`
in its project's tables or among the statements before it (`Sound`): an edge its two nodes, an event its edges or labels. The program of a hop is sound because every `record_*` puts nodes before edges and edges before the
event; a statement that ran has done its part or left it to what it put in front of the rest (`Done`, `NeedsMet`), so what remains is sound; and what others write only adds (`Grows`). Rows are never removed, so foreign keys and events hold when the
program is through them. `OwnedOK`: the rows of a task are in its own project only, which is why the snippets that `tag_relevance` finds in the tables are there to be labelled, and why `load()` meets at most one label of a node.
For `TagsKept`: a record has at most one living maker (`MakersOK`), the records left in a program are its process's newest (`Newest`), and no copy, in a table, a mirror or the file, has a newer record of a process's own than its mirror (`AheadOK`). So
the label a process sends with a node, or puts on one, is never older than a stored label of its own.

`RegistryProofs`. Types and agreement are inductive only together: that no two files are registered under one name rests on `doubts`. `RegistryInv` adds to `RegistryAgrees` that a watcher that does not
watch has no changes, that files with one name are in doubt (`NamesakesOK`), that so is the removal of a file that is back unless its return is still to be delivered (`RemovedOK`), and that during the
load the files already read agree. `WelcomeOK` carries the acceptance a delegate showed when an agent began over to the handoff the agent makes.

### Only model-checked

* Liveness, with or without fairness, is beyond the prover: `EveryJobSettles`, `ChainSettles`, `HopsEnd`, `CappedPlanEnds`, `RegistrySettles`.
* The refuted definitions of section 3, where there is nothing to prove.

No module uses RECURSIVE, so every one can be proved about.

## 5. Not modelled

Payloads, errors, logs and counts; `list_dead_letter` and other read-only calls; expiry of the chain slot
against the retention of hop rows; database failures inside a chain. Of a hop: prompt rendering, retrieval, JSON
extraction, token counts and the choice of provider; the enrichment of the graph is in `GraphMemory`, not composed with the
hop that ends in it. Of the wiki: the catalogue (`index.md`), `log.md`, page names, search, and `delete` and `rebuild_all`, which nobody calls. Of the
graph: communities, neighbours, snippet queries, `record_outcome`, edge weights, edges between symbols, the event list in memory. Of the plan: the pull request, the
wording of verdicts, `diffs`, and paths that are nested, aliased or directories (see 2.6). Of the registry: how a file is parsed.

Components with status `not_modelled` in `PROJECT.json` carry the reason there: numeric scoring (vector memory, rank fusion), thin wrappers around
external tools (adapters, executors), rendering (UI), HTTP calls (client), telemetry (traces), configuration.

## 6. Plan

To model: pure operators (rank fusion, chunking by token budget, `_merge_outputs`); a job stashed in memory by a failed INSERT, which a process in
Postgres mode never drains (`jobs.py:131`); kind caps under concurrent claims (`jobs.py:242`); chains of a project no process serves (`jobs.py:652`);
expiry of the chain slot (`app.py:519`).

To prove: nothing the runs check is left but liveness, which needs fairness and stays with TLC.
