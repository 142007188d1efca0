# ReliaDL in TLA+

A verification project for `reliadl`, a resumable parallel range downloader:
TLA+ modules translated from the Python source, TLC configurations that check
them on small instances, and theorems that TLAPS proves for every instance.
Paths below are relative to the root of the repository.

## 1. Inventory

| Component | Source | State | Operations | What makes it hard | What makes it correct |
|---|---|---|---|---|---|
| Download engine | `reliadl/download_engine.py` | the session's `DownloadState`, the chunk queue, the shutdown event, the checkpoint lock and counter, per-chunk side tables (`_in_flight`, `_failed_mirrors`, `_verified_prefix`) | `download`, `resume`, `request_shutdown`; worker tasks that take, fetch, retry and complete chunks; checkpoints in a pool thread; `_checkpoint_interrupted`; `_finalize` | tasks interleave at every await, a checkpoint thread runs truly in parallel and outlives its cancelled task, sessions crash and resume | a complete chunk is on disk; no chunk is lost or fetched twice; only whole (and expected) files are delivered; every call returns |
| Models | `reliadl/models.py` | chunk status, retries and digest, session status | `mark_*`, `to_dict`/`from_dict` | read by the checkpoint thread while the loop writes | what is written can be resumed from |
| State manager | `reliadl/state_manager.py` | state file, backup, temporary files | `save`, `load` (with recovery), `delete` | crash between any two system calls; two writers on one path | some loadable state survives; a save is never half seen |
| Transfer scheduler, chunk planner | `reliadl/scheduling.py`, `reliadl/algorithms/adaptive_chunker.py` | next offset and index of the planner | `plan_initial`, `plan_more`, `advance_to`, `rewind_to`, `next_chunk`, `decide` | rewinding and replaying a planner whose sizes depend on the network | the planned chunks partition the file |
| Mirror routing | `reliadl/algorithms/mirror_bandit.py` (EXP3, breaker, health, dispatcher) | weights, breaker state per mirror, requests in flight | `dispatch`, `complete`, `fail`, `abandon`; `record_success`/`record_failure` | cooldowns, half-open trials and late answers of several workers | an open mirror is not used, a recovered one is; nothing is counted twice |
| Metrics collector | `reliadl/algorithms/metrics_collector.py` | EWMA estimators, failure window | `record_*`, `snapshot` | ring of the failure window | the ratio counts exactly the last observations |
| Work stealing deque | `reliadl/algorithms/task_deque.py` | circular array, top, bottom | `push`, `pop`, `steal` | owner and thieves race for the last element | each element is taken exactly once |
| Straggler detection, bisection | `reliadl/algorithms/work_stealer.py` | none (plans are values) | `evaluate`, `bisect_range`, `plan` | boundaries of ranges and minimum sizes | victim and thief cover the original range |
| Rate limiter | `reliadl/rate_limiter.py` | tokens, last refill | `acquire`, `acquire_up_to`, `try_acquire`, `update_rate` | reservations run into debt; rate changes under waiters | never more than burst plus rate times time |
| Sparse writer | `reliadl/sparse_writer.py` | descriptor, closed flag, the file's size | opening and preallocation, `write_at`, `read_at`, `sync`, `verify_hash`, `close` | unlocked positional writes against close, short writes | written bytes are where they belong |
| File assembler | `reliadl/file_assembler.py` | chunk files, a temporary file per process, the destination | `assemble` | failures, deaths and a second process at any point | the destination is absent or whole; no staged byte is lost |
| Hash verifier | `reliadl/hash_verifier.py` | a running digest | `update`, `verify` | none to speak of | digests are of the bytes in order |
| Manifest, Merkle tree, sub-block validator | `reliadl/manifest.py` | levels of the tree; validator's current block | signing, `get_proof`, `verify_inclusion`, `update`, `finalize` | odd levels, partial last block, retry from a verified prefix | proofs verify exactly their leaf; a bad block is found before it is written over |
| Proxy adapter | `reliadl/adapters/proxy_adapter.py` | the handshake's position in a byte stream | HTTP CONNECT and SOCKS5 tunnels, TLS above them | answers cut anywhere, payload right behind them | the tunnel starts at the destination's first byte |
| Cloud adapters | `reliadl/adapters/{base,s3,azure,gcs}*.py` | credentials | URI parsing, request signing | formats of remote services | the request is the one signed |
| CLI, configuration, logging, exceptions | `reliadl/cli.py`, `config.py`, `logger.py`, `exceptions.py` | none | commands | signal handlers against the session's start | exit codes and state agree |
| Telemetry | `reliadl/telemetry/metrics.py` | counters, histograms, HTTP server | `inc`, `observe`, `render` | scrapes against updates | a scrape says what was observed, and counters never fall |

How they interact. The CLI builds a `DownloadEngine` and runs one session in
`asyncio.run`, with signal handlers that call `request_shutdown`. The engine
asks the scheduler for chunks and mirrors, streams ranges through `httpx`, hands
blocks to the sparse writer in pool threads, and feeds outcomes back to the
scheduler, which passes them to the metrics collector and the mirror
dispatcher. Checkpoints go through the state manager; `resume` reads them back
and trusts nothing that does not hash to what was recorded.

The hazards this code is exposed to are listed, each at its line and with the
properties that watch it, in `PROJECT.json`.

## 2. Modules and runs

`DownloadEngine`, `MirrorRouting`, `StateStore` and `ChunkPlanner` each have
runs of their own. The components that share no state with them are checked
together in `MCTransferParts`, described at the end of this section.

| Module | Models | Abstract specification | Proofs |
|---|---|---|---|
| `DownloadEngine` | sessions, workers, checkpoints, finalization | `ResumableTransfer` | `DownloadEngineProofs` |
| `MirrorRouting` | breakers, dispatcher, the engine's retries | | `MirrorRoutingProofs` |
| `StateStore` | the state file | `DurableRegister` | `StateStoreProofs` |
| `ChunkPlanner` | the planner and the concurrency floor | | `ChunkPlannerProofs` |
| `ChunkFetch` | one chunk's attempts, sub-block validator, verified prefix | | `PartFileProofs` |
| `MerkleTree`, `PowersOfTwo` | roots and inclusion proofs | | `PartFileProofs` |
| `ChaseLevDeque` | the work-stealing deque | `WorkQueue` | `TransferPartsProofs` |
| `WorkStealing` | stragglers, bisection, plans | | `TransferPartsProofs` |
| `RateLimiter` | the token bucket and `_throttle` | | `NetworkProofs` |
| `FileAssembly` | assembly of staged chunks | | `PartFileProofs` |
| `SparseFile` | the part file's writer | | `PartFileProofs` |
| `Telemetry` | recording against scraping | | `NetworkProofs` |
| `ProxyTunnel` | CONNECT and SOCKS5 handshakes | | `NetworkProofs` |
| `NetworkMetrics` | failure window, estimates, BL-DCS | | `NetworkProofs` |
| `MCTransferParts` | the components from `ChunkFetch` on, with a `StateStore`, side by side | | `TransferPartsProofs` |

An operator with the name of another one and a suffix (`GetNext` and
`PeekNext`) is a plausible bug in it, used to see that a property notices.

### DownloadEngine

One download over any number of sessions, crashes and resumes. The variables
correspond to the code as follows.

| TLA+ | Code |
|---|---|
| `main` | where `download`/`resume` -> `_run` -> `_finalize` or `_checkpoint_interrupted` is; `"down"` is no process |
| `status`, `retries`, `hash` | `ChunkState.status`, `.retries`, `.computed_hash` |
| `planned`, `queue` | `len(state.chunks)`, the `asyncio.Queue` (always in index order, so a set) |
| `wpc`, `wchunk`, `wdigest` | the point each worker task awaits at, the chunk it holds, the digest returned by `_fetch_chunk` |
| `shutdown` | the `_shutdown` event |
| `sinceCheckpoint`, `lock` | `_chunks_since_checkpoint`, `_checkpoint_lock` |
| `thread` | the pool thread inside `_checkpoint_sync`: fsync, then the state's status, then chunk after chunk, then the replacement of the file |
| `page`, `durable` | the `.part` file as `read` sees it, and as a power loss leaves it |
| `part`, `stateFile`, `output` | the files that exist, with what the state file says |

Each action is what one process does between two awaits (event loop) or between
two system calls (pool thread). A chunk's bytes are one of `hole`, `torn`,
`good`, `bad`; a digest is the content it was computed over, so hash comparison
is equality and a collision is impossible. The range check, the truncation
check, the HTTP status and every other way for a request to fail are one action
(`FetchError`) with a free choice of retryable or not; `ChunkFetch` and
`MirrorRouting` look inside. A worker can also end by an exception that the retry
loop does not handle, and then leaves its chunk as it is, `IN_PROGRESS` and held
by nobody, while the others run until `_run` notices: `_select_mirror`'s timeout
(`NoMirror`) and a measurement that `record_success` refuses (`RecordRaises`),
both outside the loop's `try` and possible only with several mirrors
(`Routing`), and a progress callback that raises (`CallbackErrors`), between two
blocks (`CallbackRaises`) or after the chunk was marked complete and before it
is counted (`CompleteUncounted`). A power loss keeps or loses each unsynced chunk, or
tears it. The state manager's `save` is atomic here: that is what its rename
gives (`SaveIsOneWrite` below). `DiskErrors` makes fsync, saves and the final
rename fail (`ThreadRaises`, `CheckpointRaises`, `RaiseOut`). A manifest fixes
the partition and switches the planner off, so `HasManifest` excludes
`Adaptive`.

Pool threads are not stopped by cancelling the task that waits for them. The
model keeps the two that matter: the checkpoint thread, which goes on without
its lock, and the write of a cancelled fetch (`StrayWrite`), which may land
until the writer is closed. What a write that `close` overtakes may do is the
subject of `SparseFile`.

`ResumableTransfer` is the abstract specification: parts are gained one by one
within a session, may be lost between sessions but are never invented, and the
file is delivered from a session that holds all of them. `DownloadEngine`
implements it with `have` mapped to the chunks counted as complete while a
process runs, and to what the next `resume` would keep while none does
(`ImplementsPromise`).

`MCDownloadEngine` adds the symmetry of the workers, used only in runs that
check no liveness. (`ImplementsPromise` is a temporal formula, but a safety
property: an initial predicate and a box action, which TLC checks step by step.)
`CHECK_DEADLOCK FALSE` is there because the system does stop: when the bound on
sessions is reached and the last process is down nothing is left to do.

| Run | What it shows | Bounds |
|---|---|---|
| `engine_crash` | types and retry limit; `CompleteIsOnDisk`; `FinalizesOnlyWhole`; refinement of `ResumableTransfer`, with a manifest, corruption and disk errors | 2 chunks, 2 workers, 2 attempts, 3 sessions, 2 crashes |
| `engine_expected` | `DeliversOnlyExpected`, `BytesAreResumable`, `CompleteIsFinal`, no chunk in two places and none in no place but those that raising workers strand (`OnePlacePerChunk`), and at most `2 * Interval + workers - 2` completed chunks unrecorded (`LossIsBounded`), under lazy planning with an expected hash, corruption, several mirrors, raising callbacks, shutdowns and cancellations | 3 chunks in batches of 2, 2 workers, 1 attempt, interval 1, 2 sessions, 1 crash |
| `engine_live` | `SessionEnds` under `FairSpec` | 3 chunks in batches of 2, 2 workers, 2 attempts, several mirrors, disk errors, interrupts, 1 crash |
| `engine_shutdown_success` | violated: a shutdown raises `DownloadCancelledError` instead of finalizing | 2 chunks, 1 session |
| `engine_adaptive_resume` | violated: an empty queue is not the end of an adaptive transfer | 2 chunks in batches of 1, 2 sessions, 1 crash |

Two chunks and two workers are the least that lets one chunk complete while
another one's attempt is torn, a checkpoint lie between two completions, and two
workers contend for the last chunk or the lock; a second session is needed to
use what a first one left, and a third to use what a second one made of it. Three
chunks in batches of two and an interval of one let a checkpoint be in progress
while another is due, and the queue be refilled while a worker still fetches or
after one has raised. `engine_crash` has no interrupts: with them
`FinalizesOnlyWhole` fails, as `engine_shutdown_success` shows.

Fairness. `FairSpec` assumes weak fairness of the main coroutine, of each
worker, of the pool thread and of the end of the process: the event loop runs
every ready task, the pool every submitted call, and `httpx` timeouts (connect,
read) bound every request. Nothing is assumed of users, servers or disks.

Some statements of the documentation are not kept by the code and have no run,
because they say little about the bytes: `_checkpoint_sync` fsyncs first and
serializes then, so the state file may claim a chunk a power loss takes away,
although "the state file never over-claims" (`download_engine.py:1008-1010`);
`resume` re-hashes what it reads, so nothing comes of it. A shutdown requested
during the probe is forgotten, because `_run` clears the event. A first signal
aborts the chunks in flight, which `docs/ERROR_HANDLING.md:254` lets finish.
After a mismatch of the whole file's hash every chunk is complete in the state
file, so each resume verifies the same chunks and fails again. A
checkpoint thread that outlives its cancelled worker may write its older state
after `CANCELLED` or `FAILED` was saved; no property says which state is the last
one, but `ImplementsPromise` that whichever it is, the next session starts from
no chunk that this one did not have (in `engine_crash` a worker that abandons its
chunk stops the session under another one's checkpoint).

### MirrorRouting

One session with a pool of mirrors: which mirror each attempt goes to, and what
its outcome does to the pool.

| TLA+ | Code |
|---|---|
| `breaker` | `CircuitBreaker` of each mirror: consecutive failures, whether it is open, what is left of its cooldown, the next cooldown; `trips` counts openings (history) |
| `inFlight`, `dispatched`, `completed`, `failed` | `MirrorDispatcher._in_flight` and its counters |
| `failedMirrors` | `DownloadEngine._failed_mirrors` |
| `selection` | the `MirrorSelection` a worker holds between dispatch and report |
| `patience` | what is left until the deadline of `_select_mirror` |
| `wpc` | the await a worker is at: the wait for a mirror, the fetch, the backoff |

EXP3's weights decide with what probability an eligible mirror is drawn;
exploration gives each one a positive probability, so the draw is a free choice.
`Tick` is one unit of time for every cooldown and every deadline. A success is scored
outside the `try` of the retry loop, and the dispatcher rejects a duration of
zero: with `ZeroDuration`, `FetchedInNoTime` ends the session over a chunk whose
bytes are on disk, with its request retired and not counted. A progress callback
that raises in the middle of a fetch leaves its request in flight and never
reported, as the cancellation of its worker does. It ends the session in
`DownloadEngine` and is not modelled here: `EveryRequestAccounted` is about
callbacks that return.

| Run | What it shows | Bounds |
|---|---|---|
| `mirror_routing` | `BreakerMatchesFailures`, `EveryRequestAccounted`, `RetriesGoElsewhere`, `ClosesEarlyOnlyForOldRequests`, `SessionEnds` | 2 mirrors, 2 workers, 3 chunks, 3 attempts, threshold 1, cooldown 1 to 2, patience 1 |
| `mirror_wait` | violated: the wait for a mirror fails only when every mirror is in cooldown | 2 mirrors, 2 workers, 2 chunks, 5 attempts, threshold 3 |

Two workers let a request of before a trip be answered after it; a threshold of
one makes each failure a trip, so two in a row reach the backoff's limit; three
chunks let a worker come back to a mirror in each of the breaker's states.
`mirror_wait` needs a threshold above one, so that both mirrors have failed one
chunk and neither is in cooldown.

Fairness: weak fairness of each worker, of `_run`'s wait loop and of time.

`_select_mirror`'s comment says that its error "hands the chunk back to the
normal retry and abandon path" (`download_engine.py:674-675`); it is raised
outside that path's `try`, and fails the session at once. The docstring of
`CircuitBreaker` lets a half-open breaker through to "one trial request"
(`mirror_bandit.py:900-902`); the code admits any number until the first answer,
which the model has and which `BreakerMatchesFailures` shows to do the breaker's
state no harm. Because a chunk excludes every mirror that failed it, it never
has more retries than the pool has mirrors, whatever `max_retries_per_chunk`
says (`RetriesGoElsewhere`).

### StateStore

The state file of one download, saved by several threads, one action per system
call that changes what a crash leaves.

| TLA+ | Code |
|---|---|
| `primary`, `backup` | the `.state` and `.state.bak` files: a version, absent, or torn |
| `durable`, `durableBak` | what either may hold after a loss of power |
| `pc` | where each `save()`, `load()` with recovery, or `delete()` is |
| `version` | `json_data`, the n-th state serialized, for `save()` |
| `copy` | what `shutil.copy2` has read of the primary |
| `acked`, `older`, `dead` | history: saves that returned, those that had when another began, and those that must not come back |

Temporary files have unique names and nobody reads them, so they are not
variables. `ReplaceFails`, `DirSyncFails`, `DiskErrors` and `PowerLoss` say what
the platform may do; `MaxFaults` bounds crashes and failed writes together. The
fallback that rewrites the file in place is modelled for one saver, because two
would interleave their bytes. `delete` and `load` happen while nobody saves, as
in the engine.

`DurableRegister` is the abstract specification: a save has one instant between
its call and its return at which the value changes, and a crash changes nothing.
This is what `DownloadEngine` assumes of a save.

| Run | What it shows | Bounds |
|---|---|---|
| `store_save` | `NeverTorn`, `NotRolledBack`, `AlwaysResumable`, refinement of `DurableRegister` where files can be replaced and directories fsynced | 2 threads, 3 saves, 3 faults, disk errors and losses of power on |
| part `store` of `transfer_parts` | `ResumableInPlace`: `AlwaysResumable` after at most one fault, where neither works | 1 thread, 4 saves, 2 faults |
| `store_recovery` | violated: `load()` recovers by a `save()` whose rotation copies the corrupt primary over the good backup, and a second crash leaves nothing | 1 thread, 2 saves, 2 faults |

`ResumableInPlace` is about one fault because two are enough for
`store_recovery`. `docs/ARCHITECTURE.md:295` says that the state file is never
partial; the fallback of `state_manager.py:149` breaks that, which is why
`NeverTorn` is stated without it.

### ChunkPlanner

How a file is cut into chunks. `offset` and `index` are the cursor of
`DynamicChunkPlanner`, `plan` is what was issued in the session, of which the
first `visible` are in `state.chunks` and `saved` in the state file. A batch is
issued chunk by chunk (`Issue`: `next_chunk`, the concurrency floor and its
`rewind_to`) with one size, that of the one snapshot `plan_more` takes, and is
then appended chunk by chunk, since the checkpoint thread may serialize between
two appends. `advance_to` is `Replay` until `Advanced`. What BL-DCS makes of its
estimates is any size within its bounds, which `NetworkMetrics` shows it to
keep; it rounds to powers of two, so this allows more than the code does. Which
chunks are complete is left to `DownloadEngine`; of the workers the module keeps
whether any is still in its loop (`working`) and whether they were asked to leave
it (`shutdown`). A worker that leaves for another reason found the queue empty
and nothing left to plan. When none is left, `Deliver` delivers the file as it
is, since neither `_run` nor `_finalize` asks the planner how far it came:
a session that is shut down, or that starts no worker because the saved chunks
are all complete, is delivered with an unplanned tail.
`FreshDeliveriesCover` says that this tail is all that one call of `download`
can leave out, and only after a shutdown; `DeliveriesCover` that a planner at the
end of the file has left out nothing, after resumes, too.

| Run | What it shows | Bounds |
|---|---|---|
| `planner_sessions` | `NeverPlannedTwice`, `IndicesAreUnique`, `FreshDeliveriesCover` over fixed and adaptive sessions, resumed with any other settings | 9 bytes, sizes 1 to 4, defaults 2, 3 and (fixed only) 5, 2 workers, batches of 2, 3 sessions |
| `planner_hole` | violated: after a resume `advance_to` overshoots the saved chunks and leaves a hole | the same, defaults 2 and 3, adaptive resumes, 2 sessions |

Nine bytes are enough for the floor to shrink chunks both to a worker's share
and to the minimum, for a truncated last chunk, and for saved ends no multiple
of a default size reaches. After a resume `advance_to` also numbers the chunks
it drops, so that indices of new chunks may repeat saved ones: `IndicesAreUnique`
is about one session of `download`. A second way to the hole of `planner_hole`
has no run of its own: an adaptive download resumed by a session without
adaptive sizing (`cli.py:691`) delivers only what was planned.

### ChunkFetch

One chunk through all its attempts: pieces of any size arrive, are coalesced in
a buffer (`stream`, of which `flushed` units are written), are checked sub-block
by sub-block, and leave a verified prefix for the next attempt
(`_record_verified_prefix`). A unit is `hole`, `good` or `bad`. A piece may hold
a bad block, the end of one and more; a write may fail; the response may be
refused, too long, or end early. The digest of a chunk with no prefix is of the
stream, otherwise of the disk, as `_digest_chunk_from_disk` has it.
`PrefixIsVerified`: what a retry does not ask for again is on disk and right.
`DigestIsOfTheChunk`: a finished chunk is on disk as its digest says.

### MerkleTree

Hashes are free terms with their domain prefixes. For every list of up to
`MaxLeaves` chunks over two digests, both checks made with a tree are asked
everything they can be asked: whether another list has the declared root, and
whether an audit path proves a digest at its index, with and without the leaf
count. `ChecksSayTheTruth` says each answer is right; without the leaf count in
the root, a list with its last chunk doubled would pass.

### ChaseLevDeque and WorkQueue

One owner and any number of thieves, one action for each access to `_top`,
`_bottom` and the array. The ring is a function on its slots; a thief
reads the attribute and the slot in one step, because a ring that `grow` left
behind is never written again and holds the same task at every index in use. `ImplementsWorkQueue` is the refinement, with
the queue read through the owner's unfinished pop; `SwapTakesAQueuedTask` is the
argument why a thief's compare-and-swap is safe.

### WorkStealing

Workers advance through their ranges; an epoch of the coordinator reads all of
them, flags stragglers, whatever throughputs they report, and splits each
victim's remainder for an idle worker. `EveryByteOnce` follows the bytes through
any sequence of plans; `SplitsAreSound` says that no split it may make is
refused by the checks in `RangeBisection`'s constructor. Applying a plan is left
to the caller by the code: `Enact` shrinks the victim and starts the thief at
the instant of the report. A caller that lets the victim run on in between
downloads bytes twice; the code gives it no way to tell.

### RateLimiter

Tokens, rate, capacity and the age of the last refill, with callers that ask
(`acquire`, `acquire_up_to`, `try_acquire`, and the engine's `_throttle` which
asks in steps), sleep, are cancelled, and change the rate. Time is counted in
units in which the bucket earns whole tokens; a sleep is rounded up.
`GrantsAreEarned`: what was granted is covered by the first capacity, what was
earned and the debt. `WakesWhenEarned`: a sleeper wakes when every byte up to
its own was earned, unless the rate was lowered while it slept; then its sleep
is too short and nothing corrects it.

Also seen, with no property: tokens of a cancelled sleeper are not given back;
a clock that runs backwards is credited twice; `update_rate` assigns the rate
before it validates the capacity.

### FileAssembly

`assemble` by several processes at once, each with its own temporary file: check
that every chunk has a file, copy them in order, verify the hash, replace the
destination, remove the chunks. Any operation may fail and a process may die
between any two. `AssemblyIsAtomic`: the destination is absent or whole (and
expected, if a hash is known), and each staged chunk is in its file or in the
destination. After a death during the removal a second run raises
`AssemblyFailedError` although the destination is whole; and two assemblies in
one process would share a temporary file, whose name has only the process id.

### SparseFile

Opening with `fallocate`, its fallback and truncation; `write_at` of several
threads, with writes that are shorter than asked; `close`, which does not wait
for them; the descriptor's number given to another file; and `verify_hash`
beside it all. `WritesLandWhole` excepts exactly the writes that `close`
overtook: those may go to another file (`write_at` reads the descriptor before
the call and holds no lock). `fallocate` leaves a longer file longer and
`verify_hash` ignores the rest; a failing preallocation leaves the descriptor
open.

### Telemetry

Workers record chunks (bytes under the counter's lock, then the duration under
the histogram's) while a scraper collects the counter, the buckets, the sum and
the count with a lock each. `ScrapeIsConsistent` says what holds nevertheless:
each bucket is of some moment since the scrape began, sum and count are of a later one,
and nothing read as a counter falls between two scrapes. The `+Inf` bucket may
differ from `_count`, which the exposition format does not expect. For
a duration of zero `record_chunk` counts only the bytes, although its docstring
says "bytes and duration but no throughput" (`metrics.py:673-674`).

### ProxyTunnel

The bytes of a proxy's answers, cut anywhere, with the destination's bytes right
behind the last one. `TunnelStartsAtPayload`: when the tunnel is handed out, all
of the proxy's answers and nothing of the payload was read, for every kind and
length of bound address. A CA bundle that cannot be read leaves the tunnel's
socket open (`BundleUnreadable`), since `build_ssl_context` is called outside
the `try` that closes it.

### NetworkMetrics

The failure window is exact: a ring, with its running count. An exponentially
weighted average is any value between the old one and the observation, which
holds of every smoothing factor; the BL-DCS controller is computed in whole
units. `SizingRestsOnEvidence`: the window is of the last outcomes, no estimate
leaves the range of what was observed, the size is within the bounds
`ChunkPlanner` assumes, and a path that loses more gets no larger chunks. NaN
and rounding are out of the model.

### MCTransferParts and the run `transfer_parts`

The ten modules from `ChunkFetch` on, and `StateStore` in place, share no
variables and no calls in the code that the modules do not already have, so one
run checks all: `part` is chosen at the start, and the other parts' variables
stand still in one state. The states of the run are the sum, not the product, of
theirs.

| Part | Properties | Bounds |
|---|---|---|
| `deque` | `SwapTakesAQueuedTask`, `ImplementsWorkQueue` | 2 thieves, 2 attempts each, 3 tasks, first ring of one slot, so that it grows under a steal |
| `stealing` | `EveryByteOnce`, `SplitsAreSound` | 3 workers, 8 bytes, minimum 1: splits of splits, odd remainders |
| `rate` | `GrantsAreEarned`, `WakesWhenEarned` | 2 callers, rates 1 and 2, amounts below and above the capacity |
| `fetch` | `PrefixIsVerified`, `DigestIsOfTheChunk` | 5 units in blocks of 2, so that the last is partial; pieces to 3 units span two blocks; 3 attempts |
| `merkle` | `ChecksSayTheTruth` | up to 5 leaves: odd on two levels |
| `assembly` | `AssemblyIsAtomic` | 2 processes, 3 chunks, 1 death |
| `sparse` | `WritesLandWhole` | 2 threads, 3 units |
| `telemetry` | `ScrapeIsConsistent` | 2 workers, 3 chunks, durations of zero, on a bound and above all |
| `tunnel` | `TunnelStartsAtPayload` | 3 header bytes, limit 4; every address kind |
| `network` | `SizingRestsOnEvidence` | window of 2, 4 outcomes |
| `store` | `ResumableInPlace` | see `StateStore` |

Every part ends when its bound is reached, hence `CHECK_DEADLOCK FALSE`.

## 3. Proofs

Each module of proofs extends the modules it is about: `PartFileProofs` those of
what is written to disk and of the digests it is checked against, `NetworkProofs`
those between a worker and a mirror and what is measured there,
`TransferPartsProofs` the two that share out work and `MCTransferParts`, every other
one the module it is named after. `DataLemmas` has what they need of numbers, sums
and finite sets. The theorems hold for every value of the constants that satisfies
the module's assumption, which TLC evaluates in the runs.

| Theorem | Statement | Inductive invariant |
|---|---|---|
| `DownloadEngineProofs` | | |
| `TypeCorrect` | `Spec => []TypeOK` | `TypeOK` itself. The retry count is bounded although it is carried through the state file, because what `RestoreChunks` reads back is typed by `ChunkRecord` |
| `CompleteChunksAreOnDisk` | `Spec => []CompleteIsOnDisk` | `IntegrityInv`: who may write into which chunk (`ChunkOwnership`). A worker's chunk is neither queued nor complete, no two workers share one, a received chunk is on disk with the digest its worker carries, and a stray write of a stopped session belongs to a chunk that was set back to pending |
| `ExpectedBytesOnly` | `Spec => []DeliversOnlyExpected` | `ExpectedInv`: between the comparison and the rename nothing writes |
| `FinalizedFilesAreWhole` | `Spec => []FinalizesOnlyWhole` if `Adaptive = FALSE` and `Interrupts = FALSE` | `WholeInv`: every state file describes the whole partition, and until the queue is empty each chunk is complete, queued, held, or a worker failed. Both hypotheses are needed: `engine_adaptive_resume` and `engine_shutdown_success` are the counterexamples |
| `ChunksAreAccountedFor` | `Spec => []OnePlacePerChunk` | `PlacesInv` with `IntegrityInv`: before the workers start a planned chunk is complete or queued; then the chunks that are neither, nor held, are no more than the workers that raised, because each step moves at most its own worker's chunk out of its place, and only one that raises. That two workers never hold one chunk is `ChunkOwnership` |
| `CompleteChunksAreFinal` | `Spec => CompleteIsFinal` | `IntegrityInv`: the only writers are the holders of a chunk and strays, and neither has a complete one |
| `FetchedBytesAreResumable` | `Spec => []BytesAreResumable` | `ResumableInv`: it speaks of what is durable too, since a loss of power makes that the contents of the file, and of each phase of a session: no state file is deleted before the part file has its final name |
| `CrashForgetsLittleUntilFailure` | `Spec => [](NobodyRaised => LossIsBounded)` | `LossInv`: who may hold the checkpoint lock (`LockInv`), how far the counter may run past the interval while workers queue for the lock (`CountInv`), and what the checkpoint in progress has serialized, or may still omit (`PendingInv`). A chunk whose callback raised is complete and not counted; its worker has raised and does not wait for the lock, so that the bound holds of both together |
| `CrashForgetsLittle` | `Spec => []LossIsBounded` if `DiskErrors = FALSE` | the same. A failed save loses the interval it was to record, and the session goes on until the worker has raised: that is why a disk that fails needs the proviso of the theorem before |
| `EngineKeepsItsPromise` | `Spec => ImplementsPromise` if `Adaptive = FALSE` and `Interrupts = FALSE` | `PromiseInv`: what a state file, or the checkpoint being written, says of a complete chunk is backed by the bytes in the file or by what a loss of power leaves of them, so that a resume starts from no more than the transfer had |
| `MirrorRoutingProofs` | | |
| `TypeCorrect`, `BreakersMatch` | `TypeOK` and `BreakerMatchesFailures` | with `Holding`: who waits for a chunk's next attempt has one. `Sound` is the invariant of one breaker, and each method keeps it |
| `NoMirrorIsAskedAgain` | `Spec => []RetriesGoElsewhere` | `OneHolder`, `Eligible`, `Released`: a request went to a mirror its chunk does not exclude, so a failure adds a new one |
| `RequestsAreAccounted` | `Spec => []EveryRequestAccounted` | `OwnRequests`, `Counted`: ids are below `_next_request_id` and no two workers share one, so that each step changes the cardinality by one |
| `OnlyOldRequestsCloseEarly` | `Spec => ClosesEarlyOnlyForOldRequests` | `OldWhenOpen`: while a breaker is open, each of its requests in flight was dispatched before it opened |
| `StateStoreProofs` | | |
| `TypeCorrect` | `Spec => []TypeOK` | `TypeOK` |
| `StateNeverTorn`, `SavesNotRolledBack`, `DownloadsResumable` | `Atomic => (Spec => []P)` with `P` one of `NeverTorn`, `NotRolledBack`, `AlwaysResumable` | `IInv`: neither the primary nor what the disk may hold is torn, and once a save returned neither is absent; versions are numbered in the order they are serialized; what is dead is neither on the disk nor held by a saver |
| `ResumableAfterOneFault` | `InPlace => (Spec => []ResumableInPlace)` | `InPlaceInv`: as long as nothing failed and a save() has returned, the primary is whole except while it is overwritten, and then the backup is |
| `SaveIsOneWrite` | `Atomic => (Spec => ImplementsRegister)` | the same; `Replace` is the write of the register, every other step a stutter or a change of phase |
| `ChunkPlannerProofs` | | |
| `TypeCorrect` | `Spec => []TypeOK` | `PartitionInv`, because the target of `advance_to` is in the file only if the saved chunks are in order |
| `PlannedOnce` | `Spec => []NeverPlannedTwice` | `InFileOrder` (chunks ascend) and `CursorBehind` (the cursor is past them all when a chunk is issued, or will be when `advance_to` ends) |
| `UniqueIndices` | `Spec => []IndicesAreUnique` | `FreshIndices`: indices in use are below the planner's |
| `NoHole` | `Spec => []FreshDeliveriesCover` | `FreshCover` (all before the cursor is covered, and a fixed session has planned all before it runs) and `FreshWorkers` (a session of `download` starts a worker, one is at work while a batch is planned, and the last one leaves only a whole plan or to a shutdown) |
| `NetworkProofs` | | |
| `RateTypeCorrect`, `EveryGrantIsEarned`, `SleepersWakeInTime` | `RateTypeOK`, `GrantsAreEarned`, `WakesWhenEarned` | the last two together |
| `TunnelsStartAtPayload` | `TunnelSpec => []TunnelStartsAtPayload` | `TunnelInv`: what arrived and was not consumed is the rest of one answer, whose length its phase and first bytes determine (`AnswerIs`), and behind it the payload (`Cut`). `read_until_blank_line` never passes the first blank line, and `recv_exact` never asks for more than the answer has (`NeededIsThere`) |
| `ScrapesConsistent` | `TelemetrySpec => []ScrapeIsConsistent` | `HistogramIsExact` (the raw counts accumulate to the observations at or below each bound) and `ScrapeLags` (what a scrape has read lies between the last scrape, its own start and now). One more observation adds one to exactly the buckets at or above it: `OneMoreObserved`, from what a sum over a finite set is (`SumOfOneMore`) |
| `SizingOnEvidence` | `NetworkSpec => []SizingRestsOnEvidence` | `WindowIsTail` (the deque of the window is the end of the history, and the running count that of its failures) and `EstimatesAreObserved`. That more failures never give a larger chunk is arithmetic: the loss per segment grows, the square root, the clamps and the alignment keep the order (`SizeShrinks`, `AlignedMonotone`) |
| `PartFileProofs` | | |
| `FetchTypeCorrect`, `RetriesTrustVerifiedUnits`, `DigestsAreOfTheChunk` | `FetchTypeOK`, `PrefixIsVerified`, `DigestIsOfTheChunk` | `AttemptInv`: the prefix is a multiple of the block and short of the chunk, an attempt resumes at it, and what was flushed since is on disk as the stream had it, every complete block verified |
| `SparseTypeCorrect`, `WritesLand` | `SparseTypeOK`, `WritesLandWhole` | `RangesInv`, `DescriptorInv` (once close began, whoever is still writing counts as overtaken), `CellsInv` (who was not overtaken has filled what it counts as written), `VerifyInv` |
| `AssemblyTypeCorrect`, `DestinationIsAllOrNothing` | `AsmTypeOK`, `AssemblyIsAtomic` | `CopiesAreStaged`, `HashedIsWhole`, `CleansAfterReplacing`, `OutputIsStaged`, `FilesAreStaged` |
| `ChecksTrue` | `MerkleSpec => []ChecksSayTheTruth` | the chunks do not change; the rest is about the operators. Going up, two trees with one root have levels of one width, because the root is hashed with the count; going down, their nodes agree (`RootIsOfOneList`). The path of a leaf leads to the top from that leaf's digest and no other (`ClimbReachesTop`), and the true count is among those of its depth (`CountsOfDepthHaveIt`) |
| `TransferPartsProofs` | | |
| `DequeTypeCorrect`, `ThievesTakeQueuedTasks` | `DequeSpec => []DequeTypeOK`, `[]SwapTakesAQueuedTask` | `EndsLie` (how top and bottom lie at each point of push and pop) and `ReadsArePast` (top only grows) |
| `DequeIsAQueue` | `DequeSpec => ImplementsWorkQueue` | `RingInv`: the tasks from top to the end fit in the ring, with one slot free when the owner is about to publish into it; a thief whose top is current holds the task of that slot. Two indices less than a capacity apart have different slots (`SameSlot`), so a put or a growth keeps every queued task |
| `StealTypeCorrect`, `EverySplitIsSound` | `StealTypeOK`, `SplitsAreSound` | `StealTypeOK`; the rest is arithmetic of one split (`CutInside`) |
| `BytesAreReceivedOnce` | `StealSpec => []EveryByteOnce` | itself; a plan's pairs are of distinct victims and distinct idle workers (`PlanPairs`), so that each byte of a victim's far half gets one new holder |
| `PartsTypeCorrect`, `PartsStayResumable`, `PartsKeepTheirPromises` | `Spec => []PartsTypeOK`, `[]ResumableInPlace`, and every property of the parts | none of its own: a behaviour of `MCTransferParts` is one of each part (`EachPartRuns`), so what is proved of the parts holds of it. Its store is an instance of `StateStoreProofs`, and `ResumableAfterOneFault` is cited from there |

The assumptions on the platform and the parameters, and why each is there:

- `Atomic`: `os.replace` and the fsync of a directory do not fail. Without it a
  crash in the middle of the rewriting tears the primary.
- `InPlace`: a backup is kept, `os.replace` may be refused, and a crash is the
  death of the process and not a loss of power, which could tear the copy and
  the primary at once.
- `DiskErrors = FALSE`: only for the bound without a proviso, as said above.
- `Adaptive = FALSE` and `Interrupts = FALSE`: the two cases in which
  `engine_adaptive_resume` and `engine_shutdown_success` show the statement false.

`DequeAssumption` says that the first capacity is a power of two: the
constructor of the deque accepts no other. The planner's type invariant is proved and
not among a run's properties; `PartsTypeOK` of `MCTransferParts` is the
conjunction of the type invariants of six of its parts.

The invariants are by induction on steps, and were checked on small instances by
TLC before they were proved. What the operators compute for trees, sums and powers of
two of any size is by induction over data. The library's rules for that take a
predicate as their parameter and cannot be used, so `DataLemmas` makes the predicate a
set: by `NatLessThanWellFounded` and `WFMin` a set of numbers has a least element, so
one that holds 0 and with each number the next holds all (`InductionOnNumbers`), and
likewise the subsets of a finite set (`InductionOnSubsets`). In the same way a
recursive function is shown to exist up to every number, and then everywhere
(`TwoToStep`, `SumWitness`, `LevelsAreATree`, `ClimbRecursionSolved`). For this the models write
`1 << n` as the recursive function `TwoTo` and not as a power.

In `ChecksTrue` digests are terms: two are equal only if they were computed from the
same input. That is what collision resistance is modelled by, and it is part of the
definitions of `hash_leaf`, `hash_parent` and `hash_root`, not an assumption.

Model-checked only is liveness, `SessionEnds` of both modules: the prover has no rules
for fairness and `ENABLED`. Every other property of a passing run is a theorem.

## 4. Plan

What is left, the most important first:

1. A composition of `DownloadEngine` and `ChunkPlanner` in place of the fixed
   batches of `PlanFrom`, with the floor and the replay under real completions.
2. Two processes on one `StateStore`: `inspect` beside a running download, and
   the command line's check for the primary before `load()`.
3. Theorems: which of the provisos of `EngineKeepsItsPromise` a weaker promise could
   do without.

## 5. Not modelled

- Hash verifier, cloud adapters: streams into library digests, and formats. No
  state outlives a call.
- CLI, configuration, logging, exceptions: parsing and wording. Signal handlers
  and exit are in `DownloadEngine`, settings of a resume in `ChunkPlanner`.
- Of the modelled files: EXP3's weights and rewards, signing and JSON of
  manifests, free disk space, file permissions and paths, what progress callbacks
  are told (that they may raise is modelled, in `DownloadEngine` only), statistics, gauges, the metrics HTTP server, proxy URLs
  and response headers. `TransferScheduler.abandon` (with the
  dispatcher's) and `reconcile_inventory` are called by nobody.
