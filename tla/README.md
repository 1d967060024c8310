# Formal models of omlx

omlx is an LLM server for Apple silicon (`omlx/`). One asyncio event loop runs the
HTTP handlers and the engine pool; each engine has an inference thread that calls
`Scheduler.step()`, a store worker thread that files finished KV caches, and an SSD
writer thread. This directory holds TLA+ models of the parts whose correctness depends on
what happens *between* those actors, TLC runs on small instances, and TLAPS proofs.

Source paths are relative to the repository's `omlx/`.

## 1. Inventory

| Component | State | Operations | Works with | What makes it correct |
|---|---|---|---|---|
| `cache/paged_cache.py` PagedCacheManager | free queue, allocated blocks, ref counts, hash map, block tables | allocate, free, share, register, release, lazy restore, fork, copy-on-write, clear | called by the prefix cache from two threads, each method under one RLock | no block lost or handed out twice; counts equal holders; lookups never reach a reused block |
| `cache/prefix_cache.py` BlockAwarePrefixCache | prefix index, request tables | fetch_cache, reconstruct_cache, store_cache | inference thread (fetch, reconstruct), store worker (store), SSD cache | a request is given KV of its own tokens only; references balance on every path |
| `cache/paged_ssd_cache.py` PagedSSDCacheManager | index, hot cache, pending entries, write queue, files | save, load, evict, delete, clear, shed, close, writer loop, restart scan | store worker, inference thread, admin routes, writer thread | a block reported saved can be loaded; index and files agree; limits hold |
| `cache/boundary_snapshot_store.py` | snapshots per request, write queue | save, load, cleanup | scheduler, writer thread | no file of a cleaned request is left or resurrected |
| `scheduler.py` Scheduler | waiting, prefilling, running, rows and uids, deferred removals, in-flight stores, gate | add, step, abort, finish, recover, fail_all, drain | engine core above, caches below | every request ends once; a row belongs to its request; no self-deadlock on the gate |
| `engine_core.py`, `output_collector.py` | job queue of the inference thread, collectors and events per request | add, stream, generate, abort, abort all | handlers, scheduler | every stream gets all of its tokens and exactly one end |
| `engine_pool.py` EnginePool | entries, lock, memory counter | get_engine, unload, load, TTL, rescan | handlers, enforcer, admin routes | books match memory; weights under the ceiling; a request in progress is not cut |
| `process_memory_enforcer.py` | pressure level, ceilings, video lease | poll: evict, abort, TTL, cap of the store gate; lease | pool, schedulers, media jobs | pressure is relieved without cutting what may stay; a lease for each worker |
| `engine/*` | loaded flag, engine core | start, stop, generate | pool, handlers | started only by the pool |
| `model_registry.py`, `request.py` | ownership; request status | | engine core, scheduler | one owner per model |
| `video/manager.py`, `video/worker.py`, `image/worker.py` | jobs, queue, current worker, records and artifacts on disk | submit, delete, dispatch, run, watch, conclude, retain, shut down, replay | routes, enforcer, worker process | a job ends once; a worker runs under the lease; records are true; an extension keeps its source |
| `cluster/router.py` | nodes, health | probe, route, retry | other servers | |
| `server.py`, `admin/`, `api/`, `adapter/`, `mcp/`, settings, discovery, `oq.py`, `eval/`, apps | | I/O, parsing, configuration, offline jobs | | |

What is hard in this code: the inference thread and the store worker interleave between
short critical sections; coroutines interleave at every await of the pool and of the media
jobs, some of them without a lock; ids (of blocks, of rows of the batch generator, of engine
objects) are reused while older references to them are still in someone's hands; one block of a
store or of a load fails in the middle, a step fails with its outputs half collected; the
writer thread and the worker process outlive what asked for them; a crash leaves files that a
restart reads.
`PROJECT.json` lists each hazard at its line, with the property that would catch it or the
reason there is none.

## 2. Plan

1. *(done)* `BlockPool`, `PagedCache`: the block pool and the contract it offers; proofs.
2. *(done)* `PrefixCache`: the real callers on two threads.
3. *(done)* `EnginePool`: the pool with handlers, enforcer and routes.
4. *(done)* `SSDCache`: index, hot cache, write queue, writer thread, crash and restart.
5. *(done)* `Scheduler` with the store gate, and `EngineCore` with the collectors on top of it,
   down to the end of every stream; `Streams`, the abstract specification it implements.
6. *(done)* `MediaJobs`: queue, worker process, lease, records, crash and restart.
7. *(done)* `MediaJobsProofs`: every safety invariant of `MediaJobs`. `EnginePoolProofs`, on the sums of `DataFacts`: every
   safety and action property of `EnginePool`. `EngineCoreProofs`, on its queues: every safety
   invariant of `EngineCore`, and that it implements `Streams`. `SSDCacheProofs`: every
   safety invariant of `SSDCache`. `PrefixCacheProofs`, on `PoolFacts`: every safety invariant of `PrefixCache`.
8. *(dropped)* The memory enforcer as a module of its own: what it decides depends on byte counts
   the models take as nondeterministic inputs, and what it does to the others is in their modules.
   `BoundarySnapshotStore`: see `PROJECT.json`.

## 3. Modules

**`BlockPool`** has the pool's variables and one operator per method of
`PagedCacheManager`. Every method holds the RLock from first to last line, so each is one
atomic step. `created` is `_current_allocated_count`, `free` the linked free queue, `allocated` the keys
of `allocated_blocks`; hashes are opaque. A freed block keeps its `block_hash`, as in the code. It
states the two invariants of the pool itself, `FreeListExact` and `MapSound`.

**`PagedCache`** EXTENDS it with callers that follow the protocol: take a reference with
every block allocated or found, give back what was taken. Lookup and reference are one
step: this is what the pool promises, and the abstract specification of the callers.

**`PrefixCache`** EXTENDS `BlockPool` with the real callers: the inference thread (`ipc`:
lookup block by block, claim, load, drop, delete) and the store worker (`wpc`: parent hash, find, share or
allocate, register, save, roll back, index, release). A token stands for a whole block of
tokens, a hash for the chain it is computed from, and what a block holds on the SSD for
the chain its KV was computed under (`Garbled` if after a wrong prefix); so "the request got the right KV" is
a comparison of chains. The lookup and `delete_block_table` hold the RLock across several
steps (`LockHeld`). The SSD cache is a map that may refuse a save and evict a
block without telling anyone. `overlap` chooses the schedule: with FALSE each store ends, and is drained,
before the inference thread goes on (an idle gap after each request, or the inline fallback of
`scheduler.py` 6169-6190); with TRUE nothing is assumed.

**`EnginePool`** has entries, engines, the lock, the memory counter and one program counter
per task: request handlers, the enforcer's poll and admin routes, all coroutines, so a step goes from one
await to the next. `live` is the weights in memory, `counter` what the pool believes.
`older` is the order of the `last_access` stamps of the loaded models, which is all that `_find_lru_victim` reads of them.
Entries have generations, because a rescan replaces the object of a model without engine while a
load may still hold the old one. A stop of an engine is an await in two halves: `Closes` is the
moment `_closed` is set, after the engine's loop has ended, and `Stopped` the return. Until the first, `Use` accepts
a request (`late`), which no loop will run; at the second the engine drops what it has, and a request whose
event is awaited then is `stranded`. `astray` records that a pool operation started while
another was under way, or that an evicted engine restarted itself: what the code's lock is meant to exclude and
does not, since routes and `generate` do not take it.

**`SSDCache`** is the manager behind the save and load of `PrefixCache`. Each access to the index, hot cache, pending
entries, queue or disk is a step, because each has a lock of its own held for one access; `pc[t]` says which access
of which method a calling thread makes next, `wpc` the same of the writer. `Size` is what a block
takes on the SSD, `Reserved` what the manager makes room for, whatever comes, and `Target` the total it evicts down to; what
a block is entered with at its save (an estimate) and at its write (the file's length) are taken to be
the same, the effective maximum is constant, and the hot cache counts blocks. Files are named by hash and a number of appended `_tmp`, since the scan of a restart finds temporary files and makes
blocks of them. `mode` is the configuration (hot cache, buffer of queued writes, memory only);
`overlap` again chooses between calls one after another, with only the writer interleaving, and calls
of both threads at once. `kept` is the promise: blocks whose save was answered True and
that nothing has legitimately taken since.

**`Scheduler`** is one engine's scheduler as its inference thread runs it, `step()` being a sequence of phases
(`ipc`). Queues, prefill states and deferred removals are as in the code; the batch generator of mlx_lm
is the map `rows` from uids to requests, and `uidOf`, `ridOf` are the scheduler's two maps over it, which
are cleared by fewer of the resets than the generator is; a uid outside `ridOf` is one that the code has deleted
or never mapped. `Sparse` are the requests that SpecPrefill has scored; `indices` those whose scores are still set, `active` the one the
model is patched for, and `makeup` what the batch being scheduled is made of, by which the guards of `_schedule_waiting` put a head off (`Fits`).
`Cached` are the requests with a KV cache to store: for such a one cleanup is `CleanupStore` alone, and while the store gate is full the inference
thread does nothing else. What is taken out of a queue or a list, in order, is `Kept` of `Queues`. Faults are a memory refusal, a corrupted
cache and any other exception, each at every point that can raise it.

**`EngineCore`** EXTENDS it with the job queue of the inference thread, the engine loop, the collectors
(`buf`, with `Put` merging as `_merge_outputs` does) and one consumer per request, which streams or waits for the end.

**`Streams`** is what a consumer is promised: opened once, given responses only while open, ended once, as finished only when the
generation ended and then after its last response. `EngineCore!StreamsKept` is the refinement: `phase` is read off `consumer`,
`upto` and `length` are the same variables (`Shown` is what `phase` is).

**`MediaJobs`** is the media job manager. An action is what a coroutine does between two awaits; the worker is a process of its own
that a crash leaves alive. `status` and `known` are memory, `record`, `blobs`, `outputs` the disk; `memory` is the answer of the admission check.
While `disk` is failing any write of a record or removal of a record or file may be refused, and the code goes on (`Saved`, `Removed`); `stale` names
the jobs whose record missed its latest change. A worker makes its directory again, so a stray may leave an output in one that was removed.
`Kind` and `Source` are constants: which jobs are images, and which extend which.

`MC*` modules give the constants values for TLC. Definitions commented *Mutant* are plausible bugs of
the definition after them; they are used only to show that each property can fail.

## 4. Runs

| Run | Expect | Shows |
|---|---|---|
| `paged_cache` | pass | the contract: types, free list, map, tables, counts, content |
| `exhaust` | violation | unreferenced blocks are not reusable when the pool is full |
| `prefix_cache` | pass | callers, in every schedule: types, free list, stores end; in orderly ones without index fallback: hits are right, SSD content is right, tables name their chain, and references balance (orderly) |
| `fallback` | violation | the prefix index gives a request the KV of other tokens |
| `overlap` | violation | a block found by a lookup is reused before it is referenced |
| `engine_pool` | pass | the lock is released; and while operations do not overlap: counter, no stray weights, ceiling, result of get_engine, requests served to their end |
| `revive` | violation | two models that do not fit are in memory together |
| `ssd_cache` | pass | in every schedule: types, nothing left pending, queued writes end, the index passes its target by at most one block per thread that saves; without overlap: saved blocks stay loadable through failed writes, close, crash and restart, files and index agree, the hot cache limit holds |
| `engine_core` | pass | `EngineCore` implements `Streams`; no client is stranded; rows belong to their requests and running requests have one; streams end and finished requests leave, unless the mark of a sparse request outlives it for good |
| `uid_reuse` | violation | an abort removes the row of another, running request |
| `media_jobs` | pass | workers run under the lease one at a time; an extension keeps its source; jobs end |
| `records` | pass | with a disk that refuses writes and removals: records are true, also after a restart, but for those the disk refused, and a job with an artifact has its output |

The passing runs with histories state their strong properties under the condition that a
failure the code is known to have has not happened. In `PrefixCache` and `EnginePool` the violation runs show that
the conditions (`fellBack`, `overlap`, `astray`) are needed. In the others they name, as narrowly as the model can, what the code does:

- `lost` (Scheduler): requests that were rejected, answered or popped from the queue in a step that then raised. `step()` returns nothing, and
  `fail_all_requests` and the recovery look only at the queues.
- `disturbed` (SSDCache): the end of one write met a later save of the same block; `clear_hot_cache` emptied the buffer
  of queued writes; `close()` skipped a block because of a file that was about to be unlinked; a scan entered a truncated temporary file.
- `stuck`, `strays`, `revived`, `sourced` (MediaJobs): a runner that failed before its job was in progress; a worker that outlived a failed reader or the
  server; a deleted job whose record was written again by late progress or a late failure; jobs whose source was there when they were accepted.
- `stale` (MediaJobs): jobs whose record the disk refused to write or remove, until it is written again. `_persist` and `delete` pass over an
  `OSError` (`video/manager.py` 287-288, 600-601): a job may be completed for its client and, as its record is still in progress, failed after a restart,
  and the record of a deleted job may come back.
- `late` and `stranded` (EnginePool) are states of a handler, not histories. `add_request` refuses a request once `_closed` is set (`engine_core.py` 398, 807),
  which is after the awaited end of the engine's loop (`engine/batched.py` 362). A request that comes during that await is registered; `_finish_close` (853-859)
  then clears its event unset, and the handler waits for ever (659). Nothing true can be promised of it: `ServedUntilDone` is about the requests
  accepted while the engine's loop ran, which is what the busy check before an eviction protects.
- `SparseLeft` (EngineCore): the request marked `active` has not finished and is not running with a row. Only `_cleanup_finished` clears the mark
  (`scheduler.py` 6037-6039); an abort (4908-4997), `fail_all_requests` (5042-5078) and the recovery leave it, and every plain request is then put off
  (5250-5256) until some later sparse request finishes, if one comes. `StreamsEnd` asks for nothing if this holds from some moment on.

Three more facts about the code bear on how the properties are worded. A block takes about 10 MB on the SSD while room is made for 1 MiB whatever
comes (`paged_ssd_cache.py` 1852, 2164-2186) and nothing looks at the total again, so that the total stays within `max_size_bytes` is not true even of one thread;
`SizeLimit` is how far it can go. Two unloads of one model that overlap both subtract its size (`engine_pool.py` 655), so `AccountingExact` has the condition
`astray`. And a sparse request is inserted beside plain ones that run already: the guards (`scheduler.py` 5246-5265) look at the requests of one pass only.

`SizeLimit` is about the time before the first crash: a scan enters every file it finds, whatever the limit.
`FreeListExact`, `StoresEnd`, `NothingPending`, `WritesEnd`, `StreamsKept`, `OwnRow` and the lock discipline in
`EnginePool!TypeOK` need no such condition.

**Bounds.** `paged_cache`: four blocks of which one is reserved and three are grown in two unequal steps,
so the pool grows, is cut off at `max_blocks` and runs out; two requests suffice to share and
to disagree about a block; one clear. `exhaust` uses five blocks and grows by two. `prefix_cache`: three requests,
two usable blocks and chains of up to two blocks filed (three with an index fallback): one request files
a prefix, two share it and one of them goes on with another token, so blocks run short and are reused. One fault and one SSD
eviction let a save fail, an exception be raised, or a load miss, each at any point. In the
overlapping schedule two of the requests come. `fallback` needs four requests of one block and a
pool of one usable block; `overlap` needs a file, a lookup and a reuse, three requests.
`engine_pool`: two small models that fit together with the headroom, one of them pinned, one large
model that fits only alone and without the headroom; two handlers, the enforcer, one route
operation and one rescan; at most two engine objects of a model (the bound shows as a refused
load, `NoLoad`). `revive` has handlers and the enforcer alone.

`ssd_cache`: two blocks, of two and three times the reserve, and an index of twice the reserve, so that either block fills it and
the larger is more than the whole of it; a hot cache of one and a queue of two, so that every save
evicts from both, and the queue is full while the writer is slow (a third write is
then refused); five calls one after another, or three that overlap; one fault and one crash or close, so
that what one of them leaves meets the restart and the calls after it.
A save and a shed that overlap both make room before either uses it. `engine_core`: one
request prefilled whole and streamed, which SpecPrefill has scored or not, one prefilled in chunks and awaited; a waiting queue of
one, so that the second may be refused; one fault and one event (a client leaves, all are aborted, the gate's cap moves). Two
requests suffice for a removal that was put off to meet another owner of its uid. `uid_reuse` needs three requests, no faults
and two clients that leave. `media_jobs`: a job, another that extends it, and a third that competes
for the one place retention leaves; a queue of one; one each of fault, change of memory, deletion, and crash or shutdown. `records`: a job and the one that extends it, and a
disk that fails once, for any time, or a failed spawn or output line instead; that jobs end is not checked there.

**Deadlock** is checked in every run except `paged_cache`: there a client that holds every
block and has nothing to give back may stop, and the system has no obligation to go on.
`Terminated` in `PrefixCache` and `SSDCache`, `Idle` in `EngineCore` and `MediaJobs` are the legitimate stops: nothing
is under way and nobody asks for more. In `EngineCore` this is where a self-deadlock on the store gate would show: a finished request with a cache
has no way past a full gate, and the inference thread that waits there neither drains nor decodes. It shows none because the gate is released by the store's own thread, and the cap never falls below one. `exhaust` checks
deadlock too, but TLC stops at the violated property first.

**Fairness.** `PrefixCache`: the inference thread finishes the operation it is
in, the worker finishes its job, and a finished store is drained. The first two are
straight-line code in threads; the third holds because `has_requests` stays true while a
finished store waits (`scheduler.py` 4999), so the engine loop keeps calling `step`. `EngineCore` does not
assume the third but shows it (`StreamsEnd`): its fairness is
that the inference thread, the store worker, the engine loop and each consumer's coroutine run on. `SSDCache`: the writer
and the methods under way run on. `MediaJobs`: the dispatcher and the watchdog run on (timeouts expire), SIGKILL follows the grace of a SIGTERM, a shutdown that has
begun goes on; the worker owes nothing, and `JobsEnd` assumes that memory does not stay tight, nothing more (the disk need not recover). New requests,
finishes, aborts, departures, faults, crashes and evictions are never fair.

**Symmetry** is used on hashes and requests in `paged_cache`, on handlers in `engine_pool`, and on requests in `uid_reuse`; none checks
liveness, and no definition distinguishes the permuted values.

## 5. Proofs

`PagedCacheProofs` proves for every pool size, growth step, set of hashes and finite set of
requests (`PoolAssumption`, `RequestAssumption`):

- `TypeCorrect`: `Spec => []TypeOK`
- `FreeListCorrect`: `Spec => []FreeListExact`
- `LookupCorrect`: `Spec => []MapSound`; `FilledPrivately`: `Spec => []FreshPrivate`
- `RefCountCorrect`: `Spec => []RefExact`; `NeverDangling`: `Spec => []NoDangling`
- `ContentNeverChanges`: `Spec => ContentStable`

The inductive invariant `IInv` is the conjunction of the six state invariants. None is
inductive alone: that a count equals the holders needs the tables to name allocated blocks; that they do
needs a freed block to have no other holder, which is the count again; that allocation hands
out an unheld block needs the free list to be exact; that a newly allocated block is not findable needs
`MapSound`. There is one lemma per action, over `PoolFacts`: what popping the free queue, free_block and a new pool
do to the free queue (`TakeFreeFacts`, `FreeBlockFacts`, `EmptyPoolFacts`), whoever calls them, and what one
holder more or less does to a count (`CardAdd`, `CardRemove`). `ContentStable` follows step by step from `IInv`.

`PrefixCacheProofs` proves for every pool size, growth step, finite set of requests with any sequences and prompts
that begin them, every set of hashes that has one for each of their chains, and every bound on faults and evictions
(`PoolAssumption`, `PrefixAssumption`):

- `FreeListCorrect`: `Spec => []FreeListExact`
- `HitsClean`: `Spec => []CleanHits`; `SSDHoldsItsChain`: `Spec => []SSDTrue`
- `TablesNameTheirChain`: `Spec => []TableNamesItsChain`
- `ReferencesExact`: `Spec => [](~fellBack => RefsExact)`
- `TypesCorrect`: `Spec => [](Calm => TypeOK)`; `LookupCorrect`: `Spec => [](Calm => MapSound)`

The first is about every schedule: each step pops the free queue, frees a block or leaves the queue alone (`PoolSteps`). The
others are about the calm states, as three of the properties say themselves; the runs `overlap` and `fallback`
show what happens in the others. `TypesCorrect` and `ReferencesExact` have the condition where the run has none, or less of it: a worker that
goes on from a block of another chain computes hashes of chains that no request's sequence makes, and
nothing is assumed of those. What a run checks beyond the condition stays with TLC.

`CInv` is inductive among the calm states (`CalmBefore`: no step leads back to them), and its parts need each other. A request
gets its own KV because each block of its table carries the chain of its position (`Names`) and the SSD cache holds, under each hash,
that chain (`Contents`). A named block keeps its chain because it is not freed and reused; that is because its count is
the number of requests that hold it (`Counted`); and a count of one per request is exact because a table names no block twice
(`NamedOnce`), since the chains of two positions differ in length: `Names` again. `Held` makes the counting
precise inside an operation: the hit that is counted and not appended yet, and the blocks of a table that have been given back
before the table is cut. The block that store_cache has allocated and not registered carries no hash and is
named nowhere else (`FreshAlone`). `Control` says that the two threads never work at once, and `AddingInv` and
`StoringInv` where each of them is. Per action there is one lemma; those that change a count go through `TakeOn`, `GiveUp` or
`LetGo` (a reference more, one less, a whole table at its end), the others through `Quiet`. `WIndexInv` evaluates
the recursive naming of `_update_prefix_index`: every block of the table has its hash already, so the function that says so
satisfies the recursion, and the index gets each prefix under its own chain.

`EnginePoolProofs` proves for every finite set of models and of tasks (handlers, routes and the enforcer), every
assignment of positive sizes, headroom and ceiling, and every bound on engines, rescans and operations of routes (`SizeAssumption`):

- `TypesCorrect`: `Spec => []TypeOK`
- `AccountingCorrect`: `Spec => []AccountingExact`; `EnginesOwned`: `Spec => []NoStrayEngine`
- `CeilingKept`: `Spec => []WithinCeiling`
- `GetEngineCorrect`: `Spec => []GetEngineReturnsLoaded`
- `ServedCorrect`: `Spec => ServedUntilDone`

All but the first are about the behaviours in which the pool's operations exclude each other (`astray` is false), as
the properties say; the run `revive` shows what happens in others. `IInv` therefore has two parts. What holds whatever routes do:
the types, which values a task's locals have at each of its awaits (`Locals`), which awaits a handler, a route and the
enforcer can be at (`Roles`), and that the lock's owner is the handler or the enforcer inside an operation
(`LockExact`). What holds while nothing is astray (`Orderly`): at most one task is inside an operation, of all
kinds; an entry object of an older generation has no engine and nobody loads it; each task's locals still name the engine it works on (`WorkTrue`: an
engine being stopped is the one of its entry, the engine being started is nobody's, an engine that was started is
in memory); a reload
has room for the weights it gave up (`ReloadFits`); whoever
stops an engine with a request accepted before the stop began is a route (`InUse`); and the four properties. None of these is
inductive alone: that the account is exact needs the engine being stopped to be the one the entry had when the
stop began, that needs exclusion, and that the ceiling is kept needs the account, since admission looks at
the memory in use and eviction gives it back only at the end of the settle barrier. `StepKinds` reduces the
steps to kinds, and there is one lemma per kind on what it keeps. `ServedUntilDone` follows step by step; it says nothing of a request
accepted after a stop has begun.

The account is a sum over a set of models, which the community modules define by recursion over subsets. `DataFacts`
proves what the accounts need of it (`SumAddsUp`: an item more or less changes the sum by its weight; `SumOfSame`) without
induction over an operator: the number of units of weight, a cardinality, satisfies the recursive equation, so
a function that does exists, and two such functions cannot differ on a smallest set.

`EngineCoreProofs` proves for every finite set of requests, every number of chunks and of responses of each, all
limits (batch, waiting queue, retries, store gate and its caps), every set of faults and number of them, and any number of
clients that leave (`SchedulerAssumption`, `EngineAssumption`):

- `TypesCorrect`: `Spec => []TypeOK`
- `RowsCorrect`: `Spec => []OwnRow`; `RunningRows`: `Spec => []RunningHasRow`
- `NobodyStranded`: `Spec => []NoneStranded`
- `StreamsImplemented`: `Spec => StreamsKept`

`Sparse` and `Cached` are any sets of requests, so the theorems hold with sparse prefill, its failures and its aborts. (`SparseTyped` gives
what it keeps its types; the other parts are blind to it, since it only chooses when a request is scheduled and whether its cache is stored.)

`IInv` has, besides the types, ten parts, and each lemma says what one action does to each of them. `Flow` and `JobsOwn` say what
exists in which phase: outputs only between decoding and the engine loop's distribution, rejections only while scheduling, at most
one job of the engine loop in the queue of the inference thread, and only while the loop awaits it. So a step never meets the outputs of
another. `Places`: a request waits, is in chunks, or runs. `ChunksQueued`: every prefill state has its request in `prefilling`;
a request there without a state exists only while a step raises or the running queue is empty. That is why the errors
`fail_all_requests` makes reach it. `RowsOwned`: a row is of no request that waits and is under the uid of the one that runs; without
it a deferred removal could not be shown to spare the rows of others. `Enters`: a request the scheduler has not been given leaves no trace in
it, so nothing it produces can be another's. `Lengths`: only a generation that ended has a length, and what waits or runs has not
ended, so a removal that was put off is never of a request in a queue. `OutputsTrue` and `BufsTrue`: an output, and what a
collector has merged of them, end as finished with the response that is the length of the generation; this and `Lengths` are
what the refinement needs. `Held`: an open stream has its request in the scheduler or its end in an output or in its collector, and a stream whose request was put
down for abort has its error already. The last part is what makes dropping the request of an abort silent.

`lost` stays in the statements as it does in the run: the theorems say that what it names is all that is forgotten.

`DataFacts` also proves what these proofs use of sequences as queues. `KeptQueue` is about a recursive function; as
no theorem on induction can be instantiated here, the function is shown to exist, and to have its property at
every position, by a smallest counterexample.

`MediaJobsProofs` proves for every set of jobs, every choice of kinds and sources, and every bound on the
queue, the artifacts, the grace, the faults, the deletions and the crashes (`MediaAssumption`):

- `TypesHold`: `Spec => []TypeOK`
- `LeaseHeld`: `Spec => []LeaseCoversWorker`
- `RecordsHold`: `Spec => []RecordsTrue`
- `OutputKept`: `Spec => []CompletedHasOutput`
- `SourcesKept`: `Spec => []SourceKept`

The disk may refuse any write or removal at any time: `RecordsHold` is about all jobs but those in `stale`, and a job leaves `stale` when its
record is written. Its `IInv` adds to the five invariants what they need to be inductive: the stages of a job (`StageInv`: a
submission is of a new job, a job at work is in progress and in no queue, only a completed job has an
artifact), what a record says by itself before a restart believes it (`RecordInv`), that the source of an
accepted extension has been submitted before it (`SourceInv`), and the dispatcher's bookkeeping
(`WorkerInv`: no worker while one is being spawned, a shutdown has stopped the worker it waits for). The
steps are first reduced to what they do to each job (`InfeasibleProps` to `RunOverProps`; the three ends
of a run are one case, `RunEnds`), and `StepCases` leaves eleven cases to the lemmas about the files. Of
retention the proofs use only that a sweep takes artifacts it holds and that no pending job extends
(`PurgedHeld`) and of the disk what `SavedProps` and `RemovedProps` say, so they do not depend on which of those it takes.

`SSDCacheProofs` proves for every finite set of hashes and of threads, whatever each of them may call, in all three configurations,
with and without overlapping calls, for blocks of any sizes up to a largest, any reserve, and every limit and number of operations, faults and crashes (`SSDAssumption`):

- `TypesCorrect`: `Spec => []TypeOK`
- `NothingLeftPending`: `Spec => []NothingPending`
- `IndexWithinLimit`: `Spec => []SizeLimit`
- `SavedStaysLoadable`: `Spec => []KeptLoadable`
- `FilesMatchIndex`: `Spec => []DiskMatchesIndex`
- `HotCacheWithinLimit`: `Spec => []SavedWithinLimit`

The first three hold in every schedule. The others are about the calm states (`Calm == ~ overlap /\ ~ disturbed`), as their
properties say themselves: the operations of the manager come one at a time, each interleaved with the writer thread at
every step, and none of the holes that `disturbed` names was met.

`AInv`, for every schedule, says what each access finds in the locals of its thread (`Placed`), that a name is no longer than the restarts can have made it
(`NamesBounded`: without it the path of a temporary file would leave its type), that nothing is in memory while the manager
is down, and that without overlap at most one operation is under way. `PendingEnds`: a pending block has a write in the queue or in
the writer's hands, or its thread is about to queue it; this, and `BuffersEnd` for the buffers, is what `NothingPending` is
at rest. `RoomMade`: the index *and* a largest block for each thread that has made room and not used it yet are within the target and a largest block for
each thread that can (one without overlap, all with it); `SizeLimit` alone is not inductive. Its accounts are sums of sizes (`DataFacts`). There is one lemma per
action; `ThreadMoves`, `PendingMoves`, `BuffersMove`, `RoomStays` and their like say once what a step of one thread
leaves alone for the others.

`CalmInv == Calm => Orderly` is the invariant of the calm schedules (`SpecCalmInv`). No step leads back to calm: `overlap` is
constant and `disturbed` stays. None of the three properties is inductive, nor are the three together, because each is about
what is at rest or can be loaded *now* and is kept by what is still on its way:

- `IndexBacked`: an entry of the index has its file and nothing queued takes it away, or its write is the last item of the queue
  about it, or in the writer's hands, or its thread is about to queue it. `FilesOwned` is the converse: a whole file is that of
  an entry, or its removal is queued, the writer's or a thread's. At rest the two are `DiskMatchesIndex`.
- `FilesFirst`, `OneFile`: a block is not written while a file of it is still there without a removal ahead of that write, so
  no late unlink takes the file of a block saved again and no block has two whole files. What a first-in first-out queue is for.
- `InMemory`, `LoadAt`: an entry without its file is answered from pending or from the hot cache, so a load that has
  come as far as the file finds it. `SaveAt`, `KeptSomewhere`, `KeptOnDisk`: where a block is that `save_block` answered True
  for, at each step of moving it, and while the manager is down. With `InMemory` this is `KeptLoadable`.
- `TodoAt`, `CursorAt`: what a thread knows of index and hot cache from its earlier steps. The blocks shed from the hot cache
  and not queued yet are no longer in it and not yet in the index, each once; during a close, which leaves the hot cache
  full until it ends, they are still there.
- `WithinLimit`: the blocks of the hot cache that could be dropped are within the limit, or the only one. It counts those
  with an entry in the index, so it needs that what enters the index in hot mode has left the hot cache (`TodoAt`).

Each action has a lemma (`...Orderly`), a few alike share one; what the writer does to queue and files is said once
(`WriterAround`, `WriterFiles`), and a crash, the end of a close and the scan of a restart have theirs (`CrashOrderly`,
`CloseEndOrderly`, `ScanCovers`, `OpenOrderly`).

Model-checked only: what `prefix_cache` checks of types and references after an index fallback. Liveness (`StoresEnd`, `WritesEnd`, `StreamsEnd`, `JobsEnd`) is outside the prover's
reach, and so is what the recursive naming in `WIndex` computes when a block has lost its hash.

## 6. Findings

`PROJECT.json` quotes the line each one contradicts.

1. **exhaust.** `release_for_eviction` leaves a block allocated with count 0; `handle_memory_pressure`
   only rotates the free queue. A full pool of unreferenced blocks refuses every allocation.
2. **fallback.** `_prefix_index` is never pruned. After an SSD eviction and a failed load the id it names is
   freed and reused; the next lookup that falls back to the index loads whatever the block is now.
3. **overlap.** `fetch_cache` references blocks after releasing the lock of the lookup and ignores
   `increment_ref`'s answer; the store worker's rollback and next allocation fit in between.
4. **revive.** `generate` restarts an evicted engine outside admission.
5. **uid_reuse.** After a `_PrefillAbortedError` the generator is dropped and the running requests wait again, with their old uids still in
   `request_id_to_uid`. The next generator counts from 0. Aborting one of those requests, which only waits, removes the row and the
   mapping of the running request that now has its uid; that request never gets another token. `_drain_pending_async_removes` guards against
   exactly this for deferred removals (`scheduler.py` 1324-1329); `_do_abort_request` does not.

## 7. Not modelled

Tensor contents and their slicing by cache type; token-level partial blocks (they are never
filed); in the pool, hot-cache shedding before a refusal, the ceiling's movement (it is constant, other memory use is the
enforcer's nondeterministic pressure), concurrent restarts of one engine (they are one restart); in the prefix cache,
`clear()` under a running store; in the SSD cache, what entries of the hot cache weigh, the movement of the effective maximum with the free space, statistics, and metadata compatibility (a failed check is a failed read);
in the scheduler, vlm_mtp, how sparse prefill scores tokens and patches the model, failures of a store before it reaches its executor, requests put off for their cache or images beyond the choice to do so, detokenisation and output parsing, `reset`, `deep_reset`, `shutdown`;
in the engine core, `stream_interval` above 1, the timeout of `stream_outputs`, `generate_batch_sync`, closing while requests run (`EnginePool` has what it means to them);
in the media jobs, records that cannot be read, the byte cap of retention, progress percentages, the probe of the worker environment, image jobs in the run (`Kind` only separates queue depth and retention).

Most of the repository by lines is of another kind: HTTP routes and their schemas, the admin interface,
download and quantisation jobs, audio and vision adapters, model patches, wire formats, settings. They keep little state of their own,
or a state whose correctness is numeric or textual; that is why the share of lines mapped stays low although the
concurrent core is covered. What section 1 lists without a module is not modelled for the reason `PROJECT.json` gives.
