# TLA+ models of MTDS

MTDS keeps the KV tensors of prompts outside the GPU, so that a serving engine (vLLM) does not
compute them twice. Prompts are cut into chunks, a chunk is named by the hash of its prefix, and
its tensors live in pinned host memory, on disk, on remote servers, on peers, or travel from a
prefill node to a decode node. This directory holds TLA+ models of the parts of that system that
keep state, the TLC configurations that check them on small instances, and proofs checked by TLAPS about
the two memory allocators, the hot cache, the disk and GDS backends, the remote backend with its eight
connectors, the storage manager with its peers, the cache controller and the NIXL transfer. Source paths below are relative to `src/MTDS/v1/` unless they start with `src/`.

## 1. Inventory

Threads of one instance: the *engine* worker (store, retrieve, prefetch), the *storage loop* (an
asyncio loop in a thread: saves, loads, and the callbacks of both), the *P2P loop* (serves chunks
to peers, fetches chunks from them), the *scheduler's lookup* thread (contains with pin), and the
*controller worker's loop* (reports, clear). They share the memory allocator, the hot cache, the
disk dictionary and the table of prefetch tasks, each behind a lock of its own; nobody holds a lock
over a whole operation.

| component (source) | state | operations | what is hard, and what makes it correct |
|---|---|---|---|
| Memory allocator (`memory_management.py`) | free list, memory objects, two counters | allocate, batched_allocate, free, batched_free, memcheck | long mixes of single and batched calls; every byte owned once, free neighbours merged, counters exact, no false "out of memory" |
| Memory objects (`memory_management.py`) | valid, reference count, pin flag | ref_count_up/down, pin, unpin | counts go down outside any lock; no object freed in use, none leaked |
| LocalCPUBackend (`storage_backend/local_cpu_backend.py`) | dictionary in LRU order, `cpu_lock` | put, get, allocate with eviction, remove, clear, pin, write_back, batched_allocate | eviction in two phases with the lock released between them; every key leads to a live object or is about to go |
| StorageManager (`storage_backend/storage_manager.py`) | `prefetch_tasks`, `manager_lock` | put, get, prefetch and its callback, remove, batched_unpin, layerwise gets | callbacks run in whichever thread ends last; a task leaves the table once, its object has an owner |
| LocalDiskBackend, LRUEvictor (`storage_backend/local_disk_backend.py`, `evictor/`) | dictionary, `put_tasks`, believed size, files, `disk_lock` | save, load, get, prefetch, remove, pin; update_on_put | dictionary, file and size change in different steps, some outside the lock; entry = whole file, size limit kept |
| RemoteBackend, lm:// connector and server (`storage_backend/remote_backend.py`, `connector/lm_connector.py`, `server/`) | connection, `put_tasks`, socket stream | put, get, contains, reconnect | one byte stream shared by callers; the header and the body of a response belong together |
| Cache controller (`cache_controller/`) | worker queues, `kv_pool`, worker/socket/instance tables | register, deregister, admit, evict, lookup, clear | messages batched, lost at shutdown, reordered over a restart; the pool follows the caches |
| Lookup server client (`lookup_server/`) | keys in redis | insert, batched_remove, lookup | advertised chunks are there, or a peer's get fails |
| P2P server (`distributed_server/naive_server.py`) | sockets, one event loop | issue_get, handle_client, receive | two instances that fetch from each other; a peer that goes away in the middle of a chunk |
| Paged allocator (`memory_management.py`) | deque of pages, shapes | allocate, batched_allocate, free | no lock at all: only `popleft` and `append` are atomic |
| GDS and Weka backends (`storage_backend/gds_backend.py`, `weka_gds_backend.py`) | entries, data and metadata files, `put_tasks` | lookup, save, load, scan | several instances on one directory, a crash between any two files |
| Other connectors (`storage_backend/connector/`) | redis keys, shared files, registered buffers | exists, get, put | two calls for one chunk, temporary names, timeouts, pools that run empty |
| Cache engine (`cache_engine.py`) | none of its own, generators for layers | store, retrieve, lookup, prefetch, clear, store/retrieve_layer | several backend calls per operation, any of which may fail half way |
| Token database (`token_database.py`) | none | process_tokens | chunk boundaries, masks, prefix hashes |
| NIXL transfer (`connector/nixl_connector_v2.py`, `nixl_backend.py`) | transfer buffer, acknowledgements, receiver's object pool | sender batches and flushes, receiver splits and acknowledges | both sides compute the same cut of the stream into buffers |
| vLLM v1 adapter (`src/MTDS/integration/vllm/vllm_v1_adapter.py`) | request trackers, load specs | get_num_new_matched_tokens, update_state_after_alloc, build_connector_meta, start_load_kv, wait_for_save | what is saved, skipped and loaded adds up over chunked prefills, hits inside a chunk and failed allocations |
| vLLM v0 adapter (`src/MTDS/integration/vllm/vllm_adapter.py`) | none: it rewrites the model's input | retrieve, build_partial_prefill_input, store | five flat tensors cut by roundings that must agree |
| Layerwise engine and connectors (`cache_engine.py`, `gpu_connector.py`) | generators, CUDA streams | retrieve_layer, store_layer | copies run behind the Python thread; who waits for whom |
| Blending (`compute/blend/`, `gpu_connector.py`) | two GPU buffers, metadata | three generators in turn | a buffer is refilled, rotated or freed too early |
| First-generation blending (`src/MTDS/blend/`) | retrieved segments, selected tokens | new_request, result, blend | three numberings of a token: in its segment, in its prompt, in the batch |
| First-generation engine, backends, servers (`src/MTDS/cache_engine.py`, `src/MTDS/storage_backend/`, `src/MTDS/server/`) | dictionaries, pools, put queue, one socket | put, get, contains | a put worker and a thread pool beside the caller; two requests on one socket |
| Serializers, configuration, observability, usage reporting | none that a protocol depends on | | numerics, parsing, counters |

How they interact: the engine calls the token database and then StorageManager, which calls its
backends in order. LocalCPUBackend owns the allocator; the disk and remote backends allocate
through it, which may evict. Every backend reports admissions and evictions to the controller
worker's queue. Saves and loads are coroutines handed to the storage loop with
`run_coroutine_threadsafe`; prefetch adds a done-callback to such a future. The lookup server and
the P2P server call the engine's backends from their own threads. With layerwise transfer vLLM's hooks
advance one generator per request and layer; with disaggregated prefill a prefill node's store goes
through `DistributedStorageManager` and NIXL into the pool of a decode node, and nothing is kept.

## 2. Modules

Each module models one component; `PROJECT.json` maps every definition to the lines it stands for.

**MemoryAllocator, AddressSpace.** `MemoryAllocator` has one action for each of `allocate`,
`batched_allocate` and `free`, which run under the wrapper's lock, and models `batched_free` one
loop iteration at a time (`BatchedFreeBegin`, `ScanInvalid`, `ScanValid`, `ScanEnd`, `InsertBlock`,
`BatchedFreeEnd`), with its local variables as variables and the other operations waiting. The free
list is a set of blocks, since its order is that of the addresses. `AddressSpace` is what the
allocator promises: sets of bytes handed out and given back. The refinement maps free blocks,
objects and the loop's unfinished blocks to the bytes nobody owns.

**LocalCPUBackend.** Threads with program counters; `Ops[t]` says what thread t does. The eviction
first attempt of `allocate` takes no lock (`AllocFast`, `AllocFails`); the eviction loop holds `cpu_lock`
from step to step (`AllocEvict`, `EvictSkip`, `EvictOne`, `EvictRetry`, `EvictExhausted`), but between an
eviction and the new attempt another thread's first attempt may take the room; then it releases the lock and
removes the picked keys one `remove` at a time (`RemovePicked`, `EvictDone`). `Put`, `Get`, `Unpin`,
`Lookup` are one critical section each; `Lookup` is the scheduler's, which always pins
(`vllm_v1_adapter.py:120`). `Drop` is the `ref_count_down` outside the lock. `Clear` and `RemoveKey` are the
controller's. All chunks have the same size, so the allocator is a capacity here. One field of an object is
history: `short` marks one that an eviction took while it was pinned. `ref_count_down` does not free such an
object, and the removal of its key drops the cache's reference a second time, so from then on its count is
too low: its memory stays allocated after its last user, or is freed under one when a later unpin and the end
of a get bring the count to zero. The code does this (section 6, `PinnedNotEvicted`); the properties except
these objects and no others.

**LocalDiskBackend.** The save and load coroutines (`SaveOpen` ... `SaveDone`, `LoadFile`) run
interleaved with the threads. The evictor's walk over the dictionary (`Iterate`, `PickOne`,
`PickRaises`, `Picked`) happens without `disk_lock`, and `walk` remembers the dictionary the
iterator was made of: `next()` raises when it has changed. An exception leaves `disk_lock` as it is
(`RemovePop`, `GetRead`, then `Recover`). A file is none, partial or whole, and a save that writes to
a file unlinked meanwhile writes to no avail (`linked`). The CPU hot cache is off, so that a chunk is
looked for on disk only. One variable is history: `again` has the chunks whose last put began while an
entry or a save of the chunk was there, which `contains` and `put_tasks` let through (section 6); such a
put truncates the file of an entry, and the chunk leaves `again` when it is put anew or removed.

**StorageManager.** `prefetch` (check, submit, register the task and the callback), the load, its
callback (pop the task, allocate, put into the cache), and `get` (wait for the task with a timeout,
look in the cache, else read from disk and write back). The load allocates and reads in two steps
(`LoadAllocates`, `LoadEnds`), between which the loop does other things. `manager_lock` is a plain lock: when the
future is already done as the callback is added, the callback runs in the registering thread, which
holds the lock (`PrefetchRegister`, label `self_wait`). Eviction is one step here (`Allocate`).

**CacheController.** A worker's life (`Start`, `Close`, `Stop`, the last also for a crash), the changes of
its hot cache with their reports, its queue and the batches on its connection (`Push`), and the handlers on the controller's tables. A batch is one
multipart message: its parts know whether more follow, and `Receive` handles one of them. No handler gives
up the event loop, so while `handling` names a connection nothing else of the controller runs. Each process
of a worker has a connection of its own; what is left on an old one may be received after messages
of the new one, and a process that ends takes batches with it, but no parts of one (`Whole`). `ClearBegin`, `WorkerClear`, `ReplyRead` are the REQ/REP exchange, whose socket's
state is the value in `socket_mapping`. `submit_put_task` and `remove` report before they release
`cpu_lock` (`Put`, `RemoveKey`); `write_back` does after it (`WriteBack`, `ReportWriteBack`), so that a
removal may report first. `overtaken` is history: the chunks whose last removal did.

**PagedAllocator.** Threads that pop, cut, restore and append pages one at a time (`PopBlock`,
`FillBlock`, `RestoreBlock`, `AppendBlock`), a batch that runs out of pages half way (`RollBack`).
`MCMemoryAllocator` picks one of the two allocators, as the wrapper's constructor does.

**PeerSharing.** Several instances, each with an engine thread and one event loop. `issue_get` runs on
the loop with a blocking socket, so the loop serves nobody meanwhile (`Blocked`); a served chunk is
written in pieces and its reference dropped when `drain` returns, which is before the last pieces have
left (`HighWater`). Peers die at any moment. The cache is reduced to buffers and references.

**NixlTransfer, ObjectStream.** A sender's store: announce the keys, fill the buffer, flush it when the
next chunk does not fit and at the end, spin until the write before is acknowledged. The receiver's
thread takes one request at a time, computes the same cut, waits for each write, hands the objects to
the pool and acknowledges. The engine looks up, retrieves, and the collector takes what is old.
`ObjectStream` is what this promises: per sender, a stream delivered once and in order, each chunk with
its own bytes. A sender's `uuid` and remote buffer are in `pipes` (`NoPipe` before the handshake); `sent`
and `written` are history: the stream a sender was given, and how much of it was notified. The refinement
takes `sent` and `delivered` as they are.

**RemoteBackend, LmConnector, StoreConnectors (redis, fs, mooncake, infinistore, blackhole), RemoteStorage.**
`RemoteBackend` has the connection with its retry interval, `put_tasks`, the references of the objects
being put, and two threads per instance; the other modules add the coroutines of one connector each,
call by call; `RemoteStorage` composes them, and `kind` says which one this behaviour has. The lm
connection is a pair of byte streams read by length alone, so that an answer left in the stream is the
next reader's. Files have numbers, so that a rename does not disturb who writes. The stores behind
redis, mooncake and infinistore are external.

**CacheEngine, VllmServing.** `CacheEngine` begins with the token database, which cuts tokens into chunks
and keys (a key is the prefix it hashes), and has store, retrieve and lookup of one worker as
operators on a cache record and on the paged KV memory, in which a slot holds the prefix its KV was
computed for. `VllmServing` has the scheduler's side of the v1 connector (load specs, trackers, metadata),
and composes it with two ranks and with what the adapter relies on of vLLM's scheduler.

**VllmV0Adapter.** One engine step at a time: `ExecuteModel` builds vLLM's flat input, `RecvKvCaches`
retrieves and rebuilds it (`build_partial_prefill_input`), `Forward` computes what the input says, and
`SendKvCaches` stores by the block tables. The parts of the input are sequences over the whole batch, so
that a slice that runs too far reads its neighbour. One worker: the other ranks get the batch by
broadcast and do the same.

**CudaStreams, LayerwiseEngine, LayerwiseBlend.** `CudaStreams` is three in-order queues with
`wait_stream`. The Python thread submits (`StartLoadKv`, `WaitForLayerLoad`, `Attend`, `SaveKvLayer`,
...) and the streams run on their own time (`RunStream`). `LayerwiseBlend` is the engine with
`enable_blending`: segments cached by themselves, three generators advanced in turn, two GPU buffers
that take turns, positions kept with the object of a segment's first layer and undone by rotation.

**LegacyBlend.** The first-generation CacheBlend for one batch at a time: `NewRequest` and `Retrieve`
(the retriever waits for its pool of one thread, so nothing runs beside it), `WaitForResult` joins the
segments, `BlendFirst`, `BlendAndSelect` and `BlendRest` are the branches of `blend`. Which valid tokens
differ most is nondeterministic. `"none"` is a batch of which nothing was retrieved, `"failed"` one with
an empty segment (two separators in a row), on which `_PrepareOutputTensor` raises. `MCLayerwiseEngine`
picks one of the three engines.

**LegacyLocalBackend (memory and disk), LegacyRemoteBackend, LegacyEngine.** The first
generation: an evictor whose `next()` may raise with the lock held, a put worker, a pool of threads that
save, a pipeline of network threads, and one socket on which the header and the body of a put are two
messages under two locks. `LegacyEngine` runs stores and retrieves over each of them.

**GdsBackend.** Files are inodes with names, so that a rename is atomic and an open file stays. A save
is open, write metadata, write data, rename, insert, write the metadata file; `Crash` may come between
any two, and `Restart` scans what is left. Suffixes of temporary names come from a seeded generator.

The modules meet at narrow interfaces: the capacity in LocalCPUBackend abstracts MemoryAllocator,
`Allocate` in StorageManager abstracts the eviction of LocalCPUBackend, `LoadAllocates` and `LoadEnds` the
load of LocalDiskBackend (no room, whole, or file gone), and the cache record of CacheEngine is
LocalCPUBackend called by one thread. In CacheController, `Put`, `RemoveKey`, `WriteBack` and
`ReportWriteBack` are what LocalCPUBackend reports and when; the reports of the disk backend, which makes all
of them after it has released `disk_lock` (`local_disk_backend.py:129-141`, `:151-163`), are not modelled.

Several runs have two modes. Their MC module adds a Boolean variable that never changes: in one mode the
steps are those of the extended module, in the other those of an INSTANCE, and what belongs to the other
mode stays as it is. Each mode is checked completely; fairness is written out per mode. In `disk`, which has the
two backends that keep files, there are two such variables, `gds` and `removing`.

## 3. Runs

| run | module | bounds | what it shows |
|---|---|---|---|
| `allocator` | MCMemoryAllocator | 9 bytes, alignment 2, odd sizes, batches of 2; or 3 pages, 2 threads | every byte owned once, no false exhaustion, refinement of `AddressSpace`; every page owned once and whole when free |
| `cpu` | MCLocalCPUBackend | 2 keys, room for 2, four threads: engine (also fetches from a peer), served peer, scheduler, controller | reference counts are exact, memory is given back, nothing in use is freed, entries of freed objects have an evictor; all but for objects evicted while pinned |
| `disk` | MCLocalDiskBackend | 3 keys, room for 2, 2 saves at a time; serving, or with a controller that removes; or 2 instances with the GDS or Weka backend, 1 key, 1 crash, 1 read error, equal or different seeds | an entry has a whole file, no orphan file, the believed size is exact, saves end; what a GDS backend reports as cached has its whole file, whatever crashed |
| `prefetch` | MCStorageManager | 2 keys, 3 objects, engine, peer and loop; or 3 instances, 1 buffer each, any of which fetches from any other | callers have references, a task in the table is a load on its way, tasks leave the table; a peer gives the chunk it was asked for, and gets end that wait on no circle |
| `controller` | MCCacheController | 2 workers, 1 key, one restart, one queued message, batches of two, the next one sent when none is on the wire | lookups name what is cached or being evicted, news arrive, but for a removal that overtook a report; late messages do not break a batch |
| `nixl` | MCNixlTransfer | 2 senders, 3 chunks, a buffer of 3, stores of one and two writes, 1 failure | refinement of `ObjectStream`, writes and reads exclude each other, stores end |
| `remote` | MCRemoteStorage | 2 instances (one mortal), 3 threads, 2 keys, 8 connectors | a get answers its own key, references are exact, put tasks end |
| `vllm` | MCVllmServing | 3 requests, 2 with a common prefix; chunks of 2 (4 in v0), 2 ranks, room for 3 chunks | the model reads each token's own KV, the cache holds what its keys say, nothing is skipped, for both adapters |
| `layerwise` | MCLayerwiseEngine | 3 layers, 2 buffers, 3 steps of 1 or 2 requests; or 2 blended steps; or first-generation batches of 2 prompts and 4 layers | loads before attention, stores after it, publication after the copies, blended KV and cached segments are right |
| `legacy` | MCLegacyEngine | 2 chunks fit, 2 to 4 calls, 9 settings | write-through, a file that is readable and not being put again is whole |
| `prefetch_inline` | MCStorageManager | as `prefetch` | expected violation, section 6 |
| `layerwise_unsynced` | MCLayerwiseEngine | as `layerwise` | expected violation, section 6 |

These bounds reach what the properties are about. Nine bytes hold a block between two neighbours
plus a remainder. Room for two of three chunks means that each further store evicts, and two evictions
can overlap. Two saves in flight with room for two take the whole limit without an entry in the
dictionary. Three objects hold a load's buffer, the callback's copy and the object of a concurrent
get. One restart is what puts two connections of one worker side by side; with one message queued,
and a batch on the wire, an evict and a new admit of the same chunk can be outstanding together. A
buffer of three and chunks of one and two give a store that just fills it and one that takes two writes;
with two senders the one receiver thread is wanted elsewhere. Two instances suffice for each race on a
shared key, and the third thread is the lookup that resets a connection under a store. In `vllm` a
prompt is longer than a chunk and no multiple of it, room for three chunks forces evictions between lookup
and load, and six (five) blocks make allocations fail; v0 has whole prompts, parts of prompts, decodes
and preempted requests in one batch, a forward pass that is bypassed, and a batch whose rebuilt input
fails vLLM's assertion. Three layers are a first, a middle and a last one; two buffers mean that the
second request of a step finds no memory. Of three peers, one can be asked while it asks, or two can wait
for each other. Four calls of the first-generation disk backend are a store and a retrieve, and both again, so
that a get meets a chunk's second save.

Workload constants restrict what the environment does, not what the code does. `AllowStaleHead` is
whether callers pass `batched_free` a list whose first object is dead. `StoreOnce`: no chunk is
stored twice. `SkipLastN`: `skip_last_n_tokens`. `MinChunk`: a part of a prefill has at least so many tokens.
`CopiesOnWrite`: asyncio's transports copy what they cannot send at once, as they do up to Python 3.11; with
3.12, which the package also admits, the property about peers does not hold. `SuffixesDiffer` in
GdsBackend: the instances' generators have different seeds. `Stopping`, `Cleared`, `Writers`, `Ops`,
`Wanted`, `Calls`, `Stores`, `Mortal` name who does what.
The properties of the passing runs hold *under* these restrictions; section 6 tells what happens
without them. In `disk`, two of the five properties are about the serving instance (their names end in
`Serving`): a removal does not tell the evictor, and a `KeyError` in it leaves `disk_lock` held.
`SaveEndsServing` is about one chunk, which stands for all as they are interchangeable.

Properties of the modules that no run lists, to keep the runs short, and that hold under the
same configurations: `TypeOK` of each module, `Memcheck` and `CountersExact`,
`DiskWithinLimit` and `PutTasksExact` (also with removals),
`StartedIsRegistered`, `PoolIsExact` (NixlTransfer), `StepsLeaveNothing`,
`RetrievedIsOwnKV`, `PoolExact` and `BuffersExact` (legacy), `StoredStays` and `LookupFindsStored` (both proved) and
`PutTaskEnds` (GdsBackend). With
`Threads = {engine, p2p}`, `ServingOps` and three keys, and without symmetry and view, so do
`AdvertisedIsCached` and `StaleEntryLeaves` of LocalCPUBackend.

CHECK_DEADLOCK FALSE is said where the system may stop: bounded workloads end (`nixl`, `remote`, `vllm`,
`layerwise`, `legacy`, `prefetch`, GdsBackend in `disk`), all workers may have stopped (`controller`), or a lock stays
held for good (`disk`, `legacy`).

**Faulty variants.** A definition called a faulty variant, or one that stands in front of its neighbour
with one mistake in it, is no part of `Next`; put in its neighbour's place it must make TLC find the
property violated that `PROJECT.json` lists with it.

**Fairness.** LocalCPUBackend: weak fairness of each thread's steps inside an operation; a thread
does not stop in the middle, and nothing makes it begin one. LocalDiskBackend: the same for threads,
and strong fairness for the coroutines of the loop, because a coroutine waits for a lock that others take
and release; Python's locks and the loop serve a waiter eventually. StorageManager: weak for the loop's
callbacks, strong for the steps of each load, which wait until the loop is not in a callback; none for the
threads that prefetch and get.
CacheController: weak for the push loop, strong for the receipt of each connection's parts, which waits
while another's batch is handled (ZeroMQ fair-queues its peers). NixlTransfer: weak for senders inside a store and for the receiver, strong for
what waits for the receiver's side channel, which ZeroMQ reads in turn. RemoteStorage: weak for calls in
progress and the server's threads, strong for a scheduled coroutine, since the loop is free again and
again; none for an instance that may die. GdsBackend: weak for the threads that save. PeerSharing: weak
fairness of "some step of a get or an answer", which is enough as gets are bounded. No operation is assumed to be called.

**Abstractions.** Keys, objects and threads are model values, and interchangeable ones are symmetric
where no liveness is checked. `MCLocalCPUBackend`'s `View` leaves out arguments of finished
operations and counts of dead objects. Bounds on counters: `MaxRef`, `Slots`, `MaxFreeBatch`,
`MaxBatch`, `MaxStarts`, `QueueBound`, `PipeBound`, `MaxStores`, `MaxFailures`, `MaxConnections`,
`MaxFiles`, `MaxTokens`, `MaxSteps`, `MaxOps`, `MaxDraws`, `MaxCrashes`, `MaxErrors`, `MaxGets`; each is
a guard on the environment's side. Disk and memory sizes of one chunk are one number. KV of a token is
the token prefix it was computed for (its word, layer and position in LayerwiseBlend), so that wrong,
stale and unwritten KV differ from the right one. sha256 is injective. In `remote` each instance
stores a key once.

## 4. Proofs

Eight modules hold the theorems, `CollectionLemmas` for all of them and the others one per component (a
module that composes two in its run has the proofs of both).
Each theorem is of the specification that the runs check, with its constants left open. In each module
an inductive invariant is proved first (`InitIInv`, a lemma per action or per part of it, `StepIInv`,
`IInvInvariant`), and the properties follow from it. TLC checked every inductive invariant on the run of
its module before it was proved.

| module | theorems | under, besides the module's own assumption on its constants |
|---|---|---|
| MemoryAllocator_proofs | `TypeCorrect`, `MemorySafety`, `FreeListCoalesced`, `NoFalseExhaustionHolds`, `ImplementsAddressSpace` | `~AllowStaleHead` |
| MemoryAllocator_proofs, last part | `PagedInvInvariant`, `PagesOwnedOnceHolds` | finitely many pages; no thread is called "free" or "held" |
| LocalCPUBackend_proofs | `TypeCorrect`, `RefCountExactHolds`, `NoLeakHolds`, `StaleEntryIsPendingHolds`, `HeldIsNotFreedHolds` | nothing; three of them except the objects that an eviction took while they were pinned |
| StorageManager_proofs | `TaskIsPendingHolds`, `UsersHaveRefsHolds` | nothing; one thread prefetches |
| StorageManager_proofs, last part | `PeerGivesOwnChunkHolds` | `CopiesOnWrite` |
| LocalDiskBackend_proofs | `EntryHasWholeFileHolds`, `NoOrphanFileHolds` | nothing |
| LocalDiskBackend_proofs, second part | `SizeIsExactHolds`, `SizeIsExactServingHolds` | `ServingOnly`: one thread stores, each chunk once; nothing is removed; chunks have one size |
| LocalDiskBackend_proofs, last part | `GdsIInvInvariant`, `AdvertisedIsWholeHolds`, `StoredStaysHolds`, `LookupFindsStoredHolds` | nothing; the first two are about behaviours in which `SuffixesDiffer` |
| RemoteStorage_proofs | `AnswersOwnKeyHolds`, `ObjectRefsExactHolds` | nothing |
| CacheController_proofs | `TypeOKHolds`, `EntryIsCachedOrEvictingHolds`, `DeregisteredIsListedHolds` | nothing; the second excepts the chunks whose removal overtook a report |
| NixlTransfer_proofs | `WriteExcludesReadHolds`, `DeliversStreamsHolds` | nothing |

**The allocator.** `~AllowStaleHead` is needed: with `AllowStaleHead = TRUE` TLC finds `Memcheck`
violated. `EveryByteOwnedOnce` is not inductive: between two iterations of `batched_free` bytes belong to
neither the free list nor an object, but to the run being built. `IInv` adds to the types that all
blocks (free, owned, run under construction, runs waiting to be inserted) are pairwise disjoint and
cover the buffer, that free blocks do not touch, and that the running address `curr_start` is the end
of the run. The argument: `TakeFromTakes` and `AddFreeBlockAdds` say what the two list operations do
to the bytes (a first fit takes exactly `size` bytes, an insertion adds exactly the block and keeps
neighbours apart, by `NeighboursTouch`); `HandOut` says that making objects out of one taken block
keeps the partition; then one lemma per action. `ImplementsAddressSpace` needs of it that each byte has at
most one owner (`OwnersAreUnique`): then every step is one of three as its callers see it, more objects out
of one piece of unowned bytes (`MoreObjects`), one object less (`OneObjectLess`), or none.

**The paged allocator** has no lock, so its invariant `PagedInv` is about what a thread has in hand between
its steps: a page is free, handed out or with exactly one thread (`NotInTwoPlaces`, `InSomePlace`), no
thread has a page twice, and a page is whole while it is free, until `fill` cuts it and from its restoring
on (`WholeWhileFree`). `OneThreadMoves` says what a step of one thread has to show; nothing else keeps the
threads apart but that a pop and an append are atomic.

**The hot cache.** `RefCountExact` is inductive together with the types (which contain that the order of
the keys lists each cached key once), what each operation holds at each of its labels (`Holding`), that an
object just allocated is live and nobody else's (`OwnObject`), that a live object has a count above zero or
a pin (`LiveHasRef`), and that a key that leads to a freed object, or to one evicted while pinned, is about to be
removed (`DoomedIsPending`, which gives `StaleEntryIsPending`). Lookups pin at any time, so the exceptions
are part of the argument: `short` objects are outside the counts, but each is still under a key that goes, or
in the hands of operations, and an object that is not `short` never meets the loop's second decrement. None
of it mentions `cpu_lock`: what the interleavings do stays exact although `ref_count_down` runs outside the
lock and an eviction drops the cache's reference a lock region before the key leaves. A count is the
cardinality of a set of keys plus that of a set of threads; `OneMore` and `OneLess` (CollectionLemmas) follow each
step. `HeldIsNotFreedHolds` is an action property: no step frees an object that another operation has in hand.

**The storage manager.** Loads may end at any time, also before their callbacks are added; then the engine
waits for itself (run `prefetch_inline`), and the task stays in the table, which `TaskIsPending` says and
`TaskLeaves` excepts. `TaskIsPending` is not inductive, because `prefetch` tests the table, starts the load
and notes the task in three steps. One thread prefetches, in the model as in whatever uses the engine here, so
nobody else enters a task in between (section 5). `IInv` adds
what the gaps rest on: who waits for itself has the lock (`SelfWaitHasLock`), the key being submitted keeps having no task (`UnregisteredKey`), the future to be
registered runs for that key (`UnregisteredLoad`), the callback finds its own future in the table
(`CallbackHasTask`), and each running load is in the table or about to be (`RunningIsKnown`). For
`UsersHaveRefs` the invariant `RefInv` adds the types of cache and objects and that each user has the key it
works on; the proof counts, object by object, the getters, callbacks, entries and finished loads that use
it. The count may exceed the users (section 5), so the property, and the proof, is an inequality.

**The peers.** For `PeerGivesOwnChunk` the buffer of a get must be nobody else's, and what comes over the
wire must be of one chunk. The first is again an inequality (`RefsSuffice`): a buffer has at least as many
references as users, which are the cache's entry, the get and the answers under way; gets and answers that
end half way leave theirs behind. So a buffer that is free, or whose only reference is the cache's, has no
other user (`FewUsers`) and can be used anew (`BufferUsedAnew`). The second is `Asking`: on a connection that
is open between two living instances the header comes first and all the rest, held back or on its way, is
the chunk asked for, which stays in the peer's cache as long as it is served. `CopiesOnWrite` is needed:
without it TLC finds the property violated. Instances may fetch from each other in a circle: the bytes are
right, though those gets do not end (`GetsEnd` excepts them).

**The disk backend.** `IInv` follows each chunk: it is put or written by one thread or coroutine at a time,
is out of the dictionary meanwhile, and nobody who is deleting it races one who writes it (`OneWriter`,
`OutOfDict`); what the coroutine wrote is at the path (`WritesFile`); a file has an entry, a writer or
somebody about to delete it (`FileIsOwned`). This is for any operations, with removals, raised exceptions
and stuck locks, and for chunks of any sizes. For the first part the chunks in `again` are excepted, for
`NoOrphanFile` none is.

The believed size is about one sum, over the chunks that are on disk or on their way there (`OnDisk`). Where
one thread stores chunks of one size (`ServingOnly`, as in the run's serving behaviours), one eviction makes
room, so at most one victim has been picked; it stays in the dictionary until it is popped and its file
exists until it is deleted, so nothing is raised between the size taken away and the size added (`Evicts`,
`Stores`). Then each step moves at most one chunk into the set or out of it, with its size
(`SizeStays`, `SizeGrows`, `SizeShrinks`). The conditions are needed: a removal does not tell the evictor;
with two sizes an eviction that needs two victims may raise after the first one's size was taken away; and with
two storing threads (and four keys) TLC finds the sum wrong too.

**GDS.** Two saves cannot share a file because their suffixes differ (`SuffixesOwn`); so no file has two
names (`NamesApart`), a save writes to the file it opened (`SavesWrite`), what a rename puts at a path is
whole (`PathsWhole`), and whoever knows a chunk has a file at its path (`KnownHasPath`). `Crash` takes saves
and names away, `Restart` scans: both keep every part. `StoredStays` and `LookupFindsStored` are action
properties, the latter without a condition on suffixes.

**The remote store.** The eight connectors have some forty kinds of step. The invariant is split so that
most of it does not see them: `Kept`, the backend's part, has `ObjectRefsExact`, `AnswersOwnKey` and what they
rest on (a call in progress has a key and a connection that was opened; the hot cache keeps the object of a
put that is under way, `PutsKeepHot`; an audited instance gets no chunk that it is putting, `GetsNoPut`), and
is kept by whatever does to the backend what `Advance` says of a call and `PutMoves` of a put. Then, per
connector, each step is shown to be one of these (`RedisAdvances`, `FSAdvances`, `BufferAdvances`,
`LmAdvances`, `RunPutMoves`). That a get is given its own bytes rests on one part per kind of store. What a
store has under a key is the key's, or mooncake's garbage (`StoreKeyed`). A file of `fs://` is used for one key
at a time, whoever opened it before a rename (`FilesKeyed`). Of `lm://`, where nothing in a header says
whose answer it is, the two streams of the socket stand where the call expects them (`LmInv`, `Aligned`): one call
at a time waits, puts have no answers, so what is before it in the request stream is puts only, and the answer
stream is empty or has its answer. `Aligned` must allow for what goes wrong: a body that a call left behind is
next for ever and makes each header unreadable (`Stale`), the server's end closes between header and body,
and a socket may be lost. A call that went on to read a socket which another call had given up has no such
guarantee, and the property excepts it (section 6). The references are counted per key of an instance
(`KeyKept`): one for the entry, two for a store in progress or one that raised,
one for its put. Nothing rests on the bounds of
the run: instances, threads, keys, calls, connections, files, buffers and who dies are open. That put tasks end
(`PutTaskEnds`) is liveness.

**The controller.** Everything is about one sequence per connection, its `Stream`: what a process has
reported and the controller has not handled, on the wire first and then in its queue. `Push` leaves the
stream alone, a change of the cache appends to it, `Receive` takes its head, and an end of the process keeps
a prefix; so batches and their sizes, queues and interleavings drop out of the argument (`StepKinds`), and
each invariant is about a sequence that grows, loses its head or is cut. For `EntryIsCachedOrEvicting`,
which is not inductive, `PoolFollows` adds that for a key that is neither cached nor `overtaken` no admit is
the last word: each is followed by an evict in the stream (`Settled`). What a write-back has yet to report is
one of the other keys (`WritesHeld`), and stays one, whoever removes it meanwhile, since `overtaken` is
where such a removal puts it. For `DeregisteredIsListed` the invariant says that a
process registers first and deregisters last (`RegisterFirst`, `DeregisterLast`), and counts: the processes of
a worker that are registered and may yet be deregistered (`Registered`) are at most as many as the entries of
the worker in its instance's list. It is an inequality, because a process that dies leaves its entry behind.
`MaxStarts`, `QueueBound`, `PipeBound` and `MaxBatch` are any positive numbers, so nothing rests on the
bounds of the run. That the news arrives (`StaleEntryLeaves`) is liveness and stays with TLC.

**NIXL.** The permission to write is a token of each sender: an acknowledgement that arrived, the write and
its notification, or the receiver's reading (`OneToken`), which gives `WriteExcludesRead` at once. For the
refinement, sender and receiver have positions in one sequence, the stream `sent[s]`: what belongs to earlier
stores (`Base`), what was written and notified (`written`), what is in the buffer (`Placed`), and the request
the receiver works on (`Begin`, `End`). `InStep` says how they relate while the token exists, and that the
bytes between two positions are in the buffer (`Has`); both sides cut the stream at the same place, since
each takes as many chunks as fit (`OneWrite`). A failure loses the token, and nothing is delivered from
then on. So the receiver's pool gets each stream in order, for every size of chunks and buffer. Offsets are
sums of sizes by a recursive function; that there is such a function, and that it is monotonic, is shown by
the least length for which it fails, as there is no induction.

**CollectionLemmas** has what the library does not state or states for an operator: finite counting one
element at a time, the range of a sequence without duplicates after `Append`, `Tail`, a removal, and the
least element of a set of naturals, which stands in for induction. A sum over a finite set is a recursive
function on its subsets: that there is one, and that it does not depend on the order in which it takes the
elements, is shown by the subset of least cardinality for which it fails (`TotalExists`, `TotalAnyOrder`).

Only model-checked, and why:

- liveness (`SaveEndsServing`, `TaskLeaves`, `StaleEntryLeaves`, `StoreEnds`, `PutTaskEnds`, `GetsEnd`): not provable here;
- exact sums of the allocator and of the NIXL pool (`CountersExact`, `PoolIsExact`): not proved, though the
  sums of `CollectionLemmas` would be the way;
- `VllmServing`, the layerwise engines and the first generation: not proved. Their operators fold over
  sequences (`FoldLeft`, `SelectSeq`, `FlattenSeq`), of which the provers know nothing.

## 5. Not modelled, and the plan

`PROJECT.json` lists every component with its status. Not modelled at all: serializers (numerics),
NIXL connector v1 (nothing creates it any more), observability, configuration and usage reporting
(counters and parsing).

Left out of modelled components:

- *NIXL*: the receiver's observer is registered after its thread has started (`nixl_backend.py:264`);
  empty stores; `enable_gc` off; close.
- *First-generation blending*: its caller is the vLLM fork. The model gives each batch a new
  `CacheBlendImpl`, because `indexes_in_kv` is only ever appended to, does not blend a batch of which
  nothing was retrieved, and has no words that vLLM itself has cached.
- *Remote*: a get and a contains test the connection and use it in one step (`remote_backend.py:125`, `:197`;
  a reset in between raises `AttributeError` to the caller, and leaves what a call leaves that finds no connection); the lag of sentinel replicas; a retrieved object's write-back; a torn file of the fs
  connector stays torn; the chunk's bytes are never taken for a header; an unbound local of the mooncake
  connector's error path.
- *vLLM v1*: preemption (what vLLM sends for a resumed request is not in this repository), a clear by the
  controller between lookup and load, multimodal hashes. Lookups are synchronous with the engine's step.
- *vLLM v0*: initialisation, `build_mla_params`, the broadcast. Parts of a prefill end at whole blocks, as
  with prefix caching.
- *Hot cache*: `batched_allocate` (in LayerwiseEngine); what the lookup server and the controller are told in between.
- *Storage manager*: one thread calls `prefetch`. In the repository only a test does; two threads with one key
  would both pass the test at `storage_manager.py:319`, the second registration would overwrite the first, and
  the second callback would raise `KeyError` with the lock held (line 280).
- *Layerwise*: `PublishedIsCopied` leaves out steps whose first storer has nothing to store (run
  `layerwise_unsynced`); `retrieve_layer` without keys (an unbound local).
- *Blending*: memory is not exhausted; separators between segments carry what the buffer held; the fill
  order of `old_positions_full` is the first one; the metadata stays after a blend that fails (the step
  ends as `failed` when lengths disagree: tokens vLLM already has, a prompt that is all cached, or no
  segment found).
- *First generation*: the disk backend's blocking put is one step (`DiskPutBlocking`; its caller is the only
  thread then, except for an `os.remove` that raises); `RetrievedIsOwnKV` is about one chunk's KV taken for
  another's, and accepts what is no chunk's (a half-written file, a body that is another request); close; chunks of sizes other than whole and half; a peer that dies while the
  server's lock is held.
- *GDS*: power failures (no fsync), deletion by others, unsupported model names.
- *P2P*: restarts, more than one get at a time per engine; eviction is one step with the unlisting
  (LocalCPUBackend has the window).

Hazards of this code that no property covers, because the code does not have the property: pinned
objects are evicted (`local_cpu_backend.py:233` and `:295`), one pin flag for all requests (`:171`),
physical and logical sizes drift apart (`evictor/lru_evictor.py:66`), prefetched chunks keep a second
reference (`storage_manager.py:307`), an admit forgets the other holders of a chunk
(`kv_controller.py:80`), a deregistration forgets the host's instance or keeps the chunks of the worker
(`registration_controller.py:124`, `:136`), a timed-out mooncake put reads freed memory
(`mooncakestore_connector.py:204`), the sentinel connector drops a reference twice
(`redis_connector.py:243`), `skip_last_n_tokens` is applied to different sequences
(`vllm_v1_adapter.py:512`). The models do what the code does there.

Next: the inductive invariants behind the runs' other properties. VllmServing's `CacheIsTrue`;
LayerwiseEngine's `LoadsBeforeAttention` and `StoredAfterComputed`.

## 6. Disagreements found

Each is a disagreement between the code and a statement of the repository, found by TLC as a
counterexample to the property named, with the change to the configuration given. The first two are runs of
the project.

| property | with | what happens |
|---|---|---|
| `PrefetchDoesNotBlock` | run `prefetch_inline` | the callback of a finished load runs under the lock it acquires: the engine waits for itself (`storage_manager.py:311` "Non-blocking") |
| `SavedWhenWaited` | run `layerwise_unsynced` | when the first request of a step has nothing to store, `wait_for_save` returns before the others' copies have ended (`vllm_v1_adapter.py:689` "Blocking until the KV cache is saved to the connector buffer.") |
| `PinnedNotEvicted` | `cpu`: `Threads = {engine, scheduler}`, `Ops <- PinOps`, `Objs` of three, `Capacity = 1`, no view or symmetry | the eviction loop does not look at the pin flag (`memory_management.py:217`): a chunk is evicted between the scheduler's lookup and the load, and its memory is not given back |
| `DiskGetAnswers` | `legacy` | a get between the submission of a chunk's second save and its entry in `future_pool` opens the file while it is written; the exception leaves `update_lock` locked (`local_backend.py:554`) |
| `HeldIsLive` | `cpu` | a get between the two phases of an eviction returns a freed object (`local_cpu_backend.py:138`) |
| `Memcheck` | `allocator`: `AllowStaleHead = TRUE` | `batched_free` starts its running address at a dead object and merges blocks that do not touch |
| `SavedOnlyOnce` | `disk` | a save that ends between `contains` and `put` lets the chunk be saved again, truncating its file (`storage_manager.py:162`) |
| `GetsOfTheCorrespondingKey` | `remote`: `LmOnly` | a get that cannot allocate leaves its bytes in the stream, and a call already submitted reads one answer off (`base_connector.py:48`) |
| `LoadsAsPromised` | `vllm`: `SkipLastN = 1` | the load cuts the last tokens of another sequence than the lookup did (`vllm_v1_adapter.py:550` "This should not happen!") |
| `ComputedIsInPlace` | `vllm`: `MinChunk` below the chunk size | a part of a prefill shorter than a chunk counts as a full hit, and the forward pass is skipped |
| `LoadedChunksStay` | `layerwise` | chunks that a retriever of the same step reads are evicted because they are pinned (`local_cpu_backend.py:293`) |
| `RetrievedIsOwnKV` | `legacy`: `PipelineSettings` | the pipeline has no place for a missing key, and a later chunk takes it (`abstract_backend.py:133`) |
| `ScannedIsFound` | `disk` | the scan cuts the file name and enters keys nobody looks up (`gds_backend.py:269`) |
| `GetsEnd` without `InCircle` | `prefetch` | two instances that fetch from each other wait for ever |
| `PeerGivesOwnChunk` | `prefetch`: `CopiesOnWrite = FALSE` | with transports that keep a view (Python 3.12) the rest of a chunk is sent from memory that was given to another |

Seen while modelling, without a property: `kv_pool` keeps the chunks of a deregistered worker (a coroutine
is called without `await`); a late deregistration closes its successor's socket; a failed put leaves
the evictor's size too small when chunks differ in size; in v0, one sequence that opted out makes all
later ones of the batch unstored, and two roundings to blocks disagree when vLLM's own count is no
multiple of a block; in the first generation, a re-put makes the believed size drift, `StopIteration` and
a missing file leave a lock held, an evicted key stays in `future_pool`, and an assertion ends the network
worker, on which close then waits; in GDS, another metadata version raises out of `contains`, and a racing
`pop` loses a buffer (`gds_backend.py:487`); in P2P, a get that fails half way loses the client's buffer
and the peer's reference; in NIXL, one failed transfer stops all senders.
