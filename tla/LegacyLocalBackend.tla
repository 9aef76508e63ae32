------------------------- MODULE LegacyLocalBackend -------------------------
(***************************************************************************)
(* LMCLocalBackend (MTDS/storage_backend/local_backend.py) over a          *)
(* LocalCPUPool: chunks in host memory, put by the caller (blocking) or by *)
(* the put worker. The caller's pending call is "call"; the critical       *)
(* sections of update_lock are atomic, and an exception inside one leaves  *)
(* the lock locked for ever ("dead").                                      *)
(*                                                                         *)
(* Its evictor is that of MTDS/storage_backend/evictor/lru_evictor.py.  A  *)
(* cache_dict is a sequence of entries with a key and a size, the least    *)
(* recently used first; "cur" is current_cache_size.                       *)
(***************************************************************************)
EXTENDS Integers, Sequences, SequencesExt

CONSTANTS
    MaxCacheSize,   \* MAX_CACHE_SIZE
    Partial         \* the chunks of fewer tokens than chunk_size

VARIABLES
    call,        \* the engine thread's call: [to, cmd, key,
                 \* val (whose KV a put has), keys, answer]
    local,       \* [dict (entries [key, idx, size]), free (free_pool), cur]
    mem,         \* pool index -> the chunk whose KV it holds, or "none"
    put_queue,   \* put_queue of the backend that puts in the background
    put_worker,  \* its put worker: [step, key, idx]
    lock         \* update_lock: "free" or "dead"

localVars == <<local, mem>>

-----------------------------------------------------------------------------
(* The evictor.                                                            *)

FullSize == 2       \* size_per_chunk; a partial chunk has half of it

\* get_size of a tensor.
LogicalSize(c) == IF c \in Partial THEN 1 ELSE FullSize

KeysOf(dict) == {dict[i].key : i \in DOMAIN dict}
EntryOf(dict, k) == dict[CHOOSE i \in DOMAIN dict : dict[i].key = k]
Without(dict, ks) == SelectSeq(dict, LAMBDA e : e.key \notin ks)

\* cache_dict[key] = entry: a key that is there keeps its place.
SetEntry(dict, e) ==
    IF e.key \in KeysOf(dict)
    THEN [i \in DOMAIN dict |-> IF dict[i].key = e.key THEN e ELSE dict[i]]
    ELSE Append(dict, e)

\* update_on_get
MoveToEnd(dict, k) == Append(Without(dict, {k}), EntryOf(dict, k))

SizeOfFirst(dict, n) == FoldLeft(LAMBDA sum, e : sum + e.size, 0, SubSeq(dict, 1, n))

\* update_on_put: the keys to evict for a chunk of this size, and the size
\* the cache is believed to have afterwards. When the dict ends before there
\* is room, next() raises StopIteration.
UpdateOnPut(dict, cur, size) ==
    LET enough == {n \in 0..Len(dict) : size + cur - SizeOfFirst(dict, n) <= MaxCacheSize}
    IN  IF size > MaxCacheSize THEN [status |-> "illegal", evict |-> {}, cur |-> cur]
        ELSE IF enough = {}
        THEN [status |-> "stop", evict |-> {}, cur |-> cur - SizeOfFirst(dict, Len(dict))]
        ELSE LET n == CHOOSE m \in enough : \A k \in enough : m <= k
             IN  [status |-> "legal", evict |-> KeysOf(SubSeq(dict, 1, n)),
                  cur |-> cur - SizeOfFirst(dict, n) + size]

-----------------------------------------------------------------------------
(* The pool and the backend.                                               *)

\* init_max_chunk_num
MaxChunkNum == MaxCacheSize \div FullSize + 1

\* LocalCPUPool: the tensors, and the entries which are free.
MemPool == [i \in 1..MaxChunkNum |-> "none"]
FreePool == [i \in 1..MaxChunkNum |-> i]

InitLocal == /\ local = [dict |-> <<>>, free |-> FreePool, cur |-> 0]
             /\ mem = MemPool

Answered(a) == call' = [call EXCEPT !.answer = a]

Pending(to, cmd) == call.to = to /\ call.cmd = cmd /\ call.answer = "pending"

\* free
FreeEntries(free, entries) == free \o [i \in DOMAIN entries |-> entries[i].idx]

\* remove: the chunks go and their pool entries are free.
RemoveChunks(l, ks) ==
    [l EXCEPT !.dict = Without(@, ks),
              !.free = FreeEntries(@, SelectSeq(l.dict, LAMBDA e : e.key \in ks))]

Store(l, k, idx) == [l EXCEPT !.dict = SetEntry(@, [key |-> k, idx |-> idx, size |-> FullSize])]

\* allocate: the pool is not empty, or "Shouldn't happen!".
Take(l) == [l EXCEPT !.free = Front(@)]

-----------------------------------------------------------------------------

LocalContains ==
    /\ Pending("local", "contains")
    /\ Answered(IF call.key \in KeysOf(local.dict) THEN "yes" ELSE "no")
    /\ UNCHANGED <<localVars, put_queue, put_worker, lock>>

LocalGet ==
    /\ Pending("local", "get")
    /\ lock = "free"
    /\ IF call.key \in KeysOf(local.dict)
       THEN /\ Answered(mem[EntryOf(local.dict, call.key).idx])
            /\ local' = [local EXCEPT !.dict = MoveToEnd(@, call.key)]
       ELSE Answered("none") /\ UNCHANGED local
    /\ UNCHANGED <<mem, put_queue, put_worker, lock>>

\* put_blocking, without a lock: the old chunk goes before the evicted ones,
\* so that a chunk which is both raises a KeyError.
LocalPutBlocking ==
    /\ Pending("local", "put")
    /\ LET u == UpdateOnPut(local.dict, local.cur, FullSize)
           l == RemoveChunks([local EXCEPT !.cur = u.cur], {call.key})
           m == RemoveChunks(l, u.evict)
       IN  CASE u.status = "illegal" -> Answered("done") /\ UNCHANGED localVars
             [] u.status = "stop" ->
                    Answered("raised") /\ local' = [local EXCEPT !.cur = u.cur] /\ UNCHANGED mem
             [] call.key \in u.evict ->
                    Answered("raised") /\ local' = l /\ UNCHANGED mem
             [] OTHER ->
                    /\ Answered("done")
                    /\ local' = Store(Take(m), call.key, Last(m.free))
                    /\ mem' = [mem EXCEPT ![Last(m.free)] = call.val]
    /\ UNCHANGED <<put_queue, put_worker, lock>>

\* put(blocking=False) of any backend.
PutLater ==
    /\ call.cmd = "put_later" /\ call.answer = "pending"
    /\ put_queue' = Append(put_queue, call.key)
    /\ Answered("done")
    /\ UNCHANGED <<localVars, put_worker, lock>>

\* put_nonblocking up to the copy.
LocalWorkerBegin ==
    /\ put_worker.step = "idle" /\ put_queue # <<>> /\ lock = "free"
    /\ put_queue' = Tail(put_queue)
    /\ LET k == Head(put_queue)
           u == UpdateOnPut(local.dict, local.cur, FullSize)
           l == RemoveChunks([local EXCEPT !.cur = u.cur], u.evict \union {k})
       IN  CASE u.status = "illegal" -> UNCHANGED <<localVars, put_worker, lock>>
             [] u.status = "stop" ->
                    /\ lock' = "dead" /\ put_worker' = [put_worker EXCEPT !.step = "dead"]
                    /\ local' = [local EXCEPT !.cur = u.cur] /\ UNCHANGED mem
             [] OTHER ->
                    /\ local' = Take(l)
                    /\ mem' = [mem EXCEPT ![Last(l.free)] = "none"]
                    /\ put_worker' = [step |-> "copy", key |-> k, idx |-> Last(l.free)]
                    /\ UNCHANGED lock
    /\ UNCHANGED call

\* The copy is done: the chunk is published.
LocalWorkerEnd ==
    /\ put_worker.step = "copy" /\ lock = "free"
    /\ mem' = [mem EXCEPT ![put_worker.idx] = put_worker.key]
    /\ local' = Store(local, put_worker.key, put_worker.idx)
    /\ put_worker' = [step |-> "idle", key |-> "none", idx |-> 0]
    /\ UNCHANGED <<call, put_queue, lock>>

-----------------------------------------------------------------------------

\* Every pool entry is free, in the dict, or being filled, and only one of it;
\* and there is one for the next put ("Shouldn't happen!").
PoolExact ==
    LET used == [i \in DOMAIN local.dict |-> local.dict[i].idx]
                \o IF put_worker.step = "copy" THEN <<put_worker.idx>> ELSE <<>>
        all == local.free \o used
    IN  /\ Len(all) = MaxChunkNum
        /\ ToSet(all) = 1..MaxChunkNum
        /\ put_worker.step # "copy" => local.free # <<>>

-----------------------------------------------------------------------------
(***************************************************************************)
(* LMCLocalDiskBackend: chunks in files, written by the caller (blocking)  *)
(* or copied by the put worker to a buffer that a pool of threads saves. A *)
(* buffer comes back when the chunk is read after its save: the            *)
(* buffer_sweeper never sweeps, because "not self.stop_event" is false of  *)
(* every Event object.                                                     *)
(***************************************************************************)

VARIABLES
    disk,      \* [dict (entries [key, size]), cur, free (cpu_mbufferpool)]
    future,    \* future_pool: key -> [state ("none", "running", "done"), idx]
    saves,     \* submitted calls of save_disk: {[key, idx, begun]}
    buffer,    \* buffer -> the chunk whose KV it holds, or "none"
    files      \* key -> "none", "part" or the chunk whose KV the file holds

diskVars == <<disk, future, saves, buffer, files>>

InitDisk(chunks) ==
    /\ disk = [dict |-> <<>>, cur |-> 0, free |-> FreePool]
    /\ future = [c \in chunks |-> [state |-> "none", idx |-> 0]]
    /\ saves = {} /\ buffer = MemPool
    /\ files = [c \in chunks |-> "none"]

othersOfDisk == <<local, mem>>

-----------------------------------------------------------------------------

DiskContains ==
    /\ Pending("disk", "contains") /\ lock = "free"
    /\ Answered(IF call.key \in KeysOf(disk.dict) THEN "yes" ELSE "no")
    /\ UNCHANGED <<diskVars, othersOfDisk, put_queue, put_worker, lock>>

\* The buffer is given back while its save may be running.
DiskGetFreesEarly ==
    /\ Pending("disk", "get") /\ lock = "free"
    /\ LET k == call.key IN
       IF k \notin KeysOf(disk.dict)
       THEN Answered("none") /\ UNCHANGED <<disk, future>>
       ELSE /\ Answered(files[k])
            /\ disk' = [disk EXCEPT !.dict = MoveToEnd(@, k),
                            !.free = IF future[k].state = "none" THEN @ ELSE Append(@, future[k].idx)]
            /\ future' = [future EXCEPT ![k] = [state |-> "none", idx |-> 0]]
    /\ UNCHANGED <<saves, buffer, files, othersOfDisk, put_queue, put_worker, lock>>

\* get: a chunk that is being saved is not there yet; one that has been saved
\* gives its buffer back. Opening a half-written file raises an exception
\* while the lock is held.
DiskGet ==
    /\ Pending("disk", "get") /\ lock = "free"
    /\ LET k == call.key IN
       IF k \notin KeysOf(disk.dict) \/ future[k].state = "running"
       THEN Answered("none") /\ UNCHANGED <<disk, future, lock>>
       ELSE /\ IF files[k] = "part" THEN Answered("raised") /\ lock' = "dead"
               ELSE Answered(files[k]) /\ UNCHANGED lock
            /\ disk' = [disk EXCEPT !.dict = MoveToEnd(@, k),
                            !.free = IF future[k].state = "none" THEN @ ELSE Append(@, future[k].idx)]
            /\ future' = [future EXCEPT ![k] = [state |-> "none", idx |-> 0]]
    /\ UNCHANGED <<saves, buffer, files, othersOfDisk, put_queue, put_worker>>

Evicted(keys, cur) == [disk EXCEPT !.dict = Without(@, keys), !.cur = cur]
FilesWithout(keys) == [c \in DOMAIN files |-> IF c \in keys THEN "none" ELSE files[c]]

\* put_blocking: evict, save_file, publish. A backend that puts in this way has
\* no put worker: the engine's thread is the only one there is, so the two
\* critical sections and the write between them are one step, and os.remove
\* finds the file of every chunk in the dict.
DiskPutBlocking ==
    /\ Pending("disk", "put") /\ lock = "free"
    /\ LET u == UpdateOnPut(disk.dict, disk.cur, LogicalSize(call.key)) IN
       CASE u.status = "illegal" -> Answered("done") /\ UNCHANGED <<disk, files, lock>>
         [] u.status = "stop" ->
                Answered("raised") /\ lock' = "dead" /\ disk' = [disk EXCEPT !.cur = u.cur]
                /\ UNCHANGED files
         [] OTHER ->
                /\ Answered("done")
                /\ files' = [FilesWithout(u.evict) EXCEPT ![call.key] = call.key]
                /\ disk' = [Evicted(u.evict, u.cur) EXCEPT
                              !.dict = SetEntry(@, [key |-> call.key, size |-> LogicalSize(call.key)])]
                /\ UNCHANGED lock
    /\ UNCHANGED <<future, saves, buffer, othersOfDisk, put_queue, put_worker>>

-----------------------------------------------------------------------------
(* The put worker *)

Worker(step, k, i) == put_worker' = [step |-> step, key |-> k, idx |-> i]

\* put_nonblocking: a chunk with an entry in future_pool is skipped; otherwise
\* evict. An evicted chunk whose file does not exist yet makes os.remove raise
\* with the lock held.
DiskWorkerEvict ==
    /\ put_worker.step = "idle" /\ put_queue # <<>> /\ lock = "free"
    /\ put_queue' = Tail(put_queue)
    /\ LET k == Head(put_queue)
           u == UpdateOnPut(disk.dict, disk.cur, LogicalSize(k))
       IN  CASE future[k].state # "none" \/ u.status = "illegal" ->
                    UNCHANGED <<disk, files, lock, put_worker>>
             [] u.status = "stop" ->
                    /\ disk' = [disk EXCEPT !.cur = u.cur]
                    /\ lock' = "dead" /\ Worker("dead", k, 0) /\ UNCHANGED files
             [] \E e \in u.evict : files[e] = "none" ->
                    \* the evicted chunks up to that one are gone
                    LET i == CHOOSE j \in DOMAIN disk.dict :
                                /\ files[disk.dict[j].key] = "none"
                                /\ \A m \in 1..(j - 1) : files[disk.dict[m].key] # "none"
                        gone == KeysOf(SubSeq(disk.dict, 1, i))
                    IN  /\ disk' = Evicted(gone, u.cur) /\ files' = FilesWithout(gone)
                        /\ lock' = "dead" /\ Worker("dead", k, 0)
             [] OTHER ->
                    /\ disk' = Evicted(u.evict, u.cur) /\ files' = FilesWithout(u.evict)
                    /\ Worker("allocate", k, 0) /\ UNCHANGED lock
    /\ UNCHANGED <<call, future, saves, buffer, othersOfDisk>>

\* LocalCPUBufferPool.allocate, and the chunk in its buffer.
AllocateBuffer(k) ==
    /\ disk.free # <<>>
    /\ disk' = [disk EXCEPT !.free = Front(@)]
    /\ buffer' = [buffer EXCEPT ![Last(disk.free)] = k]

\* The loop that waits for a buffer; the copy; the submission of the save.
DiskWorkerSubmit ==
    /\ put_worker.step = "allocate" /\ lock = "free"
    /\ AllocateBuffer(put_worker.key)
    /\ LET i == Last(disk.free) IN
       /\ saves' = saves \union {[key |-> put_worker.key, idx |-> i, begun |-> FALSE]}
       /\ Worker("submitted", put_worker.key, i)
    /\ UNCHANGED <<call, future, files, othersOfDisk, put_queue, lock>>

\* The chunk enters future_pool and the dict, with its physical size.
DiskWorkerPublish ==
    /\ put_worker.step = "submitted" /\ lock = "free"
    /\ LET k == put_worker.key IN
       /\ future' = [future EXCEPT ![k] =
              [state |-> IF \E s \in saves : s.key = k THEN "running" ELSE "done",
               idx |-> put_worker.idx]]
       /\ disk' = [disk EXCEPT !.dict = SetEntry(@, [key |-> k, size |-> FullSize])]
    /\ Worker("idle", "none", 0)
    /\ UNCHANGED <<call, saves, buffer, files, othersOfDisk, put_queue, lock>>

\* save_disk, in a thread of the pool: the file is created, then written.
SaveBegins(s) ==
    /\ ~s.begun
    /\ files' = [files EXCEPT ![s.key] = "part"]
    /\ saves' = (saves \ {s}) \union {[s EXCEPT !.begun = TRUE]}
    /\ UNCHANGED <<call, disk, future, buffer, othersOfDisk, put_queue, put_worker, lock>>

\* A file that was removed meanwhile is written and gone.
SaveEnds(s) ==
    /\ s.begun
    /\ files' = [files EXCEPT ![s.key] = IF @ = "part" THEN buffer[s.idx] ELSE @]
    /\ saves' = saves \ {s}
    /\ future' = [future EXCEPT ![s.key].state = IF @ = "running" THEN "done" ELSE @]
    /\ UNCHANGED <<call, disk, buffer, othersOfDisk, put_queue, put_worker, lock>>

-----------------------------------------------------------------------------

\* The file of a chunk in the dict is whole and has the chunk's own KV, except
\* while get is kept from it by a save that is pending in future_pool, and
\* between the submission of a new save by the put worker and its entry in
\* future_pool. In that window get does open a half-written file.
ReadableFilesAreWhole ==
    \A k \in KeysOf(disk.dict) :
        \/ files[k] = k
        \/ future[k].state = "running"
        \/ put_worker.step = "submitted" /\ put_worker.key = k

\* A buffer that a save reads from is not given to another chunk.
BuffersExact ==
    \A s \in saves : buffer[s.idx] = s.key /\ s.idx \notin ToSet(disk.free)
=============================================================================
