--------------------------- MODULE LocalDiskBackend ---------------------------
(***************************************************************************)
(* LocalDiskBackend (src/MTDS/v1/storage_backend/local_disk_backend.py)    *)
(* and its LRUEvictor: chunks saved to one file each by coroutines of the  *)
(* storage loop, read back by the engine, a served peer or a prefetch.     *)
(*                                                                         *)
(* disk_lock protects the dictionary and put_tasks.  The evictor walks the *)
(* dictionary without it, remove reads it without it, and a file is        *)
(* written, unlinked and (by a prefetch) read without it.  An exception    *)
(* that leaves a critical section leaves disk_lock held.                   *)
(*                                                                         *)
(* This is the configuration with local_cpu off, so that a chunk is looked *)
(* for on disk only; memory objects are those of LocalCPUBackend.tla.      *)
(***************************************************************************)
EXTENDS Integers, Sequences, FiniteSets, SequencesExt

CONSTANTS
  Keys, Threads,
  Ops,             \* Ops[t]: the operations thread t performs
  Size,            \* Size[k]: bytes of the chunk with key k
  MaxCacheSize,    \* the evictor's MAX_CACHE_SIZE
  Slots,           \* save coroutines in flight at a time (a bound)
  StoreOnce,       \* is no chunk stored a second time? (a workload)
  NoKey, NoThread

OpNames == {"store", "retrieve", "prefetch", "pin", "unpin", "remove"}

ASSUME DiskAssumption ==
  /\ Ops \in [Threads -> SUBSET OpNames]
  /\ Size \in [Keys -> Nat \ {0}] /\ MaxCacheSize \in Nat
  /\ StoreOnce \in BOOLEAN
  /\ NoKey \notin Keys /\ NoThread \notin Threads

VARIABLES
  dict,                \* keys in the dictionary, least recently used first
  pinned,              \* keys whose metadata is pinned
  disk_lock,           \* the thread inside a critical section, or stuck there
  current_cache_size,  \* what the evictor believes to be on disk
  put_tasks,           \* keys being saved, a list
  files,               \* files[k]: "none", "partial" or "whole"
  saves,               \* async_save_bytes_to_disk: [pc, key, linked] per slot
  loads,               \* keys that async_load_bytes_from_disk has to read
  stored,              \* keys that will not be stored again
  again,               \* keys whose last put began while the chunk was there,
                       \* or being saved or deleted (a history of the puts)
  pc, key,             \* of each thread
  evict_keys,          \* keys update_on_put has picked and not removed yet
  walk                 \* the dictionary as the iterator found it, what is left

store == <<dict, pinned, put_tasks>>
disk  == <<files, saves, loads>>
history == <<stored, again>>
local == <<evict_keys, walk>>
vars  == <<store, disk_lock, current_cache_size, disk, history, pc, key, local>>

LockFree == disk_lock = NoThread
InDict(k) == k \in Range(dict)
\* The keys of a sequence, each there once, without k; and with k as the newest.
Without(s, k) ==
  IF k \in Range(s) THEN RemoveAt(s, CHOOSE i \in DOMAIN s : s[i] = k) ELSE s
Newest(s, k) == Append(Without(s, k), k)
Goto(t, label) == pc' = [pc EXCEPT ![t] = label]
Bytes(S) == MapThenSumSet(LAMBDA k : Size[k], S)

NoWalk == [seen |-> <<>>, left |-> <<>>]
NoSave == [pc |-> "idle", key |-> NoKey, linked |-> FALSE]

Init ==
  /\ dict = <<>> /\ pinned = {} /\ put_tasks = <<>>
  /\ disk_lock = NoThread
  /\ current_cache_size = 0
  /\ files = [k \in Keys |-> "none"]
  /\ saves = [i \in Slots |-> NoSave]
  /\ loads = {}
  /\ stored = {} /\ again = {}
  /\ pc = [t \in Threads |-> "idle"]
  /\ key = [t \in Threads |-> NoKey]
  /\ evict_keys = [t \in Threads |-> <<>>]
  /\ walk = [t \in Threads |-> NoWalk]

Free(t, o) == pc[t] = "idle" /\ o \in Ops[t]
Start(t, o, k, label) ==
  /\ Free(t, o)
  /\ key' = [key EXCEPT ![t] = k]
  /\ Goto(t, label)
\* Go on at a label, or end the operation.
Continue(t, stay, label) ==
  /\ Goto(t, IF stay THEN label ELSE "idle")
  /\ key' = IF stay THEN key ELSE [key EXCEPT ![t] = NoKey]
Return(t) == Continue(t, FALSE, "idle")

\* What t removes: the first of the keys it evicts, or the key it was given.
Victim(t) == IF evict_keys[t] # <<>> THEN Head(evict_keys[t]) ELSE key[t]

\* A chunk is busy while it is put, written, or deleted.
Puts(t, k) ==
  /\ key[t] = k
  /\ \/ pc[t] \in {"iterate", "pick", "evict"}
     \/ pc[t] \in {"pop", "unlink"} /\ evict_keys[t] # <<>>
Writes(i, k) == saves[i].key = k /\ saves[i].pc \in {"open", "write", "insert"}
Unlinks(t, k) == pc[t] = "unlink" /\ Victim(t) = k
Busy(k) == \/ \E t \in Threads : Puts(t, k) \/ Unlinks(t, k)
           \/ \E i \in Slots : Writes(i, k)

-----------------------------------------------------------------------------
(* A store: contains, and later, after the chunk has been copied, put.     *)

StoreBegin(t, k) ==
  /\ Start(t, "store", k, "put")
  /\ LockFree /\ ~InDict(k)
  /\ k \notin stored
  /\ stored' = IF StoreOnce THEN stored \cup {k} ELSE stored
  /\ UNCHANGED <<store, disk_lock, current_cache_size, disk, again, local>>

\* exists_in_put_tasks: a chunk that is being saved is not put again.
CheckPutTasks(t) ==
  /\ pc[t] = "put" /\ LockFree
  /\ Continue(t, key[t] \notin Range(put_tasks), "iterate")
  /\ again' = IF key[t] \in Range(put_tasks) THEN again
              ELSE IF InDict(key[t]) \/ Busy(key[t]) THEN again \cup {key[t]}
              ELSE again \ {key[t]}
  /\ UNCHANGED <<store, disk_lock, current_cache_size, disk, stored, local>>

\* update_on_put, without disk_lock: take keys from the front of the
\* dictionary until the new chunk fits.
Iterate(t) ==
  /\ pc[t] = "iterate"
  /\ walk' = [walk EXCEPT ![t] = [seen |-> dict, left |-> dict]]
  /\ Continue(t, Size[key[t]] <= MaxCacheSize, "pick")
  /\ UNCHANGED <<store, disk_lock, current_cache_size, disk, history, evict_keys>>

Fits(t) == Size[key[t]] + current_cache_size <= MaxCacheSize

PickOne(t) ==
  /\ pc[t] = "pick" /\ ~Fits(t)
  /\ walk[t].seen = dict /\ walk[t].left # <<>>
  /\ walk' = [walk EXCEPT ![t].left = Tail(@)]
  /\ LET k == Head(walk[t].left) IN
       IF k \in pinned THEN UNCHANGED <<evict_keys, current_cache_size>>
       ELSE /\ evict_keys' = [evict_keys EXCEPT ![t] = Append(@, k)]
            /\ current_cache_size' = current_cache_size - Size[k]
  /\ UNCHANGED <<store, disk_lock, disk, history, pc, key>>

\* next() raises when the dictionary is exhausted (StopIteration) or has
\* changed under the iterator (RuntimeError); what was picked stays.
PickRaises(t) ==
  /\ pc[t] = "pick" /\ ~Fits(t)
  /\ walk[t].seen # dict \/ walk[t].left = <<>>
  /\ Goto(t, "raised")
  /\ UNCHANGED <<store, disk_lock, current_cache_size, disk, history, key, local>>

\* Faulty variant: the new chunk is not added to the size.
PickedForgetsSize(t) ==
  /\ pc[t] = "pick" /\ Fits(t)
  /\ walk' = [walk EXCEPT ![t] = NoWalk]
  /\ Goto(t, "evict")
  /\ UNCHANGED <<store, disk_lock, current_cache_size, disk, history, key, evict_keys>>

Picked(t) ==
  /\ pc[t] = "pick" /\ Fits(t)
  /\ current_cache_size' = current_cache_size + Size[key[t]]
  /\ walk' = [walk EXCEPT ![t] = NoWalk]
  /\ Goto(t, "evict")
  /\ UNCHANGED <<store, disk_lock, disk, history, key, evict_keys>>

\* Nothing left to evict: note the task and schedule the save on the loop.
SubmitSave(t) ==
  /\ pc[t] = "evict" /\ evict_keys[t] = <<>>
  /\ LockFree
  /\ put_tasks' = Append(put_tasks, key[t])
  /\ \E i \in Slots :
       /\ saves[i].pc = "idle"
       /\ saves' = [saves EXCEPT ![i] =
                      [pc |-> "open", key |-> key[t], linked |-> FALSE]]
  /\ Return(t)
  /\ UNCHANGED <<dict, pinned, disk_lock, current_cache_size, files, loads,
                 history, local>>

-----------------------------------------------------------------------------
(* remove, called for each evicted key and by StorageManager.remove.       *)

RemoveBegin(t, k) ==
  /\ Start(t, "remove", k, "remove")
  /\ UNCHANGED <<store, disk_lock, current_cache_size, disk, history, local>>

\* path = self.dict[key].path, outside the lock.
RemoveRead(t) ==
  /\ \/ pc[t] = "remove"
     \/ pc[t] = "evict" /\ evict_keys[t] # <<>>
  /\ Goto(t, IF InDict(Victim(t)) THEN "pop" ELSE "raised")
  /\ UNCHANGED <<store, disk_lock, current_cache_size, disk, history, key, local>>

\* Under the lock; a KeyError from pop leaves the lock held.
RemovePop(t) ==
  LET k == Victim(t) IN
  /\ pc[t] = "pop" /\ LockFree
  /\ \/ /\ InDict(k)
        /\ dict' = Without(dict, k) /\ pinned' = pinned \ {k}
        /\ again' = IF Busy(k) THEN again ELSE again \ {k}
        /\ Goto(t, "unlink")
        /\ UNCHANGED disk_lock
     \/ /\ ~InDict(k)
        /\ disk_lock' = t
        /\ Goto(t, "raised")
        /\ UNCHANGED <<dict, pinned, again>>
  /\ UNCHANGED <<put_tasks, current_cache_size, disk, stored, key, local>>

\* Faulty variant: the file is left behind.
RemoveFileKept(t) ==
  /\ pc[t] = "unlink"
  /\ evict_keys' = [evict_keys EXCEPT ![t] = IF @ = <<>> THEN @ ELSE Tail(@)]
  /\ Goto(t, "evict")
  /\ UNCHANGED <<store, disk_lock, current_cache_size, disk, history, key, walk>>

\* os.getsize and os.remove; then the next key, or back to the caller, which
\* adds the None that remove returned to a number.
RemoveFile(t) ==
  LET k == Victim(t) IN
  /\ pc[t] = "unlink"
  /\ files' = [files EXCEPT ![k] = "none"]
  /\ saves' = [i \in Slots |-> IF saves[i].key = k
                               THEN [saves[i] EXCEPT !.linked = FALSE]
                               ELSE saves[i]]
  /\ evict_keys' = [evict_keys EXCEPT ![t] = IF @ = <<>> THEN @ ELSE Tail(@)]
  /\ Goto(t, IF files[k] # "none" /\ evict_keys[t] # <<>> THEN "evict" ELSE "raised")
  /\ UNCHANGED <<store, disk_lock, current_cache_size, loads, history, key, walk>>

\* The caller gets the exception; what it held of disk_lock stays held.
Recover(t) ==
  /\ pc[t] = "raised"
  /\ evict_keys' = [evict_keys EXCEPT ![t] = <<>>]
  /\ walk' = [walk EXCEPT ![t] = NoWalk]
  /\ Return(t)
  /\ UNCHANGED <<store, disk_lock, current_cache_size, disk, history>>

-----------------------------------------------------------------------------
(* The coroutines of the storage loop.  Between two steps the loop, and    *)
(* any thread, may run something else.                                     *)

SetSave(i, s) == saves' = [saves EXCEPT ![i] = s]

\* aiofiles.open(path, "wb") creates or truncates the file.
SaveOpen(i) ==
  /\ saves[i].pc = "open"
  /\ files' = [files EXCEPT ![saves[i].key] = "partial"]
  /\ SetSave(i, [saves[i] EXCEPT !.pc = "write", !.linked = TRUE])
  /\ UNCHANGED <<store, disk_lock, current_cache_size, loads, history, pc, key, local>>

\* write and close; an unlinked file is written to no avail.
SaveWrite(i) ==
  /\ saves[i].pc = "write"
  /\ files' = [files EXCEPT ![saves[i].key] =
                 IF saves[i].linked THEN "whole" ELSE @]
  /\ SetSave(i, [saves[i] EXCEPT !.pc = "insert"])
  /\ UNCHANGED <<store, disk_lock, current_cache_size, loads, history, pc, key, local>>

\* Faulty variant: the key goes in before the file is written.
SaveInsertEarly(i) ==
  LET k == saves[i].key IN
  /\ saves[i].pc \in {"open", "insert"} /\ LockFree
  /\ dict' = Newest(dict, k)
  /\ pinned' = pinned \ {k}
  /\ SetSave(i, [saves[i] EXCEPT !.pc = "done"])
  /\ UNCHANGED <<put_tasks, disk_lock, current_cache_size, files, loads, history,
                 pc, key, local>>

\* insert_key: the newest entry, with fresh metadata.
SaveInsert(i) ==
  LET k == saves[i].key IN
  /\ saves[i].pc = "insert" /\ LockFree
  /\ dict' = Newest(dict, k)
  /\ pinned' = pinned \ {k}
  /\ SetSave(i, [saves[i] EXCEPT !.pc = "done"])
  /\ UNCHANGED <<put_tasks, disk_lock, current_cache_size, files, loads, history,
                 pc, key, local>>

\* Faulty variant: the task stays in put_tasks.
SaveDoneKeepsTask(i) ==
  /\ saves[i].pc = "done" /\ LockFree
  /\ SetSave(i, NoSave)
  /\ UNCHANGED <<store, disk_lock, current_cache_size, files, loads, history,
                 pc, key, local>>

\* ref_count_down, put_tasks.remove(key)
SaveDone(i) ==
  LET at == CHOOSE j \in DOMAIN put_tasks : put_tasks[j] = saves[i].key IN
  /\ saves[i].pc = "done" /\ LockFree
  /\ put_tasks' = RemoveAt(put_tasks, at)
  /\ SetSave(i, NoSave)
  /\ UNCHANGED <<dict, pinned, disk_lock, current_cache_size, files, loads, history,
                 pc, key, local>>

\* async_load_bytes_from_disk: a missing file fails the prefetch only.
LoadFile(k) ==
  /\ k \in loads
  /\ loads' = loads \ {k}
  /\ UNCHANGED <<store, disk_lock, current_cache_size, files, saves, history, pc,
                 key, local>>

-----------------------------------------------------------------------------
(* Reading.                                                                *)

\* get_blocking holds disk_lock from the dictionary to the end of the read.
GetBegin(t, k) ==
  /\ Start(t, "retrieve", k, "read")
  /\ LockFree /\ InDict(k)
  /\ dict' = Newest(dict, k)
  /\ disk_lock' = t
  /\ UNCHANGED <<pinned, put_tasks, current_cache_size, disk, history, local>>

\* The allocation may fail; a missing file raises with the lock held.
GetRead(t) ==
  /\ pc[t] = "read"
  /\ \/ /\ disk_lock' = NoThread
        /\ Return(t)
     \/ /\ files[key[t]] = "none"
        /\ Goto(t, "raised")
        /\ UNCHANGED <<disk_lock, key>>
  /\ UNCHANGED <<store, current_cache_size, disk, history, local>>

\* submit_prefetch_task: the path is read under the lock and used later.
Prefetch(t, k) ==
  /\ Free(t, "prefetch")
  /\ LockFree /\ InDict(k)
  /\ dict' = Newest(dict, k)
  /\ loads' = loads \cup {k}
  /\ UNCHANGED <<pinned, put_tasks, disk_lock, current_cache_size, files, saves,
                 history, pc, key, local>>

\* contains(key, pin=True), and unpin
Pin(t, k) ==
  /\ Free(t, "pin")
  /\ LockFree /\ InDict(k)
  /\ pinned' = pinned \cup {k}
  /\ UNCHANGED <<dict, put_tasks, disk_lock, current_cache_size, disk, history, pc, key, local>>
Unpin(t, k) ==
  /\ Free(t, "unpin")
  /\ LockFree /\ InDict(k)
  /\ pinned' = pinned \ {k}
  /\ UNCHANGED <<dict, put_tasks, disk_lock, current_cache_size, disk, history, pc, key, local>>

-----------------------------------------------------------------------------
Proceed(t) ==
  \/ CheckPutTasks(t) \/ Iterate(t) \/ PickOne(t) \/ PickRaises(t) \/ Picked(t)
  \/ SubmitSave(t) \/ RemoveRead(t) \/ RemovePop(t) \/ RemoveFile(t)
  \/ Recover(t) \/ GetRead(t)

Begin(t) ==
  \E k \in Keys : \/ StoreBegin(t, k) \/ RemoveBegin(t, k) \/ GetBegin(t, k)
                  \/ Prefetch(t, k) \/ Pin(t, k) \/ Unpin(t, k)

LoopStep(i) == SaveOpen(i) \/ SaveWrite(i) \/ SaveInsert(i) \/ SaveDone(i)

Next ==
  \/ \E t \in Threads : Proceed(t) \/ Begin(t)
  \/ \E i \in Slots : LoopStep(i)
  \/ \E k \in Keys : LoadFile(k)

\* A thread goes on with its operation; the loop runs every coroutine, also one
\* that waits for a disk_lock which others take and release again and again.
Spec == /\ Init /\ [][Next]_vars
        /\ \A t \in Threads : WF_vars(Proceed(t))
        /\ \A i \in Slots : SF_vars(LoopStep(i))

-----------------------------------------------------------------------------
(***************************************************************************)
(* Correctness.                                                            *)
(***************************************************************************)
Labels == {"idle", "put", "iterate", "pick", "evict", "remove", "pop", "unlink",
           "raised", "read"}

TypeOK ==
  /\ dict \in Seq(Keys) /\ IsInjective(dict) /\ pinned \subseteq Range(dict)
  /\ disk_lock \in Threads \cup {NoThread}
  /\ current_cache_size \in 0 .. MaxCacheSize
  /\ put_tasks \in Seq(Keys)
  /\ files \in [Keys -> {"none", "partial", "whole"}]
  /\ saves \in [Slots -> [pc : {"idle", "open", "write", "insert", "done"},
                          key : Keys \cup {NoKey}, linked : BOOLEAN]]
  /\ loads \subseteq Keys /\ stored \subseteq Keys /\ again \subseteq Keys
  /\ pc \in [Threads -> Labels] /\ key \in [Threads -> Keys \cup {NoKey}]
  /\ evict_keys \in [Threads -> Seq(Keys)]

SavesAt(labels) == {saves[i].key : i \in {i \in Slots : saves[i].pc \in labels}}
Writing == SavesAt({"open", "write", "insert"})
Saving  == Writing \cup SavesAt({"done"})
Victims == UNION {Range(evict_keys[t]) : t \in Threads}
Removing == {key[t] : t \in {t \in Threads : pc[t] \in {"pop", "unlink"}}}
Putting == {key[t] : t \in {t \in Threads :
              pc[t] = "evict" \/ (pc[t] \in {"pop", "unlink"} /\ evict_keys[t] # <<>>)}}

\* Whoever finds a key in the dictionary finds its whole chunk on disk, unless
\* that chunk was put once more while it was there.
EntryHasWholeFile == \A k \in Range(dict) \ again : files[k] = "whole"

\* A file on disk has an entry, or somebody is writing or about to delete it:
\* no others would ever be deleted.
NoOrphanFile ==
  \A k \in Keys : files[k] # "none" => InDict(k) \/ k \in Saving \cup Victims \cup Removing

\* What the evictor believes is what is on disk or on its way there.
SizeIsExact ==
  current_cache_size = Bytes((Range(dict) \ Victims) \cup Writing \cup Putting)

\* The storage size limit (in bytes) is kept.
DiskWithinLimit == Bytes({k \in Keys : files[k] # "none"}) <= MaxCacheSize

\* What has been stored is not stored again.  Does not hold (README, section 6).
SavedOnlyOnce == \A i \in Slots : saves[i].pc = "open" => ~InDict(saves[i].key)

\* put_tasks lists the saves that have not ended.
PutTasksExact == Range(put_tasks) = Saving

\* Whoever takes disk_lock lets it go.
LockIsReleased == \A t \in Threads : disk_lock = t ~> disk_lock # t

\* Every accepted put ends with the chunk in the dictionary, and leaves
\* put_tasks, so that the chunk can be stored again.
SaveEnds == \A k \in Keys : k \in Range(put_tasks) ~> k \notin Range(put_tasks)
=============================================================================
