---------------------------- MODULE StorageManager ----------------------------
(***************************************************************************)
(* StorageManager.prefetch, prefetch_callback and get                      *)
(* (src/MTDS/v1/storage_backend/storage_manager.py) over a CPU and a disk  *)
(* backend: the engine starts loads that run as futures on the storage     *)
(* loop; when a future ends, its callback, on the loop thread, moves the   *)
(* chunk to the hot cache.  Meanwhile the engine and a served peer get     *)
(* chunks, waiting for the future if there is one.                         *)
(*                                                                         *)
(* manager_lock is a threading.Lock: a thread that acquires it twice       *)
(* waits for itself.  Eviction is a single step here; LocalCPUBackend has  *)
(* its detail.                                                             *)
(***************************************************************************)
EXTENDS Integers, FiniteSets, Functions

CONSTANTS
  Keys, Objs, Futures,
  Getters,   \* threads that call get
  Engine,    \* the one of them that calls prefetch too
  Wanted,    \* Wanted[t]: the keys thread t gets
  Loop,      \* the thread of the storage loop
  Capacity,  \* memory objects that fit in the pinned buffer
  None

ASSUME ManagerAssumption ==
  /\ Engine \in Getters /\ Loop \notin Getters /\ Wanted \in [Getters -> SUBSET Keys]
  /\ IsFiniteSet(Keys) /\ IsFiniteSet(Objs) /\ IsFiniteSet(Futures) /\ IsFiniteSet(Getters)
  /\ Capacity \in 1 .. Cardinality(Objs)
  /\ None \notin Keys \cup Objs \cup Futures \cup Getters \cup {Loop}

VARIABLES
  hot_cache,       \* key -> object, or None
  ref,             \* reference count of each object; 0: free
  manager_lock,    \* its holder, when held from one step to the next
  prefetch_tasks,  \* key -> future, or None
  future,          \* of each future: [st, key, buf, cb]
  pc, key,         \* of each thread
  fut, obj,        \* its local variables: a future, a memory object
  buffer           \* buffer_memory_obj of the running callback

tables == <<hot_cache, prefetch_tasks>>
locals == <<key, fut, obj, buffer>>
vars   == <<tables, ref, manager_lock, future, pc, locals>>

Opt(S)   == S \cup {None}
Threads  == Getters \cup {Loop}
NoFuture == [st |-> "unused", key |-> None, buf |-> None, cb |-> FALSE]

LockFree == manager_lock = None
Goto(t, label) == pc' = [pc EXCEPT ![t] = label]
Return(t) ==
  /\ Goto(t, "idle")
  /\ key' = [key EXCEPT ![t] = None]
  /\ fut' = [fut EXCEPT ![t] = None]
  /\ obj' = [obj EXCEPT ![t] = None]

\* A future nobody refers to is gone, and its identity stands for a new one.
NewFutures == {i \in Futures : /\ \A k \in Keys : prefetch_tasks[k] # i
                               /\ \A t \in Threads : fut[t] # i
                               /\ future[i].st # "running"}

Init ==
  /\ hot_cache = [k \in Keys |-> None]
  /\ ref = [o \in Objs |-> 0]
  /\ manager_lock = None
  /\ prefetch_tasks = [k \in Keys |-> None]
  /\ future = [i \in Futures |-> NoFuture]
  /\ pc = [t \in Threads |-> "idle"]
  /\ key = [t \in Threads |-> None]
  /\ fut = [t \in Threads |-> None]
  /\ obj = [t \in Threads |-> None]
  /\ buffer = None

\* local_cpu_backend.allocate: what is cached and used by nobody else may have
\* to go; None when that makes no room.
Used(r) == {o \in Objs : r[o] > 0}
Evicted(h, r, K) == [o \in Objs |-> IF \E k \in K : h[k] = o THEN r[o] - 1 ELSE r[o]]
Evictable == {k \in Keys : hot_cache[k] # None /\ ref[hot_cache[k]] = 1}
Allocate(o) ==
  \/ \E K \in {{}} \cup {{k} : k \in Evictable} :
       LET r == Evicted(hot_cache, ref, K) IN
       /\ K # {} => Cardinality(Used(ref)) = Capacity
       /\ Cardinality(Used(r)) < Capacity
       /\ o = CHOOSE x \in Objs : r[x] = 0  \* free objects are alike
       /\ hot_cache' = [k \in Keys |-> IF k \in K THEN None ELSE hot_cache[k]]
       /\ ref' = [r EXCEPT ![o] = 1]
  \/ /\ o = None
     /\ Evictable = {} /\ Cardinality(Used(ref)) = Capacity
     /\ UNCHANGED <<hot_cache, ref>>

-----------------------------------------------------------------------------
(* prefetch, by the engine.                                                *)

\* Not cached, and no task for the key.
PrefetchBegin(k) ==
  /\ pc[Engine] = "idle"
  /\ hot_cache[k] = None
  /\ key' = [key EXCEPT ![Engine] = k]
  /\ Goto(Engine, "check")
  /\ UNCHANGED <<tables, ref, manager_lock, future, fut, obj, buffer>>

PrefetchCheck ==
  /\ pc[Engine] = "check" /\ LockFree
  /\ \/ /\ prefetch_tasks[key[Engine]] = None
        /\ Goto(Engine, "submit")
        /\ UNCHANGED <<key, fut, obj>>
     \/ /\ prefetch_tasks[key[Engine]] # None
        /\ Return(Engine)
  /\ UNCHANGED <<tables, ref, manager_lock, future, buffer>>

\* submit_prefetch_task: the load starts to run.
PrefetchSubmit ==
  /\ pc[Engine] = "submit"
  /\ NewFutures # {}
  /\ LET i == CHOOSE i \in NewFutures : TRUE IN
       /\ future' = [future EXCEPT ![i] = [st |-> "running", key |-> key[Engine],
                                           buf |-> None, cb |-> FALSE]]
       /\ fut' = [fut EXCEPT ![Engine] = i]
  /\ Goto(Engine, "register")
  /\ UNCHANGED <<tables, ref, manager_lock, key, obj, buffer>>

\* Under manager_lock: note the task and add the callback.  The callback of a
\* future that is done runs at once, in this thread, and wants the lock.
PrefetchRegister ==
  LET i == fut[Engine] IN
  /\ pc[Engine] = "register" /\ LockFree
  /\ prefetch_tasks' = [prefetch_tasks EXCEPT ![key[Engine]] = i]
  /\ \/ /\ future[i].st = "running"
        /\ future' = [future EXCEPT ![i].cb = TRUE]
        /\ Return(Engine)
        /\ UNCHANGED manager_lock
     \/ /\ future[i].st # "running"
        /\ manager_lock' = Engine
        /\ Goto(Engine, "self_wait")
        /\ UNCHANGED <<future, key, fut, obj>>
  /\ UNCHANGED <<hot_cache, ref, buffer>>

-----------------------------------------------------------------------------
(* The loop thread: the load, then the callback.                           *)

\* The load is over: its callback, if it has been added, runs next.
Ended(i) ==
  IF future[i].cb
  THEN /\ Goto(Loop, "cb_pop")
       /\ fut' = [fut EXCEPT ![Loop] = i]
       /\ key' = [key EXCEPT ![Loop] = future[i].key]
  ELSE UNCHANGED <<pc, key, fut>>

\* async_load_bytes_from_disk takes an object and starts to read the file into
\* it, or ends with None when there is no room.
LoadAllocates(i) ==
  /\ pc[Loop] = "idle"
  /\ future[i].st = "running" /\ future[i].buf = None
  /\ \/ \E o \in Objs :
          /\ Allocate(o)
          /\ future' = [future EXCEPT ![i].buf = o]
          /\ UNCHANGED <<pc, key, fut>>
     \/ /\ Allocate(None)
        /\ future' = [future EXCEPT ![i].st = "done"]
        /\ Ended(i)
  /\ UNCHANGED <<prefetch_tasks, manager_lock, obj, buffer>>

\* The file has been read, or it is gone: then nobody drops the reference to
\* the object.
LoadEnds(i) ==
  /\ pc[Loop] = "idle"
  /\ future[i].st = "running" /\ future[i].buf # None
  /\ \/ future' = [future EXCEPT ![i].st = "done"]
     \/ future' = [future EXCEPT ![i].st = "failed", ![i].buf = None]
  /\ Ended(i)
  /\ UNCHANGED <<tables, ref, manager_lock, obj, buffer>>

\* Faulty variant: the task stays in the table.
CallbackKeepsTask ==
  LET i == fut[Loop] IN
  /\ pc[Loop] = "cb_pop" /\ LockFree
  /\ future' = [future EXCEPT ![i] = [NoFuture EXCEPT !.st = future[i].st]]
  /\ \/ /\ future[i].buf # None
        /\ buffer' = future[i].buf
        /\ Goto(Loop, "cb_alloc")
        /\ UNCHANGED <<key, fut, obj>>
     \/ /\ future[i].buf = None
        /\ Return(Loop)
        /\ UNCHANGED buffer
  /\ UNCHANGED <<tables, ref, manager_lock>>

\* prefetch_tasks.pop(key) and result(); an exception or a None result ends it.
\* Of the future only its outcome matters from here on.
CallbackPop ==
  LET i == fut[Loop] IN
  /\ pc[Loop] = "cb_pop" /\ LockFree
  /\ prefetch_tasks' = [prefetch_tasks EXCEPT ![key[Loop]] = None]
  /\ future' = [future EXCEPT ![i] = [NoFuture EXCEPT !.st = future[i].st]]
  /\ \/ /\ future[i].buf # None
        /\ buffer' = future[i].buf
        /\ Goto(Loop, "cb_alloc")
        /\ UNCHANGED <<key, fut, obj>>
     \/ /\ future[i].buf = None
        /\ Return(Loop)
        /\ UNCHANGED buffer
  /\ UNCHANGED <<hot_cache, ref, manager_lock>>

\* A second object for the cache, into which the buffer is copied.  Whatever
\* becomes of the callback, nobody drops the reference to the buffer.
CallbackAllocate ==
  /\ pc[Loop] = "cb_alloc"
  /\ \/ \E o \in Objs :
          /\ Allocate(o)
          /\ obj' = [obj EXCEPT ![Loop] = o]
          /\ Goto(Loop, "cb_put")
          /\ UNCHANGED <<key, fut>>
     \/ Allocate(None) /\ Return(Loop)
  /\ buffer' = None
  /\ UNCHANGED <<prefetch_tasks, manager_lock, future>>

\* submit_put_task under manager_lock: the cache takes a reference to an
\* object that already has one.
CallbackPut ==
  LET k == key[Loop]
      o == obj[Loop] IN
  /\ pc[Loop] = "cb_put" /\ LockFree
  /\ hot_cache' = [hot_cache EXCEPT ![k] = o]
  /\ ref' = [x \in Objs |-> IF x = o THEN ref[x] + 1
                            ELSE IF x = hot_cache[k] THEN ref[x] - 1
                            ELSE ref[x]]
  /\ Return(Loop)
  /\ UNCHANGED <<prefetch_tasks, manager_lock, future, buffer>>

-----------------------------------------------------------------------------
(* get, by the engine and by the server of peers.                          *)

GetBegin(t, k) ==
  /\ pc[t] = "idle" /\ LockFree
  /\ key' = [key EXCEPT ![t] = k]
  /\ fut' = [fut EXCEPT ![t] = prefetch_tasks[k]]
  /\ Goto(t, IF prefetch_tasks[k] = None THEN "search" ELSE "wait")
  /\ UNCHANGED <<tables, ref, manager_lock, future, obj, buffer>>

\* result(timeout=1): the future ends, fails, or is not done after a second.
GetWait(t) ==
  /\ pc[t] = "wait"
  /\ \/ /\ future[fut[t]].st = "done"
        /\ Goto(t, "search")
        /\ UNCHANGED <<key, fut, obj>>
     \/ /\ future[fut[t]].st \in {"failed", "running"}
        /\ Return(t)
  /\ UNCHANGED <<tables, ref, manager_lock, future, buffer>>

\* Faulty variant: the caller gets no reference of its own.
GetCachedNoRef(t) ==
  /\ pc[t] = "search" /\ hot_cache[key[t]] # None
  /\ obj' = [obj EXCEPT ![t] = hot_cache[key[t]]]
  /\ Goto(t, "use")
  /\ UNCHANGED <<tables, ref, manager_lock, future, key, fut, buffer>>

GetCached(t) ==
  /\ pc[t] = "search" /\ hot_cache[key[t]] # None
  /\ ref' = [ref EXCEPT ![hot_cache[key[t]]] = @ + 1]
  /\ obj' = [obj EXCEPT ![t] = hot_cache[key[t]]]
  /\ Goto(t, "use")
  /\ UNCHANGED <<tables, manager_lock, future, key, fut, buffer>>

\* Not cached: LocalDiskBackend.get_blocking allocates and reads.
GetFromDisk(t) ==
  /\ pc[t] = "search" /\ hot_cache[key[t]] = None
  /\ \/ \E o \in Objs :
          /\ Allocate(o)
          /\ obj' = [obj EXCEPT ![t] = o]
          /\ Goto(t, "write_back")
          /\ UNCHANGED <<key, fut>>
     \/ Allocate(None) /\ Return(t)
  /\ UNCHANGED <<prefetch_tasks, manager_lock, future, buffer>>

\* The cache shares the object, unless it has one for the key by now.
WriteBack(t) ==
  /\ pc[t] = "write_back"
  /\ IF hot_cache[key[t]] = None
     THEN /\ hot_cache' = [hot_cache EXCEPT ![key[t]] = obj[t]]
          /\ ref' = [ref EXCEPT ![obj[t]] = @ + 1]
     ELSE UNCHANGED <<hot_cache, ref>>
  /\ Goto(t, "use")
  /\ UNCHANGED <<prefetch_tasks, manager_lock, future, locals>>

\* The caller copies the chunk and drops its reference.
Use(t) ==
  /\ pc[t] = "use"
  /\ ref' = [ref EXCEPT ![obj[t]] = @ - 1]
  /\ Return(t)
  /\ UNCHANGED <<tables, manager_lock, future, buffer>>

-----------------------------------------------------------------------------
LoopStep == CallbackPop \/ CallbackAllocate \/ CallbackPut
LoadStep(i) == LoadAllocates(i) \/ LoadEnds(i)
GetStep(t) == GetWait(t) \/ GetCached(t) \/ GetFromDisk(t) \/ WriteBack(t) \/ Use(t)
PrefetchStep == PrefetchCheck \/ PrefetchSubmit \/ PrefetchRegister

Next ==
  \/ \E k \in Keys : PrefetchBegin(k)
  \/ \E t \in Getters : \E k \in Wanted[t] : GetBegin(t, k)
  \/ PrefetchStep \/ LoopStep
  \/ \E i \in Futures : LoadStep(i)
  \/ \E t \in Getters : GetStep(t)

\* The loop runs its callbacks, and between them each load goes on.  Nothing is
\* asked of the threads that prefetch and get.
Spec == /\ Init /\ [][Next]_vars
        /\ WF_vars(LoopStep)
        /\ \A i \in Futures : SF_vars(LoadStep(i))

-----------------------------------------------------------------------------
(***************************************************************************)
(* Correctness.                                                            *)
(***************************************************************************)
TypeOK ==
  /\ hot_cache \in [Keys -> Opt(Objs)]
  /\ \A j, k \in Keys : hot_cache[j] = hot_cache[k] => j = k \/ hot_cache[k] = None
  /\ ref \in [Objs -> Nat]
  /\ manager_lock \in Opt(Threads)
  /\ prefetch_tasks \in [Keys -> Opt(Futures)]
  /\ future \in [Futures -> [st : {"unused", "running", "done", "failed"},
                             key : Opt(Keys), buf : Opt(Objs), cb : BOOLEAN]]
  /\ key \in [Threads -> Opt(Keys)] /\ fut \in [Threads -> Opt(Futures)]
  /\ obj \in [Threads -> Opt(Objs)] /\ buffer \in Opt(Objs)

Holders(o) == {t \in Threads : obj[t] = o}
Cachers(o) == {k \in Keys : hot_cache[k] = o}
Loads(o)   == {i \in Futures : future[i].buf = o}
Buffers(o) == IF buffer = o THEN 1 ELSE 0

\* Everybody who uses an object has a reference to it: it is not freed, or
\* evicted, while a caller, a finished load or the callback works with it.
UsersHaveRefs ==
  \A o \in Objs : ref[o] >= Cardinality(Holders(o)) + Cardinality(Cachers(o))
                             + Cardinality(Loads(o)) + Buffers(o)

\* A task in the table is the load of its key, and it has not been answered:
\* it runs, or its callback is about to take it out, in the loop thread or, when
\* it was done before it was registered, in the engine's.
TaskIsPending ==
  \A k \in Keys : prefetch_tasks[k] # None =>
    /\ future[prefetch_tasks[k]].key = k
    /\ \/ future[prefetch_tasks[k]].st = "running"
       \/ pc[Loop] = "cb_pop" /\ fut[Loop] = prefetch_tasks[k]
       \/ pc[Engine] = "self_wait" /\ fut[Engine] = prefetch_tasks[k]

\* Every task leaves the table, so that get does not wait for it for ever,
\* unless the engine waits for itself.
TaskLeaves ==
  \A k \in Keys :
    prefetch_tasks[k] # None ~> prefetch_tasks[k] = None \/ pc[Engine] = "self_wait"

\* prefetch does not block.  Does not hold (README, section 6).
PrefetchDoesNotBlock == pc[Engine] # "self_wait"
=============================================================================
