--------------------------- MODULE LocalCPUBackend ---------------------------
(***************************************************************************)
(* LocalCPUBackend (src/MTDS/v1/storage_backend/local_cpu_backend.py): the *)
(* hot cache of KV chunks in host memory, shared by the engine's worker    *)
(* thread (store, retrieve, receive a chunk from a peer), the P2P thread   *)
(* (serve a chunk to a peer), the lookup thread of the scheduler, and the  *)
(* cache controller's thread (clear, remove).                              *)
(*                                                                         *)
(* A memory object is [valid, ref, pin] (TensorMemoryObj); all chunks have *)
(* the same size, so the allocator of MemoryAllocator.tla is a capacity.   *)
(* "short" is not in the code: it marks an object that an eviction took    *)
(* while it was pinned.  The count of such an object is one too low from   *)
(* then on, since ref_count_down did not free it and the removal of its    *)
(* key drops the reference of the cache once more.                         *)
(* cpu_lock protects the dictionary, not the objects: reference counts go  *)
(* down outside it, and eviction works in two phases, first dropping the   *)
(* cache's reference under the lock, then, after releasing it, removing    *)
(* the keys one by one.                                                    *)
(***************************************************************************)
EXTENDS Integers, Sequences, FiniteSets, SequencesExt

CONSTANTS
  Keys, Objs, Threads,
  Capacity,       \* memory objects that fit in the pinned buffer
  Ops,            \* Ops[t]: the operations thread t performs
  MaxRef,         \* no get takes a count above this (a bound)
  NoObj, NoThread

OpNames == {"store", "retrieve", "serve", "receive", "lookup", "clear", "remove"}

ASSUME CacheAssumption ==
  /\ Keys # {} /\ IsFiniteSet(Keys) /\ IsFiniteSet(Threads)
  /\ Capacity \in Nat \ {0} /\ MaxRef \in Nat \ {0}
  /\ Ops \in [Threads -> SUBSET OpNames]
  /\ NoObj \notin Objs /\ NoThread \notin Threads

VARIABLES
  hot_cache,    \* the dictionary: key -> object, or NoObj
  lru,          \* its keys in order, least recently used first
  mem,          \* the memory objects
  cpu_lock,     \* the thread that holds cpu_lock from one step to the next
  advertised,   \* keys this instance has inserted into the lookup server
  pc, op, key,  \* of each thread: where it is, its operation and argument
  held,         \* the object in its local variable memory_obj
  evict_keys,   \* the keys an eviction loop has picked
  todo          \* keys the loop has still to look at; after it, to remove

cache == <<hot_cache, lru>>
calls == <<op, key>>
vars  == <<cache, mem, cpu_lock, advertised, pc, calls, held, todo, evict_keys>>

Cached(k) == hot_cache[k] # NoObj
Valid     == {o \in Objs : mem[o].valid}

\* An identity nobody refers to stands for a new Python object.
Fresh == {o \in Objs : /\ ~mem[o].valid
                       /\ \A k \in Keys : hot_cache[k] # o
                       /\ \A t \in Threads : held[t] # o}
HasRoom(m) == Cardinality({o \in Objs : m[o].valid}) < Capacity

NewObj == [valid |-> TRUE, ref |-> 1, pin |-> FALSE, short |-> FALSE]
NoMem  == [valid |-> FALSE, ref |-> 0, pin |-> FALSE, short |-> FALSE]

\* ref_count_up, ref_count_down (which frees at zero unless pinned), pin, unpin.
RefUp(m, o)   == [m EXCEPT ![o].ref = @ + 1]
RefDown(m, o) ==
  [m EXCEPT ![o] = [valid |-> @.valid /\ (@.ref # 1 \/ @.pin),
                    ref   |-> @.ref - 1,
                    pin   |-> @.pin,
                    short |-> @.short]]
SetPin(m, o, p) == [m EXCEPT ![o].pin = p]

\* ref_count_down by an eviction, which does not look at the pin.
EvictDown(m, o) == [RefDown(m, o) EXCEPT ![o].short = @ \/ m[o].pin]

\* The order of the other keys, when k is taken out of the dictionary.
Without(s, k) ==
  IF k \in Range(s) THEN RemoveAt(s, CHOOSE i \in DOMAIN s : s[i] = k) ELSE s

Goto(t, label) == pc' = [pc EXCEPT ![t] = label]
LockFree == cpu_lock = NoThread

Init ==
  /\ hot_cache = [k \in Keys |-> NoObj] /\ lru = <<>>
  /\ mem = [o \in Objs |-> NoMem]
  /\ cpu_lock = NoThread
  /\ advertised = {}
  /\ pc = [t \in Threads |-> "idle"]
  /\ op = [t \in Threads |-> "none"]
  /\ key \in [Threads -> {CHOOSE k \in Keys : TRUE}]
  /\ held = [t \in Threads |-> NoObj]
  /\ todo = [t \in Threads |-> <<>>]
  /\ evict_keys = [t \in Threads |-> <<>>]

Start(t, o, k) ==
  /\ pc[t] = "idle" /\ o \in Ops[t]
  /\ op' = [op EXCEPT ![t] = o]
  /\ key' = [key EXCEPT ![t] = k]

-----------------------------------------------------------------------------
(* store: contains, allocate, fill, put, tell the lookup server.           *)

\* storage_manager.contains(key): what is cached is not stored again.
StoreBegin(t, k) ==
  /\ Start(t, "store", k)
  /\ LockFree /\ ~Cached(k)
  /\ Goto(t, "alloc")
  /\ UNCHANGED <<cache, mem, cpu_lock, advertised, held, todo, evict_keys>>

\* A retrieve that found nothing here waits while the P2P thread fetches the
\* chunk from a peer; receive_all_client allocates room for it.
ReceiveBegin(t, k) ==
  /\ Start(t, "receive", k)
  /\ LockFree /\ ~Cached(k)
  /\ Goto(t, "alloc")
  /\ UNCHANGED <<cache, mem, cpu_lock, advertised, held, todo, evict_keys>>

\* allocate, first attempt, before any lock is taken.
AllocFast(t) ==
  /\ pc[t] = "alloc" /\ HasRoom(mem)
  /\ \E o \in Fresh : /\ mem' = [mem EXCEPT ![o] = NewObj]
                      /\ held' = [held EXCEPT ![t] = o]
  /\ Goto(t, "fill")
  /\ UNCHANGED <<cache, cpu_lock, advertised, calls, todo, evict_keys>>

\* It failed; room that is freed from now on is not seen.
AllocFails(t) ==
  /\ pc[t] = "alloc" /\ ~HasRoom(mem)
  /\ Goto(t, "lock")
  /\ UNCHANGED <<cache, mem, cpu_lock, advertised, calls, held, todo, evict_keys>>

AllocEvict(t) ==
  /\ pc[t] = "lock"
  /\ LockFree /\ cpu_lock' = t
  /\ todo' = [todo EXCEPT ![t] = lru]
  /\ Goto(t, "evict")
  /\ UNCHANGED <<cache, mem, advertised, calls, held, evict_keys>>

\* An object in use is skipped by the eviction loop.
EvictSkip(t) ==
  /\ pc[t] = "evict" /\ todo[t] # <<>>
  /\ mem[hot_cache[Head(todo[t])]].ref > 1
  /\ todo' = [todo EXCEPT ![t] = Tail(@)]
  /\ UNCHANGED <<cache, mem, cpu_lock, advertised, pc, calls, held, evict_keys>>

\* The loop is over: the lock is released, then the picked keys are removed.
LeaveLoop(t, picked) ==
  /\ cpu_lock' = NoThread
  /\ todo' = [todo EXCEPT ![t] = picked]
  /\ Goto(t, "remove")

\* Faulty variant: an object in use is evicted too.
EvictOneInUse(t) ==
  LET k == Head(todo[t]) IN
  /\ pc[t] = "evict" /\ todo[t] # <<>>
  /\ mem' = EvictDown(mem, hot_cache[k])
  /\ evict_keys' = [evict_keys EXCEPT ![t] = Append(@, k)]
  /\ todo' = [todo EXCEPT ![t] = Tail(@)]
  /\ Goto(t, "retry")
  /\ UNCHANGED <<cache, cpu_lock, advertised, calls, held>>

\* Faulty variant: the key is not noted for removal.
EvictOneForgets(t) ==
  LET k == Head(todo[t]) IN
  /\ pc[t] = "evict" /\ todo[t] # <<>>
  /\ mem[hot_cache[k]].ref <= 1
  /\ mem' = EvictDown(mem, hot_cache[k])
  /\ todo' = [todo EXCEPT ![t] = Tail(@)]
  /\ Goto(t, "retry")
  /\ UNCHANGED <<cache, cpu_lock, advertised, calls, held, evict_keys>>

\* An iteration that evicts: the cache's reference is dropped and the key
\* noted for removal.
EvictOne(t) ==
  LET k == Head(todo[t]) IN
  /\ pc[t] = "evict" /\ todo[t] # <<>>
  /\ mem[hot_cache[k]].ref <= 1
  /\ mem' = EvictDown(mem, hot_cache[k])
  /\ evict_keys' = [evict_keys EXCEPT ![t] = Append(@, k)]
  /\ todo' = [todo EXCEPT ![t] = Tail(@)]
  /\ Goto(t, "retry")
  /\ UNCHANGED <<cache, cpu_lock, advertised, calls, held>>

\* It ends with another attempt to allocate: another thread's first attempt,
\* which takes no lock, may have got the room meanwhile.
EvictRetry(t) ==
  /\ pc[t] = "retry"
  /\ \/ /\ ~HasRoom(mem)
        /\ Goto(t, "evict")
        /\ UNCHANGED <<mem, held, cpu_lock, todo>>
     \/ /\ HasRoom(mem)
        /\ \E o \in Fresh : /\ mem' = [mem EXCEPT ![o] = NewObj]
                            /\ held' = [held EXCEPT ![t] = o]
        /\ LeaveLoop(t, evict_keys[t])
  /\ UNCHANGED <<cache, advertised, calls, evict_keys>>

EvictExhausted(t) ==
  /\ pc[t] = "evict" /\ todo[t] = <<>>
  /\ LeaveLoop(t, evict_keys[t])
  /\ UNCHANGED <<cache, mem, advertised, calls, held, evict_keys>>

\* Faulty variant: what the removal of a key popped is not let go.
RemovePickedKeeps(t) ==
  LET k == Head(todo[t]) IN
  /\ pc[t] = "remove" /\ todo[t] # <<>>
  /\ LockFree
  /\ todo' = [todo EXCEPT ![t] = Tail(@)]
  /\ hot_cache' = [hot_cache EXCEPT ![k] = NoObj]
  /\ lru' = Without(lru, k)
  /\ UNCHANGED <<mem, cpu_lock, advertised, pc, calls, held, evict_keys>>

\* remove(key): pop whatever object the key has by now and drop a reference.
RemovePicked(t) ==
  LET k == Head(todo[t]) IN
  /\ pc[t] = "remove" /\ todo[t] # <<>>
  /\ LockFree
  /\ todo' = [todo EXCEPT ![t] = Tail(@)]
  /\ IF Cached(k)
     THEN /\ mem' = RefDown(mem, hot_cache[k])
          /\ hot_cache' = [hot_cache EXCEPT ![k] = NoObj]
          /\ lru' = Without(lru, k)
     ELSE UNCHANGED <<cache, mem>>
  /\ UNCHANGED <<cpu_lock, advertised, pc, calls, held, evict_keys>>

\* lookup_server.batched_remove(evict_keys).  An allocation that found
\* nothing to evict returns None and ends the operation.
EvictDone(t) ==
  /\ pc[t] = "remove" /\ todo[t] = <<>>
  /\ advertised' = advertised \ Range(evict_keys[t])
  /\ evict_keys' = [evict_keys EXCEPT ![t] = <<>>]
  /\ Goto(t, IF held[t] = NoObj THEN "idle" ELSE "fill")
  /\ UNCHANGED <<cache, mem, cpu_lock, calls, held, todo>>

\* from_gpu copies the chunk into the object; recv_into does for a peer's
\* chunk, which the engine loads and then drops without caching it.
Fill(t) ==
  /\ pc[t] = "fill"
  /\ Goto(t, IF op[t] = "store" THEN "put" ELSE "drop")
  /\ UNCHANGED <<cache, mem, cpu_lock, advertised, calls, held, todo, evict_keys>>

\* Faulty variant: the cache takes no reference of its own.
PutNoRefUp(t) ==
  LET k == key[t] IN
  /\ pc[t] = "put" /\ LockFree
  /\ hot_cache' = [hot_cache EXCEPT ![k] = held[t]]
  /\ lru' = Append(Without(lru, k), k)
  /\ mem' = IF Cached(k) THEN RefDown(mem, hot_cache[k]) ELSE mem
  /\ Goto(t, "drop")
  /\ UNCHANGED <<cpu_lock, advertised, calls, held, todo, evict_keys>>

\* submit_put_task.  An object already under the key is replaced.
Put(t) ==
  LET k == key[t]
      m == IF Cached(k) THEN RefDown(mem, hot_cache[k]) ELSE mem IN
  /\ pc[t] = "put" /\ LockFree
  /\ hot_cache' = [hot_cache EXCEPT ![k] = held[t]]
  /\ lru' = Append(Without(lru, k), k)
  /\ mem' = RefUp(m, held[t])
  /\ Goto(t, "drop")
  /\ UNCHANGED <<cpu_lock, advertised, calls, held, todo, evict_keys>>

\* memory_obj.ref_count_down() at the end of put, retrieve and handle_client.
Drop(t) ==
  /\ pc[t] = "drop"
  /\ mem' = RefDown(mem, held[t])
  /\ held' = [held EXCEPT ![t] = NoObj]
  /\ Goto(t, CASE op[t] = "store" -> "advertise"
               [] op[t] = "serve" -> "idle"
               [] OTHER -> "unpin")
  /\ UNCHANGED <<cache, cpu_lock, advertised, calls, todo, evict_keys>>

\* lookup_server.insert(key), the last thing store does.
Advertise(t) ==
  /\ pc[t] = "advertise"
  /\ advertised' = advertised \cup {key[t]}
  /\ Goto(t, "idle")
  /\ UNCHANGED <<cache, mem, cpu_lock, calls, held, todo, evict_keys>>

-----------------------------------------------------------------------------
(* retrieve by the engine, and handle_get for a peer.                      *)

\* get_blocking: a reference for the caller, and the key becomes the newest.
Get(t, o, k) ==
  /\ Start(t, o, k) /\ o \in {"retrieve", "serve"}
  /\ LockFree /\ Cached(k) /\ mem[hot_cache[k]].ref < MaxRef
  /\ mem' = RefUp(mem, hot_cache[k])
  /\ held' = [held EXCEPT ![t] = hot_cache[k]]
  /\ lru' = Append(Without(lru, k), k)
  /\ Goto(t, "read")
  /\ UNCHANGED <<hot_cache, cpu_lock, advertised, todo, evict_keys>>

\* to_gpu and byte_array read memory_obj.tensor.
Read(t) ==
  /\ pc[t] = "read" /\ mem[held[t]].valid
  /\ Goto(t, "drop")
  /\ UNCHANGED <<cache, mem, cpu_lock, advertised, calls, held, todo, evict_keys>>

\* tensor is None for an object that was freed: the assertion that follows
\* ends the operation, and its reference is never dropped.
ReadFails(t) ==
  /\ pc[t] = "read" /\ ~mem[held[t]].valid
  /\ held' = [held EXCEPT ![t] = NoObj]
  /\ Goto(t, "idle")
  /\ UNCHANGED <<cache, mem, cpu_lock, advertised, calls, todo, evict_keys>>

\* batched_unpin([key])
Unpin(t) ==
  /\ pc[t] = "unpin" /\ LockFree
  /\ mem' = IF Cached(key[t]) THEN SetPin(mem, hot_cache[key[t]], FALSE) ELSE mem
  /\ Goto(t, "idle")
  /\ UNCHANGED <<cache, cpu_lock, advertised, calls, held, todo, evict_keys>>

-----------------------------------------------------------------------------
(* lookup by the scheduler; clear and remove by the cache controller.      *)

\* contains(key, pin=True): the lookup server of the scheduler always pins.
Lookup(t, k) ==
  /\ Start(t, "lookup", k)
  /\ LockFree /\ Cached(k)
  /\ mem' = SetPin(mem, hot_cache[k], TRUE)
  /\ UNCHANGED <<cache, cpu_lock, advertised, pc, held, todo, evict_keys>>

\* The keys of S as the dictionary has them in order.
InOrder(S) ==
  {s \in SetToSeqs(S) : \E at \in [DOMAIN s -> DOMAIN lru] :
      \A i, j \in DOMAIN s : s[i] = lru[at[i]] /\ (i < j => at[i] < at[j])}

\* clear: under the lock, drop the cache's reference to every object that
\* nobody else uses; then, as in allocate, remove the keys.
Clear(t) ==
  /\ Start(t, "clear", key[t])
  /\ LockFree
  /\ \E picked \in InOrder({k \in Range(lru) : mem[hot_cache[k]].ref <= 1}) :
        /\ mem' = [o \in Objs |->
                     IF \E k \in Range(picked) : hot_cache[k] = o
                     THEN EvictDown(mem, o)[o] ELSE mem[o]]
        /\ evict_keys' = [evict_keys EXCEPT ![t] = picked]
        /\ todo' = [todo EXCEPT ![t] = picked]
  /\ Goto(t, "remove")
  /\ UNCHANGED <<cache, cpu_lock, advertised, held>>

\* StorageManager.remove(key): one key, whoever uses it.
RemoveKey(t, k) ==
  /\ Start(t, "remove", k)
  /\ todo' = [todo EXCEPT ![t] = <<k>>]
  /\ Goto(t, "remove")
  /\ UNCHANGED <<cache, mem, cpu_lock, advertised, held, evict_keys>>

Step(t) ==
  \/ AllocFast(t) \/ AllocFails(t) \/ AllocEvict(t)
  \/ EvictSkip(t) \/ EvictOne(t) \/ EvictRetry(t) \/ EvictExhausted(t)
  \/ RemovePicked(t) \/ EvictDone(t)
  \/ Fill(t) \/ Put(t) \/ Drop(t) \/ Advertise(t)
  \/ Read(t) \/ ReadFails(t) \/ Unpin(t)

Begin(t) ==
  \/ \E k \in Keys : \/ StoreBegin(t, k) \/ ReceiveBegin(t, k)
                     \/ Lookup(t, k) \/ RemoveKey(t, k)
                     \/ \E o \in {"retrieve", "serve"} : Get(t, o, k)
  \/ Clear(t)

Next == \E t \in Threads : Step(t) \/ Begin(t)

\* A thread that is inside an operation goes on with it.
Spec == Init /\ [][Next]_vars /\ \A t \in Threads : WF_vars(Step(t))

-----------------------------------------------------------------------------
(***************************************************************************)
(* Correctness.                                                            *)
(***************************************************************************)
Labels == {"idle", "alloc", "lock", "evict", "retry", "remove", "fill", "put",
           "drop", "advertise", "read", "unpin"}

TypeOK ==
  /\ hot_cache \in [Keys -> Objs \cup {NoObj}]
  /\ lru \in Seq(Keys) /\ IsInjective(lru) /\ Range(lru) = {k \in Keys : Cached(k)}
  /\ mem \in [Objs -> [valid : BOOLEAN, ref : Int, pin : BOOLEAN, short : BOOLEAN]]
  /\ cpu_lock \in Threads \cup {NoThread}
  /\ advertised \subseteq Keys
  /\ pc \in [Threads -> Labels]
  /\ op \in [Threads -> OpNames \cup {"none"}] /\ key \in [Threads -> Keys]
  /\ held \in [Threads -> Objs \cup {NoObj}]
  /\ todo \in [Threads -> Seq(Keys)] /\ evict_keys \in [Threads -> Seq(Keys)]

Holders(o)  == {t \in Threads : held[t] = o}
KeysOf(o)   == {k \in Keys : hot_cache[k] = o}

\* Every reference is accounted for: a live object has one for each key it is
\* cached under and one for each operation that holds it.  Eviction drops the
\* reference of the cache before the key goes, which is sound only because
\* that frees the object at once: with one that was pinned it does not, and
\* such an object is left out.
RefCountExact ==
  \A o \in Valid :
    ~mem[o].short => mem[o].ref = Cardinality(KeysOf(o)) + Cardinality(Holders(o))

\* Memory that nothing refers to any more has been given back, unless it was
\* pinned when the last reference or its key went: unpin finds it by its key.
NoLeak ==
  \A o \in Valid :
    KeysOf(o) # {} \/ Holders(o) # {} \/ mem[o].pin \/ mem[o].short

\* An object is never freed while an operation of any thread holds it, if no
\* eviction took it while it was pinned.
HeldIsNotFreed ==
  [][\A t \in Threads, o \in Objs :
       held[t] = o /\ mem[o].valid /\ ~mem[o].short /\ ~mem'[o].valid
         => held'[t] # o]_vars

\* Keys that thread t has picked for eviction and not removed yet.
Picked(t) ==
  IF pc[t] \in {"evict", "retry"} THEN Range(evict_keys[t])
  ELSE IF pc[t] = "remove" THEN Range(todo[t]) ELSE {}

\* A key that leads to a freed object is about to be removed by the thread
\* that freed it.
StaleKey(k) == Cached(k) /\ ~mem[hot_cache[k]].valid
StaleEntryIsPending ==
  \A k \in Keys : StaleKey(k) => \E t \in Threads : k \in Picked(t)

\* ... and it does go away.
StaleEntryLeaves == \A k \in Keys : StaleKey(k) ~> ~StaleKey(k)

\* "Pin the memory obj so that it will not be evicted" (memory_management.py):
\* no thread picks the key of a pinned object.  Does not hold: allocate and
\* clear look at the reference count only (README, section 6).
PinnedNotEvicted ==
  [][\A t \in Threads, k \in Keys :
       Cached(k) /\ mem[hot_cache[k]].pin /\ k \notin Picked(t) => k \notin Picked(t)']_vars

\* What a caller got from the cache or the allocator is live until it lets go.
\* Does not hold (README, section 6).
HeldIsLive == \A t \in Threads : held[t] # NoObj => mem[held[t]].valid

\* The lookup server knows of no chunk that is gone, except while the thread
\* that removed it is about to tell it.
AdvertisedIsCached ==
  \A k \in advertised :
    Cached(k) \/ \E t \in Threads : k \in Range(evict_keys[t])
=============================================================================
