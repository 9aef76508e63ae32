----------------------- MODULE LocalCPUBackend_proofs -----------------------
(***************************************************************************)
(* Proofs about LocalCPUBackend, for any number of threads, keys and       *)
(* objects: a key that leads to a freed object is one that some thread is  *)
(* about to remove, and for every object that no eviction took while it    *)
(* was pinned, the reference count is exact and the memory is freed when,  *)
(* and only when, nobody refers to it.  None of it rests on cpu_lock: what *)
(* two threads do at once to the dictionary and to the counts stays exact  *)
(* without it.                                                             *)
(***************************************************************************)
EXTENDS LocalCPUBackend, CollectionLemmas

\* An operation has an object exactly while it works on one.
Holding ==
  \A t \in Threads :
    /\ pc[t] \in {"fill", "put", "drop", "read"} => held[t] # NoObj
    /\ pc[t] \in {"idle", "alloc", "lock", "evict", "retry", "advertise", "unpin"}
         => held[t] = NoObj

\* Thread t is between allocating its object and caching it.
Owns(t) == pc[t] \in {"fill", "put"} \/ (pc[t] = "remove" /\ held[t] # NoObj)

\* That object is live, and nobody else's yet: no eviction can have met it.
OwnObject ==
  \A t \in Threads : Owns(t) =>
    /\ held[t] \in Valid /\ ~mem[held[t]].short /\ KeysOf(held[t]) = {} /\ Holders(held[t]) = {t}

\* A count of zero frees what is not pinned.
LiveHasRef == \A o \in Valid : ~mem[o].short => mem[o].ref > 0 \/ mem[o].pin

\* The counts, and what there is to count.
Counts == LiveHasRef /\ RefCountExact

\* The object of key k was freed, or taken by an eviction while it was pinned.
Doomed(k) == Cached(k) /\ (~mem[hot_cache[k]].valid \/ mem[hot_cache[k]].short)

\* Such a key is about to be removed: so an object whose count is short may be
\* freed by whoever lets go of it, and its key is still one that leaves.
DoomedIsPending ==
  \A k \in Keys : Doomed(k) => \E t \in Threads : k \in Picked(t)

IInv == TypeOK /\ Holding /\ OwnObject /\ Counts /\ DoomedIsPending

-----------------------------------------------------------------------------
(* The operators of the model.                                             *)

Records == [valid : BOOLEAN, ref : Int, pin : BOOLEAN, short : BOOLEAN]
MemTypes == [Objs -> Records]

LEMMA Names ==
  /\ Keys # {} /\ IsFiniteSet(Keys) /\ IsFiniteSet(Threads)
  /\ NoObj \notin Objs /\ NoThread \notin Threads
  /\ \A t \in Threads : Ops[t] \subseteq OpNames
BY CacheAssumption

\* What ref_count_down does to each object: it frees at the last reference.
LEMMA RefDownFacts ==
  ASSUME NEW m \in MemTypes, NEW o
  PROVE  /\ RefDown(m, o) \in MemTypes
         /\ \A x \in Objs :
              /\ RefDown(m, o)[x].pin = m[x].pin /\ RefDown(m, o)[x].short = m[x].short
              /\ RefDown(m, o)[x].ref = m[x].ref - Same(x, o)
              /\ RefDown(m, o)[x].valid
                   <=> m[x].valid /\ (x # o \/ m[x].ref # 1 \/ m[x].pin)
              /\ x # o => RefDown(m, o)[x] = m[x]
<1> DEFINE r == [valid |-> m[o].valid /\ (m[o].ref # 1 \/ m[o].pin),
                 ref |-> m[o].ref - 1, pin |-> m[o].pin, short |-> m[o].short]
<1>1. RefDown(m, o) = [x \in Objs |-> IF x = o THEN r ELSE m[x]]
  BY DEF RefDown, MemTypes
<1>2. /\ \A x \in Objs : m[x] \in Records
      /\ o \in Objs => r \in Records
  BY DEF MemTypes, Records
<1>3. RefDown(m, o) \in MemTypes
  BY <1>1, <1>2 DEF MemTypes
<1>4. ASSUME NEW x \in Objs, x = o
      PROVE  /\ RefDown(m, o)[x].pin = m[x].pin /\ RefDown(m, o)[x].short = m[x].short
             /\ RefDown(m, o)[x].ref = m[x].ref - Same(x, o)
             /\ RefDown(m, o)[x].valid
                  <=> m[x].valid /\ (x # o \/ m[x].ref # 1 \/ m[x].pin)
  <2>1. RefDown(m, o)[x] = r
    BY <1>1, <1>4
  <2>2. r.pin = m[x].pin /\ r.short = m[x].short /\ r.ref = m[x].ref - Same(x, o)
    BY <1>4 DEF Same
  <2>3. r.valid <=> m[x].valid /\ (m[x].ref # 1 \/ m[x].pin)
    BY <1>4
  <2> HIDE DEF r
  <2> QED
    BY <1>4, <2>1, <2>2, <2>3
<1>5. ASSUME NEW x \in Objs, x # o
      PROVE  /\ RefDown(m, o)[x] = m[x]
             /\ m[x].ref = m[x].ref - Same(x, o)
  BY <1>1, <1>2, <1>5 DEF Same, Records
<1> QED
  BY <1>3, <1>4, <1>5

\* ref_count_up.
LEMMA RefUpFacts ==
  ASSUME NEW m \in MemTypes, NEW o
  PROVE  /\ RefUp(m, o) \in MemTypes
         /\ \A x \in Objs :
              /\ RefUp(m, o)[x].pin = m[x].pin /\ RefUp(m, o)[x].short = m[x].short
              /\ RefUp(m, o)[x].ref = m[x].ref + Same(x, o)
              /\ RefUp(m, o)[x].valid = m[x].valid
<1> DEFINE r == [m[o] EXCEPT !.ref = m[o].ref + 1]
<1>1. RefUp(m, o) = [x \in Objs |-> IF x = o THEN r ELSE m[x]]
  BY DEF RefUp, MemTypes
<1>2. /\ \A x \in Objs : m[x] \in Records
      /\ o \in Objs => /\ r \in Records /\ r.valid = m[o].valid
                       /\ r.pin = m[o].pin /\ r.short = m[o].short /\ r.ref = m[o].ref + 1
  BY DEF MemTypes, Records
<1>3. RefUp(m, o) \in MemTypes
  BY <1>1, <1>2 DEF MemTypes
<1>4. ASSUME NEW x \in Objs
      PROVE  /\ RefUp(m, o)[x].pin = m[x].pin /\ RefUp(m, o)[x].short = m[x].short
             /\ RefUp(m, o)[x].ref = m[x].ref + Same(x, o)
             /\ RefUp(m, o)[x].valid = m[x].valid
  BY <1>1, <1>2 DEF Same, Records
<1> QED
  BY <1>3, <1>4

\* ref_count_down by an eviction: a live object with an exact count stays live
\* only if it was pinned, and then its count is short.
LEMMA EvictDownFacts ==
  ASSUME NEW m \in MemTypes, NEW o
  PROVE  /\ EvictDown(m, o) \in MemTypes
         /\ \A x \in Objs :
              /\ EvictDown(m, o)[x].valid
                   <=> m[x].valid /\ (x # o \/ m[x].ref # 1 \/ m[x].pin)
              /\ EvictDown(m, o)[x].short <=> m[x].short \/ (x = o /\ m[x].pin)
              /\ x # o => EvictDown(m, o)[x] = m[x]
<1> DEFINE d == RefDown(m, o)
           r == [d[o] EXCEPT !.short = d[o].short \/ m[o].pin]
<1>1. /\ d \in MemTypes
      /\ \A x \in Objs :
           /\ d[x].short = m[x].short
           /\ d[x].valid <=> m[x].valid /\ (x # o \/ m[x].ref # 1 \/ m[x].pin)
           /\ x # o => d[x] = m[x]
  BY RefDownFacts
<1>2. EvictDown(m, o) = [d EXCEPT ![o] = r]
  BY DEF EvictDown
<1> HIDE DEF d
<1>3. EvictDown(m, o) = [x \in Objs |-> IF x = o THEN r ELSE d[x]]
  BY <1>1, <1>2 DEF MemTypes
<1>4. /\ \A x \in Objs : d[x] \in Records /\ m[x] \in Records
      /\ o \in Objs => r \in Records /\ r.valid = d[o].valid /\ (r.short <=> d[o].short \/ m[o].pin)
  BY <1>1 DEF MemTypes, Records
<1> HIDE DEF r
<1>5. EvictDown(m, o) \in MemTypes
  BY <1>3, <1>4 DEF MemTypes
<1>6. ASSUME NEW x \in Objs, x # o
      PROVE  /\ EvictDown(m, o)[x] = m[x]
             /\ EvictDown(m, o)[x].valid <=> m[x].valid /\ (x # o \/ m[x].ref # 1 \/ m[x].pin)
             /\ EvictDown(m, o)[x].short <=> m[x].short \/ (x = o /\ m[x].pin)
  <2>1. EvictDown(m, o)[x] = m[x]
    BY <1>1, <1>3, <1>6
  <2> QED
    BY <1>4, <1>6, <2>1 DEF Records
<1>7. ASSUME NEW x \in Objs, x = o
      PROVE  /\ EvictDown(m, o)[x].valid <=> m[x].valid /\ (x # o \/ m[x].ref # 1 \/ m[x].pin)
             /\ EvictDown(m, o)[x].short <=> m[x].short \/ (x = o /\ m[x].pin)
  <2>1. EvictDown(m, o)[x] = r
    BY <1>3, <1>7
  <2> QED
    BY <1>1, <1>4, <1>7, <2>1
<1> QED
  BY <1>5, <1>6, <1>7

\* pin and unpin change nothing else.
LEMMA SetPinFacts ==
  ASSUME NEW m \in MemTypes, NEW o, NEW p \in BOOLEAN
  PROVE  /\ SetPin(m, o, p) \in MemTypes
         /\ \A x \in Objs :
              /\ SetPin(m, o, p)[x].valid = m[x].valid
              /\ SetPin(m, o, p)[x].short = m[x].short
              /\ SetPin(m, o, p)[x].ref = m[x].ref
              /\ x # o => SetPin(m, o, p)[x] = m[x]
<1> DEFINE r == [m[o] EXCEPT !.pin = p]
<1>1. SetPin(m, o, p) = [x \in Objs |-> IF x = o THEN r ELSE m[x]]
  BY DEF SetPin, MemTypes
<1>2. /\ \A x \in Objs : m[x] \in Records
      /\ o \in Objs => /\ r \in Records /\ r.valid = m[o].valid
                       /\ r.short = m[o].short /\ r.ref = m[o].ref
  BY DEF MemTypes, Records
<1> HIDE DEF r
<1>3. SetPin(m, o, p) \in MemTypes
  BY <1>1, <1>2 DEF MemTypes
<1> QED
  BY <1>1, <1>2, <1>3

\* What the next order of the dictionary is made of.
LEMMA WithoutFacts ==
  ASSUME NEW s \in Seq(Keys), IsInjective(s), NEW k \in Keys
  PROVE  /\ Without(s, k) \in Seq(Keys) /\ IsInjective(Without(s, k))
         /\ Range(Without(s, k)) = Range(s) \ {k}
BY DropElement DEF Without

\* k becomes the newest key.
LEMMA NewestFacts ==
  ASSUME NEW s \in Seq(Keys), IsInjective(s), NEW k \in Keys
  PROVE  /\ Append(Without(s, k), k) \in Seq(Keys)
         /\ IsInjective(Append(Without(s, k), k))
         /\ Range(Append(Without(s, k), k)) = Range(s) \cup {k}
<1>1. /\ Without(s, k) \in Seq(Keys) /\ IsInjective(Without(s, k))
      /\ Range(Without(s, k)) = Range(s) \ {k}
  BY WithoutFacts
<1>2. k \notin Range(Without(s, k))
  BY <1>1
<1> QED
  BY <1>1, <1>2, RangeAppend, AppendInjectiveSeq

\* The keys clear picks are all those it means to.
LEMMA InOrderFacts ==
  ASSUME NEW S, S \subseteq Keys, NEW s \in InOrder(S)
  PROVE  s \in Seq(Keys) /\ Range(s) = S
<1>1. IsFiniteSet(S) /\ s \in SetToSeqs(S)
  BY Names, FS_Subset DEF InOrder
<1>2. s \in Seq(S) /\ Range(s) = S
  BY <1>1, EnumerationIsAll
<1> QED
  BY <1>2, SeqMonotonic

\* The references an object has, from the dictionary and from the operations.
LEMMA KeyMoves ==
  ASSUME NEW k \in Keys, NEW x, NEW o,
         hot_cache'[k] = x, \A e \in Keys : e # k => hot_cache'[e] = hot_cache[e]
  PROVE  Cardinality(KeysOf(o)')
           = Cardinality(KeysOf(o)) + Same(x, o) - Same(hot_cache[k], o)
<1>1. /\ KeysOf(o) = Preimage(hot_cache, Keys, o)
      /\ KeysOf(o)' = Preimage(hot_cache', Keys, o)
  BY DEF KeysOf, Preimage
<1>2. Cardinality(Preimage(hot_cache', Keys, o))
        = Cardinality(Preimage(hot_cache, Keys, o)) + Same(x, o) - Same(hot_cache[k], o)
  BY Names, CountUpdate
<1> QED
  BY <1>1, <1>2

LEMMA HandMoves ==
  ASSUME NEW t \in Threads, NEW x, NEW o,
         held'[t] = x, \A e \in Threads : e # t => held'[e] = held[e]
  PROVE  Cardinality(Holders(o)')
           = Cardinality(Holders(o)) + Same(x, o) - Same(held[t], o)
<1>1. /\ Holders(o) = Preimage(held, Threads, o)
      /\ Holders(o)' = Preimage(held', Threads, o)
  BY DEF Holders, Preimage
<1>2. Cardinality(Preimage(held', Threads, o))
        = Cardinality(Preimage(held, Threads, o)) + Same(x, o) - Same(held[t], o)
  BY Names, CountUpdate
<1> QED
  BY <1>1, <1>2

LEMMA CountsAreNat ==
  ASSUME NEW o
  PROVE  /\ IsFiniteSet(KeysOf(o)) /\ Cardinality(KeysOf(o)) \in Nat
         /\ IsFiniteSet(Holders(o)) /\ Cardinality(Holders(o)) \in Nat
<1>1. KeysOf(o) \in SUBSET Keys /\ Holders(o) \in SUBSET Threads
  BY DEF KeysOf, Holders
<1> QED
  BY <1>1, Names, FS_Subset, FS_CardinalityType

\* Who has the last reference to a live object has the only one.
LEMMA LastRefOfCache ==
  ASSUME TypeOK, Counts, NEW k \in Keys, NEW o \in Valid,
         hot_cache[k] = o, ~mem[o].short, mem[o].ref <= 1
  PROVE  mem[o].ref = 1 /\ KeysOf(o) = {k} /\ Holders(o) = {}
<1>1. /\ o \in Objs /\ mem[o].ref \in Int
      /\ mem[o].ref = Cardinality(KeysOf(o)) + Cardinality(Holders(o))
  BY DEF TypeOK, Counts, RefCountExact, Valid
<1>2. k \in KeysOf(o) /\ KeysOf(o) # {}
  BY DEF KeysOf
<1>3. Cardinality(KeysOf(o)) # 0
  BY <1>2, CountsAreNat, FS_EmptySet
<1>4. mem[o].ref = 1 /\ Cardinality(KeysOf(o)) = 1 /\ Cardinality(Holders(o)) = 0
  BY <1>1, <1>3, CountsAreNat
<1>5. Holders(o) = {}
  BY <1>4, CountsAreNat, FS_EmptySet
<1>6. \A e \in KeysOf(o) : e = k
  BY <1>2, <1>4, CountsAreNat, TwoElements
<1> QED
  BY <1>2, <1>4, <1>5, <1>6

LEMMA LastRefOfHolder ==
  ASSUME TypeOK, Counts, NEW t \in Threads, NEW o \in Valid,
         held[t] = o, ~mem[o].short, mem[o].ref <= 1
  PROVE  mem[o].ref = 1 /\ Holders(o) = {t} /\ KeysOf(o) = {}
<1>1. /\ o \in Objs /\ mem[o].ref \in Int
      /\ mem[o].ref = Cardinality(KeysOf(o)) + Cardinality(Holders(o))
  BY DEF TypeOK, Counts, RefCountExact, Valid
<1>2. t \in Holders(o) /\ Holders(o) # {}
  BY DEF Holders
<1>3. Cardinality(Holders(o)) # 0
  BY <1>2, CountsAreNat, FS_EmptySet
<1>4. mem[o].ref = 1 /\ Cardinality(Holders(o)) = 1 /\ Cardinality(KeysOf(o)) = 0
  BY <1>1, <1>3, CountsAreNat
<1>5. KeysOf(o) = {}
  BY <1>4, CountsAreNat, FS_EmptySet
<1>6. \A e \in Holders(o) : e = t
  BY <1>2, <1>4, CountsAreNat, TwoElements
<1> QED
  BY <1>2, <1>4, <1>5, <1>6

-----------------------------------------------------------------------------
(* Types.                                                                  *)

LEMMA InitTypes == Init => TypeOK
<1> SUFFICES ASSUME Init PROVE TypeOK
  OBVIOUS
<1>1. lru \in Seq(Keys) /\ IsInjective(lru) /\ Range(lru) = {}
  BY RangeEmpty DEF Init
<1>2. Range(lru) = {k \in Keys : Cached(k)}
  BY <1>1 DEF Init, Cached
<1>3. (CHOOSE k \in Keys : TRUE) \in Keys
  BY Names
<1> QED
  BY <1>1, <1>2, <1>3 DEF Init, TypeOK, NoMem, OpNames, Labels

\* The order of the keys follows the dictionary.
OrderOK == /\ lru \in Seq(Keys) /\ IsInjective(lru)
           /\ Range(lru) = {k \in Keys : Cached(k)}

LEMMA KeyGoes ==
  ASSUME TypeOK, NEW k \in Keys,
         hot_cache' = [hot_cache EXCEPT ![k] = NoObj], lru' = Without(lru, k)
  PROVE  OrderOK'
<1>1. lru \in Seq(Keys) /\ IsInjective(lru) /\ Range(lru) = {e \in Keys : Cached(e)}
  BY DEF TypeOK
<1>2. /\ Without(lru, k) \in Seq(Keys) /\ IsInjective(Without(lru, k))
      /\ Range(Without(lru, k)) = Range(lru) \ {k}
  BY <1>1, WithoutFacts
<1>3. {e \in Keys : Cached(e)'} = {e \in Keys : Cached(e)} \ {k}
  BY DEF Cached, TypeOK
<1> QED
  BY <1>1, <1>2, <1>3 DEF OrderOK

LEMMA KeyIsNewest ==
  ASSUME TypeOK, NEW k \in Keys, NEW o \in Objs,
         hot_cache' = [hot_cache EXCEPT ![k] = o],
         lru' = Append(Without(lru, k), k)
  PROVE  OrderOK'
<1>1. lru \in Seq(Keys) /\ IsInjective(lru) /\ Range(lru) = {e \in Keys : Cached(e)}
  BY DEF TypeOK
<1>2. /\ Append(Without(lru, k), k) \in Seq(Keys)
      /\ IsInjective(Append(Without(lru, k), k))
      /\ Range(Append(Without(lru, k), k)) = Range(lru) \cup {k}
  BY <1>1, NewestFacts
<1>3. {e \in Keys : Cached(e)'} = {e \in Keys : Cached(e)} \cup {k}
  BY Names DEF Cached, TypeOK
<1> QED
  BY <1>1, <1>2, <1>3 DEF OrderOK

\* TypeOK in two parts: the store, and the threads.
StoreTypes ==
  /\ hot_cache \in [Keys -> Objs \cup {NoObj}] /\ OrderOK
  /\ mem \in MemTypes
  /\ held \in [Threads -> Objs \cup {NoObj}]

ThreadTypes ==
  /\ cpu_lock \in Threads \cup {NoThread}
  /\ advertised \subseteq Keys
  /\ pc \in [Threads -> Labels]
  /\ op \in [Threads -> OpNames \cup {"none"}] /\ key \in [Threads -> Keys]
  /\ todo \in [Threads -> Seq(Keys)] /\ evict_keys \in [Threads -> Seq(Keys)]

LEMMA TwoParts == /\ TypeOK <=> StoreTypes /\ ThreadTypes
                  /\ TypeOK' <=> StoreTypes' /\ ThreadTypes'
BY DEF TypeOK, StoreTypes, ThreadTypes, OrderOK, MemTypes, Records

LEMMA MemFacts ==
  ASSUME TypeOK, NEW o
  PROVE  /\ mem \in MemTypes
         /\ RefDown(mem, o) \in MemTypes
         /\ RefUp(mem, o) \in MemTypes
         /\ EvictDown(mem, o) \in MemTypes
         /\ \A p \in BOOLEAN : SetPin(mem, o, p) \in MemTypes
<1>1. mem \in MemTypes
  BY TwoParts DEF StoreTypes
<1> QED
  BY <1>1, RefDownFacts, RefUpFacts, EvictDownFacts, SetPinFacts

LEMMA NewObjFacts ==
  ASSUME NEW m \in MemTypes, NEW o \in Objs
  PROVE  /\ [m EXCEPT ![o] = NewObj] \in MemTypes
         /\ [m EXCEPT ![o] = NewObj][o] = NewObj
         /\ \A x \in Objs : x # o => [m EXCEPT ![o] = NewObj][x] = m[x]
BY DEF MemTypes, Records, NewObj

\* Every step respects the types of the threads' own variables ...
LEMMA ThreadTypesStep == TypeOK /\ [Next]_vars => ThreadTypes'
<1> SUFFICES ASSUME TypeOK, ThreadTypes, [Next]_vars PROVE ThreadTypes'
  BY TwoParts
<1> USE DEF Goto, Start, calls, Labels, OpNames, ThreadTypes
<1>1. ASSUME NEW t \in Threads, NEW k \in Keys,
             StoreBegin(t, k) \/ ReceiveBegin(t, k)
      PROVE  ThreadTypes'
  <2>1. CASE StoreBegin(t, k)
    BY <2>1 DEF StoreBegin
  <2>2. CASE ReceiveBegin(t, k)
    BY <2>2 DEF ReceiveBegin
  <2> QED
    BY <1>1, <2>1, <2>2
<1>2. ASSUME NEW t \in Threads, AllocFast(t) PROVE ThreadTypes'
  BY <1>2 DEF AllocFast
<1>3. ASSUME NEW t \in Threads, AllocFails(t) \/ AllocEvict(t) PROVE ThreadTypes'
  <2>1. CASE AllocFails(t)
    BY <2>1 DEF AllocFails
  <2>2. CASE AllocEvict(t)
    <3>1. lru \in Seq(Keys)
      BY DEF TypeOK
    <3> QED
      BY <2>2, <3>1 DEF AllocEvict
  <2> QED
    BY <1>3, <2>1, <2>2
<1>4. ASSUME NEW t \in Threads, EvictSkip(t) PROVE ThreadTypes'
  <2>1. Tail(todo[t]) \in Seq(Keys)
    BY <1>4, RangeTail DEF EvictSkip
  <2> QED
    BY <1>4, <2>1 DEF EvictSkip
<1>5. ASSUME NEW t \in Threads, EvictOne(t) PROVE ThreadTypes'
  <2>1. Tail(todo[t]) \in Seq(Keys) /\ Head(todo[t]) \in Keys
    BY <1>5, RangeTail DEF EvictOne
  <2>2. Append(evict_keys[t], Head(todo[t])) \in Seq(Keys)
    BY <2>1, AppendProperties
  <2> QED
    BY <1>5, <2>1, <2>2 DEF EvictOne
<1>6. ASSUME NEW t \in Threads, EvictExhausted(t) \/ EvictRetry(t) PROVE ThreadTypes'
  <2>1. evict_keys[t] \in Seq(Keys)
    OBVIOUS
  <2> QED
    BY <1>6, <2>1 DEF EvictExhausted, EvictRetry, LeaveLoop
<1>7. ASSUME NEW t \in Threads, RemovePicked(t) PROVE ThreadTypes'
  <2>1. Tail(todo[t]) \in Seq(Keys)
    BY <1>7, RangeTail DEF RemovePicked
  <2> QED
    BY <1>7, <2>1 DEF RemovePicked
<1>8. ASSUME NEW t \in Threads, EvictDone(t) PROVE ThreadTypes'
  <2>1. <<>> \in Seq(Keys)
    BY EmptySeq
  <2> QED
    BY <1>8, <2>1 DEF EvictDone
<1>9. ASSUME NEW t \in Threads, Fill(t) \/ Advertise(t) \/ Read(t) PROVE ThreadTypes'
  BY ZenonT(30), <1>9 DEF Fill, Advertise, Read
<1>10. ASSUME NEW t \in Threads, Put(t) PROVE ThreadTypes'
  BY <1>10 DEF Put
<1>11. ASSUME NEW t \in Threads, Drop(t) \/ ReadFails(t) PROVE ThreadTypes'
  BY <1>11 DEF Drop, ReadFails
<1>12. ASSUME NEW t \in Threads, Unpin(t) PROVE ThreadTypes'
  BY <1>12 DEF Unpin
<1>13. ASSUME NEW t \in Threads, NEW k \in Keys, Lookup(t, k) PROVE ThreadTypes'
  BY <1>13 DEF Lookup
<1>14. ASSUME NEW t \in Threads, NEW k \in Keys,
              NEW o \in {"retrieve", "serve"}, Get(t, o, k)
       PROVE  ThreadTypes'
  BY <1>14 DEF Get
<1>15. ASSUME NEW t \in Threads, Clear(t) PROVE ThreadTypes'
  <2>1. Range(lru) \subseteq Keys
    BY RangeOfSeq DEF TypeOK
  <2>2. PICK picked \in InOrder({k \in Range(lru) : mem[hot_cache[k]].ref <= 1}) :
          /\ evict_keys' = [evict_keys EXCEPT ![t] = picked]
          /\ todo' = [todo EXCEPT ![t] = picked]
    BY <1>15 DEF Clear
  <2>3. picked \in Seq(Keys)
    BY <2>1, <2>2, InOrderFacts
  <2> QED
    BY <1>15, <2>2, <2>3 DEF Clear
<1>16. ASSUME NEW t \in Threads, NEW k \in Keys, RemoveKey(t, k) PROVE ThreadTypes'
  BY <1>16 DEF RemoveKey
<1>17. CASE UNCHANGED vars
  BY <1>17 DEF vars
<1> QED
  BY <1>1, <1>2, <1>3, <1>4, <1>5, <1>6, <1>7, <1>8, <1>9, <1>10, <1>11,
     <1>12, <1>13, <1>14, <1>15, <1>16, <1>17 DEF Next, Step, Begin

\* ... and those of the store.
LEMMA CacheStays ==
  ASSUME StoreTypes, UNCHANGED cache, mem' \in MemTypes,
         held' \in [Threads -> Objs \cup {NoObj}]
  PROVE  StoreTypes'
BY DEF StoreTypes, OrderOK, cache, Cached

\* Most steps leave dictionary, objects and local variables as they are.
Quiet(t) ==
  \/ \E k \in Keys : StoreBegin(t, k) \/ ReceiveBegin(t, k) \/ RemoveKey(t, k)
  \/ AllocFails(t) \/ AllocEvict(t) \/ EvictSkip(t) \/ EvictExhausted(t) \/ EvictDone(t)
  \/ EvictRetry(t) /\ ~HasRoom(mem)
  \/ Fill(t) \/ Advertise(t) \/ Read(t)

LEMMA QuietSteps ==
  ASSUME NEW t \in Threads, Quiet(t)
  PROVE  UNCHANGED <<cache, mem, held>>
<1>1. ASSUME NEW k \in Keys, StoreBegin(t, k) \/ ReceiveBegin(t, k) \/ RemoveKey(t, k)
      PROVE  UNCHANGED <<cache, mem, held>>
  BY <1>1 DEF StoreBegin, ReceiveBegin, RemoveKey, cache
<1>2. CASE AllocFails(t) \/ AllocEvict(t) \/ EvictSkip(t) \/ EvictExhausted(t) \/ EvictDone(t)
  BY <1>2 DEF AllocFails, AllocEvict, EvictSkip, EvictExhausted, EvictDone, cache
<1>3. CASE Fill(t) \/ Advertise(t) \/ Read(t)
  BY <1>3 DEF Fill, Advertise, Read, cache
<1>4. CASE EvictRetry(t) /\ ~HasRoom(mem)
  BY <1>4 DEF EvictRetry, cache
<1> QED
  BY <1>1, <1>2, <1>3, <1>4 DEF Quiet

\* Some only pin or unpin the object of a key.
Pins(t) == Unpin(t) \/ \E k \in Keys : Lookup(t, k)

LEMMA PinSteps ==
  ASSUME TypeOK, NEW t \in Threads, Pins(t)
  PROVE  /\ UNCHANGED <<cache, held>>
         /\ \/ mem' = mem
            \/ \E k \in Keys, p \in BOOLEAN : Cached(k) /\ mem' = SetPin(mem, hot_cache[k], p)
<1>1. CASE Unpin(t)
  <2>1. key[t] \in Keys /\ FALSE \in BOOLEAN
    BY DEF TypeOK
  <2> QED
    BY <1>1, <2>1 DEF Unpin, cache
<1>2. ASSUME NEW k \in Keys, Lookup(t, k)
      PROVE  UNCHANGED <<cache, held>> /\ Cached(k) /\ mem' = SetPin(mem, hot_cache[k], TRUE)
  BY <1>2 DEF Lookup, cache
<1> QED
  BY <1>1, <1>2 DEF Pins

\* ... which is no matter for validity, counts and short counts.
LEMMA PinsOnly ==
  ASSUME TypeOK, NEW t \in Threads, Pins(t)
  PROVE  /\ mem' \in MemTypes
         /\ \A x \in Objs :
              /\ mem'[x].valid = mem[x].valid /\ mem'[x].short = mem[x].short
              /\ mem'[x].ref = mem[x].ref
              /\ (\A k \in Keys : hot_cache[k] # x) => mem'[x] = mem[x]
<1>1. mem \in MemTypes
  BY MemFacts
<1>2. CASE mem' = mem
  BY <1>1, <1>2
<1>3. ASSUME NEW k \in Keys, NEW p \in BOOLEAN, mem' = SetPin(mem, hot_cache[k], p)
      PROVE  /\ mem' \in MemTypes
             /\ \A x \in Objs :
                  /\ mem'[x].valid = mem[x].valid /\ mem'[x].short = mem[x].short
                  /\ mem'[x].ref = mem[x].ref
                  /\ (\A e \in Keys : hot_cache[e] # x) => mem'[x] = mem[x]
  BY <1>1, <1>3, SetPinFacts
<1> QED
  BY <1>2, <1>3, PinSteps

\* Two steps take a new object.
Takes(t) == AllocFast(t) \/ (EvictRetry(t) /\ HasRoom(mem))

LEMMA TakeSteps ==
  ASSUME NEW t \in Threads, Takes(t)
  PROVE  /\ UNCHANGED cache /\ pc[t] \in {"alloc", "retry"}
         /\ \E o \in Fresh : mem' = [mem EXCEPT ![o] = NewObj] /\ held' = [held EXCEPT ![t] = o]
BY DEF Takes, AllocFast, EvictRetry, cache

\* The other steps.
Active(t) ==
  \/ Takes(t) \/ EvictOne(t) \/ RemovePicked(t) \/ Put(t) \/ Drop(t)
  \/ ReadFails(t) \/ Clear(t)
  \/ \E k \in Keys, o \in {"retrieve", "serve"} : Get(t, o, k)

LEMMA QuietOrActive ==
  [Next]_vars => (\E t \in Threads : Quiet(t) \/ Pins(t) \/ Active(t)) \/ UNCHANGED vars
BY DEF Next, Step, Begin, Quiet, Pins, Takes, Active

\* What the loop of an eviction looks at.
LEMMA HeadOfTodo ==
  ASSUME TypeOK, NEW t \in Threads, todo[t] # <<>>
  PROVE  /\ Head(todo[t]) \in Keys /\ Head(todo[t]) \in Range(todo[t])
         /\ Tail(todo[t]) \in Seq(Keys)
         /\ Range(todo[t]) = Range(Tail(todo[t])) \cup {Head(todo[t])}
<1>1. todo[t] \in Seq(Keys)
  BY DEF TypeOK
<1> QED
  BY <1>1, RangeTail

LEMMA StoreTypesStep ==
  ASSUME TypeOK, Holding, [Next]_vars
  PROVE  StoreTypes'
<1> USE DEF cache
<1>0. StoreTypes /\ ThreadTypes
  BY TwoParts
<1>1. ASSUME NEW t \in Threads, Quiet(t) PROVE StoreTypes'
  <2>1. UNCHANGED <<cache, mem, held>>
    BY <1>1, QuietSteps
  <2> QED
    BY <1>0, <2>1, CacheStays DEF StoreTypes
<1>p. ASSUME NEW t \in Threads, Pins(t) PROVE StoreTypes'
  <2>1. UNCHANGED <<cache, held>> /\ mem' \in MemTypes
    BY <1>p, PinSteps, PinsOnly
  <2> QED
    BY <1>0, <2>1, CacheStays DEF StoreTypes
<1>2. ASSUME NEW t \in Threads, Takes(t) PROVE StoreTypes'
  <2>1. PICK o \in Objs : mem' = [mem EXCEPT ![o] = NewObj] /\ held' = [held EXCEPT ![t] = o]
    BY <1>2, TakeSteps DEF Fresh
  <2>2. mem' \in MemTypes
    BY <2>1, MemFacts, NewObjFacts
  <2>3. UNCHANGED cache
    BY <1>2, TakeSteps
  <2> QED
    BY <1>0, <2>1, <2>2, <2>3, CacheStays DEF StoreTypes
<1>3. ASSUME NEW t \in Threads, EvictOne(t) PROVE StoreTypes'
  <2>1. mem' \in MemTypes /\ UNCHANGED <<cache, held>>
    BY <1>3, MemFacts DEF EvictOne
  <2> QED
    BY <1>0, <2>1, CacheStays DEF StoreTypes
<1>4. ASSUME NEW t \in Threads, RemovePicked(t) PROVE StoreTypes'
  <2> DEFINE k == Head(todo[t])
  <2>1. k \in Keys /\ held' = held
    BY <1>4, HeadOfTodo DEF RemovePicked
  <2>2. CASE Cached(k)
    <3>1. /\ mem' = RefDown(mem, hot_cache[k])
          /\ hot_cache' = [hot_cache EXCEPT ![k] = NoObj]
          /\ lru' = Without(lru, k)
      BY <1>4, <2>2 DEF RemovePicked
    <3>2. OrderOK'
      BY <2>1, <3>1, KeyGoes
    <3>3. mem' \in MemTypes
      BY <3>1, MemFacts
    <3> QED
      BY <1>0, <2>1, <3>1, <3>2, <3>3 DEF StoreTypes
  <2>3. CASE ~Cached(k)
    BY <1>0, <1>4, <2>1, <2>3, CacheStays DEF RemovePicked, StoreTypes
  <2> QED
    BY <2>2, <2>3
<1>5. ASSUME NEW t \in Threads, Put(t) PROVE StoreTypes'
  <2>1. held[t] \in Objs /\ key[t] \in Keys /\ held' = held
    BY <1>0, <1>5 DEF Put, Holding, StoreTypes, ThreadTypes
  <2>2. /\ hot_cache' = [hot_cache EXCEPT ![key[t]] = held[t]]
        /\ lru' = Append(Without(lru, key[t]), key[t])
    BY <1>5 DEF Put
  <2>3. OrderOK'
    BY <2>1, <2>2, KeyIsNewest
  <2>4. mem' \in MemTypes
    <3>1. PICK m \in MemTypes : mem' = RefUp(m, held[t])
      BY <1>5, MemFacts DEF Put
    <3> QED
      BY <3>1, RefUpFacts
  <2> QED
    BY <1>0, <2>1, <2>2, <2>3, <2>4 DEF StoreTypes
<1>6. ASSUME NEW t \in Threads, Drop(t) \/ ReadFails(t) PROVE StoreTypes'
  <2>1. mem' \in MemTypes /\ UNCHANGED cache /\ held' = [held EXCEPT ![t] = NoObj]
    BY <1>6, MemFacts DEF Drop, ReadFails
  <2> QED
    BY <1>0, <2>1, CacheStays DEF StoreTypes
<1>7. ASSUME NEW t \in Threads, Clear(t) PROVE StoreTypes'
  <2>1. PICK picked : mem' = [o \in Objs |->
                     IF \E k \in Range(picked) : hot_cache[k] = o
                     THEN EvictDown(mem, o)[o] ELSE mem[o]]
    BY <1>7 DEF Clear
  <2>2. \A o \in Objs : EvictDown(mem, o)[o] \in Records /\ mem[o] \in Records
    BY MemFacts DEF MemTypes
  <2>3. mem' \in MemTypes
    BY <2>1, <2>2 DEF MemTypes
  <2> QED
    BY <1>0, <1>7, <2>3, CacheStays DEF Clear, StoreTypes
<1>8. ASSUME NEW t \in Threads, NEW k \in Keys,
             NEW o \in {"retrieve", "serve"}, Get(t, o, k)
      PROVE  StoreTypes'
  <2>1. /\ hot_cache[k] \in Objs
        /\ mem' = RefUp(mem, hot_cache[k])
        /\ held' = [held EXCEPT ![t] = hot_cache[k]]
        /\ hot_cache' = hot_cache
        /\ lru' = Append(Without(lru, k), k)
    BY <1>0, <1>8 DEF Get, StoreTypes, Cached
  <2>2. hot_cache' = [hot_cache EXCEPT ![k] = hot_cache[k]]
    BY <1>0, <2>1 DEF StoreTypes
  <2>3. OrderOK'
    BY <2>1, <2>2, KeyIsNewest
  <2>4. mem' \in MemTypes
    BY <2>1, MemFacts
  <2> QED
    BY <1>0, <2>1, <2>3, <2>4 DEF StoreTypes
<1>9. CASE UNCHANGED vars
  BY <1>0, <1>9, CacheStays DEF vars, StoreTypes
<1> QED
  BY <1>1, <1>p, <1>2, <1>3, <1>4, <1>5, <1>6, <1>7, <1>8, <1>9, QuietOrActive DEF Active

-----------------------------------------------------------------------------
(* What an operation holds.                                                *)

LEMMA HoldingStep ==
  ASSUME TypeOK, Holding, [Next]_vars
  PROVE  Holding'
<1> USE DEF Goto, Start, Holding
<1>0. pc \in [Threads -> Labels] /\ held \in [Threads -> Objs \cup {NoObj}]
  BY DEF TypeOK
<1>1. ASSUME NEW t \in Threads, NEW k \in Keys,
             StoreBegin(t, k) \/ ReceiveBegin(t, k) \/ RemoveKey(t, k) \/ Lookup(t, k)
      PROVE  Holding'
  BY <1>0, <1>1 DEF StoreBegin, ReceiveBegin, RemoveKey, Lookup
<1>2. ASSUME NEW t \in Threads, AllocFast(t) PROVE Holding'
  BY <1>0, <1>2, Names DEF AllocFast, Fresh
<1>3. ASSUME NEW t \in Threads,
             AllocFails(t) \/ AllocEvict(t) \/ EvictSkip(t) \/ EvictExhausted(t)
      PROVE  Holding'
  BY <1>0, <1>3 DEF AllocFails, AllocEvict, EvictSkip, EvictExhausted, LeaveLoop
<1>4. ASSUME NEW t \in Threads, EvictOne(t) \/ EvictRetry(t) PROVE Holding'
  BY <1>0, <1>4 DEF EvictOne, EvictRetry, LeaveLoop
<1>5. ASSUME NEW t \in Threads, RemovePicked(t) PROVE Holding'
  BY <1>0, <1>5 DEF RemovePicked
<1>6. ASSUME NEW t \in Threads, EvictDone(t) PROVE Holding'
  BY <1>0, <1>6 DEF EvictDone
<1>7. ASSUME NEW t \in Threads, Fill(t) \/ Advertise(t) \/ Read(t) \/ Put(t) \/ Unpin(t)
      PROVE  Holding'
  BY <1>0, <1>7 DEF Fill, Advertise, Read, Put, Unpin
<1>8. ASSUME NEW t \in Threads, Drop(t) PROVE Holding'
  BY <1>0, <1>8 DEF Drop
<1>9. ASSUME NEW t \in Threads, ReadFails(t) PROVE Holding'
  BY <1>0, <1>9 DEF ReadFails
<1>10. ASSUME NEW t \in Threads, NEW k \in Keys,
              NEW o \in {"retrieve", "serve"}, Get(t, o, k)
       PROVE  Holding'
  BY <1>0, <1>10 DEF Get, Cached
<1>11. ASSUME NEW t \in Threads, Clear(t) PROVE Holding'
  BY <1>0, <1>11 DEF Clear
<1>12. CASE UNCHANGED vars
  BY <1>12 DEF vars
<1> QED
  BY <1>1, <1>2, <1>3, <1>4, <1>5, <1>6, <1>7, <1>8, <1>9, <1>10, <1>11, <1>12
  DEF Next, Step, Begin

-----------------------------------------------------------------------------
(* Reference counts.                                                       *)

\* Counts, object by object.
Exact(x) ==
  mem[x].valid /\ ~mem[x].short =>
    /\ mem[x].ref > 0 \/ mem[x].pin
    /\ mem[x].ref = Cardinality(KeysOf(x)) + Cardinality(Holders(x))

LEMMA CountsByObject ==
  /\ Counts <=> \A x \in Objs : Exact(x)
  /\ Counts' <=> \A x \in Objs : Exact(x)'
BY DEF Counts, LiveHasRef, RefCountExact, Exact, Valid

\* Dropping the cache's reference to an object that nobody else uses frees it
\* or leaves its count short.
LEMMA EvictedIsFreed ==
  ASSUME TypeOK, Counts, NEW k \in Keys, mem[hot_cache[k]].ref <= 1, NEW x \in Objs,
         EvictDown(mem, hot_cache[k])[x].valid, ~EvictDown(mem, hot_cache[k])[x].short
  PROVE  /\ x # hot_cache[k] \/ ~mem[x].valid
         /\ mem[x].valid /\ EvictDown(mem, hot_cache[k])[x] = mem[x]
<1>1. mem \in MemTypes
  BY MemFacts
<1>2. CASE x = hot_cache[k]
  <2>1. mem[x].valid /\ ~mem[x].short /\ ~mem[x].pin /\ mem[x].ref # 1
    BY <1>1, <1>2, EvictDownFacts
  <2>2. mem[x].ref = 1
    BY <1>2, <2>1, LastRefOfCache DEF Valid
  <2> QED
    BY <2>1, <2>2
<1>3. CASE x # hot_cache[k]
  BY <1>1, <1>3, EvictDownFacts
<1> QED
  BY <1>2, <1>3

LEMMA CountsStep ==
  ASSUME TypeOK, Holding, Counts, [Next]_vars
  PROVE  Counts'
<1>0. /\ mem \in MemTypes
      /\ \A x \in Objs : Exact(x) /\ mem[x].ref \in Int
  BY CountsByObject, MemFacts DEF MemTypes, Records
<1>n. /\ \A x \in Objs : Same(NoObj, x) = 0 /\ Same(x, NoObj) = 0
      /\ \A x, y : Same(x, y) = Same(y, x) /\ Same(x, y) \in {0, 1}
  BY Names DEF Same
<1>1. ASSUME UNCHANGED <<cache, mem, held>> PROVE Counts'
  BY <1>1 DEF cache, Counts, LiveHasRef, RefCountExact, Valid, KeysOf, Holders
<1>2. ASSUME NEW t \in Threads, Quiet(t) PROVE Counts'
  BY <1>0, <1>1, <1>2, QuietSteps
<1>p. ASSUME NEW t \in Threads, Pins(t) PROVE Counts'
  <2>1. SUFFICES ASSUME NEW x \in Objs PROVE Exact(x)'
    BY CountsByObject
  <2>2. UNCHANGED <<cache, held>>
    BY <1>p, PinSteps
  <2>3. KeysOf(x)' = KeysOf(x) /\ Holders(x)' = Holders(x)
    BY <2>2 DEF cache, KeysOf, Holders
  <2>4. /\ mem'[x].valid = mem[x].valid /\ mem'[x].short = mem[x].short
        /\ mem'[x].ref = mem[x].ref
        /\ KeysOf(x) = {} => mem'[x] = mem[x]
    BY <1>p, PinsOnly DEF KeysOf
  <2>5. KeysOf(x) # {} => Cardinality(KeysOf(x)) > 0
    BY CountsAreNat, FS_EmptySet
  <2>6. CASE KeysOf(x) = {}
    <3>1. mem'[x] = mem[x]
      BY <2>4, <2>6
    <3> QED
      BY <1>0, <2>3, <3>1 DEF Exact
  <2>7. CASE KeysOf(x) # {}
    <3>1. /\ Cardinality(KeysOf(x)) \in Nat \ {0}
          /\ Cardinality(Holders(x)) \in Nat
      BY <2>5, <2>7, CountsAreNat
    <3>2. Cardinality(KeysOf(x)) + Cardinality(Holders(x)) > 0
      BY <3>1
    <3> QED
      BY <1>0, <2>3, <2>4, <3>2 DEF Exact
  <2> QED
    BY <2>6, <2>7
<1>3. ASSUME NEW t \in Threads, Takes(t) PROVE Counts'
  <2>1. held[t] = NoObj /\ UNCHANGED hot_cache
    BY <1>3, TakeSteps DEF Holding, cache
  <2>2. PICK o \in Fresh : mem' = [mem EXCEPT ![o] = NewObj] /\ held' = [held EXCEPT ![t] = o]
    BY <1>3, TakeSteps
  <2>3. SUFFICES ASSUME NEW x \in Objs PROVE Exact(x)'
    BY CountsByObject
  <2>4. o \in Objs /\ KeysOf(o) = {} /\ Holders(o) = {}
    BY DEF Fresh, KeysOf, Holders
  <2>5. held'[t] = o /\ \A e \in Threads : e # t => held'[e] = held[e]
    BY <2>2 DEF TypeOK
  <2>6. Cardinality(Holders(x)') = Cardinality(Holders(x)) + Same(o, x) - Same(NoObj, x)
    BY <2>1, <2>5, HandMoves
  <2>7. KeysOf(x)' = KeysOf(x) /\ Same(NoObj, x) = 0
    BY <1>n, <2>1 DEF KeysOf
  <2>8. CASE x = o
    <3>1. mem'[x] = NewObj /\ Same(o, x) = 1
      BY <1>0, <2>2, <2>8, NewObjFacts DEF Same
    <3>2. Cardinality(KeysOf(x)) = 0 /\ Cardinality(Holders(x)) = 0
      BY <2>4, <2>8, FS_EmptySet
    <3> QED
      BY <2>6, <2>7, <3>1, <3>2 DEF Exact, NewObj
  <2>9. CASE x # o
    <3>1. mem'[x] = mem[x] /\ Same(o, x) = 0
      BY <1>0, <2>2, <2>4, <2>9, NewObjFacts DEF Same
    <3> QED
      BY <1>0, <2>6, <2>7, <3>1, CountsAreNat DEF Exact
  <2> QED
    BY <2>8, <2>9
<1>4. ASSUME NEW t \in Threads, EvictOne(t) PROVE Counts'
  <2> DEFINE k == Head(todo[t])
             m == EvictDown(mem, hot_cache[k])
  <2>1. k \in Keys /\ mem[hot_cache[k]].ref <= 1
    BY <1>4, HeadOfTodo DEF EvictOne
  <2>2. mem' = m /\ UNCHANGED <<hot_cache, held>>
    BY <1>4 DEF EvictOne, cache
  <2>3. SUFFICES ASSUME NEW x \in Objs PROVE Exact(x)'
    BY CountsByObject
  <2>4. KeysOf(x)' = KeysOf(x) /\ Holders(x)' = Holders(x)
    BY <2>2 DEF KeysOf, Holders
  <2>5. m[x].valid /\ ~m[x].short => mem[x].valid /\ m[x] = mem[x]
    BY <2>1, EvictedIsFreed
  <2> HIDE DEF m
  <2> QED
    BY <1>0, <2>2, <2>4, <2>5 DEF Exact
<1>5. ASSUME NEW t \in Threads, RemovePicked(t) PROVE Counts'
  <2> DEFINE k == Head(todo[t])
             c == hot_cache[k]
  <2>1. k \in Keys /\ held' = held
    BY <1>5, HeadOfTodo DEF RemovePicked
  <2>2. CASE Cached(k)
    <3>1. SUFFICES ASSUME NEW x \in Objs PROVE Exact(x)'
      BY CountsByObject
    <3>2. mem' = RefDown(mem, c) /\ hot_cache' = [hot_cache EXCEPT ![k] = NoObj]
      BY <1>5, <2>2 DEF RemovePicked
    <3>3. hot_cache'[k] = NoObj /\ \A e \in Keys : e # k => hot_cache'[e] = hot_cache[e]
      BY <2>1, <3>2 DEF TypeOK
    <3>4. Cardinality(KeysOf(x)') = Cardinality(KeysOf(x)) + Same(NoObj, x) - Same(c, x)
      BY <2>1, <3>3, KeyMoves
    <3>5. Holders(x)' = Holders(x)
      BY <2>1 DEF Holders
    <3>6. /\ mem'[x].pin = mem[x].pin /\ mem'[x].short = mem[x].short
          /\ mem'[x].ref = mem[x].ref - Same(x, c)
          /\ mem'[x].valid => mem[x].valid /\ (x # c \/ mem[x].ref # 1 \/ mem[x].pin)
      BY <1>0, <3>2, RefDownFacts
    <3>7. x = c <=> Same(x, c) = 1
      BY DEF Same
    <3> HIDE DEF c, k
    <3> QED
      BY <1>0, <1>n, <3>4, <3>5, <3>6, <3>7, CountsAreNat DEF Exact
  <2>3. CASE ~Cached(k)
    BY <1>1, <1>5, <2>1, <2>3 DEF RemovePicked
  <2> QED
    BY <2>2, <2>3
<1>6. ASSUME NEW t \in Threads, Put(t) PROVE Counts'
  <2> DEFINE k == key[t]
             c == hot_cache[k]
             h == held[t]
             m == IF Cached(k) THEN RefDown(mem, c) ELSE mem
  <2>1. /\ k \in Keys /\ h \in Objs /\ held' = held
        /\ hot_cache' = [hot_cache EXCEPT ![k] = h] /\ mem' = RefUp(m, h)
    BY <1>6 DEF Put, Holding, TypeOK
  <2>2. SUFFICES ASSUME NEW x \in Objs PROVE Exact(x)'
    BY CountsByObject
  <2>3. hot_cache'[k] = h /\ \A e \in Keys : e # k => hot_cache'[e] = hot_cache[e]
    BY <2>1 DEF TypeOK
  <2>4. Cardinality(KeysOf(x)') = Cardinality(KeysOf(x)) + Same(h, x) - Same(c, x)
    BY <2>1, <2>3, KeyMoves
  <2>5. Holders(x)' = Holders(x)
    BY <2>1 DEF Holders
  <2>6. /\ m \in MemTypes /\ m[x].pin = mem[x].pin /\ m[x].short = mem[x].short
        /\ m[x].ref = mem[x].ref - Same(x, c)
        /\ m[x].valid => mem[x].valid /\ (x # c \/ mem[x].ref # 1 \/ mem[x].pin)
    <3>1. CASE Cached(k)
      BY <1>0, <3>1, RefDownFacts
    <3>2. CASE ~Cached(k)
      <4>1. m = mem /\ Same(x, c) = 0 /\ x # c
        BY <1>n, <3>2, Names DEF Cached
      <4> QED
        BY <1>0, <4>1
    <3> QED
      BY <3>1, <3>2
  <2> HIDE DEF m
  <2>7. mem'[x].pin = m[x].pin /\ mem'[x].short = m[x].short /\ mem'[x].ref = m[x].ref + Same(x, h) /\ mem'[x].valid = m[x].valid
    BY <2>1, <2>6, RefUpFacts
  <2>8. x = c <=> Same(x, c) = 1
    BY DEF Same
  <2> HIDE DEF h, c, k
  <2> QED
    BY <1>0, <1>n, <2>4, <2>5, <2>6, <2>7, <2>8, CountsAreNat DEF Exact
<1>7. ASSUME NEW t \in Threads, Drop(t) PROVE Counts'
  <2> DEFINE c == held[t]
  <2>1. UNCHANGED hot_cache /\ mem' = RefDown(mem, c) /\ held' = [held EXCEPT ![t] = NoObj]
    BY <1>7 DEF Drop, cache
  <2>2. SUFFICES ASSUME NEW x \in Objs PROVE Exact(x)'
    BY CountsByObject
  <2>3. held'[t] = NoObj /\ \A e \in Threads : e # t => held'[e] = held[e]
    BY <2>1 DEF TypeOK
  <2>4. Cardinality(Holders(x)') = Cardinality(Holders(x)) + Same(NoObj, x) - Same(c, x)
    BY <2>3, HandMoves
  <2>5. KeysOf(x)' = KeysOf(x)
    BY <2>1 DEF KeysOf
  <2>6. /\ mem'[x].pin = mem[x].pin /\ mem'[x].short = mem[x].short
          /\ mem'[x].ref = mem[x].ref - Same(x, c)
        /\ mem'[x].valid => mem[x].valid /\ (x # c \/ mem[x].ref # 1 \/ mem[x].pin)
    BY <1>0, <2>1, RefDownFacts
  <2>7. x = c <=> Same(x, c) = 1
    BY DEF Same
  <2> HIDE DEF c
  <2> QED
    BY <1>0, <1>n, <2>4, <2>5, <2>6, <2>7, CountsAreNat DEF Exact
<1>8. ASSUME NEW t \in Threads, ReadFails(t) PROVE Counts'
  <2>1. UNCHANGED <<hot_cache, mem>> /\ held' = [held EXCEPT ![t] = NoObj] /\ ~mem[held[t]].valid
    BY <1>8 DEF ReadFails, cache
  <2>2. SUFFICES ASSUME NEW x \in Objs PROVE Exact(x)'
    BY CountsByObject
  <2>3. held'[t] = NoObj /\ \A e \in Threads : e # t => held'[e] = held[e]
    BY <2>1 DEF TypeOK
  <2>4. Cardinality(Holders(x)') = Cardinality(Holders(x)) + Same(NoObj, x) - Same(held[t], x)
    BY <2>3, HandMoves
  <2>5. KeysOf(x)' = KeysOf(x) /\ mem'[x] = mem[x]
    BY <2>1 DEF KeysOf
  <2>6. mem[x].valid => Same(held[t], x) = 0
    BY <2>1 DEF Same
  <2> QED
    BY <1>0, <1>n, <2>4, <2>5, <2>6, CountsAreNat DEF Exact
<1>9. ASSUME NEW t \in Threads, Clear(t) PROVE Counts'
  <2>1. PICK picked \in InOrder({k \in Range(lru) : mem[hot_cache[k]].ref <= 1}) :
          mem' = [o \in Objs |->
                     IF \E k \in Range(picked) : hot_cache[k] = o
                     THEN EvictDown(mem, o)[o] ELSE mem[o]]
    BY <1>9 DEF Clear
  <2>2. Range(lru) \subseteq Keys
    BY DEF TypeOK
  <2>3. Range(picked) = {k \in Range(lru) : mem[hot_cache[k]].ref <= 1}
    BY <2>2, InOrderFacts
  <2>4. SUFFICES ASSUME NEW x \in Objs PROVE Exact(x)'
    BY CountsByObject
  <2>5. KeysOf(x)' = KeysOf(x) /\ Holders(x)' = Holders(x)
    BY <1>9 DEF Clear, cache, KeysOf, Holders
  <2>6. CASE \E k \in Range(picked) : hot_cache[k] = x
    <3>1. PICK k \in Keys : hot_cache[k] = x /\ mem[hot_cache[k]].ref <= 1
      BY <2>2, <2>3, <2>6
    <3>2. mem'[x] = EvictDown(mem, hot_cache[k])[x]
      BY <2>1, <2>6, <3>1
    <3>3. mem'[x].valid /\ ~mem'[x].short => mem[x].valid /\ mem'[x] = mem[x]
      BY <3>1, <3>2, EvictedIsFreed
    <3> QED
      BY <1>0, <2>5, <3>3 DEF Exact
  <2>7. CASE ~\E k \in Range(picked) : hot_cache[k] = x
    <3>1. mem'[x] = mem[x]
      BY <2>1, <2>7
    <3> QED
      BY <1>0, <2>5, <3>1 DEF Exact
  <2> QED
    BY <2>6, <2>7
<1>10. ASSUME NEW t \in Threads, NEW k \in Keys,
              NEW o \in {"retrieve", "serve"}, Get(t, o, k)
       PROVE  Counts'
  <2> DEFINE c == hot_cache[k]
  <2>1. /\ held[t] = NoObj /\ hot_cache' = hot_cache
        /\ mem' = RefUp(mem, c) /\ held' = [held EXCEPT ![t] = c]
    BY <1>10 DEF Get, Start, Holding
  <2>2. SUFFICES ASSUME NEW x \in Objs PROVE Exact(x)'
    BY CountsByObject
  <2>3. held'[t] = c /\ \A e \in Threads : e # t => held'[e] = held[e]
    BY <2>1 DEF TypeOK
  <2>4. Cardinality(Holders(x)') = Cardinality(Holders(x)) + Same(c, x) - Same(NoObj, x)
    BY <2>1, <2>3, HandMoves
  <2>5. KeysOf(x)' = KeysOf(x)
    BY <2>1 DEF KeysOf
  <2>6. /\ mem'[x].pin = mem[x].pin /\ mem'[x].short = mem[x].short
        /\ mem'[x].ref = mem[x].ref + Same(x, c)
        /\ mem'[x].valid = mem[x].valid
    BY <1>0, <2>1, RefUpFacts
  <2> HIDE DEF c
  <2> DEFINE K == Cardinality(KeysOf(x))
             H == Cardinality(Holders(x))
             s == Same(x, c)
  <2>7. K \in Nat /\ H \in Nat /\ s \in {0, 1} /\ Same(c, x) = s /\ Same(NoObj, x) = 0
    BY <1>n, CountsAreNat
  <2>8. Cardinality(KeysOf(x)') = K /\ Cardinality(Holders(x)') = H + s
    BY <2>4, <2>5, <2>7
  <2>9. ASSUME mem'[x].valid, ~mem'[x].short
        PROVE  /\ mem[x].ref \in Int /\ mem[x].ref = K + H
               /\ mem[x].ref > 0 \/ mem[x].pin
    BY <1>0, <2>6, <2>9 DEF Exact
  <2> HIDE DEF K, H, s
  <2>10. ASSUME mem'[x].valid, ~mem'[x].short
         PROVE  /\ mem'[x].ref > 0 \/ mem'[x].pin
                /\ mem'[x].ref = K + (H + s)
    BY <2>6, <2>7, <2>9, <2>10 DEF s
  <2> QED
    BY <2>8, <2>10 DEF Exact
<1>11. CASE UNCHANGED vars
  BY <1>1, <1>11 DEF vars
<1> QED
  BY <1>2, <1>p, <1>3, <1>4, <1>5, <1>6, <1>7, <1>8, <1>9, <1>10, <1>11, QuietOrActive DEF Active

-----------------------------------------------------------------------------
(* An object that is not cached yet belongs to the operation that has it.  *)

\* What OwnObject says of one thread.
Own(s) == Owns(s) =>
  /\ held[s] \in Objs /\ mem[held[s]].valid /\ ~mem[held[s]].short
  /\ \A k \in Keys : hot_cache[k] # held[s]
  /\ \A e \in Threads : e # s => held[e] # held[s]

LEMMA OwnByThread == /\ OwnObject <=> \A s \in Threads : Own(s)
                     /\ OwnObject' <=> \A s \in Threads : Own(s)'
BY DEF OwnObject, Own, KeysOf, Holders, Valid

LEMMA OwnStep ==
  ASSUME TypeOK, Holding, OwnObject, Counts, [Next]_vars
  PROVE  OwnObject'
<1>0. /\ pc \in [Threads -> Labels] /\ held \in [Threads -> Objs \cup {NoObj}]
      /\ hot_cache \in [Keys -> Objs \cup {NoObj}]
      /\ mem \in MemTypes /\ \A s \in Threads : Own(s)
  BY OwnByThread, MemFacts DEF TypeOK
<1> SUFFICES ASSUME NEW s \in Threads PROVE Own(s)'
  BY OwnByThread
<1>s. Own(s)
  BY <1>0
<1>1. ASSUME UNCHANGED <<cache, mem, held>>, Owns(s)' => Owns(s) PROVE Own(s)'
  BY <1>0, <1>1 DEF Own, cache
<1>2. ASSUME NEW t \in Threads, Quiet(t) PROVE Own(s)'
  <2>1. UNCHANGED <<cache, mem, held>>
    BY <1>2, QuietSteps
  <2>2. Owns(s)' => Owns(s)
    <3>1. CASE s # t
      BY <1>0, <1>2, <2>1, <3>1
      DEF Quiet, StoreBegin, ReceiveBegin, RemoveKey, AllocFails, AllocEvict, EvictSkip,
          EvictExhausted, EvictDone, EvictRetry, Fill, Advertise, Read,
          LeaveLoop, Goto, Owns
    <3>2. CASE s = t /\ \E k \in Keys : StoreBegin(t, k) \/ ReceiveBegin(t, k) \/ RemoveKey(t, k)
      BY <1>0, <2>1, <3>2
      DEF StoreBegin, ReceiveBegin, RemoveKey, Start, Goto, Owns, Holding
    <3>3. CASE s = t /\ \/ AllocFails(t) \/ AllocEvict(t) \/ EvictSkip(t) \/ EvictExhausted(t)
                        \/ EvictRetry(t) /\ ~HasRoom(mem)
      BY <1>0, <2>1, <3>3
      DEF AllocFails, AllocEvict, EvictSkip, EvictExhausted, EvictRetry, LeaveLoop, Goto, Owns, Holding
    <3>4. CASE s = t /\ (EvictDone(t) \/ Fill(t) \/ Advertise(t) \/ Read(t))
      BY <1>0, <2>1, <3>4 DEF EvictDone, Fill, Advertise, Read, Goto, Owns
    <3> QED
      BY <1>2, <3>1, <3>2, <3>3, <3>4 DEF Quiet
  <2> QED
    BY <1>1, <2>1, <2>2
<1>p. ASSUME NEW t \in Threads, Pins(t) PROVE Own(s)'
  <2>1. UNCHANGED <<cache, held>>
    BY <1>p, PinSteps
  <2>2. \A x \in Objs : mem'[x].valid = mem[x].valid /\ mem'[x].short = mem[x].short
    BY <1>p, PinsOnly
  <2>3. Owns(s)' => Owns(s)
    BY <1>0, <1>p, <2>1 DEF Pins, Unpin, Lookup, Goto, Owns
  <2> QED
    BY <1>s, <2>1, <2>2, <2>3 DEF Own, cache
<1>3. ASSUME NEW t \in Threads, Takes(t) PROVE Own(s)'
  <2>1. PICK o \in Fresh : mem' = [mem EXCEPT ![o] = NewObj] /\ held' = [held EXCEPT ![t] = o]
    BY <1>3, TakeSteps
  <2>2. /\ o \in Objs /\ \A k \in Keys : hot_cache[k] # o
        /\ \A e \in Threads : held[e] # o
    BY DEF Fresh
  <2>3. hot_cache' = hot_cache /\ \A e \in Threads : e # t => pc'[e] = pc[e]
    BY <1>0, <1>3 DEF Takes, AllocFast, EvictRetry, LeaveLoop, cache, Goto
  <2>4. /\ held'[t] = o /\ \A e \in Threads : e # t => held'[e] = held[e]
        /\ mem'[o] = NewObj /\ \A x \in Objs : x # o => mem'[x] = mem[x]
    BY <1>0, <2>1, <2>2, NewObjFacts
  <2>5. mem'[o].valid /\ ~mem'[o].short
    BY <2>4 DEF NewObj
  <2> QED
    BY <1>s, <2>2, <2>3, <2>4, <2>5 DEF Own, Owns
<1>4. ASSUME NEW t \in Threads, EvictOne(t) PROVE Own(s)'
  <2> DEFINE k == Head(todo[t])
  <2>1. k \in Keys /\ hot_cache' = hot_cache /\ held' = held
    BY <1>4, HeadOfTodo DEF EvictOne, cache
  <2>2. \A x \in Objs : x # hot_cache[k] => mem'[x] = mem[x]
    BY <1>0, <1>4, EvictDownFacts DEF EvictOne
  <2>3. Owns(s)' => Owns(s)
    BY <1>0, <1>4 DEF EvictOne, Goto, Owns
  <2> QED
    BY <1>s, <2>1, <2>2, <2>3 DEF Own
<1>5. ASSUME NEW t \in Threads, RemovePicked(t) PROVE Own(s)'
  <2> DEFINE k == Head(todo[t])
  <2>1. k \in Keys /\ held' = held /\ pc' = pc
    BY <1>5, HeadOfTodo DEF RemovePicked
  <2>2. CASE Cached(k)
    <3>1. mem' = RefDown(mem, hot_cache[k]) /\ hot_cache' = [hot_cache EXCEPT ![k] = NoObj]
      BY <1>5, <2>2 DEF RemovePicked
    <3>2. \A x \in Objs : x # hot_cache[k] => mem'[x] = mem[x]
      BY <1>0, <3>1, RefDownFacts
    <3>3. \A e \in Keys : hot_cache'[e] = hot_cache[e] \/ hot_cache'[e] = NoObj
      BY <1>0, <2>1, <3>1
    <3> QED
      BY <1>s, <2>1, <3>2, <3>3, Names DEF Own, Owns
  <2>3. CASE ~Cached(k)
    BY <1>1, <1>5, <2>1, <2>3 DEF RemovePicked, Owns
  <2> QED
    BY <2>2, <2>3
<1>6. ASSUME NEW t \in Threads, Put(t) PROVE Own(s)'
  <2> DEFINE k == key[t]
             m == IF Cached(k) THEN RefDown(mem, hot_cache[k]) ELSE mem
  <2>1. /\ k \in Keys /\ held' = held /\ pc' = [pc EXCEPT ![t] = "drop"]
        /\ hot_cache' = [hot_cache EXCEPT ![k] = held[t]] /\ mem' = RefUp(m, held[t])
    BY <1>6 DEF Put, TypeOK, Goto
  <2>2. m \in MemTypes /\ \A x \in Objs : x # hot_cache[k] => m[x] = mem[x]
    BY <1>0, RefDownFacts
  <2> HIDE DEF m
  <2>3. \A x \in Objs : x # hot_cache[k] =>
          mem'[x].valid = mem[x].valid /\ mem'[x].short = mem[x].short
    BY <2>1, <2>2, RefUpFacts
  <2>4. \A e \in Keys : hot_cache'[e] = hot_cache[e] \/ hot_cache'[e] = held[t]
    BY <1>0, <2>1
  <2>5. ~Owns(t)' /\ \A e \in Threads : e # t => pc'[e] = pc[e]
    BY <1>0, <2>1 DEF Owns
  <2> QED
    BY <1>s, <2>1, <2>3, <2>4, <2>5 DEF Own, Owns
<1>7. ASSUME NEW t \in Threads, Drop(t) \/ ReadFails(t) PROVE Own(s)'
  <2>1. /\ hot_cache' = hot_cache /\ held' = [held EXCEPT ![t] = NoObj]
        /\ mem' = mem \/ mem' = RefDown(mem, held[t])
        /\ \A e \in Threads : e # t => pc'[e] = pc[e]
    BY <1>0, <1>7 DEF Drop, ReadFails, cache, Goto
  <2>2. \A x \in Objs : x # held[t] => mem'[x] = mem[x]
    BY <1>0, <2>1, RefDownFacts
  <2>3. ~Owns(t)'
    BY <1>0, <1>7 DEF Drop, ReadFails, Goto, Owns
  <2> QED
    BY <1>0, <1>s, <2>1, <2>2, <2>3, Names DEF Own, Owns
<1>8. ASSUME NEW t \in Threads, Clear(t) PROVE Own(s)'
  <2>1. PICK picked \in InOrder({k \in Range(lru) : mem[hot_cache[k]].ref <= 1}) :
          mem' = [o \in Objs |->
                     IF \E k \in Range(picked) : hot_cache[k] = o
                     THEN EvictDown(mem, o)[o] ELSE mem[o]]
    BY <1>8 DEF Clear
  <2>2. Range(picked) \subseteq Keys
    <3>1. {k \in Range(lru) : mem[hot_cache[k]].ref <= 1} \subseteq Keys
      BY DEF TypeOK
    <3> QED
      BY <3>1, InOrderFacts
  <2>3. \A x \in Objs : (\A k \in Keys : hot_cache[k] # x) => mem'[x] = mem[x]
    BY <2>1, <2>2
  <2>4. held' = held /\ hot_cache' = hot_cache /\ pc' = [pc EXCEPT ![t] = "remove"]
        /\ held[t] = NoObj
    BY <1>8 DEF Clear, cache, Goto, Start, Holding
  <2> QED
    BY <1>0, <1>s, <2>3, <2>4 DEF Own, Owns
<1>9. ASSUME NEW t \in Threads, NEW k \in Keys,
             NEW o \in {"retrieve", "serve"}, Get(t, o, k)
      PROVE  Own(s)'
  <2>1. /\ hot_cache' = hot_cache /\ mem' = RefUp(mem, hot_cache[k])
        /\ held' = [held EXCEPT ![t] = hot_cache[k]]
        /\ pc' = [pc EXCEPT ![t] = "read"]
    BY <1>9 DEF Get, Goto
  <2>2. \A x \in Objs : mem'[x].valid = mem[x].valid /\ mem'[x].short = mem[x].short
    BY <1>0, <2>1, RefUpFacts
  <2> QED
    BY <1>0, <1>s, <2>1, <2>2 DEF Own, Owns
<1>10. CASE UNCHANGED vars
  BY <1>1, <1>10 DEF vars, Owns
<1> QED
  BY <1>2, <1>p, <1>3, <1>4, <1>5, <1>6, <1>7, <1>8, <1>9, <1>10, QuietOrActive DEF Active

-----------------------------------------------------------------------------
(* Keys that lead to freed objects.                                        *)

\* A picked key stays picked until it is gone.
LEMMA PickedStays ==
  ASSUME TypeOK, [Next]_vars, NEW u \in Threads, NEW k \in Picked(u)
  PROVE  k \in Picked(u)' \/ ~Cached(k)'
<1>0. /\ pc \in [Threads -> Labels] /\ todo \in [Threads -> Seq(Keys)]
      /\ evict_keys \in [Threads -> Seq(Keys)]
      /\ hot_cache \in [Keys -> Objs \cup {NoObj}]
  BY DEF TypeOK
<1>1. /\ pc[u] \in {"evict", "retry", "remove"}
      /\ pc[u] \in {"evict", "retry"} => k \in Range(evict_keys[u])
      /\ pc[u] = "remove" => k \in Range(todo[u])
  BY DEF Picked
<1>2. ASSUME pc'[u] = pc[u], todo'[u] = todo[u], evict_keys'[u] = evict_keys[u]
      PROVE  k \in Picked(u)'
  BY <1>1, <1>2 DEF Picked
<1>3. ASSUME NEW t \in Threads, Step(t) \/ Begin(t), t # u PROVE k \in Picked(u)'
  <2> USE DEF Goto, Start
  <2>1. CASE \E e \in Keys : \/ StoreBegin(t, e) \/ ReceiveBegin(t, e)
                             \/ Lookup(t, e) \/ RemoveKey(t, e)
                             \/ \E o \in {"retrieve", "serve"} : Get(t, o, e)
    BY <1>0, <1>2, <1>3, <2>1 DEF StoreBegin, ReceiveBegin, Lookup, RemoveKey, Get
  <2>2. CASE Clear(t)
    BY <1>0, <1>2, <1>3, <2>2 DEF Clear
  <2>3. CASE AllocFast(t) \/ AllocFails(t) \/ AllocEvict(t) \/ EvictSkip(t) \/ EvictExhausted(t)
    BY <1>0, <1>2, <1>3, <2>3
    DEF AllocFast, AllocFails, AllocEvict, EvictSkip, EvictExhausted, LeaveLoop
  <2>4. CASE EvictOne(t) \/ EvictRetry(t)
    BY <1>0, <1>2, <1>3, <2>4 DEF EvictOne, EvictRetry, LeaveLoop
  <2>5. CASE RemovePicked(t) \/ EvictDone(t) \/ Fill(t) \/ Put(t) \/ Drop(t)
    BY <1>0, <1>2, <1>3, <2>5 DEF RemovePicked, EvictDone, Fill, Put, Drop
  <2>6. CASE Advertise(t) \/ Read(t) \/ ReadFails(t) \/ Unpin(t)
    BY <1>0, <1>2, <1>3, <2>6 DEF Advertise, Read, ReadFails, Unpin
  <2> QED
    BY <1>3, <2>1, <2>2, <2>3, <2>4, <2>5, <2>6 DEF Step, Begin
<1>4. CASE EvictSkip(u)
  BY <1>1, <1>4 DEF EvictSkip, Picked
<1>5. CASE EvictOne(u)
  <2> DEFINE picked == Append(evict_keys[u], Head(todo[u]))
  <2>1. k \in Range(picked)
    BY <1>0, <1>1, <1>5, HeadOfTodo, RangeAppend DEF EvictOne
  <2> HIDE DEF picked
  <2>2. pc'[u] = "retry" /\ evict_keys'[u] = picked
    BY <1>0, <1>5 DEF EvictOne, Goto, picked
  <2> QED
    BY <2>1, <2>2 DEF Picked
<1>6. CASE EvictExhausted(u) \/ EvictRetry(u)
  BY <1>0, <1>1, <1>6 DEF EvictExhausted, EvictRetry, LeaveLoop, Goto, Picked
<1>7. CASE RemovePicked(u)
  <2>1. k = Head(todo[u]) \/ k \in Range(Tail(todo[u]))
    BY <1>1, <1>7, HeadOfTodo DEF RemovePicked
  <2>2. pc'[u] = "remove" /\ todo'[u] = Tail(todo[u])
    BY <1>0, <1>7 DEF RemovePicked
  <2>3. CASE k = Head(todo[u])
    <3>1. k \in Keys
      BY <1>7, <2>3, HeadOfTodo DEF RemovePicked
    <3> QED
      BY <1>0, <1>7, <2>3, <3>1 DEF RemovePicked, Cached, cache
  <2>4. CASE k \in Range(Tail(todo[u]))
    BY <2>2, <2>4 DEF Picked
  <2> QED
    BY <2>1, <2>3, <2>4
<1>8. CASE EvictDone(u)
  BY <1>1, <1>8, RangeEmpty DEF EvictDone
<1>9. ASSUME Step(u) \/ Begin(u) PROVE k \in Picked(u)' \/ ~Cached(k)'
  BY <1>1, <1>4, <1>5, <1>6, <1>7, <1>8, <1>9
  DEF Step, Begin, StoreBegin, ReceiveBegin, Lookup, RemoveKey, Get, Clear, Start,
      AllocFast, AllocFails, AllocEvict, Fill, Put, Drop, Advertise, Read, ReadFails, Unpin
<1>10. CASE UNCHANGED vars
  BY <1>2, <1>10 DEF vars
<1> QED
  BY <1>3, <1>9, <1>10 DEF Next

\* The last reference to an object that is cached goes only together with the
\* key, or with the key noted; and only what is noted gets a short count.
LEMMA NewlyDoomed ==
  ASSUME TypeOK, Holding, OwnObject, Counts, [Next]_vars,
         NEW k \in Keys, ~Doomed(k), Doomed(k)'
  PROVE  \E t \in Threads : k \in Picked(t)'
<1>0. /\ pc \in [Threads -> Labels] /\ held \in [Threads -> Objs \cup {NoObj}]
      /\ hot_cache \in [Keys -> Objs \cup {NoObj}]
      /\ mem \in MemTypes /\ \A s \in Threads : Own(s)
      /\ todo \in [Threads -> Seq(Keys)] /\ evict_keys \in [Threads -> Seq(Keys)]
  BY OwnByThread, MemFacts DEF TypeOK
<1> DEFINE x == hot_cache[k]
<1>1. /\ Cached(k) => x \in Objs /\ mem[x].valid /\ ~mem[x].short
      /\ hot_cache'[k] # NoObj
      /\ ~mem'[hot_cache'[k]].valid \/ mem'[hot_cache'[k]].short
  BY <1>0 DEF Doomed, Cached
<1>2. ASSUME hot_cache'[k] = x
      PROVE  /\ Cached(k) /\ x \in Objs /\ x \in Valid /\ mem[x].valid /\ ~mem[x].short
             /\ ~mem'[x].valid \/ mem'[x].short
  BY <1>0, <1>1, <1>2 DEF Cached, Valid
<1>3. ASSUME NEW t \in Threads, Quiet(t) PROVE FALSE
  BY <1>0, <1>2, <1>3, QuietSteps DEF cache
<1>p. ASSUME NEW t \in Threads, Pins(t) PROVE FALSE
  <2>1. hot_cache' = hot_cache
    BY <1>p, PinSteps DEF cache
  <2> QED
    BY <1>2, <1>p, <2>1, PinsOnly
<1>4. ASSUME NEW t \in Threads, Takes(t) PROVE FALSE
  <2>1. PICK o \in Objs : mem' = [mem EXCEPT ![o] = NewObj]
    BY <1>4, TakeSteps DEF Fresh
  <2>2. mem'[o] = NewObj /\ \A y \in Objs : y # o => mem'[y] = mem[y]
    BY <2>1, MemFacts, NewObjFacts
  <2>3. NewObj.valid /\ ~NewObj.short
    BY DEF NewObj
  <2>4. hot_cache' = hot_cache
    BY <1>4, TakeSteps DEF cache
  <2> QED
    BY <1>2, <2>2, <2>3, <2>4
<1>5. ASSUME NEW t \in Threads, EvictOne(t) PROVE k \in Picked(t)'
  <2> DEFINE h == Head(todo[t])
             picked == Append(evict_keys[t], h)
  <2>1. /\ h \in Keys /\ mem[hot_cache[h]].ref <= 1 /\ hot_cache' = hot_cache
        /\ mem' = EvictDown(mem, hot_cache[h])
    BY <1>5, HeadOfTodo DEF EvictOne, cache
  <2>2. /\ x \in Objs /\ x \in Valid /\ mem[x].valid /\ ~mem[x].short
        /\ ~mem'[x].valid \/ mem'[x].short
    BY <1>2, <2>1
  <2>3. hot_cache[h] = x
    BY <1>0, <2>1, <2>2, EvictDownFacts
  <2>4. KeysOf(x) = {h}
    BY <2>1, <2>2, <2>3, LastRefOfCache
  <2>5. k = h
    BY <2>4 DEF KeysOf
  <2>6. k \in Range(picked)
    BY <1>0, <2>1, <2>5, RangeAppend
  <2> HIDE DEF picked
  <2>7. pc'[t] = "retry" /\ evict_keys'[t] = picked
    BY <1>0, <1>5 DEF EvictOne, Goto, picked
  <2> QED
    BY <2>6, <2>7 DEF Picked
<1>6. ASSUME NEW t \in Threads, RemovePicked(t) PROVE FALSE
  <2> DEFINE h == Head(todo[t])
  <2>1. h \in Keys
    BY <1>6, HeadOfTodo DEF RemovePicked
  <2>2. CASE Cached(h)
    <3>1. mem' = RefDown(mem, hot_cache[h]) /\ hot_cache' = [hot_cache EXCEPT ![h] = NoObj]
      BY <1>6, <2>2 DEF RemovePicked
    <3>2. k # h /\ hot_cache'[k] = x
      BY <1>0, <1>1, <2>1, <3>1
    <3>3. x \in Objs /\ x \in Valid /\ ~mem[x].short /\ (~mem'[x].valid \/ mem'[x].short)
      BY <1>2, <3>2
    <3>4. hot_cache[h] = x /\ mem[x].ref <= 1
      BY <1>0, <3>1, <3>3, RefDownFacts DEF Valid
    <3>5. KeysOf(x) = {h}
      BY <2>1, <3>3, <3>4, LastRefOfCache
    <3> QED
      BY <3>2, <3>5 DEF KeysOf
  <2>3. CASE ~Cached(h)
    BY <1>2, <1>6, <2>3 DEF RemovePicked, cache
  <2> QED
    BY <2>2, <2>3
<1>7. ASSUME NEW t \in Threads, Put(t) PROVE FALSE
  <2> DEFINE h == key[t]
             m == IF Cached(h) THEN RefDown(mem, hot_cache[h]) ELSE mem
  <2>1. /\ h \in Keys /\ held[t] \in Objs /\ mem[held[t]].valid /\ ~mem[held[t]].short
        /\ \A e \in Keys : hot_cache[e] # held[t]
        /\ hot_cache' = [hot_cache EXCEPT ![h] = held[t]] /\ mem' = RefUp(m, held[t])
    BY <1>0, <1>7 DEF Put, TypeOK, Own, Owns
  <2>2. /\ m \in MemTypes /\ \A y \in Objs : y # hot_cache[h] => m[y] = mem[y]
        /\ \A y \in Objs : m[y].short = mem[y].short
        /\ \A y \in Objs : mem[y].valid /\ ~m[y].valid =>
              Cached(h) /\ y = hot_cache[h] /\ mem[y].ref = 1
    BY <1>0, RefDownFacts
  <2> HIDE DEF m
  <2>3. \A y \in Objs : mem'[y].valid = m[y].valid /\ mem'[y].short = m[y].short
    BY <2>1, <2>2, RefUpFacts
  <2>4. k # h /\ hot_cache'[k] = x
    <3>1. hot_cache'[h] = held[t] /\ \A e \in Keys : e # h => hot_cache'[e] = hot_cache[e]
      BY <1>0, <2>1 DEF TypeOK
    <3>2. mem'[held[t]].valid /\ ~mem'[held[t]].short
      BY <2>1, <2>2, <2>3
    <3>3. k # h
      BY <1>1, <3>1, <3>2
    <3> QED
      BY <1>0, <3>1, <3>3
  <2>5. x \in Objs /\ x \in Valid /\ ~mem[x].short /\ (~mem'[x].valid \/ mem'[x].short)
    BY <1>2, <2>4
  <2>6. hot_cache[h] = x /\ mem[x].ref = 1
    BY <2>2, <2>3, <2>5 DEF Valid
  <2>7. KeysOf(x) = {h}
    BY <2>1, <2>5, <2>6, LastRefOfCache
  <2> QED
    BY <2>4, <2>7 DEF KeysOf
<1>8. ASSUME NEW t \in Threads, Drop(t) \/ ReadFails(t) PROVE FALSE
  <2>1. hot_cache' = hot_cache /\ (mem' = mem \/ mem' = RefDown(mem, held[t]))
    BY <1>8 DEF Drop, ReadFails, cache
  <2>2. x \in Objs /\ x \in Valid /\ ~mem[x].short /\ (~mem'[x].valid \/ mem'[x].short)
    BY <1>2, <2>1
  <2>3. held[t] = x /\ mem[x].ref <= 1
    BY <1>0, <2>1, <2>2, RefDownFacts DEF Valid
  <2>4. KeysOf(x) = {}
    BY <2>2, <2>3, LastRefOfHolder
  <2> QED
    BY <2>4 DEF KeysOf
<1>9. ASSUME NEW t \in Threads, Clear(t) PROVE k \in Picked(t)'
  <2>1. PICK picked \in InOrder({e \in Range(lru) : mem[hot_cache[e]].ref <= 1}) :
          /\ mem' = [o \in Objs |->
                     IF \E e \in Range(picked) : hot_cache[e] = o
                     THEN EvictDown(mem, o)[o] ELSE mem[o]]
          /\ todo' = [todo EXCEPT ![t] = picked]
    BY <1>9 DEF Clear
  <2>2. /\ Range(lru) \subseteq Keys
        /\ Range(picked) = {e \in Range(lru) : mem[hot_cache[e]].ref <= 1}
    <3>1. Range(lru) \subseteq Keys
      BY DEF TypeOK
    <3>2. {e \in Range(lru) : mem[hot_cache[e]].ref <= 1} \subseteq Keys
      BY <3>1
    <3> QED
      BY <3>1, <3>2, InOrderFacts
  <2>3. hot_cache' = hot_cache /\ pc'[t] = "remove" /\ todo'[t] = picked
    BY <1>0, <1>9, <2>1 DEF Clear, cache, Goto
  <2>4. x \in Objs /\ x \in Valid /\ mem[x].valid /\ ~mem[x].short /\ (~mem'[x].valid \/ mem'[x].short)
    BY <1>2, <2>3
  <2>5. PICK e \in Range(picked) : hot_cache[e] = x
    BY <2>1, <2>4
  <2>6. KeysOf(x) = {e}
    BY <2>2, <2>4, <2>5, LastRefOfCache
  <2>7. k = e
    BY <2>6 DEF KeysOf
  <2> QED
    BY <2>3, <2>7 DEF Picked
<1>10. ASSUME NEW t \in Threads, NEW e \in Keys,
             NEW o \in {"retrieve", "serve"}, Get(t, o, e)
      PROVE  FALSE
  <2>1. hot_cache' = hot_cache /\ mem' = RefUp(mem, hot_cache[e])
    BY <1>10 DEF Get
  <2> QED
    BY <1>0, <1>2, <2>1, RefUpFacts
<1>11. CASE UNCHANGED vars
  BY <1>2, <1>11 DEF vars, cache
<1> QED
  BY <1>3, <1>p, <1>4, <1>5, <1>6, <1>7, <1>8, <1>9, <1>10, <1>11, QuietOrActive DEF Active

LEMMA DoomedStep ==
  ASSUME TypeOK, Holding, OwnObject, Counts, DoomedIsPending, [Next]_vars
  PROVE  DoomedIsPending'
<1> SUFFICES ASSUME NEW k \in Keys, Doomed(k)'
             PROVE  \E t \in Threads : k \in Picked(t)'
  BY DEF DoomedIsPending
<1>1. CASE Doomed(k)
  <2>1. PICK t \in Threads : k \in Picked(t)
    BY <1>1 DEF DoomedIsPending
  <2>2. Cached(k)'
    BY DEF Doomed
  <2> QED
    BY <2>1, <2>2, PickedStays
<1>2. CASE ~Doomed(k)
  BY <1>2, NewlyDoomed
<1> QED
  BY <1>1, <1>2

-----------------------------------------------------------------------------
(* The theorems.                                                           *)

LEMMA InitIInv == Init => IInv
<1> SUFFICES ASSUME Init PROVE IInv
  OBVIOUS
<1>1. Holding /\ OwnObject
  BY Names DEF Init, Holding, OwnObject, Owns
<1>2. Counts
  BY DEF Init, NoMem, Counts, LiveHasRef, RefCountExact, Valid
<1>3. DoomedIsPending
  BY DEF Init, DoomedIsPending, Doomed, Cached
<1> QED
  BY <1>1, <1>2, <1>3, InitTypes DEF IInv

\* Every step preserves the invariant.
LEMMA StepIInv == IInv /\ [Next]_vars => IInv'
<1> SUFFICES ASSUME IInv, [Next]_vars PROVE IInv'
  OBVIOUS
<1>0. TypeOK /\ Holding /\ OwnObject /\ Counts /\ DoomedIsPending
  BY DEF IInv
<1>1. TypeOK'
  <2>1. StoreTypes' /\ ThreadTypes'
    BY <1>0, StoreTypesStep, ThreadTypesStep
  <2> QED
    BY <2>1, TwoParts
<1>2. Holding'
  BY <1>0, HoldingStep
<1>3. OwnObject'
  BY <1>0, OwnStep
<1>4. Counts'
  BY <1>0, CountsStep
<1>5. DoomedIsPending'
  BY <1>0, DoomedStep
<1> QED
  BY <1>1, <1>2, <1>3, <1>4, <1>5 DEF IInv

THEOREM IInvInvariant ==
  Spec => []IInv
<1>1. IInv /\ [Next]_vars => IInv'
  BY StepIInv
<1> QED
  BY <1>1, InitIInv, PTL DEF Spec

\* Types, among them that lru lists each cached key once: what submit_put_task,
\* get_blocking and remove do to the OrderedDict keeps its two views together.
THEOREM TypeCorrect ==
  Spec => []TypeOK
<1>1. IInv => TypeOK
  BY DEF IInv
<1> QED
  BY <1>1, IInvInvariant, PTL

\* Any number of threads store, retrieve, serve, clear and remove at once, and
\* every live object's ref_count is the number of keys and operations that
\* refer to it, unless an eviction took the object while a lookup had it pinned.
THEOREM RefCountExactHolds ==
  Spec => []RefCountExact
<1>1. IInv => RefCountExact
  BY DEF IInv, Counts
<1> QED
  BY <1>1, IInvInvariant, PTL

\* Memory that neither the dictionary nor an operation refers to is free, unless
\* it was pinned when the last of them let go or an eviction took it pinned.
THEOREM NoLeakHolds ==
  Spec => []NoLeak
<1>1. IInv => NoLeak
  <2> SUFFICES ASSUME IInv, NEW o \in Valid, KeysOf(o) = {}, Holders(o) = {},
                      ~mem[o].pin, ~mem[o].short
               PROVE  FALSE
    BY DEF NoLeak
  <2>1. Cardinality(KeysOf(o)) = 0 /\ Cardinality(Holders(o)) = 0
    BY FS_EmptySet
  <2>2. mem[o].ref > 0 /\ mem[o].ref = Cardinality(KeysOf(o)) + Cardinality(Holders(o))
    BY DEF IInv, Counts, LiveHasRef, RefCountExact
  <2> QED
    BY <2>1, <2>2
<1> QED
  BY <1>1, IInvInvariant, PTL

\* An evicting or clearing thread frees objects while their keys are still in
\* the dictionary; each such key is one it is about to remove.
THEOREM StaleEntryIsPendingHolds ==
  Spec => []StaleEntryIsPending
<1>1. IInv => StaleEntryIsPending
  BY DEF IInv, DoomedIsPending, Doomed, StaleEntryIsPending, StaleKey
<1> QED
  BY <1>1, IInvInvariant, PTL

\* What a step frees nobody else holds.
LEMMA FreedIsUnheld ==
  ASSUME IInv, [Next]_vars, NEW t \in Threads, NEW o \in Objs,
         held[t] = o, mem[o].valid, ~mem[o].short, ~mem'[o].valid
  PROVE  held'[t] # o
<1>0. /\ TypeOK /\ Counts /\ Holding
      /\ held \in [Threads -> Objs \cup {NoObj}]
      /\ hot_cache \in [Keys -> Objs \cup {NoObj}]
      /\ o \in Valid /\ t \in Holders(o)
  BY DEF IInv, TypeOK, Valid, Holders
<1>1. mem \in MemTypes
  BY <1>0, MemFacts
<1>2. ASSUME NEW k \in Keys, hot_cache[k] = o, mem[o].ref <= 1 PROVE FALSE
  BY <1>0, <1>2, LastRefOfCache
<1>3. ASSUME NEW u \in Threads, Quiet(u) PROVE FALSE
  BY <1>3, QuietSteps
<1>p. ASSUME NEW u \in Threads, Pins(u) PROVE FALSE
  BY <1>0, <1>p, PinsOnly
<1>4. ASSUME NEW u \in Threads, Takes(u) PROVE FALSE
  <2>1. PICK n \in Objs : mem' = [mem EXCEPT ![n] = NewObj]
    BY <1>4, TakeSteps DEF Fresh
  <2>2. mem'[n] = NewObj /\ \A y \in Objs : y # n => mem'[y] = mem[y]
    BY <1>1, <2>1, NewObjFacts
  <2>3. NewObj.valid
    BY DEF NewObj
  <2> QED
    BY <2>2, <2>3
<1>5. ASSUME NEW u \in Threads, EvictOne(u) PROVE FALSE
  <2> DEFINE h == Head(todo[u])
  <2>1. h \in Keys /\ mem[hot_cache[h]].ref <= 1 /\ mem' = EvictDown(mem, hot_cache[h])
    BY <1>0, <1>5, HeadOfTodo DEF EvictOne
  <2>2. hot_cache[h] = o
    BY <1>1, <2>1, EvictDownFacts
  <2> QED
    BY <1>2, <2>1, <2>2
<1>6. ASSUME NEW u \in Threads, RemovePicked(u) PROVE FALSE
  <2> DEFINE h == Head(todo[u])
  <2>1. h \in Keys /\ mem' = RefDown(mem, hot_cache[h])
    BY <1>0, <1>6, HeadOfTodo DEF RemovePicked
  <2>2. hot_cache[h] = o /\ mem[o].ref <= 1
    BY <1>1, <2>1, RefDownFacts
  <2> QED
    BY <1>2, <2>1, <2>2
<1>7. ASSUME NEW u \in Threads, Put(u) PROVE FALSE
  <2> DEFINE h == key[u]
             m == IF Cached(h) THEN RefDown(mem, hot_cache[h]) ELSE mem
  <2>1. h \in Keys /\ mem' = RefUp(m, held[u])
    BY <1>0, <1>7 DEF Put, TypeOK
  <2>2. m \in MemTypes /\ (~m[o].valid => hot_cache[h] = o /\ mem[o].ref <= 1)
    BY <1>1, RefDownFacts
  <2> HIDE DEF m
  <2>3. ~m[o].valid
    BY <2>1, <2>2, RefUpFacts
  <2> QED
    BY <1>2, <2>1, <2>2, <2>3
<1>8. ASSUME NEW u \in Threads, Drop(u) PROVE held'[t] # o
  <2>1. mem' = RefDown(mem, held[u]) /\ held' = [held EXCEPT ![u] = NoObj]
    BY <1>8 DEF Drop
  <2>2. held[u] = o /\ mem[o].ref <= 1
    BY <1>1, <2>1, RefDownFacts
  <2>3. Holders(o) = {u}
    BY <1>0, <2>2, LastRefOfHolder
  <2>4. t = u
    BY <1>0, <2>3
  <2> QED
    BY <1>0, <2>1, <2>4, Names
<1>9. ASSUME NEW u \in Threads, ReadFails(u) PROVE FALSE
  BY <1>9 DEF ReadFails
<1>10. ASSUME NEW u \in Threads, Clear(u) PROVE FALSE
  <2>1. PICK picked \in InOrder({e \in Range(lru) : mem[hot_cache[e]].ref <= 1}) :
          mem' = [x \in Objs |->
                     IF \E e \in Range(picked) : hot_cache[e] = x
                     THEN EvictDown(mem, x)[x] ELSE mem[x]]
    BY <1>10 DEF Clear
  <2>2. {e \in Range(lru) : mem[hot_cache[e]].ref <= 1} \subseteq Keys
    BY <1>0 DEF TypeOK
  <2>3. \A e \in Range(picked) : e \in Keys /\ mem[hot_cache[e]].ref <= 1
    BY <2>2, InOrderFacts
  <2>4. PICK e \in Range(picked) : hot_cache[e] = o
    BY <2>1
  <2> QED
    BY <1>2, <2>3, <2>4
<1>11. ASSUME NEW u \in Threads, NEW e \in Keys,
             NEW n \in {"retrieve", "serve"}, Get(u, n, e)
      PROVE  FALSE
  <2>1. mem' = RefUp(mem, hot_cache[e])
    BY <1>11 DEF Get
  <2> QED
    BY <1>1, <2>1, RefUpFacts
<1>12. CASE UNCHANGED vars
  BY <1>12 DEF vars
<1> QED
  BY <1>3, <1>p, <1>4, <1>5, <1>6, <1>7, <1>8, <1>9, <1>10, <1>11, <1>12, QuietOrActive DEF Active

\* No step of any thread frees an object while another's operation holds it:
\* the cached chunk a retrieve copies to the GPU, or a peer is being served.
\* Objects that an eviction took while they were pinned are left out.
THEOREM HeldIsNotFreedHolds ==
  Spec => HeldIsNotFreed
<1>1. IInv /\ [Next]_vars =>
        [\A t \in Threads, o \in Objs :
           held[t] = o /\ mem[o].valid /\ ~mem[o].short /\ ~mem'[o].valid
             => held'[t] # o]_vars
  BY FreedIsUnheld
<1> QED
  BY <1>1, IInvInvariant, PTL DEF Spec, HeldIsNotFreed
=============================================================================
