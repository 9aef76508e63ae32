--------------------------- MODULE MemoryAllocator ---------------------------
(***************************************************************************)
(* TensorMemoryAllocator (src/MTDS/v1/memory_management.py): the explicit- *)
(* list allocator that carves the pinned host buffer into the memory       *)
(* objects that hold KV chunks.  A free list of non-adjacent blocks sorted *)
(* by address, first-fit allocation (single and batched), freeing with     *)
(* coalescing (single and batched), and the two counters that memcheck     *)
(* compares with the free list.                                            *)
(*                                                                         *)
(* The Host/Pin/Mixed allocators call every operation under one lock, so   *)
(* allocate, batched_allocate and free are single steps.  batched_free is  *)
(* modelled loop iteration by loop iteration, with the lock held           *)
(* (phase # "idle") and every other operation waiting.                     *)
(*                                                                         *)
(* A "faulty variant" is the definition next to it with one mistake in it; *)
(* it shows that the property named in PROJECT.json can fail.              *)
(***************************************************************************)
EXTENDS Integers, Sequences, FiniteSets, Functions, FiniteSetsExt

CONSTANTS
  Handles,        \* MemoryObj identities alive at the same time
  BufferSize,     \* self.buffer.numel()
  AlignBytes,     \* self.align_bytes
  RawSizes,       \* sizes in bytes that callers ask for
  BatchSizes,     \* batch_size arguments of batched_allocate
  MaxFreeBatch,   \* longest list handed to batched_free (a bound)
  AllowStaleHead, \* may the first object handed to batched_free be invalid?
  NoOwner

ASSUME AllocAssumption ==
  /\ BufferSize \in Nat \ {0}
  /\ AlignBytes \in Nat \ {0}
  /\ RawSizes \subseteq Nat \ {0}
  /\ BatchSizes \subseteq Nat \ {0}
  /\ MaxFreeBatch \in Nat \ {0}
  /\ AllowStaleHead \in BOOLEAN
  /\ NoOwner \notin Handles

VARIABLES
  explicit_list,           \* the free list, a set of blocks
  objs,                    \* the memory object behind each handle
  total_allocated_size,
  num_active_allocations,
  \* the running batched_free: its local variables, and where it is
  phase, memory_objs, new_free_block, curr_start, new_free_blocks,
  total_freed_size, num_valid_blocks

lists    == <<explicit_list, objs>>
counters == <<total_allocated_size, num_active_allocations>>
batch    == <<phase, memory_objs, new_free_block, curr_start,
              new_free_blocks, total_freed_size, num_valid_blocks>>
vars     == <<lists, counters, batch>>

Blocks  == [start : Nat, size : Nat \ {0}]
\* "none": no object behind this handle; "valid" and "invalid": obj.valid
Objects == [st : {"none", "valid", "invalid"}, address : Nat, phy_size : Nat]

End(b) == b.start + b.size

\* FreeBlock.can_be_coalesced
CanBeCoalesced(b, succ) == End(b) = succ.start

-----------------------------------------------------------------------------
\* _Compute_aligned_size, and the test for an already aligned size before it.
AlignedSize(raw) ==
  IF raw % AlignBytes = 0 THEN raw ELSE raw - (raw % AlignBytes) + AlignBytes

\* Faulty variant: a block of exactly the right size is passed over.
FittingStrict(size) == {b \in explicit_list : b.size > size}

\* The blocks that can hold size bytes, and the first of them in the list.
Fitting(size) == {b \in explicit_list : b.size >= size}
FirstFit(size) ==
  {b \in Fitting(size) : \A c \in Fitting(size) : b.start <= c.start}

\* Take size bytes from the front of block b; a remainder goes back.
TakeFrom(b, size) ==
  explicit_list' = (explicit_list \ {b}) \cup
    (IF b.size > size THEN {[start |-> b.start + size, size |-> b.size - size]}
                      ELSE {})

\* The neighbours of a new block in the sorted list, when they touch it.
MergePrev(b) ==
  {p \in explicit_list : /\ p.start <= b.start
                         /\ \A q \in explicit_list :
                               q.start <= b.start => q.start <= p.start
                         /\ CanBeCoalesced(p, b)}
MergeSucc(b) ==
  {s \in explicit_list : /\ s.start > b.start
                         /\ \A q \in explicit_list :
                               q.start > b.start => s.start <= q.start
                         /\ CanBeCoalesced(b, s)}

\* _coalesce, and the plain add when it merges nothing.
AddFreeBlock(b) ==
  \/ /\ MergePrev(b) = {} /\ MergeSucc(b) = {}
     /\ explicit_list' = explicit_list \cup {b}
  \/ /\ MergeSucc(b) = {}
     /\ \E p \in MergePrev(b) :
          explicit_list' = (explicit_list \ {p}) \cup
             {[start |-> p.start, size |-> p.size + b.size]}
  \/ /\ MergePrev(b) = {}
     /\ \E s \in MergeSucc(b) :
          explicit_list' = (explicit_list \ {s}) \cup
             {[start |-> s.start - b.size, size |-> s.size + b.size]}
  \/ \E p \in MergePrev(b), s \in MergeSucc(b) :
       explicit_list' = (explicit_list \ {p, s}) \cup
          {[start |-> p.start, size |-> p.size + b.size + s.size]}

Invalidated(h) == [objs EXCEPT ![h].st = "invalid"]
FreshObject(address, size) ==
  [st |-> "valid", address |-> address, phy_size |-> size]
BlockOf(h) == [start |-> objs[h].address, size |-> objs[h].phy_size]

NonNegative(n) == IF n < 0 THEN 0 ELSE n

-----------------------------------------------------------------------------
Init ==
  /\ explicit_list = {[start |-> 0, size |-> BufferSize]}
  /\ objs = [h \in Handles |-> [st |-> "none", address |-> 0, phy_size |-> 0]]
  /\ total_allocated_size = 0
  /\ num_active_allocations = 0
  /\ phase = "idle" /\ memory_objs = <<>>
  /\ new_free_block = {} /\ curr_start = 0 /\ new_free_blocks = {}
  /\ total_freed_size = 0 /\ num_valid_blocks = 0

\* allocate.  When nothing fits it returns None and changes nothing.
Allocate(raw, h) ==
  /\ phase = "idle"
  /\ objs[h].st = "none"
  /\ \E b \in FirstFit(AlignedSize(raw)) :
       /\ TakeFrom(b, AlignedSize(raw))
       /\ objs' = [objs EXCEPT ![h] = FreshObject(b.start, AlignedSize(raw))]
  /\ total_allocated_size' = total_allocated_size + AlignedSize(raw)
  /\ num_active_allocations' = num_active_allocations + 1
  /\ UNCHANGED batch

\* Faulty variant: temp_start is not advanced between two parts.
BatchedAllocateSamePart(raw, n, hs, pos) ==
  LET unit == AlignedSize(raw) IN
  /\ phase = "idle"
  /\ \A h \in hs : objs[h].st = "none"
  /\ \A h, g \in hs : pos[h] = pos[g] => h = g
  /\ \A i \in 1..n : \E h \in hs : pos[h] = i
  /\ \E b \in FirstFit(unit * n) :
       /\ TakeFrom(b, unit * n)
       /\ objs' = [h \in Handles |->
                     IF h \in hs THEN FreshObject(b.start, unit) ELSE objs[h]]
  /\ total_allocated_size' = total_allocated_size + unit * n
  /\ num_active_allocations' = num_active_allocations + n
  /\ UNCHANGED batch

\* batched_allocate: one block for the whole batch, cut into equal parts;
\* pos[h] is the place of handle h in the returned list.
BatchedAllocate(raw, n, hs, pos) ==
  LET unit == AlignedSize(raw) IN
  /\ phase = "idle"
  /\ \A h \in hs : objs[h].st = "none"
  /\ \A h, g \in hs : pos[h] = pos[g] => h = g
  /\ \A i \in 1..n : \E h \in hs : pos[h] = i
  /\ \E b \in FirstFit(unit * n) :
       /\ TakeFrom(b, unit * n)
       /\ objs' = [h \in Handles |->
                     IF h \in hs
                     THEN FreshObject(b.start + unit * (pos[h] - 1), unit)
                     ELSE objs[h]]
  /\ total_allocated_size' = total_allocated_size + unit * n
  /\ num_active_allocations' = num_active_allocations + n
  /\ UNCHANGED batch

\* free: an object that is no longer valid is left alone.
Free(h) ==
  /\ phase = "idle"
  /\ objs[h].st = "valid"
  /\ AddFreeBlock(BlockOf(h))
  /\ objs' = Invalidated(h)
  /\ total_allocated_size' = total_allocated_size - objs[h].phy_size
  /\ num_active_allocations' = NonNegative(num_active_allocations - 1)
  /\ UNCHANGED batch

\* batched_free, up to its first loop.  curr_start is taken from the first
\* object whether or not that object is still valid.
BatchedFreeBegin(list) ==
  /\ phase = "idle"
  /\ \A i \in DOMAIN list : objs[list[i]].st # "none"
  /\ AllowStaleHead \/ objs[list[1]].st = "valid"
  /\ phase' = "scan"
  /\ memory_objs' = list
  /\ curr_start' = objs[list[1]].address
  /\ UNCHANGED <<lists, counters, new_free_block, new_free_blocks,
                 total_freed_size, num_valid_blocks>>

\* An object of the list that is already invalid is skipped.
ScanInvalid ==
  /\ phase = "scan" /\ memory_objs # <<>>
  /\ objs[Head(memory_objs)].st = "invalid"
  /\ memory_objs' = Tail(memory_objs)
  /\ UNCHANGED <<lists, counters, phase, new_free_block, curr_start,
                 new_free_blocks, total_freed_size, num_valid_blocks>>

\* Faulty variant: a run that ends is not put aside before the next starts.
ScanValidForgetsRun ==
  LET h == Head(memory_objs) IN
  /\ phase = "scan" /\ memory_objs # <<>>
  /\ objs[h].st = "valid"
  /\ objs' = Invalidated(h)
  /\ memory_objs' = Tail(memory_objs)
  /\ total_freed_size' = total_freed_size + objs[h].phy_size
  /\ num_valid_blocks' = num_valid_blocks + 1
  /\ new_free_block' = {BlockOf(h)}
  /\ curr_start' = objs[h].address + objs[h].phy_size
  /\ UNCHANGED <<explicit_list, counters, phase, new_free_blocks>>

\* A valid one is invalidated; its block starts, extends or replaces the run
\* that is being collected.
ScanValid ==
  LET h == Head(memory_objs) IN
  /\ phase = "scan" /\ memory_objs # <<>>
  /\ objs[h].st = "valid"
  /\ objs' = Invalidated(h)
  /\ memory_objs' = Tail(memory_objs)
  /\ total_freed_size' = total_freed_size + objs[h].phy_size
  /\ num_valid_blocks' = num_valid_blocks + 1
  /\ \/ /\ new_free_block = {}
        /\ new_free_block' = {BlockOf(h)}
        /\ curr_start' = curr_start + objs[h].phy_size
        /\ UNCHANGED new_free_blocks
     \/ /\ curr_start = objs[h].address
        /\ \E b \in new_free_block :
             new_free_block' =
               {[start |-> b.start, size |-> b.size + objs[h].phy_size]}
        /\ curr_start' = curr_start + objs[h].phy_size
        /\ UNCHANGED new_free_blocks
     \/ /\ new_free_block # {} /\ curr_start # objs[h].address
        /\ new_free_blocks' = new_free_blocks \cup new_free_block
        /\ new_free_block' = {BlockOf(h)}
        /\ curr_start' = objs[h].address + objs[h].phy_size
  /\ UNCHANGED <<explicit_list, counters, phase>>

\* The last run joins the list.  With no valid object the run is None and
\* the insertion of None raises; nothing has been changed by then.
ScanEnd ==
  /\ phase = "scan" /\ memory_objs = <<>>
  /\ phase' = IF new_free_block = {} THEN "idle" ELSE "insert"
  /\ new_free_blocks' = new_free_blocks \cup new_free_block
  /\ new_free_block' = {}
  /\ curr_start' = 0
  /\ UNCHANGED <<lists, counters, memory_objs, total_freed_size,
                 num_valid_blocks>>

\* One iteration of the second loop.  The order of the list is left open.
InsertBlock ==
  /\ phase = "insert"
  /\ \E b \in new_free_blocks :
       /\ AddFreeBlock(b)
       /\ new_free_blocks' = new_free_blocks \ {b}
  /\ UNCHANGED <<objs, counters, phase, memory_objs, new_free_block,
                 curr_start, total_freed_size, num_valid_blocks>>

BatchedFreeEnd ==
  /\ phase = "insert" /\ new_free_blocks = {}
  /\ phase' = "idle"
  /\ total_allocated_size' = total_allocated_size - total_freed_size
  /\ num_active_allocations' =
       NonNegative(num_active_allocations - num_valid_blocks)
  /\ total_freed_size' = 0 /\ num_valid_blocks' = 0
  /\ UNCHANGED <<lists, memory_objs, new_free_block, curr_start,
                 new_free_blocks>>

\* The last reference to an invalid object goes away.
Drop(h) ==
  /\ phase = "idle"
  /\ objs[h].st = "invalid"
  /\ objs' = [objs EXCEPT ![h] = [st |-> "none", address |-> 0, phy_size |-> 0]]
  /\ UNCHANGED <<explicit_list, counters, batch>>

FreeLists == UNION {[1..n -> Handles] : n \in 1..MaxFreeBatch}

Next ==
  \/ \E raw \in RawSizes, h \in Handles : Allocate(raw, h)
  \/ \E raw \in RawSizes, n \in BatchSizes, hs \in SUBSET Handles :
       \E pos \in [hs -> 1..n] : BatchedAllocate(raw, n, hs, pos)
  \/ \E h \in Handles : Free(h) \/ Drop(h)
  \/ \E list \in FreeLists : BatchedFreeBegin(list)
  \/ ScanInvalid \/ ScanValid \/ ScanEnd
  \/ InsertBlock \/ BatchedFreeEnd

Spec == Init /\ [][Next]_vars

-----------------------------------------------------------------------------
(***************************************************************************)
(* Correctness.                                                            *)
(***************************************************************************)
Valid   == {h \in Handles : objs[h].st = "valid"}
Pending == new_free_blocks \cup new_free_block  \* freed, not yet in the list

Covers(b, a) == b.start <= a /\ a < End(b)
Apart(b, c)  == End(b) <= c.start \/ End(c) <= b.start

\* Every variable keeps its type.
TypeOK ==
  /\ explicit_list \subseteq Blocks
  /\ objs \in [Handles -> Objects]
  /\ \A h \in Valid : objs[h].phy_size > 0
  /\ total_allocated_size \in Int
  /\ num_active_allocations \in Nat
  /\ phase \in {"idle", "scan", "insert"}
  /\ memory_objs \in Seq(Handles)
  /\ new_free_block \subseteq Blocks
  /\ \A b, c \in new_free_block : b = c
  /\ new_free_blocks \subseteq Blocks
  /\ curr_start \in Nat /\ total_freed_size \in Nat /\ num_valid_blocks \in Nat

\* No two of: free blocks, blocks on their way to the free list, memory of
\* valid objects, share a byte.
NoOverlap ==
  /\ \A b, c \in explicit_list : b = c \/ Apart(b, c)
  /\ \A g, h \in Valid : g = h \/ Apart(BlockOf(g), BlockOf(h))
  /\ \A b, c \in Pending : b = c \/ Apart(b, c)
  /\ new_free_block \cap new_free_blocks = {}
  /\ \A b \in explicit_list, h \in Valid : Apart(b, BlockOf(h))
  /\ \A b \in explicit_list, c \in Pending : Apart(b, c)
  /\ \A b \in Pending, h \in Valid : Apart(b, BlockOf(h))

\* Every byte of the buffer belongs to one of them, and they to the buffer.
NoGap ==
  /\ \A b \in explicit_list \cup Pending : End(b) <= BufferSize
  /\ \A h \in Valid : End(BlockOf(h)) <= BufferSize
  /\ \A a \in 0 .. BufferSize - 1 :
       \/ \E b \in explicit_list \cup Pending : Covers(b, a)
       \/ \E h \in Valid : Covers(BlockOf(h), a)

\* Each byte of the buffer is free, about to be free, or part of exactly one
\* valid object, through every split, merge and half-finished batched_free.
EveryByteOwnedOnce == NoOverlap /\ NoGap

\* Two free blocks never touch: _coalesce is always given the neighbours.
Coalesced == \A b, c \in explicit_list : ~CanBeCoalesced(b, c)

\* allocate and batched_allocate return None only when no run of bytes that
\* no object owns is long enough: fragments of the free list never hide one.
NoFalseExhaustion ==
  phase = "idle" =>
    \A raw \in RawSizes, n \in BatchSizes \cup {1} :
      LET size == AlignedSize(raw) * n IN
      (\E a \in 0 .. BufferSize - size :
          \A h \in Valid : Apart([start |-> a, size |-> size], BlockOf(h)))
        => FirstFit(size) # {}

SumSizes(blocks) == FoldSet(LAMBDA b, n : b.size + n, 0, blocks)

\* memcheck: free and allocated bytes add up to the buffer, and no two
\* neighbours of the free list can be coalesced.
Memcheck ==
  phase = "idle" =>
    /\ SumSizes(explicit_list) + total_allocated_size = BufferSize
    /\ Coalesced

\* The counters describe the live objects between operations, whatever mix of
\* single, batched and repeated frees came before.
CountersExact ==
  phase = "idle" =>
    /\ total_allocated_size =
         MapThenSumSet(LAMBDA h : objs[h].phy_size, Valid)
    /\ num_active_allocations = Cardinality(Valid)

\* The allocator hands out only bytes nobody owns and takes back whole
\* objects, as AddressSpace promises.
Owner ==
  [a \in 0 .. BufferSize - 1 |->
     IF \E h \in Valid : Covers(BlockOf(h), a)
     THEN CHOOSE h \in Valid : Covers(BlockOf(h), a)
     ELSE NoOwner]
Space == INSTANCE AddressSpace WITH NumBytes <- BufferSize, owner <- Owner
AddressSpaceSpec == Space!Spec
=============================================================================
