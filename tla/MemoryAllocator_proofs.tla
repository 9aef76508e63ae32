----------------------- MODULE MemoryAllocator_proofs -----------------------
(***************************************************************************)
(* The allocator's memory safety for every buffer size, alignment and set  *)
(* of sizes: no byte has two owners, none is lost, the free list stays     *)
(* coalesced, and callers see what AddressSpace promises.  The theorems    *)
(* assume ~AllowStaleHead: batched_free is never given a list that starts  *)
(* with an object freed before.  The last part is about PagedAllocator,    *)
(* which takes this allocator's place with use_paging; MCMemoryAllocator   *)
(* has them both.                                                          *)
(***************************************************************************)
EXTENDS MCMemoryAllocator, CollectionLemmas, TLAPS

\* Touching blocks are the ones _coalesce merges: in a list of disjoint
\* blocks a touching block is the nearest one.
LEMMA NeighboursTouch ==
  ASSUME explicit_list \subseteq Blocks,
         \A c, d \in explicit_list : c = d \/ Apart(c, d),
         NEW b \in Blocks,
         \A c \in explicit_list : Apart(b, c)
  PROVE  /\ MergePrev(b) = {p \in explicit_list : End(p) = b.start}
         /\ MergeSucc(b) = {s \in explicit_list : End(b) = s.start}
<1>1. ASSUME NEW p \in explicit_list, End(p) = b.start
      PROVE  p \in MergePrev(b)
  <2>1. p.start <= b.start
    BY <1>1 DEF Blocks, End
  <2>2. ASSUME NEW q \in explicit_list, q.start <= b.start
        PROVE  q.start <= p.start
    <3>1. q = p \/ Apart(q, p)
      OBVIOUS
    <3>2. Apart(b, q)
      OBVIOUS
    <3>3. QED
      BY <1>1, <2>2, <3>1, <3>2 DEF Blocks, End, Apart
  <2>3. QED
    BY <1>1, <2>1, <2>2 DEF MergePrev, CanBeCoalesced
<1>2. ASSUME NEW s \in explicit_list, End(b) = s.start
      PROVE  s \in MergeSucc(b)
  <2>1. s.start > b.start
    BY <1>2 DEF Blocks, End
  <2>2. ASSUME NEW q \in explicit_list, q.start > b.start
        PROVE  s.start <= q.start
    <3>1. Apart(b, q)
      OBVIOUS
    <3>2. QED
      BY <1>2, <2>2, <3>1 DEF Blocks, End, Apart
  <2>3. QED
    BY <1>2, <2>1, <2>2 DEF MergeSucc, CanBeCoalesced
<1>3. QED
  BY <1>1, <1>2 DEF MergePrev, MergeSucc, CanBeCoalesced

\* What adding a block to the free list does: it adds the bytes of the block
\* and nothing else, and leaves the list disjoint and coalesced.
LEMMA AddFreeBlockAdds ==
  ASSUME explicit_list \subseteq Blocks,
         \A c, d \in explicit_list : c = d \/ Apart(c, d),
         Coalesced,
         NEW b \in Blocks,
         \A c \in explicit_list : Apart(b, c),
         AddFreeBlock(b)
  PROVE  /\ explicit_list' \subseteq Blocks
         /\ \A c, d \in explicit_list' : c = d \/ Apart(c, d)
         /\ Coalesced'
         /\ \A d \in Blocks : Apart(d, b) /\ (\A c \in explicit_list : Apart(d, c))
              => \A c \in explicit_list' : Apart(d, c)
         /\ \A a \in Nat :
              Covers(b, a) \/ (\E c \in explicit_list : Covers(c, a))
                => \E c \in explicit_list' : Covers(c, a)
         /\ \A n \in Nat :
              End(b) <= n /\ (\A c \in explicit_list : End(c) <= n)
                => \A c \in explicit_list' : End(c) <= n
<1>. DEFINE P == {p \in explicit_list : End(p) = b.start}
            S == {s \in explicit_list : End(b) = s.start}
            \* m replaces the blocks of gone, and is exactly b and them
            Replaces(m, gone) ==
              /\ m \in Blocks /\ gone \subseteq explicit_list
              /\ explicit_list' = (explicit_list \ gone) \cup {m}
              /\ \A c \in explicit_list \ gone : /\ Apart(m, c)
                                                 /\ End(m) # c.start
                                                 /\ End(c) # m.start
              /\ \A d \in Blocks :
                   Apart(d, b) /\ (\A c \in gone : Apart(d, c)) => Apart(d, m)
              /\ \A a \in Nat :
                   Covers(b, a) \/ (\E c \in gone : Covers(c, a)) => Covers(m, a)
              /\ \A n \in Nat :
                   End(b) <= n /\ (\A c \in gone : End(c) <= n) => End(m) <= n
<1>1. MergePrev(b) = P /\ MergeSucc(b) = S
  BY NeighboursTouch
<1>2. \E m, gone : Replaces(m, gone)
  <2>1. CASE P = {} /\ S = {} /\ explicit_list' = explicit_list \cup {b}
    <3>1. Replaces(b, {})
      BY <2>1
    <3>. HIDE DEF Replaces
    <3>2. QED
      BY <3>1
  <2>2. ASSUME S = {}, NEW p \in P,
               explicit_list' = (explicit_list \ {p}) \cup
                  {[start |-> p.start, size |-> p.size + b.size]}
        PROVE  \E m, gone : Replaces(m, gone)
    <3>. DEFINE m == [start |-> p.start, size |-> p.size + b.size]
    <3>1. m \in Blocks /\ End(m) = End(b) /\ m.start = p.start
      BY DEF Blocks, End
    <3>2. \A c \in explicit_list \ {p} :
            Apart(m, c) /\ End(m) # c.start /\ End(c) # m.start
      <4>. TAKE c \in explicit_list \ {p}
      <4>1. Apart(c, p) /\ Apart(b, c) /\ End(c) # p.start
        BY DEF Coalesced, CanBeCoalesced
      <4>2. QED
        BY <2>2, <3>1, <4>1 DEF Blocks, End, Apart
    <3>3. Replaces(m, {p})
      BY <2>2, <3>1, <3>2 DEF Blocks, End, Apart, Covers
    <3>. HIDE DEF m, Replaces
    <3>4. QED
      BY <3>3
  <2>3. ASSUME P = {}, NEW s \in S,
               explicit_list' = (explicit_list \ {s}) \cup
                  {[start |-> s.start - b.size, size |-> s.size + b.size]}
        PROVE  \E m, gone : Replaces(m, gone)
    <3>. DEFINE m == [start |-> s.start - b.size, size |-> s.size + b.size]
    <3>1. m \in Blocks /\ End(m) = End(s) /\ m.start = b.start
      BY DEF Blocks, End
    <3>2. \A c \in explicit_list \ {s} :
            Apart(m, c) /\ End(m) # c.start /\ End(c) # m.start
      <4>. TAKE c \in explicit_list \ {s}
      <4>1. Apart(c, s) /\ Apart(b, c) /\ End(s) # c.start
        BY DEF Coalesced, CanBeCoalesced
      <4>2. QED
        BY <2>3, <3>1, <4>1 DEF Blocks, End, Apart
    <3>3. Replaces(m, {s})
      BY <2>3, <3>1, <3>2 DEF Blocks, End, Apart, Covers
    <3>. HIDE DEF m, Replaces
    <3>4. QED
      BY <3>3
  <2>4. ASSUME NEW p \in P, NEW s \in S,
               explicit_list' = (explicit_list \ {p, s}) \cup
                  {[start |-> p.start, size |-> p.size + b.size + s.size]}
        PROVE  \E m, gone : Replaces(m, gone)
    <3>. DEFINE m == [start |-> p.start, size |-> p.size + b.size + s.size]
    <3>1. m \in Blocks /\ End(m) = End(s) /\ m.start = p.start
      BY DEF Blocks, End
    <3>2. \A c \in explicit_list \ {p, s} :
            Apart(m, c) /\ End(m) # c.start /\ End(c) # m.start
      <4>. TAKE c \in explicit_list \ {p, s}
      <4>1. /\ Apart(c, p) /\ Apart(b, c) /\ Apart(c, s)
            /\ End(c) # p.start /\ End(s) # c.start
        BY DEF Coalesced, CanBeCoalesced
      <4>2. QED
        BY <2>4, <3>1, <4>1 DEF Blocks, End, Apart
    <3>3. Replaces(m, {p, s})
      BY <2>4, <3>1, <3>2 DEF Blocks, End, Apart, Covers
    <3>. HIDE DEF m, Replaces
    <3>4. QED
      BY <3>3
  <2>5. QED
    BY <1>1, <2>1, <2>2, <2>3, <2>4 DEF AddFreeBlock
<1>3. PICK m, gone : Replaces(m, gone)
  BY <1>2
<1>. HIDE DEF P, S
<1>4. \A c, d \in explicit_list' : c = d \/ Apart(c, d)
  BY <1>3 DEF Apart
<1>5. Coalesced'
  <2>1. End(m) # m.start
    BY <1>3 DEF Blocks, End
  <2>2. QED
    BY <1>3, <2>1 DEF Coalesced, CanBeCoalesced, End
<1>6. QED
  BY <1>3, <1>4, <1>5

\* What taking bytes from a free block does: the list loses exactly the
\* bytes from the start of the block, and stays disjoint and coalesced.
LEMMA TakeFromTakes ==
  ASSUME explicit_list \subseteq Blocks,
         \A c, d \in explicit_list : c = d \/ Apart(c, d),
         Coalesced,
         NEW b \in explicit_list,
         NEW size \in Nat \ {0},
         b.size >= size,
         TakeFrom(b, size)
  PROVE  /\ explicit_list' \subseteq Blocks
         /\ \A c, d \in explicit_list' : c = d \/ Apart(c, d)
         /\ Coalesced'
         /\ \A c \in explicit_list' : Apart(c, [start |-> b.start, size |-> size])
         /\ \A d \in Blocks : (\A c \in explicit_list : Apart(c, d))
              => \A c \in explicit_list' : Apart(c, d)
         /\ \A a \in Nat : \A c \in explicit_list : Covers(c, a)
              => \/ \E e \in explicit_list' : Covers(e, a)
                 \/ b.start <= a /\ a < b.start + size
         /\ \A n \in Nat : (\A c \in explicit_list : End(c) <= n)
              => \A c \in explicit_list' : End(c) <= n
<1>. DEFINE r == [start |-> b.start + size, size |-> b.size - size]
<1>1. CASE b.size > size
  <2>1. explicit_list' = (explicit_list \ {b}) \cup {r}
    BY <1>1 DEF TakeFrom
  <2>2. r \in Blocks /\ End(r) = End(b) /\ r.start = b.start + size
    BY <1>1 DEF Blocks, End
  <2>3. \A c \in explicit_list \ {b} : Apart(c, b) /\ End(c) # b.start /\ End(b) # c.start
    BY DEF Coalesced, CanBeCoalesced
  <2>4. \A c \in explicit_list \ {b} : Apart(c, r) /\ End(c) # r.start /\ End(r) # c.start
    BY <2>2, <2>3 DEF Apart, Blocks, End
  <2>5. \A c, d \in explicit_list' : c = d \/ Apart(c, d)
    BY <2>1, <2>4 DEF Apart
  <2>6. Coalesced'
    <3>1. End(r) # r.start
      BY <2>2 DEF Blocks, End
    <3>2. QED
      BY <2>1, <2>4, <3>1 DEF Coalesced, CanBeCoalesced, End
  <2>7. \A c \in explicit_list' : Apart(c, [start |-> b.start, size |-> size])
    BY <2>1, <2>2, <2>3, <1>1 DEF Apart, Blocks, End
  <2>8. \A d \in Blocks : (\A c \in explicit_list : Apart(c, d))
          => \A c \in explicit_list' : Apart(c, d)
    BY <2>1, <2>2 DEF Apart, Blocks, End
  <2>9. \A a \in Nat : \A c \in explicit_list : Covers(c, a)
          => \/ \E e \in explicit_list' : Covers(e, a)
             \/ b.start <= a /\ a < b.start + size
    <3>. TAKE a \in Nat
    <3>. TAKE c \in explicit_list
    <3>. HAVE Covers(c, a)
    <3>1. CASE c = b
      <4>1. Covers(r, a) \/ (b.start <= a /\ a < b.start + size)
        BY <2>2, <3>1 DEF Covers, Blocks, End
      <4>2. QED
        BY <2>1, <4>1
    <3>2. CASE c # b
      BY <2>1, <3>2
    <3>3. QED
      BY <3>1, <3>2
  <2>10. QED
    BY <2>1, <2>2, <2>5, <2>6, <2>7, <2>8, <2>9
<1>2. CASE b.size = size
  <2>1. explicit_list' = explicit_list \ {b}
    BY <1>2 DEF TakeFrom, Blocks
  <2>2. \A c \in explicit_list' : Apart(c, [start |-> b.start, size |-> size])
    BY <2>1, <1>2 DEF Apart, Blocks, End
  <2>3. \A a \in Nat : \A c \in explicit_list : Covers(c, a)
          => \/ \E e \in explicit_list' : Covers(e, a)
             \/ b.start <= a /\ a < b.start + size
    BY <2>1, <1>2 DEF Covers, Blocks, End
  <2>4. QED
    BY <2>1, <2>2, <2>3 DEF Coalesced, CanBeCoalesced, End
<1>3. QED
  BY <1>1, <1>2 DEF Blocks

\* _Compute_aligned_size returns a positive size for a positive raw size.
LEMMA AlignedSizeType ==
  ASSUME NEW raw \in RawSizes
  PROVE  AlignedSize(raw) \in Nat \ {0}
  BY AllocAssumption DEF AlignedSize

-----------------------------------------------------------------------------
(***************************************************************************)
(* The inductive invariant adds what the loops of batched_free maintain:   *)
(* curr_start is the end of the run being collected, and before the first  *)
(* run exists the head of the list is valid and starts at curr_start.      *)
(***************************************************************************)
LoopInv ==
  /\ phase = "idle" => new_free_block = {} /\ new_free_blocks = {}
  /\ phase = "insert" => new_free_block = {}
  /\ \A b \in new_free_block : curr_start = End(b)
  /\ phase = "scan" /\ new_free_block = {} =>
       /\ new_free_blocks = {}
       /\ memory_objs # <<>>
       /\ objs[Head(memory_objs)].st = "valid"
       /\ curr_start = objs[Head(memory_objs)].address

IInv == TypeOK /\ NoOverlap /\ NoGap /\ Coalesced /\ LoopInv

\* The allocator starts with the inductive invariant: one block, no objects.
LEMMA InitIInv == Init => IInv
<1>. SUFFICES ASSUME Init PROVE IInv
  OBVIOUS
<1>. USE AllocAssumption DEF Init
<1>1. TypeOK
  BY DEF TypeOK, Blocks, Objects, Valid
<1>2. NoOverlap
  BY DEF NoOverlap, Valid, Pending
<1>3. NoGap
  BY DEF NoGap, Valid, Pending, Covers, End
<1>4. Coalesced
  BY DEF Coalesced, CanBeCoalesced, End
<1>5. LoopInv
  BY DEF LoopInv
<1>6. QED
  BY <1>1, <1>2, <1>3, <1>4, <1>5 DEF IInv

\* Handing out size bytes of a free block to objects that had none, cut in
\* any way that leaves no byte over, keeps every byte owned once.
LEMMA HandOut ==
  ASSUME IInv, phase = "idle", UNCHANGED batch,
         NEW b \in explicit_list, NEW size \in Nat \ {0}, b.size >= size,
         TakeFrom(b, size),
         NEW hs \in SUBSET Handles,
         \A h \in hs : objs[h].st = "none",
         objs' \in [Handles -> Objects],
         \A h \in Handles \ hs : objs'[h] = objs[h],
         \A h \in hs : /\ objs'[h].st = "valid"
                        /\ objs'[h].phy_size > 0
                        /\ b.start <= objs'[h].address
                        /\ End(BlockOf(h))' <= b.start + size,
         \A g, h \in hs : g = h \/ Apart(BlockOf(g), BlockOf(h))',
         \A a \in b.start .. b.start + size - 1 :
           \E h \in hs : Covers(BlockOf(h), a)'
  PROVE  /\ NoOverlap' /\ NoGap' /\ Coalesced' /\ LoopInv'
         /\ explicit_list' \subseteq Blocks
         /\ \A h \in Valid' : objs'[h].phy_size > 0
<1>. DEFINE taken == [start |-> b.start, size |-> size]
<1>. USE DEF IInv
<1>1. /\ explicit_list \subseteq Blocks
      /\ objs \in [Handles -> Objects]
      /\ \A h \in Valid : BlockOf(h) \in Blocks
  BY DEF TypeOK, BlockOf, Blocks, Objects, Valid
<1>2. Pending = {} /\ Pending' = {} /\ new_free_block' = {} /\ new_free_blocks' = {}
  BY DEF LoopInv, Pending, batch
<1>3. /\ explicit_list' \subseteq Blocks
      /\ \A c, d \in explicit_list' : c = d \/ Apart(c, d)
      /\ Coalesced'
      /\ \A c \in explicit_list' : Apart(c, taken)
      /\ \A d \in Blocks : (\A c \in explicit_list : Apart(c, d))
           => \A c \in explicit_list' : Apart(c, d)
      /\ \A a \in Nat : \A c \in explicit_list : Covers(c, a)
           => \/ \E e \in explicit_list' : Covers(e, a)
              \/ b.start <= a /\ a < b.start + size
      /\ \A n \in Nat : (\A c \in explicit_list : End(c) <= n)
           => \A c \in explicit_list' : End(c) <= n
  BY <1>1, TakeFromTakes DEF NoOverlap
<1>4. /\ Valid' = Valid \cup hs /\ Valid \cap hs = {}
      /\ \A h \in Valid : BlockOf(h)' = BlockOf(h)
      /\ \A h \in hs : BlockOf(h)' \in Blocks
  <2>1. Valid' = Valid \cup hs
    BY <1>1 DEF Valid
  <2>2. Valid \cap hs = {}
    BY DEF Valid
  <2>3. \A h \in Valid : BlockOf(h)' = BlockOf(h)
    BY <2>2 DEF Valid, BlockOf
  <2>4. \A h \in hs : BlockOf(h)' \in Blocks
    <3>. TAKE h \in hs
    <3>1. objs'[h] \in Objects /\ objs'[h].phy_size > 0
      OBVIOUS
    <3>2. QED
      BY <3>1 DEF BlockOf, Blocks, Objects
  <2>5. QED
    BY <2>1, <2>2, <2>3, <2>4
<1>5. taken \in Blocks
  BY <1>1 DEF Blocks
<1>6. \A h \in hs : \A d \in Blocks : Apart(d, taken) =>
         Apart(d, BlockOf(h)') /\ Apart(BlockOf(h)', d)
  BY <1>1, <1>4 DEF Apart, Blocks, End, BlockOf
<1>7. \A h \in Valid : Apart(b, BlockOf(h))
  BY DEF NoOverlap
<1>8. \A h \in Valid : Apart(BlockOf(h), taken)
  BY <1>1, <1>7 DEF Apart, Blocks, End
<1>9. NoOverlap'
  <2>1. \A g, h \in Valid' : g = h \/ Apart(BlockOf(g)', BlockOf(h)')
    <3>. TAKE g, h \in Valid'
    <3>1. CASE g \in hs /\ h \in hs
      BY <3>1
    <3>2. CASE g \in hs /\ h \in Valid
      BY <3>2, <1>1, <1>4, <1>6, <1>8
    <3>3. CASE g \in Valid /\ h \in hs
      BY <3>3, <1>1, <1>4, <1>6, <1>8
    <3>4. CASE g \in Valid /\ h \in Valid
      BY <3>4, <1>4 DEF NoOverlap
    <3>5. QED
      BY <1>4, <3>1, <3>2, <3>3, <3>4
  <2>2. \A c \in explicit_list', h \in Valid' : Apart(c, BlockOf(h)')
    <3>. TAKE c \in explicit_list', h \in Valid'
    <3>1. CASE h \in hs
      BY <3>1, <1>3, <1>6
    <3>2. CASE h \in Valid
      BY <3>2, <1>1, <1>3, <1>4 DEF NoOverlap
    <3>3. QED
      BY <1>4, <3>1, <3>2
  <2>3. QED
    BY <1>2, <1>3, <2>1, <2>2 DEF NoOverlap
<1>10. NoGap'
  <2>1. /\ \A c \in explicit_list : End(c) <= BufferSize
        /\ \A h \in Valid : End(BlockOf(h)) <= BufferSize
        /\ BufferSize \in Nat
    BY AllocAssumption DEF NoGap
  <2>2. \A c \in explicit_list' : End(c) <= BufferSize
    BY <1>3, <2>1
  <2>3. \A h \in Valid' : End(BlockOf(h)') <= BufferSize
    <3>1. b.start + size <= BufferSize
      BY <1>1, <2>1 DEF End, Blocks
    <3>2. \A h \in hs : End(BlockOf(h)') <= BufferSize
      BY <1>1, <1>4, <2>1, <3>1 DEF End, Blocks
    <3>3. QED
      BY <1>4, <2>1, <3>2
  <2>4. ASSUME NEW a \in 0 .. BufferSize - 1
        PROVE  \/ \E c \in explicit_list' : Covers(c, a)
               \/ \E h \in Valid' : Covers(BlockOf(h)', a)
    <3>1. CASE \E c \in explicit_list : Covers(c, a)
      <4>1. \/ \E e \in explicit_list' : Covers(e, a)
            \/ b.start <= a /\ a < b.start + size
        BY <3>1, <1>3, <2>1
      <4>2. ASSUME b.start <= a, a < b.start + size
            PROVE  \E h \in hs : Covers(BlockOf(h)', a)
        BY <4>2, <1>1, <2>1 DEF Blocks, Covers
      <4>3. QED
        BY <4>1, <4>2, <1>4
    <3>2. CASE \E h \in Valid : Covers(BlockOf(h), a)
      BY <3>2, <1>4
    <3>3. QED
      BY <3>1, <3>2, <1>2 DEF NoGap
  <2>5. QED
    BY <1>2, <2>2, <2>3, <2>4 DEF NoGap, Covers
<1>11. LoopInv'
  BY DEF LoopInv, batch
<1>12. \A h \in Valid' : objs'[h].phy_size > 0
  BY <1>4, <1>1 DEF TypeOK, Valid
<1>13. QED
  BY <1>3, <1>9, <1>10, <1>11, <1>12

\* allocate, whether it finds a block or not, keeps the inductive invariant.
LEMMA AllocateStep ==
  ASSUME IInv, NEW raw \in RawSizes, NEW h \in Handles, Allocate(raw, h)
  PROVE  IInv'
<1>. DEFINE size == AlignedSize(raw)
<1>1. size \in Nat \ {0}
  BY AlignedSizeType
<1>. HIDE DEF size
<1>2. PICK b \in FirstFit(size) :
        /\ TakeFrom(b, size)
        /\ objs' = [objs EXCEPT ![h] = FreshObject(b.start, size)]
  BY DEF Allocate, size
<1>3. b \in explicit_list /\ b.size >= size /\ b \in Blocks
  BY DEF FirstFit, Fitting, IInv, TypeOK
<1>4. /\ phase = "idle" /\ objs[h].st = "none" /\ UNCHANGED batch
      /\ total_allocated_size' \in Int /\ num_active_allocations' \in Nat
  BY <1>1 DEF Allocate, IInv, TypeOK, size
<1>5. FreshObject(b.start, size) \in Objects
  BY <1>1, <1>3 DEF FreshObject, Objects, Blocks
<1>6. objs \in [Handles -> Objects]
  BY DEF IInv, TypeOK
<1>7. /\ objs' \in [Handles -> Objects]
      /\ objs'[h] = FreshObject(b.start, size)
      /\ \A g \in Handles \ {h} : objs'[g] = objs[g]
  BY <1>2, <1>5, <1>6
<1>8. BlockOf(h)' = [start |-> b.start, size |-> size]
  BY <1>7 DEF BlockOf, FreshObject
<1>9. objs'[h].st = "valid" /\ objs'[h].phy_size = size /\ objs'[h].address = b.start
  BY <1>7 DEF FreshObject
<1>10. End(BlockOf(h))' = b.start + size
  BY <1>8 DEF End
<1>11. \A a \in b.start .. b.start + size - 1 : Covers(BlockOf(h), a)'
  BY <1>1, <1>3, <1>8 DEF Covers, End, Blocks
<1>12. /\ NoOverlap' /\ NoGap' /\ Coalesced' /\ LoopInv'
       /\ explicit_list' \subseteq Blocks
       /\ \A g \in Valid' : objs'[g].phy_size > 0
  <2>. DEFINE hs == {h}
  <2>1. /\ \A g \in hs : objs[g].st = "none"
        /\ \A g \in Handles \ hs : objs'[g] = objs[g]
        /\ \A g, k \in hs : g = k
        /\ hs \in SUBSET Handles
    BY <1>4, <1>7
  <2>2. \A g \in hs : /\ objs'[g].st = "valid"
                       /\ objs'[g].phy_size > 0
                       /\ b.start <= objs'[g].address
                       /\ End(BlockOf(g))' <= b.start + size
    BY <1>1, <1>3, <1>9, <1>10 DEF Blocks
  <2>3. \A a \in b.start .. b.start + size - 1 : \E g \in hs : Covers(BlockOf(g), a)'
    BY <1>11
  <2>. HIDE DEF hs
  <2>4. QED
    BY <1>1, <1>2, <1>3, <1>4, <1>7, <2>1, <2>2, <2>3, HandOut
<1>13. TypeOK'
  BY <1>4, <1>7, <1>12 DEF IInv, TypeOK, batch
<1>14. QED
  BY <1>12, <1>13 DEF IInv

\* Multiples of a positive unit: an offset below n units lies in exactly one.
LEMMA UnitSteps ==
  ASSUME NEW u \in Nat \ {0}, NEW n \in Nat \ {0}
  PROVE  /\ \A i \in 1..n : u * (i - 1) \in Nat /\ u * (i - 1) + u <= u * n
         /\ \A i, j \in 1..n : i < j => u * (i - 1) + u <= u * (j - 1)
         /\ \A x \in 0 .. u * n - 1 :
              \E i \in 1..n : u * (i - 1) <= x /\ x < u * (i - 1) + u
<1>1. \A i, j \in Nat : i <= j => u * i <= u * j
  OBVIOUS
<1>2. \A i \in 1..n : u * (i - 1) + u = u * i
  OBVIOUS
<1>3. \A i \in 1..n : u * (i - 1) \in Nat /\ u * i <= u * n
  BY <1>1
<1>4. \A i, j \in 1..n : i < j => u * i <= u * (j - 1)
  BY <1>1
<1>5. ASSUME NEW x \in 0 .. u * n - 1
      PROVE  \E i \in 1..n : u * (i - 1) <= x /\ x < u * (i - 1) + u
  <2>. DEFINE q == x \div u
  <2>1. q \in Nat /\ u * q <= x /\ x < u * q + u
    OBVIOUS
  <2>2. q < n
    <3>1. CASE n <= q
      <4>1. u * n <= u * q
        BY <1>1, <2>1, <3>1
      <4>2. QED
        BY <2>1, <4>1
    <3>2. QED
      BY <2>1, <3>1
  <2>3. q + 1 \in 1..n /\ (q + 1) - 1 = q
    BY <2>1, <2>2
  <2>. HIDE DEF q
  <2>4. u * ((q + 1) - 1) <= x /\ x < u * ((q + 1) - 1) + u
    BY <2>1, <2>3
  <2>5. QED
    BY <2>3, <2>4
<1>6. QED
  BY <1>2, <1>3, <1>4, <1>5

\* batched_allocate cuts one block into equal parts and keeps the invariant.
LEMMA BatchedAllocateStep ==
  ASSUME IInv, NEW raw \in RawSizes, NEW n \in BatchSizes,
         NEW hs \in SUBSET Handles, NEW pos \in [hs -> 1..n],
         BatchedAllocate(raw, n, hs, pos)
  PROVE  IInv'
<1>. DEFINE unit == AlignedSize(raw)
            size == unit * n
            at(h) == unit * (pos[h] - 1)
<1>1. unit \in Nat \ {0} /\ n \in Nat \ {0}
  BY AlignedSizeType, AllocAssumption
<1>2. size \in Nat \ {0}
  BY <1>1
<1>3. PICK b \in FirstFit(size) :
        /\ TakeFrom(b, size)
        /\ objs' = [h \in Handles |->
                      IF h \in hs THEN FreshObject(b.start + at(h), unit)
                                  ELSE objs[h]]
  BY DEF BatchedAllocate
<1>4. /\ phase = "idle" /\ UNCHANGED batch
      /\ \A h \in hs : objs[h].st = "none"
      /\ \A h, g \in hs : pos[h] = pos[g] => h = g
      /\ \A i \in 1..n : \E h \in hs : pos[h] = i
      /\ total_allocated_size' \in Int /\ num_active_allocations' \in Nat
  BY <1>1, <1>2 DEF BatchedAllocate, IInv, TypeOK
<1>5. /\ \A i \in 1..n : unit * (i - 1) \in Nat /\ unit * (i - 1) + unit <= size
      /\ \A i, j \in 1..n : i < j => unit * (i - 1) + unit <= unit * (j - 1)
      /\ \A x \in 0 .. size - 1 :
           \E i \in 1..n : unit * (i - 1) <= x /\ x < unit * (i - 1) + unit
  <2>. HIDE DEF unit
  <2>1. QED
    BY <1>1, UnitSteps
<1>6. /\ \A h \in hs : at(h) \in Nat /\ at(h) + unit <= size
      /\ \A g, h \in hs : g = h \/ at(g) + unit <= at(h) \/ at(h) + unit <= at(g)
      /\ \A x \in 0 .. size - 1 : \E h \in hs : at(h) <= x /\ x < at(h) + unit
  <2>. HIDE DEF unit, size
  <2>1. \A h \in hs : pos[h] \in 1..n
    OBVIOUS
  <2>2. \A h \in hs : at(h) \in Nat /\ at(h) + unit <= size
    BY <1>5, <2>1
  <2>3. ASSUME NEW g \in hs, NEW h \in hs, g # h
        PROVE  at(g) + unit <= at(h) \/ at(h) + unit <= at(g)
    <3>1. pos[g] < pos[h] \/ pos[h] < pos[g]
      BY <1>1, <1>4, <2>1, <2>3
    <3>2. QED
      BY <1>5, <2>1, <3>1
  <2>4. ASSUME NEW x \in 0 .. size - 1
        PROVE  \E h \in hs : at(h) <= x /\ x < at(h) + unit
    <3>1. PICK i \in 1..n : unit * (i - 1) <= x /\ x < unit * (i - 1) + unit
      BY <1>5
    <3>2. PICK h \in hs : pos[h] = i
      BY <1>4
    <3>3. QED
      BY <3>1, <3>2
  <2>5. QED
    BY <2>2, <2>3, <2>4
<1>. HIDE DEF unit, size, at
<1>7. b \in explicit_list /\ b.size >= size /\ b \in Blocks
  BY <1>3 DEF FirstFit, Fitting, IInv, TypeOK
<1>8. objs \in [Handles -> Objects]
  BY DEF IInv, TypeOK
<1>9. \A h \in hs : FreshObject(b.start + at(h), unit) \in Objects
  BY <1>1, <1>6, <1>7 DEF FreshObject, Objects, Blocks
<1>10. /\ objs' \in [Handles -> Objects]
       /\ \A h \in hs : objs'[h] = FreshObject(b.start + at(h), unit)
       /\ \A h \in Handles \ hs : objs'[h] = objs[h]
  BY <1>3, <1>8, <1>9
<1>11. \A h \in hs : /\ objs'[h].st = "valid"
                     /\ objs'[h].phy_size = unit
                     /\ objs'[h].address = b.start + at(h)
                     /\ BlockOf(h)' = [start |-> b.start + at(h), size |-> unit]
  <2>. TAKE h \in hs
  <2>1. objs'[h] = FreshObject(b.start + at(h), unit)
    BY <1>10
  <2>2. QED
    BY <2>1 DEF FreshObject, BlockOf
<1>12. \A h \in hs : /\ objs'[h].st = "valid"
                     /\ objs'[h].phy_size > 0
                     /\ b.start <= objs'[h].address
                     /\ End(BlockOf(h))' <= b.start + size
  BY <1>1, <1>2, <1>6, <1>7, <1>11 DEF End, Blocks
<1>13. \A g, h \in hs : g = h \/ Apart(BlockOf(g), BlockOf(h))'
  BY <1>1, <1>2, <1>6, <1>7, <1>11 DEF Apart, End, Blocks
<1>14. ASSUME NEW a \in b.start .. b.start + size - 1
       PROVE  \E h \in hs : Covers(BlockOf(h), a)'
  <2>1. b.start \in Nat /\ a - b.start \in 0 .. size - 1
    BY <1>2, <1>7 DEF Blocks
  <2>2. PICK h \in hs : at(h) <= a - b.start /\ a - b.start < at(h) + unit
    BY <1>6, <2>1
  <2>3. Covers(BlockOf(h), a)'
    BY <1>1, <1>6, <1>11, <2>1, <2>2 DEF Covers, End
  <2>4. QED
    BY <2>3
<1>15. /\ NoOverlap' /\ NoGap' /\ Coalesced' /\ LoopInv'
       /\ explicit_list' \subseteq Blocks
       /\ \A h \in Valid' : objs'[h].phy_size > 0
  <2>1. \A a \in b.start .. b.start + size - 1 : \E h \in hs : Covers(BlockOf(h), a)'
    BY <1>14
  <2>2. TakeFrom(b, size) /\ b.size >= size
    BY <1>3, <1>7
  <2>3. QED
    BY <1>2, <1>4, <1>7, <1>10, <1>12, <1>13, <2>1, <2>2, HandOut
<1>16. TypeOK'
  BY <1>4, <1>10, <1>15 DEF IInv, TypeOK, batch
<1>17. QED
  BY <1>15, <1>16 DEF IInv

\* free gives the bytes of one object back and keeps the invariant.
LEMMA FreeStep ==
  ASSUME IInv, NEW h \in Handles, Free(h)
  PROVE  IInv'
<1>. DEFINE b == BlockOf(h)
<1>. USE DEF IInv
<1>1. /\ explicit_list \subseteq Blocks /\ h \in Valid
      /\ objs \in [Handles -> Objects]
      /\ \A g \in Valid : BlockOf(g) \in Blocks
      /\ AddFreeBlock(b) /\ UNCHANGED batch /\ phase = "idle"
  BY DEF Free, TypeOK, BlockOf, Blocks, Objects, Valid
<1>2. Pending = {} /\ Pending' = {} /\ new_free_block' = {} /\ new_free_blocks' = {}
  BY <1>1 DEF LoopInv, Pending, batch
<1>3. objs' \in [Handles -> Objects] /\ Valid' = Valid \ {h}
  BY <1>1 DEF Free, Invalidated, Objects, Valid
<1>4. \A g \in Valid' : objs'[g] = objs[g] /\ BlockOf(g)' = BlockOf(g)
  BY <1>1, <1>3 DEF Free, Invalidated, BlockOf, Valid
<1>5. \A c \in explicit_list : Apart(b, c)
  BY <1>1 DEF NoOverlap, Apart
<1>6. /\ explicit_list' \subseteq Blocks
      /\ \A c, d \in explicit_list' : c = d \/ Apart(c, d)
      /\ Coalesced'
      /\ \A d \in Blocks : Apart(d, b) /\ (\A c \in explicit_list : Apart(d, c))
           => \A c \in explicit_list' : Apart(d, c)
      /\ \A a \in Nat :
           Covers(b, a) \/ (\E c \in explicit_list : Covers(c, a))
             => \E c \in explicit_list' : Covers(c, a)
      /\ \A n \in Nat :
           End(b) <= n /\ (\A c \in explicit_list : End(c) <= n)
             => \A c \in explicit_list' : End(c) <= n
  <2>. HIDE DEF b
  <2>1. b \in Blocks
    BY <1>1 DEF b
  <2>2. QED
    BY <1>1, <1>5, <2>1, AddFreeBlockAdds DEF NoOverlap
<1>7. NoOverlap'
  <2>1. \A f, g \in Valid' : f = g \/ Apart(BlockOf(f)', BlockOf(g)')
    BY <1>3, <1>4 DEF NoOverlap
  <2>2. \A c \in explicit_list', g \in Valid' : Apart(c, BlockOf(g)')
    <3>. TAKE c \in explicit_list', g \in Valid'
    <3>1. Apart(BlockOf(g), b) /\ \A e \in explicit_list : Apart(BlockOf(g), e)
      BY <1>1, <1>3 DEF NoOverlap, Apart
    <3>2. Apart(BlockOf(g), c)
      BY <1>1, <1>3, <1>6, <3>1
    <3>3. QED
      BY <1>4, <3>2 DEF Apart
  <2>3. QED
    BY <1>2, <1>6, <2>1, <2>2 DEF NoOverlap
<1>8. NoGap'
  <2>1. \A c \in explicit_list' : End(c) <= BufferSize
    BY <1>1, <1>6, AllocAssumption DEF NoGap
  <2>2. \A g \in Valid' : End(BlockOf(g)') <= BufferSize
    BY <1>3, <1>4 DEF NoGap
  <2>3. ASSUME NEW a \in 0 .. BufferSize - 1
        PROVE  \/ \E c \in explicit_list' : Covers(c, a)
               \/ \E g \in Valid' : Covers(BlockOf(g)', a)
    <3>1. a \in Nat
      OBVIOUS
    <3>2. \/ \E c \in explicit_list : Covers(c, a)
          \/ \E g \in Valid : Covers(BlockOf(g), a)
      BY <1>2 DEF NoGap
    <3>3. QED
      BY <1>3, <1>4, <1>6, <3>1, <3>2
  <2>4. QED
    BY <1>2, <2>1, <2>2, <2>3 DEF NoGap, Covers
<1>9. LoopInv'
  BY <1>1 DEF LoopInv, batch
<1>10. TypeOK'
  <2>1. total_allocated_size' \in Int /\ num_active_allocations' \in Nat
    BY <1>1 DEF Free, TypeOK, NonNegative, Objects
  <2>2. \A g \in Valid' : objs'[g].phy_size > 0
    BY <1>3, <1>4 DEF TypeOK
  <2>3. QED
    BY <1>1, <1>3, <1>6, <2>1, <2>2 DEF TypeOK, batch
<1>11. QED
  BY <1>6, <1>7, <1>8, <1>9, <1>10

\* The scan of batched_free moves one object's bytes to the run it is building,
\* or closes the run and starts another; every byte keeps its one owner.
LEMMA ScanValidStep ==
  ASSUME IInv, ScanValid
  PROVE  IInv'
<1>. DEFINE h == Head(memory_objs)
            k == BlockOf(h)
<1>. USE DEF IInv
<1>1. /\ h \in Handles /\ h \in Valid /\ Tail(memory_objs) \in Seq(Handles)
      /\ phase = "scan" /\ phase' = phase
      /\ memory_objs' = Tail(memory_objs)
      /\ objs' = Invalidated(h)
      /\ explicit_list' = explicit_list
      /\ total_allocated_size' = total_allocated_size
      /\ num_active_allocations' = num_active_allocations
      /\ total_freed_size' = total_freed_size + objs[h].phy_size
      /\ num_valid_blocks' = num_valid_blocks + 1
  BY DEF ScanValid, TypeOK, Valid, counters
<1>2. /\ \/ /\ new_free_block = {}
            /\ new_free_block' = {k}
            /\ curr_start' = curr_start + k.size
            /\ new_free_blocks' = new_free_blocks
         \/ /\ curr_start = k.start
            /\ \E b \in new_free_block :
                 new_free_block' = {[start |-> b.start, size |-> b.size + k.size]}
            /\ curr_start' = curr_start + k.size
            /\ new_free_blocks' = new_free_blocks
         \/ /\ new_free_block # {} /\ curr_start # k.start
            /\ new_free_blocks' = new_free_blocks \cup new_free_block
            /\ new_free_block' = {k}
            /\ curr_start' = k.start + k.size
  BY DEF ScanValid, BlockOf
<1>3. /\ explicit_list \subseteq Blocks /\ objs \in [Handles -> Objects]
      /\ \A g \in Valid : BlockOf(g) \in Blocks
      /\ k \in Blocks
      /\ Pending \subseteq Blocks
  BY SMTT(20), <1>1 DEF TypeOK, BlockOf, Blocks, Objects, Valid, Pending
<1>4. objs' \in [Handles -> Objects] /\ Valid' = Valid \ {h}
  BY <1>1, <1>3 DEF Invalidated, Objects, Valid
<1>5. \A g \in Valid' : objs'[g] = objs[g] /\ BlockOf(g)' = BlockOf(g)
  BY <1>1, <1>3, <1>4 DEF Invalidated, BlockOf, Valid
<1>6. /\ \A c \in explicit_list : Apart(c, k)
      /\ \A c \in Pending : Apart(c, k)
      /\ \A g \in Valid' : Apart(BlockOf(g), k)
  BY <1>1, <1>4 DEF NoOverlap
\* Together, the pending blocks gain exactly the bytes of h.
<1>. DEFINE Gained ==
              /\ Pending' \subseteq Blocks
              /\ new_free_block' \subseteq Blocks /\ new_free_blocks' \subseteq Blocks
              /\ \A b, c \in new_free_block' : b = c
              /\ \A b, c \in Pending' : b = c \/ Apart(b, c)
              /\ new_free_block' \cap new_free_blocks' = {}
              /\ \A d \in Blocks : (\A c \in Pending : Apart(c, d)) /\ Apart(d, k)
                   => \A c \in Pending' : Apart(c, d)
              /\ \A c \in Pending' : End(c) <= BufferSize
              /\ \A a \in Nat : Covers(k, a) \/ (\E c \in Pending : Covers(c, a))
                   => \E c \in Pending' : Covers(c, a)
              /\ new_free_block' # {} /\ \A b \in new_free_block' : curr_start' = End(b)
              /\ curr_start' \in Nat
<1>7. Gained
  <2>. HIDE DEF k, h
  <2>1. /\ BufferSize \in Nat /\ End(k) <= BufferSize
        /\ \A c \in Pending : End(c) <= BufferSize
    BY <1>1, AllocAssumption DEF NoGap, k
  <2>2. /\ \A b, c \in Pending : b = c \/ Apart(b, c)
        /\ new_free_block \cap new_free_blocks = {}
        /\ \A b, c \in new_free_block : b = c
        /\ new_free_block \subseteq Blocks /\ new_free_blocks \subseteq Blocks
        /\ \A b \in new_free_block : curr_start = End(b)
        /\ curr_start \in Nat
    BY DEF NoOverlap, TypeOK, LoopInv
  <2>3. k \notin Pending
    BY <1>3, <1>6 DEF Apart, Blocks, End
  <2>4. ASSUME new_free_block' = {k},
               new_free_blocks' = new_free_blocks \cup new_free_block,
               curr_start' = End(k)
        PROVE  Gained
    <3>1. Pending' = Pending \cup {k}
      BY <2>4 DEF Pending
    <3>2. new_free_block' \cap new_free_blocks' = {}
      BY <2>3, <2>4 DEF Pending
    <3>3. \A b, c \in Pending' : b = c \/ Apart(b, c)
      BY <1>6, <2>2, <3>1 DEF Apart
    <3>4. \A d \in Blocks : (\A c \in Pending : Apart(c, d)) /\ Apart(d, k)
            => \A c \in Pending' : Apart(c, d)
      BY <3>1 DEF Apart
    <3>5. curr_start' \in Nat
      BY <1>3, <2>4 DEF Blocks, End
    <3>6. QED
      BY <1>3, <2>1, <2>2, <2>4, <3>1, <3>2, <3>3, <3>4, <3>5
  <2>5. CASE /\ new_free_block = {}
             /\ new_free_block' = {k}
             /\ curr_start' = curr_start + k.size
             /\ new_free_blocks' = new_free_blocks
    <3>1. curr_start = k.start
      BY <1>1, <2>5 DEF LoopInv, k, h, BlockOf
    <3>2. QED
      BY <2>4, <2>5, <3>1 DEF End
  <2>6. CASE /\ curr_start = k.start
             /\ \E b \in new_free_block :
                  new_free_block' = {[start |-> b.start, size |-> b.size + k.size]}
             /\ curr_start' = curr_start + k.size
             /\ new_free_blocks' = new_free_blocks
    <3>1. PICK b \in new_free_block :
            new_free_block' = {[start |-> b.start, size |-> b.size + k.size]}
      BY <2>6
    <3>. DEFINE m == [start |-> b.start, size |-> b.size + k.size]
    <3>2. b \in Blocks /\ End(b) = k.start /\ b \in Pending
      BY <2>2, <2>6 DEF Pending
    <3>3. m \in Blocks /\ m.start = b.start /\ End(m) = End(k)
      BY <1>3, <3>2 DEF Blocks, End
    <3>4. Pending = new_free_blocks \cup {b} /\ Pending' = new_free_blocks \cup {m}
      BY <2>2, <2>6, <3>1 DEF Pending
    <3>5. \A d \in Blocks : Apart(d, b) /\ Apart(d, k) => Apart(d, m) /\ Apart(m, d)
      BY <1>3, <3>2, <3>3 DEF Apart, Blocks, End
    <3>6. \A c \in new_free_blocks : Apart(c, b) /\ Apart(c, k) /\ c \in Blocks
      BY <1>6, <2>2, <3>4
    <3>7. \A c \in new_free_blocks : Apart(c, m) /\ Apart(m, c) /\ c # m
      BY <3>3, <3>5, <3>6 DEF Apart, Blocks, End
    <3>8. \A d \in Blocks : (\A c \in Pending : Apart(c, d)) /\ Apart(d, k)
            => \A c \in Pending' : Apart(c, d)
      BY <3>4, <3>5, <3>2 DEF Apart
    <3>9. \A a \in Nat : Covers(k, a) \/ (\E c \in Pending : Covers(c, a))
            => \E c \in Pending' : Covers(c, a)
      <4>1. \A a \in Nat : Covers(k, a) \/ Covers(b, a) => Covers(m, a)
        BY <1>3, <3>2, <3>3 DEF Covers, Blocks, End
      <4>2. QED
        BY <3>4, <4>1
    <3>10. \A b1, c1 \in Pending' : b1 = c1 \/ Apart(b1, c1)
      BY <2>2, <3>4, <3>7
    <3>11. curr_start' = End(m) /\ curr_start' \in Nat
      BY <1>3, <2>6, <3>3 DEF Blocks, End
    <3>. HIDE DEF m
    <3>12. new_free_block' = {m} /\ new_free_blocks' = new_free_blocks
      BY <2>6, <3>1 DEF m
    <3>13. new_free_block' \cap new_free_blocks' = {}
      BY <3>7, <3>12
    <3>14. \A c \in Pending' : End(c) <= BufferSize
      BY <2>1, <3>3, <3>4
    <3>15. QED
      BY <2>2, <3>3, <3>4, <3>8, <3>9, <3>10, <3>11, <3>12, <3>13, <3>14
  <2>7. CASE /\ new_free_block # {} /\ curr_start # k.start
             /\ new_free_blocks' = new_free_blocks \cup new_free_block
             /\ new_free_block' = {k}
             /\ curr_start' = k.start + k.size
    BY <2>4, <2>7 DEF End
  <2>8. QED
    BY <1>2, <2>5, <2>6, <2>7
<1>8. NoOverlap'
  <2>. HIDE DEF k, h
  <2>1. \A f, g \in Valid' : f = g \/ Apart(BlockOf(f)', BlockOf(g)')
    BY <1>4, <1>5 DEF NoOverlap
  <2>2. \A c \in explicit_list', g \in Valid' : Apart(c, BlockOf(g)')
    BY <1>1, <1>4, <1>5 DEF NoOverlap
  <2>3. \A c \in explicit_list', d \in Pending' : Apart(c, d)
    <3>1. \A c \in explicit_list : (\A d \in Pending : Apart(d, c)) /\ Apart(c, k)
      BY <1>6 DEF NoOverlap, Apart
    <3>2. QED
      BY <1>1, <1>3, <1>7, <3>1 DEF Apart
  <2>4. \A c \in Pending', g \in Valid' : Apart(c, BlockOf(g)')
    <3>1. \A g \in Valid' : /\ \A d \in Pending : Apart(d, BlockOf(g))
                            /\ Apart(BlockOf(g), k) /\ BlockOf(g) \in Blocks
      BY <1>3, <1>4, <1>6 DEF NoOverlap
    <3>2. QED
      BY <1>5, <1>7, <3>1
  <2>5. QED
    BY <1>1, <1>7, <2>1, <2>2, <2>3, <2>4 DEF NoOverlap
<1>9. NoGap'
  <2>. HIDE DEF k, h
  <2>1. \A g \in Valid' : End(BlockOf(g)') <= BufferSize
    BY <1>4, <1>5 DEF NoGap
  <2>2. \A c \in explicit_list' \cup Pending' : End(c) <= BufferSize
    BY <1>1, <1>7 DEF NoGap
  <2>3. ASSUME NEW a \in 0 .. BufferSize - 1
        PROVE  \/ \E c \in explicit_list' \cup Pending' : Covers(c, a)
               \/ \E g \in Valid' : Covers(BlockOf(g)', a)
    <3>1. a \in Nat
      OBVIOUS
    <3>2. CASE \E c \in explicit_list : Covers(c, a)
      BY <1>1, <3>2
    <3>3. CASE \E c \in Pending : Covers(c, a)
      BY <1>7, <3>1, <3>3
    <3>4. CASE \E g \in Valid : Covers(BlockOf(g), a)
      <4>1. PICK g \in Valid : Covers(BlockOf(g), a)
        BY <3>4
      <4>2. CASE g = h
        BY <1>7, <3>1, <4>1, <4>2 DEF k
      <4>3. CASE g # h
        BY <1>4, <1>5, <4>1, <4>3
      <4>4. QED
        BY <4>2, <4>3
    <3>5. QED
      BY <3>2, <3>3, <3>4 DEF NoGap
  <2>4. QED
    BY <2>1, <2>2, <2>3 DEF NoGap, Covers
<1>10. Coalesced'
  BY <1>1 DEF Coalesced
<1>11. LoopInv'
  BY <1>1, <1>7 DEF LoopInv
<1>12. TypeOK'
  <2>1. \A g \in Valid' : objs'[g].phy_size > 0
    BY <1>4, <1>5 DEF TypeOK
  <2>2. total_freed_size' \in Nat /\ num_valid_blocks' \in Nat
    BY <1>1, <1>3 DEF TypeOK, Objects
  <2>. HIDE DEF k, h
  <2>3. QED
    BY <1>1, <1>4, <1>7, <2>1, <2>2 DEF TypeOK
<1>13. QED
  BY <1>8, <1>9, <1>10, <1>11, <1>12

\* The second loop of batched_free moves one built block to the free list.
LEMMA InsertBlockStep ==
  ASSUME IInv, InsertBlock
  PROVE  IInv'
<1>. USE DEF IInv
<1>1. PICK b \in new_free_blocks : /\ AddFreeBlock(b)
                                  /\ new_free_blocks' = new_free_blocks \ {b}
  BY DEF InsertBlock
<1>2. /\ phase = "insert" /\ new_free_block = {}
      /\ UNCHANGED <<objs, counters, phase, memory_objs, new_free_block,
                     curr_start, total_freed_size, num_valid_blocks>>
  BY DEF InsertBlock, LoopInv
<1>3. /\ Pending = new_free_blocks /\ Pending' = Pending \ {b} /\ b \in Pending
      /\ explicit_list \subseteq Blocks /\ Pending \subseteq Blocks /\ b \in Blocks
      /\ objs \in [Handles -> Objects]
      /\ Valid' = Valid /\ \A h \in Valid : BlockOf(h)' = BlockOf(h)
      /\ \A h \in Valid : BlockOf(h) \in Blocks
  BY <1>1, <1>2 DEF Pending, TypeOK, Valid, BlockOf, Blocks, Objects
<1>4. \A c \in explicit_list : Apart(b, c)
  BY <1>3 DEF NoOverlap, Apart
<1>5. /\ explicit_list' \subseteq Blocks
      /\ \A c, d \in explicit_list' : c = d \/ Apart(c, d)
      /\ Coalesced'
      /\ \A d \in Blocks : Apart(d, b) /\ (\A c \in explicit_list : Apart(d, c))
           => \A c \in explicit_list' : Apart(d, c)
      /\ \A a \in Nat :
           Covers(b, a) \/ (\E c \in explicit_list : Covers(c, a))
             => \E c \in explicit_list' : Covers(c, a)
      /\ \A n \in Nat :
           End(b) <= n /\ (\A c \in explicit_list : End(c) <= n)
             => \A c \in explicit_list' : End(c) <= n
  BY <1>1, <1>3, <1>4, AddFreeBlockAdds DEF NoOverlap
<1>6. NoOverlap'
  <2>1. \A c \in explicit_list', h \in Valid' : Apart(c, BlockOf(h)')
    <3>1. \A h \in Valid : /\ Apart(BlockOf(h), b)
                           /\ \A c \in explicit_list : Apart(BlockOf(h), c)
      BY <1>3 DEF NoOverlap, Apart
    <3>2. QED
      BY <1>3, <1>5, <3>1 DEF Apart
  <2>2. \A c \in explicit_list', d \in Pending' : Apart(c, d)
    <3>1. \A d \in Pending' : Apart(d, b) /\ \A c \in explicit_list : Apart(d, c)
      BY <1>3 DEF NoOverlap, Apart
    <3>2. QED
      BY <1>3, <1>5, <3>1 DEF Apart
  <2>3. QED
    BY <1>2, <1>3, <1>5, <2>1, <2>2 DEF NoOverlap
<1>7. NoGap'
  <2>1. \A c \in explicit_list' \cup Pending' : End(c) <= BufferSize
    BY <1>3, <1>5, AllocAssumption DEF NoGap
  <2>2. \A h \in Valid' : End(BlockOf(h)') <= BufferSize
    BY <1>3 DEF NoGap
  <2>3. ASSUME NEW a \in 0 .. BufferSize - 1
        PROVE  \/ \E c \in explicit_list' \cup Pending' : Covers(c, a)
               \/ \E h \in Valid' : Covers(BlockOf(h)', a)
    <3>1. a \in Nat
      OBVIOUS
    <3>2. CASE \E c \in explicit_list : Covers(c, a)
      BY <1>5, <3>1, <3>2
    <3>3. CASE \E c \in Pending : Covers(c, a)
      BY <1>3, <1>5, <3>1, <3>3
    <3>4. CASE \E h \in Valid : Covers(BlockOf(h), a)
      BY <1>3, <3>4
    <3>5. QED
      BY <3>2, <3>3, <3>4 DEF NoGap
  <2>4. QED
    BY <2>1, <2>2, <2>3 DEF NoGap, Covers
<1>8. LoopInv'
  BY <1>2 DEF LoopInv
<1>9. TypeOK'
  BY <1>1, <1>2, <1>3, <1>5 DEF TypeOK, counters
<1>10. QED
  BY <1>5, <1>6, <1>7, <1>8, <1>9

\* The steps that move no bytes: they change the state of the loops, the
\* counters, or the identity of an object that is not valid.
LEMMA OtherStep ==
  ASSUME ~AllowStaleHead, IInv,
         \/ \E list \in FreeLists : BatchedFreeBegin(list)
         \/ ScanInvalid \/ ScanEnd \/ BatchedFreeEnd
         \/ \E h \in Handles : Drop(h)
         \/ UNCHANGED vars
  PROVE  IInv'
<1>. USE DEF IInv
<1>1. /\ explicit_list' = explicit_list /\ Valid' = Valid
      /\ objs' \in [Handles -> Objects]
      /\ \A h \in Valid : objs'[h] = objs[h]
  <2>1. CASE UNCHANGED lists
    BY <2>1 DEF lists, TypeOK, Valid
  <2>2. ASSUME NEW h \in Handles, Drop(h)
        PROVE  <1>1
    <3>1. /\ objs' = [objs EXCEPT ![h] = [st |-> "none", address |-> 0, phy_size |-> 0]]
          /\ objs[h].st = "invalid" /\ explicit_list' = explicit_list
          /\ objs \in [Handles -> Objects]
      BY <2>2 DEF Drop, TypeOK
    <3>2. [st |-> "none", address |-> 0, phy_size |-> 0] \in Objects
      BY DEF Objects
    <3>3. objs' \in [Handles -> Objects]
      BY <3>1, <3>2
    <3>4. QED
      BY <3>1, <3>3 DEF Valid
  <2>3. QED
    BY <2>1, <2>2 DEF BatchedFreeBegin, ScanInvalid, ScanEnd, BatchedFreeEnd, vars, lists
<1>2. \A h \in Valid : BlockOf(h)' = BlockOf(h)
  BY <1>1 DEF BlockOf
<1>3. TypeOK' /\ LoopInv' /\ Pending' = Pending
         /\ new_free_block' \cap new_free_blocks' = {}
  <2>1. ASSUME NEW list \in FreeLists, BatchedFreeBegin(list)
        PROVE  <1>3
    <3>1. list \in Seq(Handles) /\ list # <<>> /\ Head(list) = list[1] /\ list[1] \in Handles
      BY DEF FreeLists
    <3>2. new_free_block = {} /\ new_free_blocks = {}
      BY <2>1 DEF BatchedFreeBegin, LoopInv
    <3>3. curr_start' = objs[list[1]].address /\ objs[list[1]].st = "valid"
      BY <2>1, <3>1 DEF BatchedFreeBegin
    <3>4. curr_start' \in Nat
      BY <3>1, <3>3 DEF TypeOK, Objects
    <3>5. QED
      BY <1>1, <2>1, <3>1, <3>2, <3>3, <3>4
      DEF BatchedFreeBegin, TypeOK, LoopInv, Pending, counters, lists
  <2>2. CASE ScanInvalid
    <3>1. Tail(memory_objs) \in Seq(Handles) /\ new_free_block # {}
      BY <2>2 DEF ScanInvalid, TypeOK, LoopInv
    <3>2. QED
      BY <1>1, <2>2, <3>1
      DEF ScanInvalid, TypeOK, LoopInv, Pending, NoOverlap, counters, lists
  <2>3. CASE ScanEnd
    <3>1. new_free_block # {}
      BY <2>3 DEF ScanEnd, LoopInv
    <3>2. Pending' = Pending
      BY <2>3 DEF ScanEnd, Pending
    <3>3. QED
      BY <1>1, <2>3, <3>1, <3>2
      DEF ScanEnd, TypeOK, LoopInv, counters, lists
  <2>4. CASE BatchedFreeEnd
    BY <1>1, <2>4
    DEF BatchedFreeEnd, TypeOK, LoopInv, Pending, NoOverlap, NonNegative, lists
  <2>5. ASSUME NEW h \in Handles, Drop(h)
        PROVE  <1>3
    BY <1>1, <2>5
    DEF Drop, TypeOK, LoopInv, Pending, NoOverlap, counters, batch
  <2>6. CASE UNCHANGED vars
    BY <1>1, <2>6
    DEF vars, TypeOK, LoopInv, Pending, NoOverlap, counters, lists, batch
  <2>7. QED
    BY <2>1, <2>2, <2>3, <2>4, <2>5, <2>6
<1>4. NoOverlap'
  BY <1>1, <1>2, <1>3 DEF NoOverlap
<1>5. NoGap'
  BY <1>1, <1>2, <1>3 DEF NoGap, Covers
<1>6. Coalesced'
  BY <1>1 DEF Coalesced
<1>7. QED
  BY <1>3, <1>4, <1>5, <1>6

-----------------------------------------------------------------------------
\* Every step of the allocator keeps the inductive invariant.
THEOREM IInvInvariant ==
  ASSUME ~AllowStaleHead
  PROVE  Spec => []IInv
<1>1. IInv /\ [Next]_vars => IInv'
  <2>. SUFFICES ASSUME IInv, [Next]_vars PROVE IInv'
    OBVIOUS
  <2>1. ASSUME NEW raw \in RawSizes, NEW h \in Handles, Allocate(raw, h)
        PROVE  IInv'
    BY <2>1, AllocateStep
  <2>2. ASSUME NEW raw \in RawSizes, NEW n \in BatchSizes,
               NEW hs \in SUBSET Handles, NEW pos \in [hs -> 1..n],
               BatchedAllocate(raw, n, hs, pos)
        PROVE  IInv'
    BY <2>2, BatchedAllocateStep
  <2>3. ASSUME NEW h \in Handles, Free(h)
        PROVE  IInv'
    BY <2>3, FreeStep
  <2>4. CASE ScanValid
    BY <2>4, ScanValidStep
  <2>5. CASE InsertBlock
    BY <2>5, InsertBlockStep
  <2>6. CASE \/ \E list \in FreeLists : BatchedFreeBegin(list)
             \/ ScanInvalid \/ ScanEnd \/ BatchedFreeEnd
             \/ \E h \in Handles : Drop(h)
             \/ UNCHANGED vars
    BY <2>6, OtherStep
  <2>7. QED
    BY <2>1, <2>2, <2>3, <2>4, <2>5, <2>6 DEF Next
<1>2. QED
  BY <1>1, InitIInv, PTL DEF Spec

\* The variables keep their types.
THEOREM TypeCorrect ==
  ASSUME ~AllowStaleHead
  PROVE  Spec => []TypeOK
<1>1. IInv => TypeOK
  BY DEF IInv
<1>2. QED
  BY <1>1, IInvInvariant, PTL

\* Memory safety of the allocator: at every moment, also in the middle of a
\* batched_free, each byte of the buffer is free, about to be free, or part
\* of exactly one valid object.
THEOREM MemorySafety ==
  ASSUME ~AllowStaleHead
  PROVE  Spec => []EveryByteOwnedOnce
<1>1. IInv => EveryByteOwnedOnce
  BY DEF IInv, EveryByteOwnedOnce
<1>2. QED
  BY <1>1, IInvInvariant, PTL

\* Freed neighbours are always merged, the second half of memcheck.
THEOREM FreeListCoalesced ==
  ASSUME ~AllowStaleHead
  PROVE  Spec => []Coalesced
<1>1. IInv => Coalesced
  BY DEF IInv
<1>2. QED
  BY <1>1, IInvInvariant, PTL

\* A set of blocks that is not empty has a first one.
LEMMA FirstFitExists ==
  ASSUME NEW size, explicit_list \subseteq Blocks, Fitting(size) # {}
  PROVE  FirstFit(size) # {}
<1>. DEFINE Starts == {b.start : b \in Fitting(size)}
            R == {ss \in Nat \X Nat : ss[1] < ss[2]}
<1>1. Starts \subseteq Nat /\ Starts # {}
  BY DEF Fitting, Blocks
<1>. HIDE DEF Starts
<1>2. PICK x \in Starts : \A y \in Starts : ~(<<y, x>> \in R)
  <2>1. IsWellFoundedOn(R, Nat)
    BY NatLessThanWellFounded DEF OpToRel
  <2>. HIDE DEF R
  <2>2. QED
    BY <1>1, <2>1, WFMin
<1>3. \A y \in Starts : x <= y
  <2>. TAKE y \in Starts
  <2>1. x \in Nat /\ y \in Nat /\ <<y, x>> \in Nat \X Nat
    BY <1>1
  <2>2. ~(y < x)
    BY <1>2, <2>1
  <2>3. QED
    BY <2>1, <2>2
<1>4. PICK b \in Fitting(size) : x = b.start
  BY DEF Starts
<1>5. QED
  BY <1>3, <1>4 DEF FirstFit, Starts

\* allocate and batched_allocate give up only when no free run of bytes is
\* long enough for the request.
THEOREM NoFalseExhaustionHolds ==
  ASSUME ~AllowStaleHead
  PROVE  Spec => []NoFalseExhaustion
<1>1. IInv => NoFalseExhaustion
  <2>. SUFFICES ASSUME IInv, phase = "idle",
                       NEW raw \in RawSizes, NEW n \in BatchSizes \cup {1},
                       NEW a \in 0 .. BufferSize - AlignedSize(raw) * n,
                       \A h \in Valid :
                         Apart([start |-> a, size |-> AlignedSize(raw) * n], BlockOf(h))
                PROVE  FirstFit(AlignedSize(raw) * n) # {}
    BY DEF NoFalseExhaustion
  <2>. DEFINE size == AlignedSize(raw) * n
  <2>1. size \in Nat \ {0}
    BY AlignedSizeType, AllocAssumption
  <2>. HIDE DEF size
  <2>2. /\ explicit_list \subseteq Blocks /\ Pending = {} /\ BufferSize \in Nat
        /\ \A h \in Valid : BlockOf(h) \in Blocks
        /\ a \in Nat /\ a + size <= BufferSize
        /\ \A h \in Valid : Apart([start |-> a, size |-> size], BlockOf(h))
    BY <2>1, AllocAssumption
    DEF IInv, TypeOK, LoopInv, Pending, Valid, BlockOf, Blocks, Objects, size
  \* No valid object owns a byte of the run, so the free list does.
  <2>3. ASSUME NEW x \in Nat, a <= x, x < a + size
        PROVE  \E c \in explicit_list : Covers(c, x)
    <3>1. ASSUME NEW h \in Valid PROVE ~Covers(BlockOf(h), x)
      BY <2>1, <2>2, <2>3 DEF Covers, Apart, End, Blocks
    <3>2. x \in 0 .. BufferSize - 1
      BY <2>1, <2>2, <2>3
    <3>3. QED
      BY <2>2, <3>1, <3>2 DEF IInv, NoGap
  <2>4. PICK c \in explicit_list : Covers(c, a)
    BY <2>1, <2>2, <2>3
  \* The block that holds the first byte reaches to the end of the run: the
  \* byte behind it would be in a block that touches it.
  <2>5. CASE End(c) < a + size
    <3>1. PICK d \in explicit_list : Covers(d, End(c))
      BY <2>2, <2>3, <2>4, <2>5 DEF Covers, End, Blocks
    <3>2. c # d /\ Apart(c, d)
      BY <2>2, <3>1 DEF IInv, NoOverlap, Covers, End, Blocks
    <3>3. CanBeCoalesced(c, d)
      BY <2>2, <3>1, <3>2 DEF CanBeCoalesced, Apart, Covers, End, Blocks
    <3>4. QED
      BY <3>3 DEF IInv, Coalesced
  <2>6. CASE End(c) >= a + size
    <3>1. c \in Fitting(size)
      BY <2>1, <2>2, <2>4, <2>6 DEF Fitting, Covers, End, Blocks
    <3>2. QED
      BY <2>2, <3>1, FirstFitExists DEF size
  <2>7. QED
    BY <2>1, <2>2, <2>5, <2>6 DEF End, Blocks
<1>2. QED
  BY <1>1, IInvInvariant, PTL

-----------------------------------------------------------------------------
(***************************************************************************)
(* The refinement of AddressSpace.  Since no two objects share a byte, the *)
(* owner that Owner picks is the only one; so what a step does to owners   *)
(* follows from what it does to the set of valid objects.                  *)
(***************************************************************************)
OwnerIsUnique ==
  /\ Owner \in [0 .. BufferSize - 1 -> Handles \cup {NoOwner}]
  /\ \A a \in 0 .. BufferSize - 1, h \in Handles :
       Owner[a] = h <=> h \in Valid /\ Covers(BlockOf(h), a)

LEMMA OwnersAreUnique == IInv => OwnerIsUnique
<1>. SUFFICES ASSUME IInv PROVE OwnerIsUnique
  OBVIOUS
<1>1. Valid \subseteq Handles /\ NoOwner \notin Handles
  BY AllocAssumption DEF Valid
<1>2. ASSUME NEW a \in 0 .. BufferSize - 1, NEW g \in Valid, NEW h \in Valid,
             Covers(BlockOf(g), a), Covers(BlockOf(h), a)
      PROVE  g = h
  <2>1. g = h \/ Apart(BlockOf(g), BlockOf(h))
    BY DEF IInv, NoOverlap
  <2>2. /\ BlockOf(g).start \in Nat /\ BlockOf(g).size \in Nat
        /\ BlockOf(h).start \in Nat /\ BlockOf(h).size \in Nat
    BY <1>1 DEF IInv, TypeOK, Objects, BlockOf
  <2>. HIDE DEF BlockOf
  <2>3. QED
    BY <1>2, <2>1, <2>2 DEF Apart, Covers, End
<1>3. ASSUME NEW a \in 0 .. BufferSize - 1
      PROVE  /\ Owner[a] \in Handles \cup {NoOwner}
             /\ \A h \in Handles : Owner[a] = h <=> h \in Valid /\ Covers(BlockOf(h), a)
  <2>1. CASE \E h \in Valid : Covers(BlockOf(h), a)
    <3>1. Owner[a] \in Valid /\ Covers(BlockOf(Owner[a]), a)
      BY <2>1 DEF Owner
    <3>2. QED
      BY <1>1, <1>2, <3>1
  <2>2. CASE ~ \E h \in Valid : Covers(BlockOf(h), a)
    BY <1>1, <2>2 DEF Owner
  <2>3. QED
    BY <2>1, <2>2
<1>4. Owner = [a \in 0 .. BufferSize - 1 |-> Owner[a]]
  BY DEF Owner
<1>5. QED
  BY <1>3, <1>4 DEF OwnerIsUnique

\* Objects that become valid, or none, while the valid ones stay.
LEMMA MoreObjects ==
  ASSUME OwnerIsUnique, OwnerIsUnique', IInv',
         \A h \in Valid : h \in Valid' /\ BlockOf(h)' = BlockOf(h)
  PROVE  Space!Acquire
<1>1. ASSUME NEW a \in 0 .. BufferSize - 1, Owner[a] # NoOwner
      PROVE  Owner'[a] = Owner[a]
  <2>1. Owner[a] \in Handles /\ Owner[a] \in Valid /\ Covers(BlockOf(Owner[a]), a)
    BY <1>1 DEF OwnerIsUnique
  <2>2. QED
    BY <2>1 DEF OwnerIsUnique, Covers
<1>2. ASSUME NEW a \in 0 .. BufferSize - 1, Owner'[a] # Owner[a],
             NEW c \in 0 .. BufferSize - 1, Owner[c] = Owner'[a]
      PROVE  FALSE
  <2>1. Owner[a] = NoOwner /\ Owner'[a] \in Handles
    BY <1>1, <1>2 DEF OwnerIsUnique
  <2>2. PICK g \in Handles : g = Owner'[a]
    BY <2>1
  <2>3. g \in Valid
    BY <1>2, <2>2 DEF OwnerIsUnique
  <2>4. Covers(BlockOf(g)', a)
    BY <2>2 DEF OwnerIsUnique, Covers
  <2>5. Owner[a] = g
    BY <2>3, <2>4 DEF OwnerIsUnique
  <2>6. QED
    BY <1>2, <2>2, <2>5
<1>3. ASSUME NEW h \in Handles,
             NEW a \in 0 .. BufferSize - 1, NEW b \in 0 .. BufferSize - 1,
             NEW c \in 0 .. BufferSize - 1,
             Owner'[a] = h, Owner'[b] = h, a < c, c < b
      PROVE  Owner'[c] = h
  <2>1. h \in Valid' /\ Covers(BlockOf(h)', a) /\ Covers(BlockOf(h)', b)
    BY <1>3 DEF OwnerIsUnique, Covers
  <2>2. BlockOf(h)'.start \in Nat /\ BlockOf(h)'.size \in Nat
    BY DEF IInv, TypeOK, Objects, BlockOf
  <2>3. Covers(BlockOf(h)', c)
    BY <1>3, <2>1, <2>2 DEF Covers, End
  <2>4. QED
    BY <2>1, <2>3 DEF OwnerIsUnique, Covers
<1>4. QED
  BY <1>1, <1>2, <1>3
  DEF Space!Acquire, Space!Bytes, Space!Owned, Space!Contiguous, OwnerIsUnique

\* One object becomes invalid, the others stay as they are.
LEMMA OneObjectLess ==
  ASSUME OwnerIsUnique, OwnerIsUnique', NEW h \in Valid, Valid' = Valid \ {h},
         \A g \in Valid \ {h} : BlockOf(g)' = BlockOf(g)
  PROVE  Space!Release
<1>1. h \in Handles
  BY DEF Valid
<1>2. ASSUME NEW a \in 0 .. BufferSize - 1
      PROVE  Owner'[a] = IF Owner[a] = h THEN NoOwner ELSE Owner[a]
  <2>1. ASSUME NEW g \in Handles
        PROVE  Owner'[a] = g <=> Owner[a] = g /\ g # h
    <3>1. Owner'[a] = g <=> g \in Valid' /\ Covers(BlockOf(g)', a)
      BY DEF OwnerIsUnique, Covers
    <3>2. Owner[a] = g <=> g \in Valid /\ Covers(BlockOf(g), a)
      BY DEF OwnerIsUnique
    <3>3. QED
      BY <3>1, <3>2
  <2>2. Owner[a] \in Handles \cup {NoOwner} /\ Owner'[a] \in Handles \cup {NoOwner}
    BY DEF OwnerIsUnique
  <2>3. NoOwner \notin Handles
    BY AllocAssumption
  <2>4. QED
    BY <1>1, <2>1, <2>2, <2>3
<1>3. QED
  BY <1>1, <1>2 DEF Space!Release, Space!Bytes, OwnerIsUnique

\* Every operation, and every iteration of the loops of batched_free, hands
\* out unowned bytes to objects that had none, or takes back one object, or
\* changes no owner.
LEMMA StepOfSpace ==
  ASSUME IInv, IInv', OwnerIsUnique, OwnerIsUnique', [Next]_vars
  PROVE  Space!Next
<1>1. objs \in [Handles -> Objects]
  BY DEF IInv, TypeOK
<1>2. ASSUME NEW raw \in RawSizes, NEW h \in Handles, Allocate(raw, h)
      PROVE  \A g \in Valid : g \in Valid' /\ BlockOf(g)' = BlockOf(g)
  <2>1. \A g \in Valid : objs'[g] = objs[g]
    BY <1>1, <1>2 DEF Allocate, Valid
  <2>2. QED
    BY <2>1 DEF Valid, BlockOf
<1>3. ASSUME NEW raw \in RawSizes, NEW n \in BatchSizes,
             NEW hs \in SUBSET Handles, NEW pos \in [hs -> 1..n],
             BatchedAllocate(raw, n, hs, pos)
      PROVE  \A g \in Valid : g \in Valid' /\ BlockOf(g)' = BlockOf(g)
  <2>1. \A g \in Valid : objs'[g] = objs[g]
    BY <1>1, <1>3 DEF BatchedAllocate, Valid
  <2>2. QED
    BY <2>1 DEF Valid, BlockOf
<1>4. ASSUME NEW h \in Valid, objs' = Invalidated(h)
      PROVE  Space!Release
  <2>1. Valid' = Valid \ {h} /\ \A g \in Valid \ {h} : BlockOf(g)' = BlockOf(g)
    BY <1>1, <1>4 DEF Invalidated, Valid, BlockOf
  <2>2. QED
    BY <2>1, OneObjectLess
<1>5. ASSUME NEW h \in Handles, Free(h)
      PROVE  Space!Release
  BY <1>4, <1>5 DEF Free, Valid
<1>6. CASE ScanValid
  <2>1. Head(memory_objs) \in Valid /\ objs' = Invalidated(Head(memory_objs))
    BY <1>6 DEF ScanValid, Valid, IInv, TypeOK
  <2>2. QED
    BY <1>4, <2>1 DEF Space!Next
<1>7. ASSUME NEW h \in Handles, Drop(h)
      PROVE  \A g \in Valid : g \in Valid' /\ BlockOf(g)' = BlockOf(g)
  <2>1. \A g \in Valid : objs'[g] = objs[g]
    BY <1>1, <1>7 DEF Drop, Valid
  <2>2. QED
    BY <2>1 DEF Valid, BlockOf
<1>8. CASE \/ \E list \in FreeLists : BatchedFreeBegin(list)
           \/ ScanInvalid \/ ScanEnd \/ InsertBlock \/ BatchedFreeEnd \/ UNCHANGED vars
  <2>1. objs' = objs
    BY <1>8 DEF BatchedFreeBegin, ScanInvalid, ScanEnd, InsertBlock, BatchedFreeEnd,
                vars, lists
  <2>2. \A g \in Valid : g \in Valid' /\ BlockOf(g)' = BlockOf(g)
    BY <2>1 DEF Valid, BlockOf
  <2>3. QED
    BY <2>2, MoreObjects DEF Space!Next
<1>9. QED
  BY <1>2, <1>3, <1>5, <1>6, <1>7, <1>8, MoreObjects DEF Next, Space!Next

\* The allocator implements AddressSpace: whatever it splits, merges and cuts,
\* its callers see bytes that nobody owned handed out in contiguous pieces
\* and whole objects taken back.
THEOREM ImplementsAddressSpace ==
  ASSUME ~AllowStaleHead
  PROVE  Spec => AddressSpaceSpec
<1>1. Init => Space!Init
  BY AllocAssumption DEF Init, Space!Init, Space!Bytes, Owner, Valid
<1>2. IInv /\ IInv' /\ [Next]_vars => Space!Next
  <2>1. IInv => OwnerIsUnique
    BY OwnersAreUnique
  <2>2. IInv' => OwnerIsUnique'
    BY OwnersAreUnique, PTL
  <2>3. QED
    BY <2>1, <2>2, StepOfSpace
<1>3. QED
  BY <1>1, <1>2, IInvInvariant, PTL DEF Spec, AddressSpaceSpec, Space!Spec

-----------------------------------------------------------------------------
(***************************************************************************)
(* With use_paging the wrapper has the other allocator, and no lock.       *)
(***************************************************************************)

\* The instance's copies of library operators.
LEMMA PagedOperators ==
  /\ \A S : Paged!Cardinality(S) = Cardinality(S)
  /\ \A S : Paged!SetToSeq(S) = SetToSeq(S)
  /\ \A s : Paged!IsInjective(s) <=> IsInjective(s)
  /\ \A s : Paged!ToSet(s) = Range(s)
  /\ \A s : Paged!Last(s) = s[Len(s)]
<1>1. \A S : Paged!Cardinality(S) = Cardinality(S)
  BY DEF Paged!Cardinality, Cardinality
<1>2. \A s : Paged!IsInjective(s) <=> IsInjective(s)
  BY DEF Paged!IsInjective, IsInjective
<1>3. \A S : Paged!SetToSeq(S) = SetToSeq(S)
  BY <1>1, <1>2 DEF Paged!SetToSeq, SetToSeq
<1> QED
  BY <1>1, <1>2, <1>3 DEF Paged!ToSet, Range, Paged!Last

FreePages == Range(free_blocks)
With(t)   == Range(thread[t].pages)

ThreadStates == [at : {"idle", "pop", "fill", "restore", "append"}, shape : Paged!Shapes,
                 want : Int, pages : Seq(Pages)]

PagedTypes ==
  /\ free_blocks \in Seq(Pages) /\ IsInjective(free_blocks)
  /\ shape \in [Pages -> Paged!Shapes]
  /\ cut \in SUBSET Pages /\ held \in SUBSET Pages
  /\ thread \in [Threads -> ThreadStates]

\* A thread has no page twice, and has those it works on.
PagesInHand ==
  \A t \in Threads :
    /\ IsInjective(thread[t].pages)
    /\ thread[t].at = "idle" => thread[t].pages = <<>>
    /\ thread[t].at \in {"fill", "restore", "append"} => thread[t].pages # <<>>

\* A page is in one place ...
NotInTwoPlaces ==
  /\ FreePages \cap held = {}
  /\ \A t \in Threads : With(t) \cap FreePages = {} /\ With(t) \cap held = {}
  /\ \A t, u \in Threads : t # u => With(t) \cap With(u) = {}

\* ... at least.
InSomePlace == \A p \in Pages : p \in FreePages \/ p \in held \/ \E t \in Threads : p \in With(t)

\* A page that is cut has the shape of a smaller object.  It is whole while it
\* is free, until fill has cut it, and from its restoring on.
WholeWhileFree ==
  /\ FreePages \cap cut = {}
  /\ \A p \in cut : shape[p] # "whole"
  /\ \A t \in Threads :
       /\ thread[t].at = "fill" => thread[t].pages[Len(thread[t].pages)] \notin cut
       /\ thread[t].at = "append" => Head(thread[t].pages) \notin cut

PagedInv == PagedTypes /\ PagesInHand /\ NotInTwoPlaces /\ InSomePlace /\ WholeWhileFree

\* The first and the last page of a thread are among its pages.
LEMMA EndsAreIn ==
  ASSUME NEW s \in Seq(Pages), s # <<>>
  PROVE  Head(s) \in Range(s) /\ s[Len(s)] \in Range(s) /\ Range(s) \subseteq Pages
<1>1. Head(s) \in Range(s)
  BY RangeTail
<1>2. Len(s) \in 1 .. Len(s) /\ DOMAIN s = 1 .. Len(s)
  BY EmptySeq, LenProperties
<1>3. \A i \in 1 .. Len(s) : s[i] \in Pages
  BY ElementOfSeq
<1> QED
  BY <1>1, <1>2, <1>3 DEF Range

\* What a step of thread t has to say of t, so that the invariant stays.
LEMMA OneThreadMoves ==
  ASSUME PagedInv, NEW t \in Threads, NEW st \in ThreadStates,
         thread' = [thread EXCEPT ![t] = st],
         IsInjective(st.pages),
         st.at = "idle" => st.pages = <<>>,
         st.at \in {"fill", "restore", "append"} => st.pages # <<>>,
         free_blocks' \in Seq(Pages), IsInjective(free_blocks'),
         shape' \in [Pages -> Paged!Shapes], cut' \in SUBSET Pages, held' \in SUBSET Pages,
         \* the pages that it gives or takes are its own, free or held ones
         Range(st.pages) \cup Range(free_blocks') \cup held' = With(t) \cup FreePages \cup held,
         Range(st.pages) \cap Range(free_blocks') = {},
         Range(st.pages) \cap held' = {},
         Range(free_blocks') \cap held' = {},
         \* it cuts and restores only pages that it has
         \A p \in Pages \ With(t) : (p \in cut' => p \in cut) /\ shape'[p] = shape[p],
         Range(free_blocks') \cap cut' = {},
         \A p \in cut' \cap With(t) : shape'[p] # "whole",
         st.at = "fill" => st.pages[Len(st.pages)] \notin cut',
         st.at = "append" => Head(st.pages) \notin cut'
  PROVE  PagedInv'
<1>1. /\ thread' \in [Threads -> ThreadStates] /\ thread'[t] = st
      /\ \A u \in Threads : u # t => thread'[u] = thread[u]
  BY DEF PagedInv, PagedTypes
<1>2. FreePages' = Range(free_blocks') /\ With(t)' = Range(st.pages)
      /\ \A u \in Threads : u # t => With(u)' = With(u)
  BY <1>1 DEF FreePages, With
<1>3. PagedTypes'
  BY <1>1 DEF PagedTypes
<1>4. PagesInHand'
  BY <1>1 DEF PagedInv, PagesInHand
<1>5. NotInTwoPlaces'
  <2>1. ASSUME NEW u \in Threads, u # t
        PROVE  With(u) \cap (With(t) \cup FreePages \cup held) = {}
    BY <2>1 DEF PagedInv, NotInTwoPlaces
  <2>2. ASSUME NEW u \in Threads
        PROVE  With(u)' \cap FreePages' = {} /\ With(u)' \cap held' = {}
    BY <1>2, <2>1
  <2>3. ASSUME NEW u \in Threads, NEW v \in Threads, u # v
        PROVE  With(u)' \cap With(v)' = {}
    <3>1. CASE u # t /\ v # t
      BY <1>2, <2>3, <3>1 DEF PagedInv, NotInTwoPlaces
    <3>2. CASE u = t \/ v = t
      BY <1>2, <2>1, <2>3, <3>2
    <3> QED
      BY <3>1, <3>2
  <2> QED
    BY <1>2, <2>2, <2>3 DEF NotInTwoPlaces
<1>6. InSomePlace'
  <2>1. ASSUME NEW p \in Pages
        PROVE  p \in FreePages' \/ p \in held' \/ \E u \in Threads : p \in With(u)'
    <3>1. CASE p \in With(t) \cup FreePages \cup held
      BY <1>2, <3>1
    <3>2. CASE \E u \in Threads : u # t /\ p \in With(u)
      BY <1>2, <3>2
    <3> QED
      BY <3>1, <3>2 DEF PagedInv, InSomePlace
  <2> QED
    BY <2>1 DEF InSomePlace
<1>7. WholeWhileFree'
  <2>1. FreePages' \cap cut' = {}
    BY <1>2
  <2>2. \A p \in cut' : shape'[p] # "whole"
    BY DEF PagedInv, WholeWhileFree
  <2>3. ASSUME NEW u \in Threads
        PROVE  /\ thread'[u].at = "fill" =>
                    thread'[u].pages[Len(thread'[u].pages)] \notin cut'
               /\ thread'[u].at = "append" => Head(thread'[u].pages) \notin cut'
    <3>1. CASE u = t
      BY <1>1, <3>1
    <3>2. CASE u # t
      <4>1. With(u) \cap With(t) = {}
        BY <3>2 DEF PagedInv, NotInTwoPlaces
      <4>2. thread[u].pages \in Seq(Pages)
        BY DEF PagedInv, PagedTypes, ThreadStates
      <4>3. thread[u].at \in {"fill", "append"} =>
              /\ Head(thread[u].pages) \in With(u)
              /\ thread[u].pages[Len(thread[u].pages)] \in With(u)
              /\ With(u) \subseteq Pages
        BY <4>2, EndsAreIn DEF PagedInv, PagesInHand, With
      <4> QED
        BY <1>1, <3>2, <4>1, <4>3 DEF PagedInv, WholeWhileFree
    <3> QED
      BY <3>1, <3>2
  <2> QED
    BY <2>1, <2>2, <2>3 DEF WholeWhileFree
<1> QED
  BY <1>3, <1>4, <1>5, <1>6, <1>7 DEF PagedInv

LEMMA PagedInit ==
  ASSUME IsFiniteSet(Pages), Paged!Init
  PROVE  PagedInv
<1>1. free_blocks \in Seq(Pages) /\ IsInjective(free_blocks) /\ FreePages = Pages
  BY PagedOperators, SomeEnumeration, EnumerationIsAll DEF Paged!Init, FreePages
<1>2. \A t \in Threads : thread[t] = Paged!Idle
  BY DEF Paged!Init
<1>3. PagedTypes
  BY <1>1 DEF Paged!Init, PagedTypes, Paged!Idle, Paged!Shapes, ThreadStates
<1>4. PagesInHand
  BY <1>2, RangeEmpty DEF PagesInHand, Paged!Idle
<1>5. \A t \in Threads : With(t) = {}
  BY <1>2, RangeEmpty DEF With, Paged!Idle
<1>6. NotInTwoPlaces /\ InSomePlace /\ WholeWhileFree
  BY <1>1, <1>2, <1>5 DEF Paged!Init, NotInTwoPlaces, InSomePlace, WholeWhileFree, Paged!Idle
<1> QED
  BY <1>3, <1>4, <1>6 DEF PagedInv

\* What is known of the thread that takes a step.
LEMMA OneThread ==
  ASSUME PagedInv, NEW t \in Threads
  PROVE  /\ thread[t] \in ThreadStates /\ thread[t].pages \in Seq(Pages)
         /\ IsInjective(thread[t].pages) /\ With(t) \in SUBSET Pages
         /\ free_blocks \in Seq(Pages) /\ IsInjective(free_blocks) /\ FreePages \in SUBSET Pages
         /\ shape \in [Pages -> Paged!Shapes] /\ cut \in SUBSET Pages /\ held \in SUBSET Pages
         /\ FreePages \cap held = {} /\ With(t) \cap FreePages = {} /\ With(t) \cap held = {}
         /\ FreePages \cap cut = {} /\ \A p \in cut : shape[p] # "whole"
         /\ thread[t].pages = <<>> => With(t) = {}
<1>1. /\ thread[t] \in ThreadStates /\ thread[t].pages \in Seq(Pages)
      /\ IsInjective(thread[t].pages)
      /\ free_blocks \in Seq(Pages) /\ IsInjective(free_blocks)
      /\ shape \in [Pages -> Paged!Shapes] /\ cut \in SUBSET Pages /\ held \in SUBSET Pages
  BY DEF PagedInv, PagedTypes, PagesInHand, ThreadStates
<1>2. With(t) \in SUBSET Pages /\ FreePages \in SUBSET Pages
  BY <1>1, EndsAreIn, RangeEmpty DEF With, FreePages
<1>3. /\ FreePages \cap held = {} /\ With(t) \cap FreePages = {} /\ With(t) \cap held = {}
      /\ FreePages \cap cut = {} /\ \A p \in cut : shape[p] # "whole"
  BY DEF PagedInv, NotInTwoPlaces, WholeWhileFree
<1> QED
  BY <1>1, <1>2, <1>3, RangeEmpty DEF With

\* The same for a step that leaves each page where it is.
LEMMA NoPageMoves ==
  ASSUME PagedInv, NEW t \in Threads, NEW st \in ThreadStates,
         thread' = [thread EXCEPT ![t] = st],
         free_blocks' = free_blocks, held' = held,
         Range(st.pages) = With(t), IsInjective(st.pages),
         st.at = "idle" => st.pages = <<>>,
         st.at \in {"fill", "restore", "append"} => st.pages # <<>>,
         shape' \in [Pages -> Paged!Shapes], cut' \in SUBSET Pages,
         \A p \in Pages \ With(t) : (p \in cut' => p \in cut) /\ shape'[p] = shape[p],
         FreePages \cap cut' = {},
         \A p \in cut' \cap With(t) : shape'[p] # "whole",
         st.at # "fill",
         st.at = "append" => Head(st.pages) \notin cut'
  PROVE  PagedInv'
<1>1. Range(free_blocks') = FreePages
  BY DEF FreePages
<1>2. /\ Range(st.pages) \cup Range(free_blocks') \cup held' = With(t) \cup FreePages \cup held
      /\ Range(st.pages) \cap Range(free_blocks') = {} /\ Range(st.pages) \cap held' = {}
      /\ Range(free_blocks') \cap held' = {} /\ Range(free_blocks') \cap cut' = {}
  BY <1>1, OneThread
<1>3. free_blocks' \in Seq(Pages) /\ IsInjective(free_blocks') /\ held' \in SUBSET Pages
  BY OneThread
<1> QED
  BY <1>2, <1>3, OneThreadMoves

LEMMA PagedAllocate ==
  ASSUME PagedInv, NEW t \in Threads, NEW s \in Paged!Shapes, NEW n \in 1 .. MaxBatch,
         Paged!Allocate(t, s, n)
  PROVE  PagedInv'
<1> DEFINE st == [at |-> "pop", shape |-> s, want |-> n, pages |-> <<>>]
<1>1. st \in ThreadStates
  BY DEF ThreadStates
<1>2. With(t) = {} /\ Range(st.pages) = {} /\ IsInjective(st.pages)
  BY OneThread, RangeEmpty DEF PagedInv, PagesInHand, Paged!Allocate
<1>3. /\ thread' = [thread EXCEPT ![t] = st] /\ free_blocks' = free_blocks
      /\ shape' = shape /\ cut' = cut /\ held' = held
  BY DEF Paged!Allocate, Paged!Goto
<1>4. st.at = "pop"
  OBVIOUS
<1> HIDE DEF st
<1>5. /\ shape' \in [Pages -> Paged!Shapes] /\ cut' \in SUBSET Pages /\ FreePages \cap cut' = {}
      /\ \A p \in Pages : (p \in cut' => p \in cut) /\ shape'[p] = shape[p]
  BY <1>3, OneThread
<1> QED
  BY <1>1, <1>2, <1>3, <1>4, <1>5, NoPageMoves

LEMMA PagedPopBlock ==
  ASSUME PagedInv, NEW t \in Threads, Paged!PopBlock(t)
  PROVE  PagedInv'
<1>1. shape' = shape /\ cut' = cut /\ held' = held
  BY DEF Paged!PopBlock
<1>2. /\ shape' \in [Pages -> Paged!Shapes] /\ cut' \in SUBSET Pages /\ FreePages \cap cut' = {}
      /\ \A p \in Pages : (p \in cut' => p \in cut) /\ shape'[p] = shape[p]
      /\ \A p \in cut' : shape'[p] # "whole"
  BY <1>1, OneThread
<1>3. CASE free_blocks = <<>>
  <2> DEFINE st == Paged!RollBack(thread[t])
  <2>1. thread' = [thread EXCEPT ![t] = st] /\ free_blocks' = free_blocks
    BY <1>3 DEF Paged!PopBlock, Paged!Goto
  <2>2. CASE thread[t].pages = <<>>
    <3>1. st = Paged!Idle
      BY <2>2 DEF Paged!RollBack
    <3>2. st \in ThreadStates /\ st.at = "idle" /\ st.pages = <<>>
      BY <3>1 DEF Paged!Idle, ThreadStates, Paged!Shapes
    <3>3. Range(st.pages) = {} /\ IsInjective(st.pages) /\ With(t) = {}
      BY <2>2, <3>2, RangeEmpty, OneThread
    <3> HIDE DEF st
    <3> QED
      BY <1>1, <1>2, <2>1, <3>2, <3>3, NoPageMoves
  <2>3. CASE thread[t].pages # <<>>
    <3>1. st = [thread[t] EXCEPT !.at = "restore"]
      BY <2>3 DEF Paged!RollBack
    <3>2. st \in ThreadStates /\ st.at = "restore" /\ st.pages = thread[t].pages
      BY <3>1, OneThread DEF ThreadStates
    <3>3. Range(st.pages) = With(t) /\ IsInjective(st.pages)
      BY <3>2, OneThread DEF With
    <3> HIDE DEF st
    <3> QED
      BY <1>1, <1>2, <2>1, <2>3, <3>2, <3>3, NoPageMoves
  <2> QED
    BY <2>2, <2>3
<1>4. CASE free_blocks # <<>>
  <2> DEFINE page == Head(free_blocks)
             st == [thread[t] EXCEPT !.at = "fill", !.pages = Append(@, page)]
  <2>1. thread' = [thread EXCEPT ![t] = st] /\ free_blocks' = Tail(free_blocks)
    BY <1>4 DEF Paged!PopBlock, Paged!Goto
  <2>2. /\ page \in Pages /\ page \in FreePages /\ free_blocks' \in Seq(Pages)
        /\ FreePages = Range(free_blocks') \cup {page}
        /\ IsInjective(free_blocks') /\ page \notin Range(free_blocks')
    BY <1>4, <2>1, OneThread, RangeTail, TailOfInjective DEF FreePages
  <2> HIDE DEF page
  <2>3. /\ Append(thread[t].pages, page) \in Seq(Pages)
        /\ Range(Append(thread[t].pages, page)) = With(t) \cup {page}
        /\ IsInjective(Append(thread[t].pages, page))
    BY <2>2, OneThread, RangeAppend, AppendInjectiveSeq DEF With
  <2>4. /\ Append(thread[t].pages, page) # <<>>
        /\ Append(thread[t].pages, page)[Len(Append(thread[t].pages, page))] = page
    BY <2>2, OneThread, AppendProperties
  <2>5. st \in ThreadStates /\ st.at = "fill" /\ st.pages = Append(thread[t].pages, page)
    BY <2>3, OneThread DEF ThreadStates
  <2>6. /\ Range(st.pages) = With(t) \cup {page} /\ IsInjective(st.pages) /\ st.pages # <<>>
        /\ st.pages[Len(st.pages)] = page
    BY <2>3, <2>4, <2>5
  <2> HIDE DEF st
  <2>7. /\ Range(st.pages) \cup Range(free_blocks') \cup held' = With(t) \cup FreePages \cup held
        /\ Range(st.pages) \cap Range(free_blocks') = {} /\ Range(st.pages) \cap held' = {}
        /\ Range(free_blocks') \cap held' = {} /\ Range(free_blocks') \cap cut' = {}
        /\ page \notin cut'
    BY <1>1, <2>2, <2>6, OneThread
  <2>8. /\ \A p \in cut' \cap With(t) : shape'[p] # "whole"
        /\ shape' \in [Pages -> Paged!Shapes] /\ cut' \in SUBSET Pages /\ held' \in SUBSET Pages
    BY <1>1, OneThread
  <2> QED
    BY <1>1, <2>1, <2>2, <2>5, <2>6, <2>7, <2>8, OneThreadMoves
<1> QED
  BY <1>3, <1>4

LEMMA PagedFillBlock ==
  ASSUME PagedInv, NEW t \in Threads, Paged!FillBlock(t)
  PROVE  PagedInv'
<1> DEFINE old  == thread[t]
           page == old.pages[Len(old.pages)]
<1>1. page = Paged!Last(old.pages)
  BY PagedOperators
<1>2. /\ old.at = "fill" /\ shape' = [shape EXCEPT ![page] = old.shape]
      /\ cut' = IF old.shape # "whole" THEN cut \cup {page} ELSE cut
      /\ free_blocks' = free_blocks
  BY <1>1 DEF Paged!FillBlock
<1>3. \/ thread' = [thread EXCEPT ![t] = [old EXCEPT !.at = "pop"]] /\ held' = held
      \/ thread' = [thread EXCEPT ![t] = Paged!Idle] /\ held' = held \cup Paged!ToSet(old.pages)
  BY DEF Paged!FillBlock, Paged!Goto
<1>4. old \in ThreadStates /\ old.shape \in Paged!Shapes /\ page \in With(t) /\ page \in Pages
  <2>1. old.pages # <<>> /\ old.pages \in Seq(Pages)
    BY <1>2, OneThread DEF PagedInv, PagesInHand
  <2> QED
    BY <2>1, OneThread, EndsAreIn DEF With, ThreadStates
<1>5. page \notin cut
  BY <1>2 DEF PagedInv, WholeWhileFree
<1>6. /\ shape' \in [Pages -> Paged!Shapes] /\ cut' \in SUBSET Pages
      /\ \A p \in Pages \ With(t) : (p \in cut' => p \in cut) /\ shape'[p] = shape[p]
      /\ \A p \in cut' \cap With(t) : shape'[p] # "whole"
      /\ FreePages \cap cut' = {}
  BY <1>2, <1>4, <1>5, OneThread
<1>7. With(t) = Paged!ToSet(old.pages)
  BY PagedOperators DEF With
<1>8. CASE thread' = [thread EXCEPT ![t] = [old EXCEPT !.at = "pop"]] /\ held' = held
  <2> DEFINE st == [old EXCEPT !.at = "pop"]
  <2>1. st \in ThreadStates /\ st.at = "pop" /\ st.pages = old.pages
    BY <1>4 DEF ThreadStates
  <2>2. Range(st.pages) = With(t) /\ IsInjective(st.pages)
    BY <2>1, OneThread DEF With
  <2>3. thread' = [thread EXCEPT ![t] = st]
    BY <1>8
  <2> HIDE DEF st, old, page
  <2> QED
    BY <1>2, <1>6, <1>8, <2>1, <2>2, <2>3, NoPageMoves
<1>9. CASE /\ thread' = [thread EXCEPT ![t] = Paged!Idle]
           /\ held' = held \cup Paged!ToSet(old.pages)
  <2>1. Paged!Idle \in ThreadStates /\ Paged!Idle.at = "idle" /\ Paged!Idle.pages = <<>>
    BY DEF Paged!Idle, ThreadStates, Paged!Shapes
  <2>2. Range(Paged!Idle.pages) = {} /\ IsInjective(Paged!Idle.pages)
    BY <2>1, RangeEmpty
  <2>3. /\ held' = held \cup With(t) /\ held' \in SUBSET Pages /\ free_blocks' = free_blocks
        /\ Range(free_blocks') = FreePages
    BY <1>2, <1>7, <1>9, OneThread DEF FreePages
  <2> HIDE DEF old, page
  <2>4. /\ Range(Paged!Idle.pages) \cup Range(free_blocks') \cup held'
             = With(t) \cup FreePages \cup held
        /\ Range(Paged!Idle.pages) \cap Range(free_blocks') = {}
        /\ Range(Paged!Idle.pages) \cap held' = {}
        /\ Range(free_blocks') \cap held' = {} /\ Range(free_blocks') \cap cut' = {}
    BY <1>6, <2>2, <2>3, OneThread
  <2>5. free_blocks' \in Seq(Pages) /\ IsInjective(free_blocks')
    BY <2>3, OneThread
  <2> QED
    BY <1>6, <1>9, <2>1, <2>2, <2>3, <2>4, <2>5, OneThreadMoves
<1> QED
  BY <1>3, <1>8, <1>9

LEMMA PagedBatchedFree ==
  ASSUME PagedInv, NEW t \in Threads, NEW ps \in Seq(held), ps # <<>>,
         IsInjective(ps), Paged!BatchedFree(t, ps)
  PROVE  PagedInv'
<1> DEFINE st == [at |-> "restore", shape |-> "whole", want |-> 0, pages |-> ps]
<1>1. ps \in Seq(held) /\ ps # <<>>
  OBVIOUS
<1>2. Range(ps) \subseteq held /\ ps \in Seq(Pages)
  <2>1. held \in SUBSET Pages
    BY OneThread
  <2>2. \A i \in DOMAIN ps : ps[i] \in held
    BY <1>1, LenProperties, ElementOfSeq
  <2> QED
    BY <1>1, <2>1, <2>2 DEF Range
<1>3. /\ thread[t].at = "idle" /\ held' = held \ Range(ps) /\ free_blocks' = free_blocks
      /\ thread' = [thread EXCEPT ![t] = st] /\ shape' = shape /\ cut' = cut
  BY PagedOperators DEF Paged!BatchedFree, Paged!Goto
<1>4. st \in ThreadStates /\ st.at = "restore" /\ st.pages = ps
  BY <1>2 DEF ThreadStates, Paged!Shapes
<1>5. With(t) = {}
  BY <1>3, OneThread DEF PagedInv, PagesInHand
<1> HIDE DEF st
<1>6. /\ Range(st.pages) \cup Range(free_blocks') \cup held' = With(t) \cup FreePages \cup held
      /\ Range(st.pages) \cap Range(free_blocks') = {} /\ Range(st.pages) \cap held' = {}
      /\ Range(free_blocks') \cap held' = {} /\ Range(free_blocks') \cap cut' = {}
  BY <1>2, <1>3, <1>4, <1>5, OneThread DEF FreePages
<1>7. /\ free_blocks' \in Seq(Pages) /\ IsInjective(free_blocks') /\ IsInjective(st.pages)
      /\ shape' \in [Pages -> Paged!Shapes] /\ cut' \in SUBSET Pages /\ held' \in SUBSET Pages
      /\ \A p \in cut' \cap With(t) : shape'[p] # "whole"
  BY <1>3, <1>4, OneThread
<1>8. /\ PagedInv /\ t \in Threads /\ st.pages # <<>>
      /\ \A p \in Pages \ With(t) : (p \in cut' => p \in cut) /\ shape'[p] = shape[p]
  BY <1>1, <1>3, <1>4
<1>9. thread' = [thread EXCEPT ![t] = st] /\ st \in ThreadStates /\ st.at = "restore"
  BY <1>3, <1>4
<1> QED
  BY ONLY <1>6, <1>7, <1>8, <1>9, OneThreadMoves

LEMMA PagedRestoreBlock ==
  ASSUME PagedInv, NEW t \in Threads, Paged!RestoreBlock(t)
  PROVE  PagedInv'
<1> DEFINE st == [thread[t] EXCEPT !.at = "append"]
           page == Head(thread[t].pages)
<1>1. /\ thread[t].at = "restore" /\ cut' = Paged!Restored(page)
      /\ thread' = [thread EXCEPT ![t] = st]
      /\ free_blocks' = free_blocks /\ shape' = shape /\ held' = held
  BY DEF Paged!RestoreBlock, Paged!Goto
<1>2. thread[t].pages # <<>> /\ page \in With(t)
  BY <1>1, OneThread, EndsAreIn DEF PagedInv, PagesInHand, With
<1>3. page \notin cut' /\ cut' \subseteq cut
  BY <1>1, OneThread DEF Paged!Restored
<1>4. st \in ThreadStates /\ st.at = "append" /\ st.pages = thread[t].pages
  BY OneThread DEF ThreadStates
<1>5. /\ Range(st.pages) = With(t) /\ IsInjective(st.pages) /\ Head(st.pages) = page
      /\ st.pages # <<>>
  BY <1>2, <1>4, OneThread DEF With
<1>6. /\ shape' \in [Pages -> Paged!Shapes] /\ cut' \in SUBSET Pages /\ FreePages \cap cut' = {}
      /\ \A p \in Pages : (p \in cut' => p \in cut) /\ shape'[p] = shape[p]
      /\ \A p \in cut' : shape'[p] # "whole"
  BY <1>1, <1>3, OneThread
<1> HIDE DEF st, page
<1> QED
  BY <1>1, <1>3, <1>4, <1>5, <1>6, NoPageMoves

LEMMA PagedAppendBlock ==
  ASSUME PagedInv, NEW t \in Threads, Paged!AppendBlock(t)
  PROVE  PagedInv'
<1> DEFINE ps   == thread[t].pages
           page == Head(ps)
<1>1. /\ thread[t].at = "append" /\ free_blocks' = Append(free_blocks, page)
      /\ shape' = shape /\ cut' = cut /\ held' = held
  BY DEF Paged!AppendBlock
<1>2. ps # <<>> /\ ps \in Seq(Pages)
  BY <1>1, OneThread DEF PagedInv, PagesInHand
<1>3. /\ page \in With(t) /\ page \in Pages /\ Tail(ps) \in Seq(Pages)
      /\ With(t) = Range(Tail(ps)) \cup {page} /\ page \notin Range(Tail(ps))
      /\ IsInjective(Tail(ps))
  BY <1>2, OneThread, RangeTail, TailOfInjective DEF With
<1>4. page \notin cut
  BY <1>1 DEF PagedInv, WholeWhileFree
<1>5. Len(ps) = 1 <=> Tail(ps) = <<>>
  <2> HIDE DEF ps
  <2>1. Len(ps) \in Nat \ {0} /\ Len(Tail(ps)) = Len(ps) - 1
    BY <1>2, EmptySeq, HeadTailProperties
  <2>2. Len(Tail(ps)) = 0 <=> Tail(ps) = <<>>
    BY <1>3, EmptySeq
  <2> QED
    BY ONLY <2>1, <2>2
<1> HIDE DEF page
<1>6. /\ free_blocks' \in Seq(Pages) /\ Range(free_blocks') = FreePages \cup {page}
      /\ IsInjective(free_blocks')
  <2>1. page \notin Range(free_blocks)
    BY <1>3, OneThread DEF FreePages
  <2> QED
    BY <1>1, <1>3, <2>1, OneThread, RangeAppend, AppendInjectiveSeq DEF FreePages
<1>7. \E st \in ThreadStates :
        /\ thread' = [thread EXCEPT ![t] = st] /\ st.pages = Tail(ps)
        /\ st.at = IF Tail(ps) = <<>> THEN "idle" ELSE "restore"
  <2>1. CASE Len(ps) = 1
    <3>1. Paged!Idle \in ThreadStates /\ Paged!Idle.at = "idle" /\ Paged!Idle.pages = <<>>
      BY DEF Paged!Idle, ThreadStates, Paged!Shapes
    <3>2. thread' = [thread EXCEPT ![t] = Paged!Idle]
      BY <2>1 DEF Paged!AppendBlock, Paged!Goto
    <3> QED
      BY <1>5, <2>1, <3>1, <3>2
  <2>2. CASE Len(ps) # 1
    <3> DEFINE st == [thread[t] EXCEPT !.at = "restore", !.pages = Tail(@)]
    <3>1. thread' = [thread EXCEPT ![t] = st]
      BY <2>2 DEF Paged!AppendBlock, Paged!Goto
    <3>2. st \in ThreadStates /\ st.at = "restore" /\ st.pages = Tail(ps)
      BY <1>3, OneThread DEF ThreadStates
    <3> HIDE DEF st
    <3> QED
      BY <1>5, <2>2, <3>1, <3>2
  <2> QED
    BY <2>1, <2>2
<1>8. PICK st \in ThreadStates :
        /\ thread' = [thread EXCEPT ![t] = st] /\ st.pages = Tail(ps)
        /\ st.at = IF Tail(ps) = <<>> THEN "idle" ELSE "restore"
  BY <1>7
<1>9. Range(st.pages) \cup {page} = With(t) /\ page \notin Range(st.pages) /\ IsInjective(st.pages)
  BY <1>3, <1>8
<1>10. /\ st.at = "idle" => st.pages = <<>>
       /\ st.at \in {"fill", "restore", "append"} => st.pages # <<>>
       /\ st.at # "fill" /\ st.at # "append"
  BY <1>8
<1> HIDE DEF ps
<1>11. /\ Range(st.pages) \cup Range(free_blocks') \cup held' = With(t) \cup FreePages \cup held
       /\ Range(st.pages) \cap Range(free_blocks') = {} /\ Range(st.pages) \cap held' = {}
       /\ Range(free_blocks') \cap held' = {} /\ Range(free_blocks') \cap cut' = {}
  BY <1>1, <1>3, <1>4, <1>6, <1>9, OneThread
<1>12. /\ shape' \in [Pages -> Paged!Shapes] /\ cut' \in SUBSET Pages /\ held' \in SUBSET Pages
       /\ \A p \in cut' \cap With(t) : shape'[p] # "whole"
  BY <1>1, OneThread
<1> QED
  BY <1>1, <1>6, <1>8, <1>9, <1>10, <1>11, <1>12, OneThreadMoves

THEOREM PagedInvInvariant ==
  ASSUME IsFiniteSet(Pages)
  PROVE  Paged!Spec => []PagedInv
<1>1. Paged!Init => PagedInv
  BY PagedInit
<1>2. ASSUME PagedInv, [Paged!Next]_(Paged!pagedVars) PROVE PagedInv'
  <2>1. CASE UNCHANGED Paged!pagedVars
    <3>1. /\ thread' = thread /\ free_blocks' = free_blocks
          /\ shape' = shape /\ cut' = cut /\ held' = held
      BY <2>1 DEF Paged!pagedVars
    <3> QED
      BY <1>2, <3>1 DEF PagedInv, PagedTypes, PagesInHand, NotInTwoPlaces, InSomePlace,
                        WholeWhileFree, FreePages, With
  <2>2. ASSUME NEW t \in Threads, NEW s \in Paged!Shapes, NEW n \in 1 .. MaxBatch,
               Paged!Allocate(t, s, n)
        PROVE  PagedInv'
    BY <1>2, <2>2, PagedAllocate
  <2>3. ASSUME NEW t \in Threads,
               NEW ps \in {<<p>> : p \in held} \cup {<<p, q>> : p, q \in held},
               Paged!IsInjective(ps), Paged!BatchedFree(t, ps)
        PROVE  PagedInv'
    <3>1. ps \in Seq(held) /\ ps # <<>>
      <4>1. ASSUME NEW p \in held, ps = <<p>> PROVE ps \in Seq(held) /\ ps # <<>>
        BY <4>1
      <4>2. ASSUME NEW p \in held, NEW q \in held, ps = <<p, q>>
            PROVE  ps \in Seq(held) /\ ps # <<>>
        BY <4>2
      <4> QED
        BY <4>1, <4>2
    <3>2. IsInjective(ps)
      BY <2>3, PagedOperators
    <3> QED
      BY <1>2, <2>3, <3>1, <3>2, PagedBatchedFree
  <2>4. ASSUME NEW t \in Threads,
               \/ Paged!PopBlock(t) \/ Paged!FillBlock(t)
               \/ Paged!RestoreBlock(t) \/ Paged!AppendBlock(t)
        PROVE  PagedInv'
    BY <1>2, <2>4, PagedPopBlock, PagedFillBlock, PagedRestoreBlock, PagedAppendBlock
  <2> QED
    BY <1>2, <2>1, <2>2, <2>3, <2>4 DEF Paged!Next
<1> QED
  BY <1>1, <1>2, PTL DEF Paged!Spec

\* However many threads allocate and free batches of pages at the same time,
\* without a lock and with batches that run out of pages half way, no page is
\* lost or handed out twice, and none stays cut.
THEOREM PagesOwnedOnceHolds ==
  ASSUME IsFiniteSet(Pages), {"free", "held"} \cap Threads = {}
  PROVE  Paged!Spec => []PagesOwnedOnce
<1>1. ASSUME PagedInv PROVE PagesOwnedOnce
  <2>1. ASSUME NEW p \in Pages, NEW places,
               places = {pl \in {"free", "held"} \cup Threads :
                           CASE pl = "free" -> p \in Paged!ToSet(free_blocks)
                             [] pl = "held" -> p \in held
                             [] OTHER -> p \in Paged!ToSet(thread[pl].pages)}
        PROVE  Paged!Cardinality(places) = 1
    <3>1. "free" \notin Threads /\ "held" \notin Threads
      OBVIOUS
    <3>2. /\ "free" \in places <=> p \in FreePages
          /\ "held" \in places <=> p \in held
          /\ \A t \in Threads : t \in places <=> p \in With(t)
          /\ places \subseteq {"free", "held"} \cup Threads
      BY <2>1, <3>1, PagedOperators DEF FreePages, With
    <3>3. \A x, y \in places : x = y
      BY <1>1, <3>2 DEF PagedInv, NotInTwoPlaces
    <3>4. \E x : x \in places
      BY <1>1, <3>2 DEF PagedInv, InSomePlace
    <3>5. PICK x : x \in places
      BY <3>4
    <3>6. places = {x}
      BY <3>3, <3>5
    <3> QED
      BY <3>6, FS_Singleton, PagedOperators
  <2>2. Paged!IsInjective(free_blocks) /\ Paged!ToSet(free_blocks) \cap cut = {}
    BY <1>1, PagedOperators DEF PagedInv, PagedTypes, WholeWhileFree, FreePages
  <2> QED
    BY <2>1, <2>2 DEF PagesOwnedOnce, Paged!PagesOwnedOnce
<1> QED
  BY <1>1, PagedInvInvariant, PTL
=============================================================================
