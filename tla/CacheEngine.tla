---------------------------- MODULE CacheEngine ----------------------------
(***************************************************************************)
(* MTDSEngine (MTDS/v1/cache_engine.py) of one worker over its hot cache   *)
(* in host memory: what store, retrieve and lookup do to the cache and to  *)
(* the paged KV memory of the GPU when one thread calls them.              *)
(*                                                                         *)
(* A cache is a record                                                     *)
(*   hot   the hot cache in eviction order, a sequence of                  *)
(*         [key, kv, pin]: kv[i] tells for which token prefix the KV of    *)
(*         the chunk's i-th token was computed (<<>>: garbage);            *)
(*   lost  buffers that were evicted while pinned. ref_count_down does not *)
(*         give them back to the allocator, and nothing else ever does.    *)
(* Each chunk takes one of the Capacity buffers. The threads of the cache  *)
(* and the allocator itself are the subject of LocalCPUBackend and         *)
(* MemoryAllocator.                                                        *)
(***************************************************************************)
EXTENDS Integers, Sequences, SequencesExt, FiniteSets

CONSTANTS ChunkSize, Capacity

ASSUME ChunkSizeAssumption == ChunkSize \in Nat \ {0}

-----------------------------------------------------------------------------
(* ChunkedTokenDatabase (MTDS/v1/token_database.py): how a token sequence  *)
(* is cut into chunks and how each chunk gets its key.  The code hashes a  *)
(* chunk together with the hash of the chunk before it, so a key stands    *)
(* for the whole token prefix that ends with the chunk.  sha256 is taken   *)
(* as injective: a key IS that prefix.                                     *)

AlignDown(n) == (n \div ChunkSize) * ChunkSize

CeilDiv(n, d) == (n + d - 1) \div d

\* _chunk_tokens: the last chunk may be short, and is then dropped unless
\* save_unfull_chunk is set.
NumChunks(len, saveUnfull) ==
    IF saveUnfull THEN CeilDiv(len, ChunkSize) ELSE len \div ChunkSize

\* _prefix_hash: the chain of hashes up to a chunk that ends at "end".
PrefixKey(tokens, end) == SubSeq(tokens, 1, end)

\* process_tokens: start and end of every chunk behind the masked prefix,
\* with its key. The callers align the masked prefix to the chunk size.
ProcessTokens(tokens, numFalses, saveUnfull) ==
    LET Chunk(i) ==
            LET start == (i - 1) * ChunkSize
                end   == IF start + ChunkSize < Len(tokens)
                         THEN start + ChunkSize ELSE Len(tokens)
            IN  [start |-> start, end |-> end, key |-> PrefixKey(tokens, end)]
        all == [i \in 1..NumChunks(Len(tokens), saveUnfull) |-> Chunk(i)]
    IN  SelectSeq(all, LAMBDA c : c.start >= numFalses)

-----------------------------------------------------------------------------
(* The hot cache and the engine's operations on it.                        *)

EmptyCache == [hot |-> <<>>, lost |-> 0]

Cached(c, key) == \E i \in DOMAIN c.hot : c.hot[i].key = key

EntryOf(c, key) == c.hot[CHOOSE i \in DOMAIN c.hot : c.hot[i].key = key]

Evictable(c) == {i \in DOMAIN c.hot : ~c.hot[i].pin}

\* allocate: when no buffer is free, the entries are evicted from the oldest
\* on until one gives its buffer back. A pinned one is evicted like the
\* others but gives nothing back.
Allocate(c) ==
    IF Len(c.hot) + c.lost < Capacity
    THEN [ok |-> TRUE, cache |-> c]
    ELSE LET last == IF Evictable(c) = {} THEN Len(c.hot)
                     ELSE CHOOSE i \in Evictable(c) : \A j \in Evictable(c) : i <= j
             freed == IF Evictable(c) = {} THEN 0 ELSE 1
         IN  [ok    |-> freed = 1,
              cache |-> [hot  |-> SubSeq(c.hot, last + 1, Len(c.hot)),
                         lost |-> c.lost + last - freed]]

\* StorageManager.put of a new object into the hot cache.
Put(c, key, kv) ==
    [c EXCEPT !.hot = Append(SelectSeq(@, LAMBDA e : e.key # key),
                             [key |-> key, kv |-> kv, pin |-> FALSE])]

\* from_gpu: the chunk's slots of the paged memory, read in token order. The
\* kernels pass over a slot of -1 and leave what is in the buffer.
FromGpu(gpu, slots, chunk) ==
    [i \in 1..(chunk.end - chunk.start) |->
        LET s == slots[chunk.start + i] IN IF s \in DOMAIN gpu THEN gpu[s] ELSE <<>>]

\* to_gpu: the chunk's slots of the paged memory, written in token order.
ToGpu(gpu, slots, chunk, kv) ==
    [s \in DOMAIN gpu |->
        IF \E i \in DOMAIN kv : slots[chunk.start + i] = s
        THEN kv[CHOOSE i \in DOMAIN kv : slots[chunk.start + i] = s]
        ELSE gpu[s]]

\* store: chunks that are cached already are passed over, and the first
\* chunk that gets no buffer ends the store. "offered" collects the keys the
\* loop got to.
StoreChunk(slots, gpu, st, chunk) ==
    LET seen == st.offered \union {chunk.key} IN
    IF st.broke THEN st
    ELSE IF Cached(st.cache, chunk.key) THEN [st EXCEPT !.offered = seen]
    ELSE LET a == Allocate(st.cache) IN
         IF ~a.ok THEN [st EXCEPT !.cache = a.cache, !.broke = TRUE]
         ELSE [cache   |-> Put(a.cache, chunk.key, FromGpu(gpu, slots, chunk)),
               offered |-> seen, broke |-> FALSE]

Store(c, tokens, skip, slots, gpu, saveUnfull) ==
    FoldLeft(LAMBDA st, chunk : StoreChunk(slots, gpu, st, chunk),
             [cache |-> c, offered |-> {}, broke |-> FALSE],
             ProcessTokens(tokens, skip, saveUnfull))

\* get_blocking moves the entry to the young end; batched_unpin clears its
\* pin, whoever set it.
TakeEntry(c, key) ==
    [c EXCEPT !.hot = Append(SelectSeq(@, LAMBDA e : e.key # key),
                             [EntryOf(c, key) EXCEPT !.pin = FALSE])]

\* retrieve: up to the first chunk that is not cached.
RetrieveChunk(slots, st, chunk) ==
    IF st.missed \/ ~Cached(st.cache, chunk.key) THEN [st EXCEPT !.missed = TRUE]
    ELSE [cache  |-> TakeEntry(st.cache, chunk.key),
          gpu    |-> ToGpu(st.gpu, slots, chunk, EntryOf(st.cache, chunk.key).kv),
          got    |-> st.got + chunk.end - chunk.start,
          missed |-> FALSE]

Retrieve(c, tokens, masked, slots, gpu, saveUnfull) ==
    FoldLeft(LAMBDA st, chunk : RetrieveChunk(slots, st, chunk),
             [cache |-> c, gpu |-> gpu, got |-> 0, missed |-> FALSE],
             ProcessTokens(tokens, masked, saveUnfull))

\* lookup: the end of the cached prefix.
LookupEnd(c, tokens, saveUnfull) ==
    LET chunks == ProcessTokens(tokens, 0, saveUnfull)
        hits == {n \in 0..Len(chunks) : \A i \in 1..n : Cached(c, chunks[i].key)}
        n == CHOOSE m \in hits : \A k \in hits : k <= m
    IN  IF n = 0 THEN 0 ELSE chunks[n].end

\* lookup with pin = True: contains() pins every chunk it finds.
PinPrefix(c, tokens, end) ==
    [c EXCEPT !.hot = [i \in DOMAIN @ |->
        IF /\ Len(@[i].key) <= end
           /\ @[i].key = PrefixKey(tokens, Len(@[i].key))
           /\ Len(@[i].key) % ChunkSize = 0 \/ Len(@[i].key) = Len(tokens)
        THEN [@[i] EXCEPT !.pin = TRUE] ELSE @[i]]]
=============================================================================
