--------------------------- MODULE VllmV0Adapter ---------------------------
(***************************************************************************)
(* vLLM v0 with the adapter of MTDS/integration/vllm/vllm_adapter.py at    *)
(* one worker. A step of the engine retrieves KV for its batch, rebuilds   *)
(* the model's input so that only the rest is computed, runs the model and *)
(* stores the KV of the batch (the other ranks get the batch by broadcast  *)
(* and do the same).                                                       *)
(*                                                                         *)
(* The scheduler, its block tables and its prefix cache are vLLM's; of     *)
(* them the module has what the adapter relies on. As there, the tensors   *)
(* of the input are flat: the sequences of the batch stand one behind the  *)
(* other, and an index that is wrong reads another sequence's part.        *)
(***************************************************************************)
EXTENDS CacheEngine

CONSTANTS
    Requests,
    Prompt,        \* the prompt of each request
    OptedOut,      \* requests whose user wants nothing stored
    MaxTokens,     \* a request ends with this many tokens
    BlockSize, NumBlocks,
    MinChunk,      \* a part of a prefill that is not the last has as many tokens
    Settings       \* the settings to look at: [chunked, saveUnfull, saveDecode]

VARIABLES
    setting,     \* chunked_prefill of vLLM; save_unfull_chunk, save_decode_cache
    turn,        \* "schedule", "recv", "execute", "send" or "crashed"
    seqTokens,   \* request -> its tokens, generated ones included
    admitted,    \* request -> "waiting", "prefill", "decode" or "finished"
    inPlace,     \* request -> number of tokens vLLM counts as computed
    blocks,      \* request -> its block table
    keptUnder,   \* vLLM's prefix cache: block -> the prefix it is kept under, or <<>>
    batch,       \* the sequences of the step: [req, len, query, prompt, sample]
    input,       \* the model's input: [start, slots, positions, context, tables]
    bypass,      \* the model's forward pass is skipped
    engine,      \* the cache of the MTDS engine
    paged        \* slot -> the prefix its KV was computed for, or <<>>

v0vars == <<setting, turn, seqTokens, admitted, inPlace, blocks, keptUnder, batch, input,
            bypass, engine, paged>>

Block  == 1..NumBlocks
Slot   == BlockSize..(NumBlocks * BlockSize + BlockSize - 1)
Sampled == "g"     \* the token the model samples
NoInput == [start |-> <<0>>, slots |-> <<>>, positions |-> <<>>, context |-> <<>>, tables |-> <<>>]

Init ==
    /\ setting \in Settings
    /\ turn = "schedule"
    /\ seqTokens = Prompt
    /\ admitted = [r \in Requests |-> "waiting"]
    /\ inPlace = [r \in Requests |-> 0]
    /\ blocks = [r \in Requests |-> <<>>]
    /\ keptUnder = [b \in Block |-> <<>>]
    /\ batch = <<>>
    /\ input = NoInput
    /\ bypass = FALSE
    /\ engine = EmptyCache
    /\ paged = [s \in Slot |-> <<>>]

-----------------------------------------------------------------------------
(* vLLM's scheduler *)

Running == {r \in Requests : admitted[r] \in {"prefill", "decode"}}
Batched == {batch[i].req : i \in DOMAIN batch}

Free(kept) == Block \ (kept \union UNION {Range(blocks[r]) : r \in Running})

\* The n lowest of the free blocks.
Take(n, kept) == SubSeq(SetToSortSeq(Free(kept), LAMBDA a, b : a < b), 1, n)

BlocksFor(n) == CeilDiv(n, BlockSize)

\* The blocks vLLM has for a waiting request: never those of its last token.
PrefixBlocks(r) ==
    LET Has(n) == \A i \in 1..n : \E b \in Block :
                      keptUnder[b] = SubSeq(seqTokens[r], 1, i * BlockSize)
        ns == {n \in 0..((Len(seqTokens[r]) - 1) \div BlockSize) : Has(n)}
        n  == CHOOSE m \in ns : \A k \in ns : k <= m
    IN  [i \in 1..n |-> CHOOSE b \in Block : keptUnder[b] = SubSeq(seqTokens[r], 1, i * BlockSize)]

\* Parts of a prefill end at whole blocks, as with prefix caching.
PartLengths(from, rest) ==
    {rest} \union (IF setting.chunked
                   THEN {n \in MinChunk..(rest - 1) : (from + n) % BlockSize = 0} ELSE {})

\* Prefills stand before the decodes of a batch; without chunked prefill a
\* batch has one kind only.
MayAddPrefill == turn = "schedule" /\ \A i \in DOMAIN batch : batch[i].prompt
MayAddDecode  == turn = "schedule" /\ (setting.chunked \/ \A i \in DOMAIN batch : ~batch[i].prompt)

AddToBatch(r, from, n, newBlocks, prompt) ==
    /\ batch' = Append(batch, [req |-> r, len |-> from + n, query |-> n, prompt |-> prompt,
                               sample |-> from + n = Len(seqTokens[r])])
    /\ blocks' = [blocks EXCEPT ![r] = newBlocks]
    /\ keptUnder' = [b \in Block |->
           IF b \in Range(newBlocks) /\ \A i \in 1..(from \div BlockSize) : newBlocks[i] # b
           THEN <<>> ELSE keptUnder[b]]
    /\ inPlace' = [inPlace EXCEPT ![r] = from]
    /\ admitted' = [admitted EXCEPT ![r] = IF prompt THEN "prefill" ELSE "decode"]
    /\ UNCHANGED <<setting, turn, seqTokens, input, bypass, engine, paged>>

ScheduleWaiting(r, n) ==
    LET native == PrefixBlocks(r)
        from   == Len(native) * BlockSize
        more   == BlocksFor(Len(seqTokens[r])) - Len(native)
    IN  /\ MayAddPrefill
        /\ admitted[r] = "waiting"
        /\ n \in PartLengths(from, Len(seqTokens[r]) - from)
        /\ more <= Cardinality(Free(Range(native)))
        /\ AddToBatch(r, from, n, native \o Take(more, Range(native)), TRUE)

\* The next part of a prefill that has its blocks.
SchedulePart(r, n) ==
    /\ MayAddPrefill
    /\ admitted[r] = "prefill" /\ r \notin Batched
    /\ n \in PartLengths(inPlace[r], Len(seqTokens[r]) - inPlace[r])
    /\ AddToBatch(r, inPlace[r], n, blocks[r], TRUE)

Needed(r) == BlocksFor(Len(seqTokens[r])) - Len(blocks[r])

ScheduleDecode(r) ==
    /\ MayAddDecode
    /\ admitted[r] = "decode" /\ r \notin Batched
    /\ Needed(r) <= Cardinality(Free({}))
    /\ AddToBatch(r, inPlace[r], 1, blocks[r] \o Take(Needed(r), {}), FALSE)

\* A decode finds no block: another request gives up its blocks and will
\* compute its tokens again, the generated ones as part of its prompt.
Preempt(r) ==
    /\ turn = "schedule"
    /\ r \in Running \ Batched
    /\ \E q \in Running \ {r} : admitted[q] = "decode" /\ Needed(q) > Cardinality(Free({}))
    /\ admitted' = [admitted EXCEPT ![r] = "waiting"]
    /\ inPlace' = [inPlace EXCEPT ![r] = 0]
    /\ blocks' = [blocks EXCEPT ![r] = <<>>]
    /\ UNCHANGED <<setting, turn, seqTokens, keptUnder, batch, input, bypass, engine, paged>>

-----------------------------------------------------------------------------
(* The model's input *)

SlotAt(table, p) == table[((p - 1) \div BlockSize) + 1] * BlockSize + ((p - 1) % BlockSize)

\* s[a:b] of Python.
Slice(s, a, b) == SubSeq(s, a + 1, IF b < Len(s) THEN b ELSE Len(s))

Starts(lengths) == [i \in 1..(Len(lengths) + 1) |-> FoldLeft(+, 0, SubSeq(lengths, 1, i - 1))]

Behind(s, n) == [i \in 1..(s.len - n) |-> n + i - 1]

\* What vLLM prepares. A prompt that has nothing computed needs no block table.
InputOf(b) ==
    [start     |-> Starts([i \in DOMAIN b |-> b[i].query]),
     slots     |-> FlattenSeq([i \in DOMAIN b |-> [j \in 1..b[i].query |->
                       SlotAt(blocks[b[i].req], b[i].len - b[i].query + j)]]),
     positions |-> FlattenSeq([i \in DOMAIN b |-> Behind(b[i], b[i].len - b[i].query)]),
     context   |-> [i \in DOMAIN b |-> b[i].len - b[i].query],
     tables    |-> [i \in DOMAIN b |->
                       IF b[i].prompt /\ b[i].len = b[i].query /\ ~setting.chunked
                       THEN <<>> ELSE blocks[b[i].req]]]

ExecuteModel ==
    /\ turn = "schedule" /\ batch # <<>>
    /\ input' = InputOf(batch)
    /\ turn' = "recv"
    /\ UNCHANGED <<setting, seqTokens, admitted, inPlace, blocks, keptUnder, batch, bypass,
                   engine, paged>>

-----------------------------------------------------------------------------
(* MTDS_should_retrieve, MTDS_retrieve_kv *)

RetrieveStatus(s) ==
    CASE ~s.prompt -> "NONE" [] s.prompt /\ ~s.sample -> "CHUNK_PREFILL" [] OTHER -> "PREFILL"

TokensOf(s) == SubSeq(seqTokens[s.req], 1, s.len)

\* The computed tokens need no slots: the query's stand at the front.
UnmaskedSlots(s, computed, from, to, slots) ==
    [p \in 1..s.len |-> IF p <= to - from THEN slots[from + p] ELSE -1]

\* The slots of a sequence's query behind -1 for each computed token: the
\* kernels pass over a slot of -1.
MaskedSlots(s, computed, from, to, slots) ==
    [p \in 1..s.len |-> IF p <= computed THEN -1 ELSE Slice(slots, from, to)[p - computed]]

\* One sequence: what vLLM and the engine have of it. Of a full hit the last
\* token is left to be computed.
RetrieveSeq(st, s) ==
    LET i        == Len(st.computed) + 1
        computed == s.len - s.query
        found    == [st EXCEPT !.computed = Append(@, computed), !.lmc = Append(@, 0)]
        res      == Retrieve(st.cache, TokensOf(s), AlignDown(computed),
                             MaskedSlots(s, computed, input.start[i], input.start[i + 1], input.slots),
                             st.paged, setting.saveUnfull)
        surplus  == res.got - (computed - AlignDown(computed))
        lmc      == IF surplus > 0 THEN surplus ELSE 0
        whole    == computed + lmc = s.len
        used     == IF whole THEN lmc - 1 ELSE lmc
    IN  IF RetrieveStatus(s) = "NONE" \/ s.query < ChunkSize
        THEN [found EXCEPT !.missed = @ + 1]
        ELSE [computed |-> Append(st.computed, computed + used),
              lmc      |-> Append(st.lmc, used),
              missed   |-> IF used = 0 THEN st.missed + 1 ELSE st.missed,
              fullHit  |-> st.fullHit /\ (whole \/ RetrieveStatus(s) # "CHUNK_PREFILL"),
              cache    |-> res.cache,
              paged    |-> res.gpu]

Retrieved ==
    FoldLeft(RetrieveSeq,
             [computed |-> <<>>, lmc |-> <<>>, missed |-> 0, fullHit |-> TRUE,
              cache |-> engine, paged |-> paged], batch)

ToBlocks(n) == (n \div BlockSize) * BlockSize

\* build_partial_prefill_input: the query starts at the first block that is
\* not computed in whole.
Rebuilt(got) ==
    LET from(i)    == ToBlocks(got.computed[i])
        length(i)  == batch[i].len - from(i)
        first(i)   == input.start[i] + ToBlocks(got.lmc[i])
        Cut(s)     == FlattenSeq([i \in DOMAIN batch |-> Slice(s, first(i), first(i) + length(i))])
        own(i)     == Slice(input.slots, input.start[i], first(i) + length(i))
    IN  [start     |-> Starts([i \in DOMAIN batch |-> length(i)]),
         slots     |-> Cut(input.slots),
         positions |-> Cut(input.positions),
         context   |-> [i \in DOMAIN batch |-> from(i)],
         tables    |-> [i \in DOMAIN batch |->
             IF input.tables[i] # <<>> THEN input.tables[i]
             ELSE [k \in 1..CeilDiv(Len(own(i)), BlockSize) |->
                       own(i)[(k - 1) * BlockSize + 1] \div BlockSize]]]

\* Its assertion: a decode has a query of one token.
DecodeQueriesAreSingle(got) ==
    \A i \in DOMAIN batch : ~batch[i].prompt => batch[i].len - ToBlocks(got.computed[i]) = 1

RecvKvCaches ==
    /\ turn = "recv"
    /\ LET got     == Retrieved
           skips   == got.fullHit /\ \A i \in DOMAIN batch : RetrieveStatus(batch[i]) = "CHUNK_PREFILL"
           rebuild == ~skips /\ got.missed < Len(batch)
       IN  /\ engine' = got.cache
           /\ paged' = got.paged
           /\ bypass' = skips
           /\ input' = IF rebuild /\ DecodeQueriesAreSingle(got) THEN Rebuilt(got) ELSE input
           /\ turn' = IF rebuild /\ ~DecodeQueriesAreSingle(got) THEN "crashed" ELSE "execute"
    /\ UNCHANGED <<setting, seqTokens, admitted, inPlace, blocks, keptUnder, batch>>

-----------------------------------------------------------------------------
(* The model *)

\* The slot and the KV of each token of the sequence's query. The KV is right
\* when the token has its position, the KV before it is in place, and its own
\* goes where the block table has it.
QueryKV(i) ==
    LET s    == batch[i]
        ctx  == input.context[i]
        from == input.start[i]
        Reads(p) == SlotAt(input.tables[i], p)
        past == \A p \in 1..ctx : paged[Reads(p)] = SubSeq(seqTokens[s.req], 1, p)
        Right(p) ==
            /\ past
            /\ \A q \in (ctx + 1)..p :
                  /\ input.positions[from + q - ctx] = q - 1
                  /\ input.tables[i] # <<>> => input.slots[from + q - ctx] = Reads(q)
    IN  {[slot |-> input.slots[from + p - ctx],
          kv   |-> IF Right(p) THEN SubSeq(seqTokens[s.req], 1, p) ELSE <<>>] :
             p \in {q \in (ctx + 1)..s.len : from + q - ctx <= Len(input.slots)}}

Forward ==
    /\ turn = "execute"
    /\ LET written == IF bypass THEN {} ELSE UNION {QueryKV(i) : i \in DOMAIN batch}
       IN  paged' = [s \in Slot |-> IF \E w \in written : w.slot = s
                                    THEN (CHOOSE w \in written : w.slot = s).kv ELSE paged[s]]
    /\ turn' = "send"
    /\ UNCHANGED <<setting, seqTokens, admitted, inPlace, blocks, keptUnder, batch, input, bypass,
                   engine>>

-----------------------------------------------------------------------------
(* MTDS_should_store, MTDS_store_kv *)

\* SUFFIX_PREFILL is PREFILL with the length read elsewhere.
StoreStatus(s) ==
    CASE ~s.prompt -> IF setting.saveDecode /\ s.len % ChunkSize = 0 THEN "DECODE" ELSE "NONE"
      [] s.prompt /\ s.req \in OptedOut -> "NONE"
      [] s.prompt /\ s.req \notin OptedOut /\ ~s.sample -> "CHUNK_PREFILL"
      [] OTHER -> "PREFILL"

\* A hit is taken for one that covers the computed tokens.
StoreSlotsMasked(st, s, skip, i) ==
    LET query == input.start[i + 1] - input.start[i]
    IN  MaskedSlots(s, s.len - query, st.pos, st.pos + query, input.slots)

\* The slots the KV is read from. Without a hit that covers the computed
\* tokens they come from the block table.
StoreSlots(st, s, skip, i) ==
    LET query    == input.start[i + 1] - input.start[i]
        computed == s.len - query
    IN  IF computed = 0 \/ skip >= computed
        THEN MaskedSlots(s, computed, st.pos, st.pos + query, input.slots)
        ELSE [p \in 1..s.len |-> SlotAt(input.tables[i], p)]

\* One sequence, with the status at st.idx. A sequence that is not to be
\* stored moves neither st.idx nor st.pos on.
StoreSeq(st, s) ==
    LET skip == LookupEnd(st.cache, TokensOf(s), setting.saveUnfull)
    IN  IF StoreStatus(batch[st.idx]) = "NONE" THEN st
        ELSE [idx   |-> st.idx + 1,
              pos   |-> st.pos + input.start[st.idx + 1] - input.start[st.idx],
              cache |-> IF skip = s.len THEN st.cache
                        ELSE Store(st.cache, TokensOf(s), skip, StoreSlots(st, s, skip, st.idx),
                                   paged, setting.saveUnfull).cache]

Ends(s) == s.sample /\ Len(seqTokens[s.req]) >= MaxTokens

InBatch(r) == batch[CHOOSE i \in DOMAIN batch : batch[i].req = r]

\* The store, and the step's results at the scheduler.
SendKvCaches ==
    /\ turn = "send"
    /\ engine' = FoldLeft(StoreSeq, [idx |-> 1, pos |-> 0, cache |-> engine], batch).cache
    /\ admitted' = [r \in Requests |->
           CASE r \in Batched /\ Ends(InBatch(r)) -> "finished"
             [] r \in Batched /\ ~Ends(InBatch(r)) /\ InBatch(r).sample -> "decode"
             [] OTHER -> admitted[r]]
    /\ seqTokens' = [r \in Requests |->
           IF r \in Batched /\ InBatch(r).sample /\ ~Ends(InBatch(r))
           THEN Append(seqTokens[r], Sampled) ELSE seqTokens[r]]
    /\ inPlace' = [r \in Requests |-> IF r \in Batched THEN InBatch(r).len ELSE inPlace[r]]
    /\ keptUnder' = [b \in Block |->
           IF \E r \in Batched : \E i \in 1..(InBatch(r).len \div BlockSize) : blocks[r][i] = b
           THEN LET r == CHOOSE q \in Batched : b \in Range(blocks[q])
                    i == CHOOSE j \in DOMAIN blocks[r] : blocks[r][j] = b
                IN  SubSeq(seqTokens[r], 1, i * BlockSize)
           ELSE keptUnder[b]]
    /\ batch' = <<>>
    /\ input' = NoInput
    /\ bypass' = FALSE
    /\ turn' = "schedule"
    /\ UNCHANGED <<setting, blocks, paged>>

Next ==
    \/ \E r \in Requests, n \in 1..MaxTokens : ScheduleWaiting(r, n) \/ SchedulePart(r, n)
    \/ \E r \in Requests : ScheduleDecode(r) \/ Preempt(r)
    \/ ExecuteModel \/ RecvKvCaches \/ Forward \/ SendKvCaches

Spec == Init /\ [][Next]_v0vars

-----------------------------------------------------------------------------
(* Properties *)

\* vLLM counts a token as computed only when its own KV is in the slot the
\* block table gives it: the rebuilt input's tokens, positions, slots, block
\* tables and context agree, and what it leaves out was retrieved in place.
ComputedIsInPlace ==
    turn = "schedule" =>
        \A r \in Running : \A p \in 1..inPlace[r] :
            paged[SlotAt(blocks[r], p)] = SubSeq(seqTokens[r], 1, p)

\* What the engine holds under a key is the KV of that token prefix, however
\* the batch was cut and whichever slots the store read it from.
StoredIsTrue ==
    \A i \in DOMAIN engine.hot :
        LET e == engine.hot[i]
            from == AlignDown(Len(e.key) - 1)
        IN  e.kv = [j \in 1..(Len(e.key) - from) |-> SubSeq(e.key, 1, from + j)]
=============================================================================
