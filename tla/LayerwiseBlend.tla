--------------------------- MODULE LayerwiseBlend ---------------------------
(***************************************************************************)
(* The layerwise engine with enable_blending: prompts are cut at separators*)
(* into segments that are cached by themselves, and a cached segment is    *)
(* loaded wherever it stands in a new prompt. LMCBlender advances three    *)
(* generators in turn: the engine's retrieve_layer, the connector's        *)
(* batched_to_gpu (VLLMBufferLayerwiseGPUConnector), which fills one of    *)
(* two GPU buffers while the other is in use, and the model's              *)
(* compute_layer, which recomputes some words of the other buffer.         *)
(*                                                                         *)
(* A prompt is a sequence of words; the KV of a word in a layer is         *)
(* [word, layer, pos], pos being the position its rotary encoding is for.  *)
(***************************************************************************)
EXTENDS CudaStreams, FiniteSets, SequencesExt

CONSTANTS
    NumLayers, Prompts, MaxSteps,
    Sep,             \* blend_special_str
    RecompPercent,   \* recomp_ratios[0]
    ChunkSize        \* _MTDS_chunk_size, in words

VARIABLES
    pc,        \* "idle", "blend", "send", "swap", "last", "attend", "save", "put", "sample", "failed"
    layer, steps,
    batch,     \* the step's requests: [words, seen (vllm_cached_tokens), cached (MTDS_cached_tokens)]
    current,   \* the request that is blended
    hot,       \* hot cache: segment -> layer -> memory object, or NoObject
    mem,       \* memory object -> [pos, layer -> the KV it holds]
    buffer,    \* GPU buffer: address -> KV
    compute,   \* where the compute buffer begins, 0 if there is none
    load,      \* where the load buffer begins
    imp,       \* metadata.imp_indices
    kv,        \* paged memory: request -> layer -> position -> KV
    storers,   \* [req, segs]
    work       \* the streams

vars == <<pc, layer, steps, batch, current, hot, mem, buffer, compute, load, imp, kv, storers, work>>

Layers == 1..NumLayers
NoKV == [word |-> "none", layer |-> 0, pos |-> 0]
NoObject == [step |-> 0, req |-> 0, seg |-> <<>>]
Right(w, l, k) == [word |-> w[k], layer |-> l, pos |-> k]

Init ==
    /\ pc = "idle" /\ layer = 1 /\ steps = 0 /\ batch = <<>> /\ current = 1
    /\ hot = <<>> /\ mem = <<>> /\ buffer = <<>> /\ compute = 0 /\ load = 0 /\ imp = {}
    /\ kv = <<>> /\ storers = <<>> /\ work = NoWork

-----------------------------------------------------------------------------
(* SegmentTokenDatabase *)

\* _fast_split_by_subtensor: what is between separators, which may be empty.
Split(words) ==
    LET cuts == <<0>> \o SetToSortSeq({i \in DOMAIN words : words[i] = Sep}, <) \o <<Len(words) + 1>>
    IN  [i \in 1..(Len(cuts) - 1) |-> [start |-> cuts[i] + 1, end |-> cuts[i + 1] - 1]]

\* process_tokens: a segment that begins among the masked words is left out.
Segments(words, masked) == SelectSeq(Split(words), LAMBDA g : g.start > masked)

\* The key of a segment is the hash of its words alone, not of its prefix.
KeyOf(words, g) == SubSeq(words, g.start, g.end)

-----------------------------------------------------------------------------
(* lookup, and the scheduler's side *)

HasFirstLayer(key) == key \in DOMAIN hot /\ hot[key][1] # NoObject
HasAllLayers(key) == key \in DOMAIN hot /\ \A l \in Layers : hot[key][l] # NoObject

\* lookup: the end of the last of the leading segments that are there.
Lookup(words) ==
    LET gs == Segments(words, 0)
        n == CHOOSE m \in 0..Len(gs) :
                /\ \A i \in 1..m : HasAllLayers(KeyOf(words, gs[i]))
                /\ m = Len(gs) \/ ~HasAllLayers(KeyOf(words, gs[m + 1]))
    IN  IF n = 0 THEN 0 ELSE gs[n].end

\* get_num_new_matched_tokens: of a prompt that is all there, the last word
\* is computed again.
MatchedTokens(words) == IF Lookup(words) = Len(words) THEN Len(words) - 1 ELSE Lookup(words)

Loads(r) == r.cached > r.seen

BeginStep(prompts, seen) ==
    /\ pc = "idle" /\ steps < MaxSteps
    /\ \A i \in DOMAIN prompts : seen[i] < Len(prompts[i])
    /\ batch' = [i \in DOMAIN prompts |->
                    [words |-> prompts[i], seen |-> seen[i], cached |-> MatchedTokens(prompts[i])]]
    /\ kv' = [i \in DOMAIN prompts |-> [l \in Layers |-> [k \in DOMAIN prompts[i] |->
                IF k <= seen[i] THEN Right(prompts[i], l, k) ELSE NoKV]]]
    /\ steps' = steps + 1 /\ current' = 1 /\ layer' = 1 /\ pc' = "blend"
    /\ UNCHANGED <<hot, mem, buffer, compute, load, imp, storers, work>>

-----------------------------------------------------------------------------
(* retrieve_layer *)

\* What is blended: the words up to MTDS_cached_tokens.
Blended(r) == SubSeq(r.words, 1, r.cached)

\* masked_token_count
Masked(r) == (r.seen \div ChunkSize) * ChunkSize

\* The leading segments whose first layer is there.
Found(r) ==
    LET gs == Segments(Blended(r), Masked(r))
        n == CHOOSE m \in 0..Len(gs) :
                /\ \A i \in 1..m : HasFirstLayer(KeyOf(r.words, gs[i]))
                /\ m = Len(gs) \/ ~HasFirstLayer(KeyOf(r.words, gs[m + 1]))
    IN  SubSeq(gs, 1, n)

First(r) == Head(Found(r)).start
Past(r) == Last(Found(r)).end
BufferLen(r) == Past(r) - First(r) + 1
ObjectAt(r, g, l) == hot[KeyOf(r.words, g)][l]
Request == batch[current]

\* slot_mapping.cuda() of a request is a blocking copy on the model's stream.
Drained == work["current"] = <<>>

\* start_load_kv: one request after the other; those that load nothing are
\* passed over. The compute buffer is allocated first, then the load buffer.
\* With no segment at all there is no consumer, and no layer in a buffer.
StartBlend ==
    /\ pc = "blend" /\ current <= Len(batch) /\ Loads(Request) /\ Drained
    /\ IF Found(Request) = <<>>
       THEN pc' = "failed" /\ UNCHANGED <<compute, load, buffer>>
       ELSE /\ pc' = "send" /\ compute' = 1 /\ load' = 1 + BufferLen(Request)
            /\ buffer' = [a \in 1..(2 * BufferLen(Request)) \union DOMAIN buffer |->
                            IF a \in DOMAIN buffer THEN buffer[a] ELSE NoKV]
    /\ layer' = 1
    /\ UNCHANGED <<steps, batch, current, hot, mem, imp, kv, storers, work>>

PassOver ==
    /\ pc = "blend" /\ current <= Len(batch) /\ ~Loads(Request)
    /\ current' = current + 1
    /\ UNCHANGED <<pc, layer, steps, batch, hot, mem, buffer, compute, load, imp, kv, storers, work>>

-----------------------------------------------------------------------------
(* batched_to_gpu *)

\* The objects of layer l go to the load buffer.
CopyLayer(w, r, l) ==
    Submit(w, "load", [op |-> "load", to |-> load, first |-> First(r),
            from |-> [i \in DOMAIN Found(r) |-> [start |-> Found(r)[i].start, obj |-> ObjectAt(r, Found(r)[i], l)]],
            layer |-> l])

\* single_layer_kv_transfer: all of the compute buffer goes to the pages, what
\* lies between the segments included.
TransferLayer(w, r, l) ==
    Submit(w, "current", [op |-> "transfer", from |-> compute, first |-> First(r), past |-> Past(r),
            req |-> current, layer |-> l])

\* One send: the layer is copied, and the layer before goes to the pages.
SendLayer ==
    /\ pc = "send"
    /\ work' = LET w == CopyLayer(work, Request, layer)
               IN  IF layer > 1 THEN TransferLayer(w, Request, layer - 1) ELSE w
    /\ pc' = "swap"
    /\ UNCHANGED <<layer, steps, batch, current, hot, mem, buffer, compute, load, imp, kv, storers>>

Synchronized == \A s \in Streams : work[s] = <<>>

\* The positions the objects of the first layer were stored with; 0 between
\* the segments.
OldPositions(r) ==
    [k \in First(r)..Past(r) |->
        IF \E i \in DOMAIN Found(r) : k \in Found(r)[i].start..Found(r)[i].end
        THEN LET g == CHOOSE h \in ToSet(Found(r)) : k \in h.start..h.end
             IN  mem[ObjectAt(r, g, 1)].pos + (k - g.start)
        ELSE 0]

\* FusedRope: the encoding of the old position off, that of the new one on.
Rotate(r, v, k) == IF v = NoKV THEN v ELSE [v EXCEPT !.pos = (@ - OldPositions(r)[k]) + k]

-----------------------------------------------------------------------------
(* LMCBlender and LMCLlamaModel *)

CheckLayer == 2
TopNum(r) == (BufferLen(r) * RecompPercent) \div 100

\* process_qkv, at the check layer, picks the words that differ the most.
Important(r, l) ==
    IF l = CheckLayer THEN {s \in SUBSET (1..BufferLen(r)) : Cardinality(s) = TopNum(r)} ELSE {imp}

\* The KV computed for all blended words is compared with the buffer's, which
\* is shorter when segments at either end were not found.
ShapesDiffer(r) == First(r) # 1 \/ Past(r) # r.cached

\* The buffers are not exchanged.
KeepBuffers(a, b) == <<a, b>>

\* compute_gpu_buffer_obj, load_gpu_buffer_obj = load..., compute...
SwapBuffers(a, b) == <<b, a>>

\* The buffers change places, the compute buffer is rotated, and the model
\* computes the layer on it.
SwapAndCompute ==
    /\ pc = "swap" /\ Synchronized
    /\ LET ab == SwapBuffers(compute, load) IN
       /\ compute' = ab[1] /\ load' = ab[2]
       /\ IF layer = CheckLayer /\ ShapesDiffer(Request)
          THEN /\ pc' = "failed"
               /\ UNCHANGED <<imp, layer>>
               /\ work' = Submit(work, "current", [op |-> "rotate", at |-> ab[1], req |-> current])
          ELSE \E s \in Important(Request, layer) :
               /\ imp' = s
               /\ work' = Submit(Submit(work, "current", [op |-> "rotate", at |-> ab[1], req |-> current]),
                                 "current", [op |-> "compute", at |-> ab[1], req |-> current, layer |-> layer, imp |-> s])
               /\ IF layer < NumLayers THEN layer' = layer + 1 /\ pc' = "send"
                                       ELSE pc' = "last" /\ UNCHANGED layer
    /\ UNCHANGED <<steps, batch, current, hot, mem, buffer, kv, storers>>

\* metadata.clean()
Clean == {}

\* The last next of the retriever: the last layer goes to the pages, and the
\* buffers are freed, before the GPU has come to it.
FinishBlend ==
    /\ pc = "last"
    /\ work' = TransferLayer(work, Request, NumLayers)
    /\ compute' = 0 /\ load' = 0
    /\ imp' = Clean
    /\ current' = current + 1 /\ layer' = 1 /\ pc' = "blend"
    /\ UNCHANGED <<steps, batch, hot, mem, buffer, kv, storers>>

Blends == StartBlend \/ PassOver \/ SendLayer \/ SwapAndCompute \/ FinishBlend

-----------------------------------------------------------------------------
(* The model runs, and what it computed is stored: store_layer and the     *)
(* buffer connector's batched_from_gpu.                                    *)

Attend ==
    /\ \/ pc = "blend" /\ current > Len(batch)
       \/ pc = "attend"
    /\ work' = Submit(work, "current", [op |-> "attend", layer |-> layer])
    /\ pc' = "save"
    /\ UNCHANGED <<layer, steps, batch, current, hot, mem, buffer, compute, load, imp, kv, storers>>

\* skip_leading_tokens: nothing of a new request was saved before.
Skipped(r) == 0

\* The segments of a request that are stored. Memory is not exhausted here.
Missing(r) == SelectSeq(Segments(r.words, Skipped(r)), LAMBDA g : ~HasFirstLayer(KeyOf(r.words, g)))

ObjectOf(i, g) == [step |-> steps, req |-> i, seg |-> <<g.start>>]

NewStorers == SelectSeq([i \in DOMAIN batch |-> [req |-> i, segs |-> Missing(batch[i])]], LAMBDA s : s.segs # <<>>)

NewObjects(ss) ==
    [o \in UNION {{ObjectOf(s.req, g) : g \in ToSet(s.segs)} : s \in ToSet(ss)} |->
        [pos |-> o.seg[1], kv |-> [l \in Layers |-> <<>>]]]

\* The copy does not wait for the model.
StoreLayerAtOnce(w, s, l) ==
    Submit(w, "store", [op |-> "store", req |-> s.req, segs |-> s.segs, layer |-> l])

\* The copy of a layer waits for the model's stream. old_positions is set with it.
StoreLayer(w, s, l) ==
    Submit(WaitStream(w, "store", "current"), "store", [op |-> "store", req |-> s.req, segs |-> s.segs, layer |-> l])

SubmitAll(ss, l) == FoldLeft(LAMBDA w, s : StoreLayer(w, s, l), work, ss)

SaveFirstLayer ==
    /\ pc = "save" /\ layer = 1
    /\ (\E r \in ToSet(batch) : Skipped(r) < Len(r.words)) => Drained
    /\ storers' = NewStorers
    /\ mem' = NewObjects(NewStorers) @@ mem
    /\ work' = SubmitAll(NewStorers, 1)
    /\ layer' = 2 /\ pc' = "attend"
    /\ UNCHANGED <<steps, batch, current, hot, buffer, compute, load, imp, kv>>

\* Every storer waits for the store stream.
Synced == storers # <<>> => work["store"] = <<>>

\* batched_put of a layer: an object that is there gives way.
PutLayer(h, l) ==
    LET Put1(acc, i, g) ==
            LET key == KeyOf(batch[i].words, g)
                old == IF key \in DOMAIN acc THEN acc[key] ELSE [m \in Layers |-> NoObject]
            IN  (key :> [old EXCEPT ![l] = ObjectOf(i, g)]) @@ acc
    IN  FoldLeft(LAMBDA a, s : FoldLeft(LAMBDA b, g : Put1(b, s.req, g), a, s.segs), h, storers)

SaveKvLayer ==
    /\ pc = "save" /\ layer > 1 /\ Synced
    /\ work' = SubmitAll(storers, layer)
    /\ hot' = PutLayer(hot, layer - 1)
    /\ IF layer < NumLayers THEN layer' = layer + 1 /\ pc' = "attend" ELSE pc' = "put" /\ UNCHANGED layer
    /\ UNCHANGED <<steps, batch, current, mem, buffer, compute, load, imp, kv, storers>>

WaitForSave ==
    /\ pc = "put" /\ Synced
    /\ hot' = PutLayer(hot, NumLayers)
    /\ storers' = <<>> /\ pc' = "sample"
    /\ UNCHANGED <<layer, steps, batch, current, mem, buffer, compute, load, imp, kv, work>>

\* vLLM takes the sampled words; objects that gave way are gone.
EndStep ==
    /\ pc = "sample" /\ work["current"] = <<>>
    /\ mem' = Restrict(mem, UNION {{hot[key][l] : l \in Layers} : key \in DOMAIN hot})
    /\ batch' = <<>> /\ kv' = <<>> /\ layer' = 1 /\ current' = 1 /\ pc' = "idle"
    /\ UNCHANGED <<steps, hot, buffer, compute, load, imp, storers, work>>

-----------------------------------------------------------------------------
(* The GPU *)

\* A copy into the load buffer: what each object holds, at its place.
Loaded(op) ==
    LET At(f, a) == a - op.to + op.first
        In(f, a) == a >= op.to /\ At(f, a) \in f.start..(f.start + Len(mem[f.obj].kv[op.layer]) - 1)
    IN  [a \in DOMAIN buffer |->
            IF \E f \in ToSet(op.from) : In(f, a)
            THEN LET f == CHOOSE g \in ToSet(op.from) : In(g, a)
                 IN  mem[f.obj].kv[op.layer][At(f, a) - f.start + 1]
            ELSE buffer[a]]

Rotated(op) ==
    LET r == batch[op.req] IN
    [a \in DOMAIN buffer |->
        IF a \in op.at..(op.at + BufferLen(r) - 1) THEN Rotate(r, buffer[a], a - op.at + First(r)) ELSE buffer[a]]

\* The picked words of the layer are replaced by the computed ones.
Recomputed(op) ==
    [a \in DOMAIN buffer |->
        IF a - op.at + 1 \in op.imp THEN Right(batch[op.req].words, op.layer, a - op.at + 1) ELSE buffer[a]]

Transferred(op) ==
    [kv EXCEPT ![op.req][op.layer] = [k \in DOMAIN @ |->
        IF k \in op.first..op.past THEN buffer[op.from + k - op.first] ELSE @[k]]]

\* The words that were not loaded are computed, those between loaded segments
\* and the masked ones are not.
Attended(op) ==
    [i \in DOMAIN kv |-> [kv[i] EXCEPT ![op.layer] = [k \in DOMAIN @ |->
        IF k > Max({batch[i].cached, batch[i].seen}) THEN Right(batch[i].words, op.layer, k) ELSE @[k]]]]

Copied(op) ==
    [o \in DOMAIN mem |->
        IF \E g \in ToSet(op.segs) : o = ObjectOf(op.req, g)
        THEN LET g == CHOOSE h \in ToSet(op.segs) : o = ObjectOf(op.req, h)
             IN  [mem[o] EXCEPT !.kv[op.layer] = SubSeq(kv[op.req][op.layer], g.start, g.end)]
        ELSE mem[o]]

RunStream(s) ==
    /\ Ready(work, s)
    /\ LET op == Head(work[s]) IN
       /\ buffer' = CASE op.op = "load" -> Loaded(op)
                      [] op.op = "rotate" -> Rotated(op)
                      [] op.op = "compute" -> Recomputed(op)
                      [] OTHER -> buffer
       /\ kv' = CASE op.op = "transfer" -> Transferred(op)
                  [] op.op = "attend" -> Attended(op)
                  [] OTHER -> kv
       /\ mem' = IF op.op = "store" THEN Copied(op) ELSE mem
    /\ work' = Retire(work, s)
    /\ UNCHANGED <<pc, layer, steps, batch, current, hot, compute, load, imp, storers>>

Next ==
    \/ \E n \in 1..2 : \E prompts \in [1..n -> Prompts] : \E seen \in [1..n -> 0..ChunkSize] : BeginStep(prompts, seen)
    \/ Blends
    \/ Attend \/ SaveFirstLayer \/ SaveKvLayer \/ WaitForSave \/ EndStep
    \/ \E s \in Streams : RunStream(s)

Spec == Init /\ [][Next]_vars

-----------------------------------------------------------------------------
(* Properties *)

\* After a step, the paged memory has, for every word of the loaded segments
\* and every layer, that word's KV of that layer, rotated to where the word
\* stands now, though two buffers are filled, rotated, computed on and emptied
\* in turns (gpu_connector.py, batched_to_gpu).
BlendedKVIsRight ==
    pc = "sample" /\ work["current"] = <<>> =>
        \A i \in DOMAIN batch : Loads(batch[i]) =>
            \A k \in (batch[i].seen + 1)..batch[i].cached : \A l \in Layers :
                batch[i].words[k] # Sep =>
                    kv[i][l][k] = Right(batch[i].words, l, k)

\* A cached segment has, between steps, the KV of its own words in all layers
\* for the positions that are kept with its first layer (which the rotation
\* takes for those of all layers).
SegmentsAreWhole ==
    pc = "idle" =>
        \A key \in DOMAIN hot : \A l \in Layers :
            /\ hot[key][l] # NoObject
            /\ mem[hot[key][l]].kv[l] =
                  [n \in DOMAIN key |-> [word |-> key[n], layer |-> l, pos |-> mem[hot[key][1]].pos + n - 1]]
=============================================================================
