-------------------------- MODULE LayerwiseEngine --------------------------
(***************************************************************************)
(* LayerwiseMTDSEngine (MTDS/v1/cache_engine.py) under the v1 adapter: per *)
(* engine step, one generator per request that loads, and one per request  *)
(* that saves, advanced layer by layer while the model runs. The copies    *)
(* are CUDA operations on two streams of their own                         *)
(* (VLLMPagedMemLayerwiseGPUConnector); the Python thread only submits     *)
(* them, and synchronizes where "sync" is set: in the last retriever and   *)
(* in the first storer.                                                    *)
(*                                                                         *)
(* A chunk has one memory object per layer. batched_allocate takes a       *)
(* buffer: the objects of all layers in one piece, <<b, 1>>, <<b, 2>>, ... *)
(***************************************************************************)
EXTENDS CudaStreams, FiniteSets, SequencesExt

CONSTANTS
    NumLayers, Buffers,
    Prompts,      \* the chunk sequences requests come with
    MaxSteps      \* engine steps to look at

ASSUME NumLayersAssumption == NumLayers \in Nat \ {0, 1}

VARIABLES
    pc,          \* what the step does next: "idle", "load", "wait", "attend",
                 \* "save", "finish" or "failed"
    layer,       \* current_layer + 1
    steps,       \* engine steps begun
    batch,       \* the step's requests: [chunks, hit (chunks to load),
                 \* saved (chunks of earlier steps)]
    hot,         \* hot cache, oldest first: [chunk, obj (layer -> buffer or 0), pin]
    busy,        \* memory objects that are allocated
    mem,         \* memory object -> the chunk whose KV it holds, or "none"
    kv,          \* paged memory: request -> chunk -> layer -> whose KV, or "none"
    retrievers,  \* layerwise_retrievers: [req, obj (chunk index -> layer -> buffer), sync]
    storers,     \* layerwise_storers: [req, idx (chunk indices), buf, sync]; both
                 \* lists stay until the next step makes its own
    work         \* the streams

vars == <<pc, layer, steps, batch, hot, busy, mem, kv, retrievers, storers, work>>

Layers == 1..NumLayers
Objects == Buffers \X Layers

Init ==
    /\ pc = "idle" /\ layer = 1 /\ steps = 0 /\ batch = <<>>
    /\ hot = <<>> /\ busy = {} /\ mem = [o \in Objects |-> "none"]
    /\ kv = <<>> /\ retrievers = <<>> /\ storers = <<>>
    /\ work = NoWork

-----------------------------------------------------------------------------
(* The hot cache *)

\* contains, for the first layer of a chunk.
HasFirstLayer(h, c) == \E i \in DOMAIN h : h[i].chunk = c /\ h[i].obj[1] # 0

HasAllLayers(h, c) == \E i \in DOMAIN h : h[i].chunk = c /\ \A l \in Layers : h[i].obj[l] # 0

Pos(h, c) == CHOOSE i \in DOMAIN h : h[i].chunk = c

\* lookup: every layer of a chunk has to be there.
HitOf(chunks) ==
    CHOOSE n \in 0..Len(chunks) :
        /\ \A i \in 1..n : HasAllLayers(hot, chunks[i])
        /\ n = Len(chunks) \/ ~HasAllLayers(hot, chunks[n + 1])

\* The entry is in the hands of a retriever: its ref_count is more than 1.
\* After its last send a retriever has no objects any more.
InUse(e) == \E i \in DOMAIN retrievers :
               \E j \in DOMAIN retrievers[i].obj : retrievers[i].obj[j] = e.obj

Spared(e) == InUse(e) /\ ~e.pin

ObjectsOf(e) == {<<e.obj[l], l>> : l \in {k \in Layers : e.obj[k] # 0}}

FreeBuffers(b) == {x \in Buffers : \A l \in Layers : <<x, l>> \notin b}

\* batched_allocate evicts whole chunks, oldest first, until the objects of
\* one buffer are free. An entry in use is spared, but not when it is pinned.
BatchedAllocate(h, b) ==
    LET Victims(n) == SelectSeq(SubSeq(h, 1, n), LAMBDA e : ~Spared(e))
        Freed(n) == b \ UNION {ObjectsOf(e) : e \in ToSet(Victims(n))}
        enough == {n \in 0..Len(h) : FreeBuffers(Freed(n)) # {}}
        n == IF enough = {} THEN Len(h)
             ELSE CHOOSE m \in enough : \A k \in enough : m <= k
        left == SelectSeq(SubSeq(h, 1, n), Spared) \o SubSeq(h, n + 1, Len(h))
    IN  IF enough = {} THEN [buf |-> 0, hot |-> left, busy |-> Freed(n)]
        ELSE LET x == CHOOSE y \in FreeBuffers(Freed(n)) : \A z \in FreeBuffers(Freed(n)) : y <= z
             IN  [buf |-> x, hot |-> left, busy |-> Freed(n) \union {<<x, l>> : l \in Layers}]

\* batched_put of one layer's object: an object that is there already gives
\* way and is freed.
PutLayer(st, c, l, x) ==
    IF \E i \in DOMAIN st.hot : st.hot[i].chunk = c
    THEN LET i == Pos(st.hot, c) IN
         [hot |-> [st.hot EXCEPT ![i].obj[l] = x, ![i].pin = FALSE],
          busy |-> st.busy \ {<<st.hot[i].obj[l], l>>}]
    ELSE [st EXCEPT !.hot = Append(@,
            [chunk |-> c, pin |-> FALSE, obj |-> [k \in Layers |-> IF k = l THEN x ELSE 0]])]

-----------------------------------------------------------------------------
(* A step begins: vLLM picks one or two requests. New ones are looked up,  *)
(* which pins their hits; of the others the first "saved" chunks were      *)
(* computed, and stored if there was memory, in earlier steps.             *)

PinAll(h, S) == [i \in DOMAIN h |-> IF h[i].chunk \in S THEN [h[i] EXCEPT !.pin = TRUE] ELSE h[i]]

BeginStep(prompts, saved) ==
    /\ pc = "idle" /\ steps < MaxSteps
    /\ \A i \in DOMAIN prompts : saved[i] < Len(prompts[i])
    /\ LET Hit(i) == IF saved[i] > 0 THEN 0 ELSE HitOf(prompts[i]) IN
       /\ batch' = [i \in DOMAIN prompts |->
                       [chunks |-> prompts[i], hit |-> Hit(i), saved |-> saved[i]]]
       /\ hot' = PinAll(hot, UNION {{prompts[i][j] : j \in 1..Hit(i)} : i \in DOMAIN prompts})
    /\ kv' = [i \in DOMAIN prompts |-> [j \in DOMAIN prompts[i] |-> [l \in Layers |->
                IF j <= saved[i] THEN prompts[i][j] ELSE "none"]]]
    /\ steps' = steps + 1 /\ layer' = 1 /\ pc' = "load"
    /\ UNCHANGED <<busy, mem, retrievers, storers, work>>

-----------------------------------------------------------------------------
(* retrieve_layer and batched_to_gpu *)

\* The model's stream does not wait.
SendLayerWaitsForNone(w, r, l) ==
    Submit(w, "load",
           [op |-> "load", req |-> r.req, layer |-> l, obj |-> [j \in DOMAIN r.obj |-> r.obj[j][l]]])

\* The consumer is sent the objects of layer l: with sync, the model's
\* stream first waits for all loads submitted so far.
SendLayer(w, r, l) ==
    Submit(IF r.sync THEN WaitStream(w, "current", "load") ELSE w, "load",
           [op |-> "load", req |-> r.req, layer |-> l, obj |-> [j \in DOMAIN r.obj |-> r.obj[j][l]]])

\* get_non_blocking makes the chunks the youngest.
Touch(h, cs) ==
    SelectSeq(h, LAMBDA e : e.chunk \notin ToSet(cs))
    \o [i \in DOMAIN cs |-> h[Pos(h, cs[i])]]

LoadingOnes == SelectSeq([i \in DOMAIN batch |-> i], LAMBDA i : batch[i].hit > 0)

NewRetriever(n) ==
    LET i == LoadingOnes[n] IN
    [req |-> i, sync |-> n = Len(LoadingOnes),
     obj |-> [j \in 1..batch[i].hit |-> hot[Pos(hot, batch[i].chunks[j])].obj]]

\* start_load_kv: every retriever is made and advanced twice, which submits
\* its first layer.
StartLoadKv ==
    /\ pc = "load"
    /\ retrievers' = [n \in DOMAIN LoadingOnes |-> NewRetriever(n)]
    /\ hot' = FoldLeft(LAMBDA h, n : Touch(h, SubSeq(batch[LoadingOnes[n]].chunks, 1, batch[LoadingOnes[n]].hit)),
                       hot, [n \in DOMAIN LoadingOnes |-> n])
    /\ work' = FoldLeft(LAMBDA w, n : SendLayer(w, NewRetriever(n), 1),
                        work, [n \in DOMAIN LoadingOnes |-> n])
    /\ pc' = "wait"
    /\ UNCHANGED <<layer, steps, batch, busy, mem, kv, storers>>

\* An evicted object is invalid: it has no tensor to copy from.
Valid(r) == \A j \in DOMAIN r.obj : \E e \in ToSet(hot) : e.obj = r.obj[j]

Finished(r) == [r EXCEPT !.obj = <<>>]

\* wait_for_layer_load: the retrievers submit the next layer. After the last
\* one they unpin their chunks and drop their references.
WaitForLayerLoad ==
    /\ pc = "wait" /\ layer < NumLayers
    /\ IF \A i \in DOMAIN retrievers : Valid(retrievers[i])
       THEN /\ work' = FoldLeft(LAMBDA w, r : SendLayer(w, r, layer + 1), work, retrievers)
            /\ pc' = "attend"
            /\ IF layer + 1 = NumLayers
               THEN /\ hot' = [i \in DOMAIN hot |-> IF InUse(hot[i]) THEN [hot[i] EXCEPT !.pin = FALSE]
                                                    ELSE hot[i]]
                    /\ retrievers' = [n \in DOMAIN retrievers |-> Finished(retrievers[n])]
               ELSE UNCHANGED <<hot, retrievers>>
       ELSE pc' = "failed" /\ UNCHANGED <<work, hot, retrievers>>
    /\ UNCHANGED <<layer, steps, batch, busy, mem, kv, storers>>

\* The last call synchronizes the last layer and ends the retrievers.
WaitForLastLoad ==
    /\ pc = "wait" /\ layer = NumLayers
    /\ work' = IF retrievers = <<>> THEN work ELSE WaitStream(work, "current", "load")
    /\ pc' = "attend"
    /\ UNCHANGED <<layer, steps, batch, hot, busy, mem, kv, retrievers, storers>>

\* The model submits the layer's attention.
Attend ==
    /\ pc = "attend"
    /\ work' = Submit(work, "current", [op |-> "attend", layer |-> layer, step |-> steps])
    /\ pc' = "save"
    /\ UNCHANGED <<layer, steps, batch, hot, busy, mem, kv, retrievers, storers>>

-----------------------------------------------------------------------------
(* store_layer and batched_from_gpu *)

\* skip_leading_tokens: what was saved before is not saved again; what a new
\* request loads is not skipped, and its storer finds it in the cache.
Skipped(i) == batch[i].saved

SavingOnes == SelectSeq([i \in DOMAIN batch |-> i], LAMBDA i : Skipped(i) < Len(batch[i].chunks))

\* One chunk of one request at the making of the storers.
StoreOne(st, i, j) ==
    LET c == batch[i].chunks[j] IN
    IF st.broke \/ HasFirstLayer(st.hot, c) THEN st
    ELSE LET a == BatchedAllocate(st.hot, st.busy) IN
         [hot |-> a.hot, busy |-> a.busy, broke |-> a.buf = 0,
          idx |-> IF a.buf = 0 THEN st.idx ELSE Append(st.idx, j),
          buf |-> IF a.buf = 0 THEN st.buf ELSE Append(st.buf, a.buf)]

\* The storer of request i: only the first of the batch synchronizes.
MakeStorer(st, i) ==
    LET one == FoldLeft(LAMBDA s, j : StoreOne(s, i, j),
                        [hot |-> st.hot, busy |-> st.busy, broke |-> FALSE, idx |-> <<>>, buf |-> <<>>],
                        [n \in 1..(Len(batch[i].chunks) - Skipped(i)) |-> Skipped(i) + n])
    IN  [hot |-> one.hot, busy |-> one.busy,
         storers |-> Append(st.storers, [req |-> i, idx |-> one.idx, buf |-> one.buf, sync |-> st.storers = <<>>])]

MadeStorers ==
    FoldLeft(MakeStorer, [hot |-> hot, busy |-> busy, storers |-> <<>>], SavingOnes)

\* The copy does not wait for the model.
SubmitStoreAtOnce(w, s, l) ==
    IF s.idx = <<>> THEN w
    ELSE Submit(w, "store", [op |-> "store", req |-> s.req, layer |-> l, step |-> steps,
                idx |-> s.idx, buf |-> s.buf])

\* The producer submits the copies of layer l, behind the model's work so far.
SubmitStore(w, s, l) ==
    IF s.idx = <<>> THEN w
    ELSE Submit(WaitStream(w, "store", "current"), "store",
                [op |-> "store", req |-> s.req, layer |-> l, step |-> steps,
                idx |-> s.idx, buf |-> s.buf])

\* store_stream.synchronize(), by a storer that stores anything at all.
Synced == \A i \in DOMAIN storers :
             storers[i].sync /\ storers[i].idx # <<>> => work["store"] = <<>>

PutLayerOf(st, s, l) ==
    FoldLeft(LAMBDA acc, n : PutLayer(acc, batch[s.req].chunks[s.idx[n]], l, s.buf[n]),
             st, [n \in DOMAIN s.idx |-> n])

\* save_kv_layer of the first layer makes the storers and advances them once.
\* slot_mapping.cuda() is a blocking copy on the model's stream.
SaveFirstLayer ==
    /\ pc = "save" /\ layer = 1
    /\ SavingOnes # <<>> => work["current"] = <<>>
    /\ hot' = MadeStorers.hot
    /\ busy' = MadeStorers.busy
    /\ storers' = MadeStorers.storers
    /\ work' = FoldLeft(LAMBDA w, s : SubmitStore(w, s, 1), work, MadeStorers.storers)
    /\ layer' = 2 /\ pc' = "wait"
    /\ UNCHANGED <<steps, batch, mem, kv, retrievers>>

\* save_kv_layer of another: copy this layer, put the one before.
SaveKvLayer ==
    /\ pc = "save" /\ layer > 1
    /\ Synced
    /\ work' = FoldLeft(LAMBDA w, s : SubmitStore(w, s, layer), work, storers)
    /\ LET st == FoldLeft(LAMBDA acc, s : PutLayerOf(acc, s, layer - 1), [hot |-> hot, busy |-> busy], storers)
       IN  hot' = st.hot /\ busy' = st.busy
    /\ IF layer < NumLayers THEN layer' = layer + 1 /\ pc' = "wait" ELSE pc' = "finish" /\ UNCHANGED layer
    /\ UNCHANGED <<steps, batch, mem, kv, retrievers, storers>>

\* Faulty variant: the last copies are not waited for.
WaitForSaveAtOnce ==
    /\ pc = "finish"
    /\ LET st == FoldLeft(LAMBDA acc, s : PutLayerOf(acc, s, NumLayers), [hot |-> hot, busy |-> busy], storers)
       IN  hot' = st.hot /\ busy' = st.busy
    /\ pc' = "sample"
    /\ UNCHANGED <<layer, steps, batch, mem, kv, retrievers, storers, work>>

\* wait_for_save puts the last layer.
WaitForSave ==
    /\ pc = "finish"
    /\ Synced
    /\ LET st == FoldLeft(LAMBDA acc, s : PutLayerOf(acc, s, NumLayers), [hot |-> hot, busy |-> busy], storers)
       IN  hot' = st.hot /\ busy' = st.busy
    /\ pc' = "sample"
    /\ UNCHANGED <<layer, steps, batch, mem, kv, retrievers, storers, work>>

\* vLLM takes the sampled tokens off the GPU: its own stream is drained.
EndStep ==
    /\ pc = "sample"
    /\ work["current"] = <<>>
    /\ batch' = <<>> /\ pc' = "idle" /\ layer' = 1
    /\ UNCHANGED <<steps, hot, busy, mem, kv, retrievers, storers, work>>

-----------------------------------------------------------------------------
(* The GPU *)

\* Attention of a layer: with all loaded KV in place, the other chunks' KV is
\* computed right.
LoadedKV(i, l) == \A j \in 1..batch[i].hit : kv[i][j][l] = batch[i].chunks[j]

Attended(op) ==
    [i \in DOMAIN batch |-> [j \in DOMAIN batch[i].chunks |->
        IF j <= batch[i].hit \/ j <= batch[i].saved THEN kv[i][j]
        ELSE [kv[i][j] EXCEPT ![op.layer] =
                IF LoadedKV(i, op.layer) THEN batch[i].chunks[j] ELSE "none"]]]

\* A copy that is left from an earlier step reads blocks that may have been
\* given to a request of this one.
PagedKV(i, j, l) ==
    IF i \in DOMAIN kv /\ (i \in DOMAIN kv => j \in DOMAIN kv[i]) THEN kv[i][j][l] ELSE "none"

RunStream(s) ==
    /\ Ready(work, s)
    /\ LET op == Head(work[s]) IN
       /\ kv' = CASE op.op = "attend" -> Attended(op)
                  [] op.op = "load" ->
                        [kv EXCEPT ![op.req] = [j \in DOMAIN @ |->
                            IF j \in DOMAIN op.obj
                            THEN [@[j] EXCEPT ![op.layer] = mem[<<op.obj[j], op.layer>>]] ELSE @[j]]]
                  [] OTHER -> kv
       /\ mem' = IF op.op = "store"
                 THEN [o \in Objects |->
                         IF o[2] = op.layer /\ \E n \in DOMAIN op.buf : op.buf[n] = o[1]
                         THEN LET n == CHOOSE m \in DOMAIN op.buf : op.buf[m] = o[1]
                              IN  PagedKV(op.req, op.idx[n], op.layer)
                         ELSE mem[o]]
                 ELSE mem
    /\ work' = Retire(work, s)
    /\ UNCHANGED <<pc, layer, steps, batch, hot, busy, retrievers, storers>>

Next ==
    \/ \E n \in 1..2 : \E prompts \in [1..n -> Prompts] : \E saved \in [1..n -> 0..1] : BeginStep(prompts, saved)
    \/ StartLoadKv \/ WaitForLayerLoad \/ WaitForLastLoad
    \/ Attend \/ SaveFirstLayer \/ SaveKvLayer \/ WaitForSave \/ EndStep
    \/ \E s \in Streams : RunStream(s)

Spec == Init /\ [][Next]_vars

-----------------------------------------------------------------------------
(* Properties *)

TypeOK ==
    /\ pc \in {"idle", "load", "wait", "attend", "save", "finish", "sample", "failed"}
    /\ layer \in Layers
    /\ busy \subseteq Objects
    /\ DOMAIN mem = Objects
    /\ \A i \in DOMAIN hot : ObjectsOf(hot[i]) \subseteq busy

\* When the model attends to a layer, the loads of that layer are done, those
\* of the retrievers that do not synchronize included.
LoadsBeforeAttention ==
    \A i \in DOMAIN batch :
        Ready(work, "current") /\ Head(work["current"]).op = "attend" =>
            \A n \in DOMAIN work["load"] :
                work["load"][n].layer > Head(work["current"]).layer

\* Between steps no object is allocated that is not in the hot cache, no chunk
\* is pinned, and every cached chunk has all its layers: the calls to next
\* bring all generators to their end.
StepsLeaveNothing ==
    pc = "idle" =>
        /\ busy = UNION {ObjectsOf(hot[i]) : i \in DOMAIN hot}
        /\ \A i \in DOMAIN hot : ~hot[i].pin /\ HasAllLayers(hot, hot[i].chunk)

\* A layer of a chunk is published, by a storer that is advanced once more or
\* by wait_for_save, with its KV in host memory, if the first storer of the
\* step stores anything: when it does not, nobody waits for the others'.
PublishedIsCopied ==
    storers # <<>> /\ storers[1].idx # <<>> =>
        \A n \in DOMAIN work["store"] :
            work["store"][n].op = "store" /\ work["store"][n].step = steps =>
            \A i \in DOMAIN hot : \A m \in DOMAIN work["store"][n].buf :
                hot[i].obj[work["store"][n].layer] # work["store"][n].buf[m]

\* wait_for_save: "Blocking until the KV cache is saved to the connector
\* buffer". Does not hold: when the first storer has nothing to store, the
\* copies of the others are still under way (README, section 6).
SavedWhenWaited ==
    pc = "sample" => \A n \in DOMAIN work["store"] :
                        work["store"][n].op = "store" => work["store"][n].step # steps

\* The KV of a layer is copied to host memory after the model has computed it.
StoredAfterComputed ==
    Ready(work, "store") /\ Head(work["store"]).op = "store" =>
        \A n \in DOMAIN work["current"] :
            work["current"][n].op = "attend" =>
                \/ work["current"][n].layer # Head(work["store"]).layer
                \/ work["current"][n].step # Head(work["store"]).step

\* No step fails: memory that a retriever holds is not evicted (the comment
\* in batched_allocate: "If the ref_count > 1, we cannot evict it").
\* Does not hold (README, section 6).
LoadedChunksStay == pc # "failed"
=============================================================================
