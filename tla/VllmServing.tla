---------------------------- MODULE VllmServing ----------------------------
(***************************************************************************)
(* vLLM serving requests with the v1 adapter: on the scheduler side, and   *)
(* one CacheEngine per tensor-parallel rank on the worker side. The        *)
(* engine steps are synchronous: the scheduler picks requests (asking the  *)
(* lookup server of rank 0 for cached prefixes), the workers load, run the *)
(* model and save.                                                         *)
(*                                                                         *)
(* The scheduler, its block tables and its prefix cache are vLLM's. Of     *)
(* them the module has what the adapter relies on. Running requests are    *)
(* not preempted.                                                          *)
(***************************************************************************)
EXTENDS CacheEngine, TLC

-----------------------------------------------------------------------------
(***************************************************************************)
(* The scheduler side of MTDSConnectorV1Impl                               *)
(* (MTDS/integration/vllm/vllm_v1_adapter.py): load specs, request         *)
(* trackers and the metadata that tells the workers, once per engine step, *)
(* what to load and what to save.                                          *)
(***************************************************************************)
CONSTANTS
    Requests, BlockSize, None,
    Settings   \* the settings to look at: [role, discard, saveUnfull]

ASSUME BlockSizeAssumption == BlockSize \in Nat \ {0}

VARIABLES
    role,         \* kv_role: "kv_both", "kv_producer" or "kv_consumer"
    discard,      \* _discard_partial_chunks
    saveUnfull,   \* the engine's save_unfull_chunk
    loadSpecs,    \* load_specs: request -> [vllm, mtds, canLoad] or None
    trackers,     \* _request_trackers: request -> [tokens, blocks, saved] or None
    meta          \* the connector metadata of the step: a sequence of ReqMeta

adapterVars == <<role, discard, saveUnfull, loadSpecs, trackers, meta>>

\* __init__, with the settings the engine and the connector are created with.
InitAdapter ==
    /\ \E s \in Settings : role = s.role /\ discard = s.discard /\ saveUnfull = s.saveUnfull
    /\ loadSpecs = [r \in Requests |-> None]
    /\ trackers = [r \in Requests |-> None]
    /\ meta = <<>>

-----------------------------------------------------------------------------
(* get_num_new_matched_tokens *)

\* The hit the adapter works with: a full hit leaves the last token to compute.
UsableHit(hit, numTokens) == IF hit = numTokens THEN hit - 1 ELSE hit

\* The number of tokens to allocate blocks for beyond the computed ones.
NumNewMatched(hit, numTokens, computed) ==
    LET need == UsableHit(hit, numTokens) - computed
    IN  IF role = "kv_producer" \/ need <= 0 THEN 0 ELSE need

\* The load spec the call leaves; without a need an older one stays.
SpecAfterMatch(r, hit, numTokens, computed) ==
    IF NumNewMatched(hit, numTokens, computed) = 0 THEN loadSpecs[r]
    ELSE [vllm |-> computed, mtds |-> UsableHit(hit, numTokens), canLoad |-> FALSE]

\* A later change forgets to let the load happen.
AllocForgetsLoad(spec, external) ==
    IF spec = None THEN None ELSE [spec EXCEPT !.canLoad = FALSE]

\* update_state_after_alloc. Its assertion holds: the spec in load_specs is
\* the one this attempt to schedule the request made, or external is 0.
SpecAfterAlloc(spec, external) ==
    IF spec = None THEN None ELSE [spec EXCEPT !.canLoad = external > 0]

-----------------------------------------------------------------------------
(* RequestTracker and ReqMeta *)

\* from_new_request: nothing counts as saved, also when it comes from the cache.
NewTracker(tokens, numToCompute, blocks) ==
    [tokens |-> SubSeq(tokens, 1, numToCompute), blocks |-> blocks, saved |-> 0]

\* New blocks put before the old ones.
BlocksInFront(t, newTokens, newBlocks) ==
    [t EXCEPT !.tokens = @ \o newTokens, !.blocks = newBlocks \o @]

\* update: a running request is scheduled again.
UpdatedTracker(t, newTokens, newBlocks) ==
    [t EXCEPT !.tokens = @ \o newTokens, !.blocks = @ \o newBlocks]

\* slot_mapping: the slots of the first n tokens in the paged KV memory.
SlotMapping(blocks, n) ==
    [i \in 1..n |-> blocks[((i - 1) \div BlockSize) + 1] * BlockSize + ((i - 1) % BlockSize)]

\* The first length at which a request with "saved" tokens is saved again.
ChunkBoundary(saved) == CeilDiv(saved + 1, ChunkSize) * ChunkSize

SkipSave(t) ==
    \/ role = "kv_consumer"
    \/ t.saved > 0 /\ Len(t.tokens) < ChunkBoundary(t.saved)

NumToSave(t) == IF discard THEN AlignDown(Len(t.tokens)) ELSE Len(t.tokens)

\* from_request_tracker: the tracker it leaves, and the metadata as a
\* sequence of at most one ReqMeta.
TrackerAfterMeta(t) ==
    IF SkipSave(t) THEN t ELSE [t EXCEPT !.saved = NumToSave(t)]

ReqMeta(r, t, spec) ==
    IF SkipSave(t) /\ spec = None THEN <<>>
    ELSE LET load == spec # None /\ (spec # None => spec.canLoad)
         IN  <<[req     |-> r,
                tokens  |-> SubSeq(t.tokens, 1, NumToSave(t)),
                slots   |-> SlotMapping(t.blocks, NumToSave(t)),
                skip    |-> t.saved,
                canSave |-> ~SkipSave(t),
                load    |-> load,
                vllm    |-> IF load THEN spec.vllm ELSE 0,
                mtds    |-> IF load THEN spec.mtds ELSE 0]>>

-----------------------------------------------------------------------------
(* build_connector_meta. A SchedulerOutput is a record of                  *)
(*   finished   a set of requests,                                         *)
(*   new        a sequence of [req, tokens (the prompt), blocks, compute], *)
(*   cached     a sequence of [req, newTokens, newBlocks].                 *)

TrackerOfNew(n) == NewTracker(n.tokens, n.compute, n.blocks)

TrackerOfCached(n) == UpdatedTracker(trackers[n.req], n.newTokens, n.newBlocks)

\* The trackers before their metadata is made: finished requests are popped,
\* new ones are entered, running ones grow.
TrackersOf(out) ==
    [r \in Requests |->
        IF \E i \in DOMAIN out.new : out.new[i].req = r
        THEN TrackerOfNew(out.new[CHOOSE i \in DOMAIN out.new : out.new[i].req = r])
        ELSE IF \E i \in DOMAIN out.cached : out.cached[i].req = r
        THEN TrackerOfCached(out.cached[CHOOSE i \in DOMAIN out.cached : out.cached[i].req = r])
        ELSE IF r \in out.finished THEN None ELSE trackers[r]]

Scheduled(out) ==
    {out.new[i].req : i \in DOMAIN out.new} \union {out.cached[i].req : i \in DOMAIN out.cached}

BuildConnectorMeta(out) ==
    LET grown == TrackersOf(out) IN
    /\ trackers' = [r \in Requests |->
                       IF r \in Scheduled(out) THEN TrackerAfterMeta(grown[r]) ELSE grown[r]]
    /\ loadSpecs' = [r \in Requests |->
                       IF \E i \in DOMAIN out.new : out.new[i].req = r THEN None ELSE loadSpecs[r]]
    /\ meta' = FlattenSeq([i \in DOMAIN out.new |->
                   ReqMeta(out.new[i].req, grown[out.new[i].req], loadSpecs[out.new[i].req])])
             \o FlattenSeq([i \in DOMAIN out.cached |->
                   ReqMeta(out.cached[i].req, grown[out.cached[i].req], None)])
    /\ UNCHANGED <<role, discard, saveUnfull>>

-----------------------------------------------------------------------------
(***************************************************************************)
(* The requests, vLLM and the workers.                                     *)
(***************************************************************************)
CONSTANTS
    Ranks, DriverRank,
    Prompt,         \* the prompt of each request
    MaxTokens,      \* a request ends with this many tokens
    NumBlocks,      \* blocks of the paged KV memory
    SkipLastN       \* skip_last_n_tokens

ASSUME RanksAssumption == DriverRank \in Ranks

VARIABLES
    phase,       \* "schedule", "load", "forward" or "save"
    status,      \* "waiting", "running" or "finished"
    tokens,      \* all tokens of a request, generated ones included
    computed,    \* num_computed_tokens
    plan,        \* tokens each request computes in this step
    output,      \* the SchedulerOutput under construction
    full,        \* a waiting request found no blocks in this step
    table,       \* block table of each request
    blockHash,   \* vLLM's prefix cache: the prefix a block is kept under, or <<>>
    cache,       \* rank -> the cache of its engine
    gpu,         \* rank -> slot -> the prefix its KV was computed for, or <<>>
    promised,    \* request -> tokens the step's load should bring
    loaded,      \* request -> tokens the step's load brought, least of the ranks
    offered,     \* request -> chunk keys that store has gone through
    gaveUp       \* requests whose store ended for want of a buffer

serveVars == <<phase, status, tokens, computed, plan, output, full, table, blockHash>>
workVars  == <<cache, gpu, promised, loaded, offered, gaveUp>>
vars      == <<adapterVars, serveVars, workVars>>

Blocks == 1..NumBlocks
Slots  == BlockSize..(NumBlocks * BlockSize + BlockSize - 1)
NoOutput == [finished |-> {}, new |-> <<>>, cached |-> <<>>]
Generated == "g"   \* the token the model samples

Init ==
    /\ InitAdapter
    /\ phase = "schedule"
    /\ status = [r \in Requests |-> "waiting"]
    /\ tokens = Prompt
    /\ computed = [r \in Requests |-> 0]
    /\ plan = [r \in Requests |-> 0]
    /\ output = NoOutput
    /\ full = FALSE
    /\ table = [r \in Requests |-> <<>>]
    /\ blockHash = [b \in Blocks |-> <<>>]
    /\ cache = [k \in Ranks |-> EmptyCache]
    /\ gpu = [k \in Ranks |-> [s \in Slots |-> <<>>]]
    /\ promised = [r \in Requests |-> 0]
    /\ loaded = [r \in Requests |-> 0]
    /\ offered = [r \in Requests |-> {}]
    /\ gaveUp = {}

-----------------------------------------------------------------------------
(* vLLM's block tables and prefix cache *)

InUse == UNION {Range(table[r]) : r \in {q \in Requests : status[q] = "running"}}

\* The prefix cache hit of a waiting request: whole blocks, never all tokens.
NativeBlocks(r) ==
    LET Hit(n) == \A i \in 1..n : \E b \in Blocks :
                     blockHash[b] = SubSeq(tokens[r], 1, i * BlockSize)
        ns == {n \in 0..((Len(tokens[r]) - 1) \div BlockSize) : Hit(n)}
        n  == CHOOSE m \in ns : \A k \in ns : k <= m
    IN  [i \in 1..n |-> CHOOSE b \in Blocks : blockHash[b] = SubSeq(tokens[r], 1, i * BlockSize)]

BlocksFor(n) == CeilDiv(n, BlockSize)

\* The n lowest free blocks. No block of "kept" is among them.
FreeBlocks(kept) == Blocks \ (InUse \union kept)

PickBlocks(n, kept) ==
    SubSeq(SetToSortSeq(FreeBlocks(kept), LAMBDA a, b : a < b), 1, n)

Unhash(bs) == [b \in Blocks |-> IF b \in Range(bs) THEN <<>> ELSE blockHash[b]]

-----------------------------------------------------------------------------
(* The scheduler *)

\* A chunk of a prefill is as long as the token budget of the step lets it be.
StepSizes(rest) == {n \in {1, rest} : n > 0}

\* A running request is scheduled again for n tokens.
ScheduleRunning(r, n) ==
    /\ phase = "schedule" /\ ~full /\ output.new = <<>>
    /\ status[r] = "running" /\ plan[r] = 0
    /\ n \in StepSizes(Len(tokens[r]) - computed[r])
    /\ LET more == BlocksFor(computed[r] + n) - Len(table[r])
           bs == PickBlocks(more, {})
       IN  /\ more <= Cardinality(FreeBlocks({}))
           /\ table' = [table EXCEPT ![r] = @ \o bs]
           /\ blockHash' = Unhash(bs)
           /\ output' = [output EXCEPT !.cached = Append(@,
                [req |-> r, newBlocks |-> bs,
                 newTokens |-> SubSeq(tokens[r], computed[r] + 1, computed[r] + n)])]
    /\ plan' = [plan EXCEPT ![r] = n]
    /\ UNCHANGED <<adapterVars, phase, status, tokens, computed, full, workVars>>

\* The client asks with the prompt, less its last SkipLastN tokens. The
\* thread of the server pins what it finds at the driver rank.
LookupTokens(r) == SubSeq(tokens[r], 1, Len(tokens[r]) - SkipLastN)

LookupHit(r) ==
    IF role = "kv_producer" THEN 0
    ELSE LookupEnd(cache[DriverRank], LookupTokens(r), saveUnfull)

LookupPins(r) ==
    [cache EXCEPT ![DriverRank] = PinPrefix(@, LookupTokens(r), LookupHit(r))]

\* A waiting request is scheduled for n tokens behind what vLLM and the
\* engine have: get_num_new_matched_tokens, the blocks, and
\* update_state_after_alloc.
ScheduleWaiting(r, n) ==
    /\ phase = "schedule" /\ ~full
    /\ status[r] = "waiting"
    /\ LET native == NativeBlocks(r)
           local  == Len(native) * BlockSize
           extern == NumNewMatched(LookupHit(r), Len(tokens[r]), local)
           upto   == local + extern + n
           bs     == PickBlocks(BlocksFor(upto) - Len(native), Range(native))
       IN  /\ n \in StepSizes(Len(tokens[r]) - local - extern)
           /\ BlocksFor(upto) - Len(native) <= Cardinality(FreeBlocks(Range(native)))
           /\ table' = [table EXCEPT ![r] = native \o bs]
           /\ blockHash' = Unhash(bs)
           /\ computed' = [computed EXCEPT ![r] = local + extern]
           /\ loadSpecs' = [loadSpecs EXCEPT ![r] = SpecAfterAlloc(
                  SpecAfterMatch(r, LookupHit(r), Len(tokens[r]), local), extern)]
           /\ promised' = [promised EXCEPT ![r] = extern]
           /\ output' = [output EXCEPT !.new = Append(@,
                [req |-> r, tokens |-> tokens[r], blocks |-> native \o bs, compute |-> upto])]
    /\ cache' = LookupPins(r)
    /\ status' = [status EXCEPT ![r] = "running"]
    /\ plan' = [plan EXCEPT ![r] = n]
    /\ UNCHANGED <<role, discard, saveUnfull, trackers, meta, phase, tokens, full, gpu, loaded, offered, gaveUp>>

\* The blocks do not suffice for the whole request: it stays in the queue
\* with its load spec and its pins, and the scheduler takes no other.
ScheduleFails(r) ==
    /\ phase = "schedule" /\ ~full
    /\ status[r] = "waiting"
    /\ LET native == NativeBlocks(r)
           local  == Len(native) * BlockSize
       IN  /\ BlocksFor(Len(tokens[r])) - Len(native) > Cardinality(FreeBlocks(Range(native)))
           /\ loadSpecs' = [loadSpecs EXCEPT ![r] =
                  SpecAfterMatch(r, LookupHit(r), Len(tokens[r]), local)]
    /\ cache' = LookupPins(r)
    /\ full' = TRUE
    /\ UNCHANGED <<role, discard, saveUnfull, trackers, meta, phase, status, tokens, computed,
                   plan, output, table, blockHash, gpu, promised, loaded, offered, gaveUp>>

\* The output is complete: the adapter attaches its metadata.
BuildMeta ==
    /\ phase = "schedule"
    /\ output # NoOutput
    /\ BuildConnectorMeta(output)
    /\ phase' = "load"
    /\ UNCHANGED <<status, tokens, computed, plan, output, full, table, blockHash, workVars>>

-----------------------------------------------------------------------------
(* The workers *)

LoadTokens(m) == SubSeq(m.tokens, 1, Len(m.tokens) - SkipLastN)

\* One request of start_load_kv at one rank: the retrieve starts at the chunk
\* that holds the first token vLLM has not computed.
LoadRequest(st, m) ==
    IF ~m.load THEN st
    ELSE LET res == Retrieve(st.cache, LoadTokens(m), AlignDown(m.vllm), m.slots, st.gpu, saveUnfull)
         IN  [cache |-> res.cache, gpu |-> res.gpu,
              got |-> [st.got EXCEPT ![m.req] = res.got - (m.vllm - AlignDown(m.vllm))]]

LoadAt(k) ==
    FoldLeft(LoadRequest,
             [cache |-> cache[k], gpu |-> gpu[k], got |-> [r \in Requests |-> 0]], meta)

Least(S) == CHOOSE m \in S : \A n \in S : m <= n

StartLoadKv ==
    /\ phase = "load"
    /\ cache' = [k \in Ranks |-> LoadAt(k).cache]
    /\ gpu' = [k \in Ranks |-> LoadAt(k).gpu]
    /\ loaded' = [r \in Requests |-> Least({LoadAt(k).got[r] : k \in Ranks})]
    /\ phase' = "forward"
    /\ UNCHANGED <<adapterVars, status, tokens, computed, plan, output, full, table, blockHash,
                   promised, offered, gaveUp>>

SlotOf(r, p) == SlotMapping(table[r], p)[p]

\* The KV of the first n tokens of r is in place at rank k.
OwnKV(k, r, n) == \A p \in 1..n : gpu[k][SlotOf(r, p)] = SubSeq(tokens[r], 1, p)

\* The model computes the KV of the scheduled tokens. It is right only when
\* all KV it attends to is.
Computes(r, s) == \E p \in (computed[r] + 1)..(computed[r] + plan[r]) : SlotOf(r, p) = s

Forward ==
    /\ phase = "forward"
    /\ gpu' = [k \in Ranks |-> [s \in Slots |->
         IF \E r \in Requests : plan[r] > 0 /\ Computes(r, s)
         THEN LET r == CHOOSE q \in Requests : plan[q] > 0 /\ Computes(q, s)
                  p == CHOOSE i \in 1..Len(tokens[r]) :
                         i <= computed[r] + plan[r] /\ SlotOf(r, i) = s
              IN  IF OwnKV(k, r, computed[r]) THEN SubSeq(tokens[r], 1, p) ELSE <<>>
         ELSE gpu[k][s]]]
    /\ phase' = "save"
    /\ UNCHANGED <<adapterVars, status, tokens, computed, plan, output, full, table, blockHash,
                   cache, promised, loaded, offered, gaveUp>>

\* The skipped tokens rounded up: a chunk saved in part counts as saved.
SaveRoundsUp(k, st, m) ==
    IF ~m.canSave \/ m.skip = Len(m.tokens) THEN st
    ELSE LET res == Store(st.cache, m.tokens, CeilDiv(m.skip, ChunkSize) * ChunkSize,
                          m.slots, gpu[k], saveUnfull)
         IN  [cache |-> res.cache,
              offered |-> [st.offered EXCEPT ![m.req] = @ \union res.offered],
              broke |-> IF res.broke THEN st.broke \union {m.req} ELSE st.broke]

\* One request of wait_for_save at one rank.
SaveRequest(k, st, m) ==
    IF ~m.canSave \/ m.skip = Len(m.tokens) THEN st
    ELSE LET res == Store(st.cache, m.tokens, AlignDown(m.skip), m.slots, gpu[k], saveUnfull)
         IN  [cache |-> res.cache,
              offered |-> [st.offered EXCEPT ![m.req] = @ \union res.offered],
              broke |-> IF res.broke THEN st.broke \union {m.req} ELSE st.broke]

SaveAt(k) ==
    FoldLeft(LAMBDA st, m : SaveRequest(k, st, m),
             [cache |-> cache[k], offered |-> offered, broke |-> {}], meta)

\* After the step: the request has its new tokens computed, and the next one
\* sampled once its prompt is.
NewTokens(r) ==
    IF plan[r] > 0 /\ computed[r] + plan[r] = Len(tokens[r]) /\ Len(tokens[r]) < MaxTokens
    THEN Append(tokens[r], Generated) ELSE tokens[r]

Ends(r) == plan[r] > 0 /\ computed[r] + plan[r] = Len(tokens[r]) /\ Len(tokens[r]) >= MaxTokens

\* wait_for_save, and the step's results at the scheduler.
WaitForSave ==
    /\ phase = "save"
    /\ cache' = [k \in Ranks |-> SaveAt(k).cache]
    /\ offered' = [r \in Requests |->
         IF Ends(r) THEN {} ELSE SaveAt(DriverRank).offered[r]]
    /\ gaveUp' = gaveUp \union SaveAt(DriverRank).broke
    /\ tokens' = [r \in Requests |-> NewTokens(r)]
    /\ computed' = [r \in Requests |-> computed[r] + plan[r]]
    /\ status' = [r \in Requests |-> IF Ends(r) THEN "finished" ELSE status[r]]
    /\ blockHash' = [b \in Blocks |->
         IF \E r \in Requests, i \in 1..((MaxTokens) \div BlockSize) :
               /\ plan[r] > 0 /\ i * BlockSize <= computed[r] + plan[r] /\ table[r][i] = b
         THEN LET r == CHOOSE q \in Requests : plan[q] > 0 /\ b \in Range(table[q])
                  i == CHOOSE j \in DOMAIN table[r] : table[r][j] = b
              IN  SubSeq(tokens[r], 1, i * BlockSize)
         ELSE blockHash[b]]
    /\ output' = [NoOutput EXCEPT !.finished = {r \in Requests : Ends(r)}]
    /\ plan' = [r \in Requests |-> 0]
    /\ promised' = [r \in Requests |-> 0]
    /\ loaded' = [r \in Requests |-> 0]
    /\ full' = FALSE
    /\ phase' = "schedule"
    /\ UNCHANGED <<adapterVars, table, gpu>>

Next ==
    \/ \E r \in Requests, n \in 1..MaxTokens : ScheduleRunning(r, n) \/ ScheduleWaiting(r, n)
    \/ \E r \in Requests : ScheduleFails(r)
    \/ BuildMeta \/ StartLoadKv \/ Forward \/ WaitForSave

Spec == Init /\ [][Next]_vars

-----------------------------------------------------------------------------
(* Properties *)

KVContents == UNION {{SubSeq(t, 1, n) : n \in 0..Len(t)} :
                   t \in {SubSeq(Prompt[r] \o [i \in 1..MaxTokens |-> Generated], 1, n) :
                          r \in Requests, n \in 1..MaxTokens}}

TypeOK ==
    /\ phase \in {"schedule", "load", "forward", "save"}
    /\ status \in [Requests -> {"waiting", "running", "finished"}]
    /\ \A r \in Requests : tokens[r] \in KVContents /\ computed[r] \in 0..Len(tokens[r])
    /\ gpu \in [Ranks -> [Slots -> KVContents]]
    /\ \A k \in Ranks : cache[k].lost + Len(cache[k].hot) <= Capacity

\* The scheduler counts a token as computed only when every rank holds that
\* token's own KV in the slot the block table gives it: loads bring exactly
\* what was promised, into the right slots, before the model attends to it.
AttentionReadsOwnKV ==
    phase \in {"schedule", "save"} =>
        \A k \in Ranks, r \in Requests :
            status[r] = "running" /\ trackers[r] # None => OwnKV(k, r, computed[r])

\* What an engine holds under a key is the KV of that token prefix.
CacheIsTrue ==
    \A k \in Ranks : \A i \in DOMAIN cache[k].hot :
        LET e == cache[k].hot[i]
            from == IF Len(e.key) % ChunkSize = 0 THEN Len(e.key) - ChunkSize
                    ELSE AlignDown(Len(e.key))
        IN  e.kv = [j \in 1..(Len(e.key) - from) |-> SubSeq(e.key, 1, from + j)]

\* Every full chunk a request has scheduled has been through store: the
\* tracker's count of saved tokens skips none, whatever the steps' lengths.
FullChunksOffered ==
    phase = "schedule" =>
        \A r \in Requests \ gaveUp :
            status[r] = "running" /\ trackers[r] # None /\ role # "kv_consumer" =>
                \A n \in 1..NumChunks(Len(trackers[r].tokens), FALSE) :
                    SubSeq(tokens[r], 1, n * ChunkSize) \in offered[r]

\* start_load_kv brings the tokens the scheduler was promised, less the last
\* ones that are to be skipped. Of less the message there says "This should
\* not happen!". With SkipLastN > 0 it does (README, section 6).
LoadsAsPromised ==
    phase = "forward" => \A r \in Requests : loaded[r] >= promised[r] - SkipLastN
=============================================================================
