----------------------------- MODULE LegacyBlend -----------------------------
(***************************************************************************)
(* CacheBlend of the first generation (MTDS/blend): SPTBlendRetriever      *)
(* retrieves each segment of a batch of prompts as a prompt of its own,    *)
(* and CacheBlendImpl.blend puts retrieved and fresh KV together, layer by *)
(* layer. After layer 1 the model computes only the selected tokens; what  *)
(* was not retrieved, or only in part, must be among them. The model, and  *)
(* whoever makes a new executor for each batch, are external.              *)
(*                                                                         *)
(* The tensors of a batch are flat. A row is the KV of a word in a layer   *)
(* whose rotary encoding is for position pos.                              *)
(***************************************************************************)
EXTENDS Integers, Sequences, FiniteSets, SequencesExt

CONSTANTS
    NumLayers, ChunkSize,
    Batches,         \* sequences of prompts, each a sequence of segments
    RecompPercent    \* recompute_ratio

VARIABLES
    step,            \* "idle", "retrieve", "blend" or, at the end, "done", "none", "failed"
    batch,
    tasks,           \* tokens retrieved of each segment so far
    layer,           \* the layer to blend next
    queries,         \* the tokens the model computes: [word, pos]
    indexes_in_kv,   \* their places in the flat tensors, once selected
    output           \* the K and V of the layer blended last

lvars == <<step, batch, tasks, layer, queries, indexes_in_kv, output>>

Segments == FlattenSeq(batch)
Words(prompt) == FlattenSeq(prompt)
BatchPrompts == [q \in DOMAIN batch |-> Words(batch[q])]

\* query_start_loc: how many tokens stand in front of a prompt.
QueryStart(q) == Len(FlattenSeq(SubSeq(BatchPrompts, 1, q - 1)))
Local(q) == 1..Len(BatchPrompts[q])

Undefined == [word |-> "?", layer |-> 0, pos |-> 0]     \* torch.empty

Init ==
    /\ step = "idle" /\ batch = <<>> /\ tasks = <<>> /\ layer = 0
    /\ queries = <<>> /\ indexes_in_kv = <<>> /\ output = <<>>

\* new_request waits for all its retrieves, which a pool of one thread runs.
NewRequest ==
    /\ step = "idle" /\ batch' \in Batches
    /\ step' = "retrieve"
    /\ UNCHANGED <<tasks, layer, queries, indexes_in_kv, output>>

\* The leading chunks of a segment that are cached by then.
Retrieve ==
    /\ step = "retrieve" /\ Len(tasks) < Len(Segments)
    /\ LET len == Len(Segments[Len(tasks) + 1])
       IN  \E n \in {m \in 0..len : m % ChunkSize = 0 \/ m = len} : tasks' = Append(tasks, n)
    /\ UNCHANGED <<step, batch, layer, queries, indexes_in_kv, output>>

\* The places in the flat tensors: those of all segments behind one another.
Places ==
    FlattenSeq([s \in DOMAIN Segments |->
        [j \in DOMAIN Segments[s] |-> [segment |-> s, at |-> j]]])

\* _wait_for_result
ValidMask == [i \in DOMAIN Places |-> Places[i].at <= tasks[Places[i].segment]]
OriginalPositions == [i \in DOMAIN Places |-> IF ValidMask[i] THEN Places[i].at - 1 ELSE 0]
Retrieved(l) ==
    [i \in DOMAIN Places |->
        IF ValidMask[i]
        THEN [word |-> Segments[Places[i].segment][Places[i].at], layer |-> l,
              pos |-> OriginalPositions[i]]
        ELSE Undefined]

\* The model starts with all tokens. An empty segment has nothing retrieved
\* and all it expects: the empty tuple is indexed, and raises.
WaitForResult ==
    /\ step = "retrieve" /\ Len(tasks) = Len(Segments)
    /\ step' = IF <<>> \in ToSet(Segments) THEN "failed"
               ELSE IF ToSet(tasks) = {0} THEN "none" ELSE "blend"
    /\ queries' = FlattenSeq([q \in DOMAIN BatchPrompts |->
                    [i \in Local(q) |-> [word |-> BatchPrompts[q][i], pos |-> i - 1]]])
    /\ UNCHANGED <<batch, tasks, layer, indexes_in_kv, output>>

Fresh == [i \in DOMAIN queries |->
            [word |-> queries[i].word, layer |-> layer, pos |-> queries[i].pos]]

Blended(rows) ==
    /\ output' = rows /\ layer' = layer + 1
    /\ step' = IF layer + 1 = NumLayers THEN "done" ELSE "blend"
    /\ UNCHANGED <<batch, tasks>>

BlendFirst ==
    /\ step = "blend" /\ layer = 0
    /\ Blended(Fresh) /\ UNCHANGED <<queries, indexes_in_kv>>

Invalid(q) == {i \in Local(q) : ~ValidMask[QueryStart(q) + i]}
NumSelected(q) == ((Len(BatchPrompts[q]) - Cardinality(Invalid(q))) * RecompPercent) \div 100

\* Faulty variant: the invalid tokens are not added.
TopTokensOnly(q, top) == SetToSortSeq(top, <)

\* The tokens that differ most, whichever they are, and the invalid ones.
LocalIndices(q, top) == SetToSortSeq(top \union Invalid(q), <)

\* _select_tokens_all_queries: the selected tokens' places in the flat tensors.
SelectTokens(tops) ==
    FlattenSeq([q \in DOMAIN BatchPrompts |->
        LET local == LocalIndices(q, tops[q])
        IN  [i \in DOMAIN local |-> local[i] + QueryStart(q)]])

BlendAndSelect ==
    /\ step = "blend" /\ layer = 1
    /\ \E tops \in [DOMAIN BatchPrompts -> SUBSET (1..Len(queries))] :
          /\ \A q \in DOMAIN BatchPrompts :
                tops[q] \subseteq Local(q) /\ Cardinality(tops[q]) = NumSelected(q)
          /\ indexes_in_kv' = indexes_in_kv \o SelectTokens(tops)
    /\ queries' = [i \in DOMAIN indexes_in_kv' |-> queries[indexes_in_kv'[i]]]
    /\ Blended(Fresh)

\* The encoding for the place in the segment is undone, and the one for the
\* place in the prompt (_build_positions) applied.
Rotate(row, from, to) == IF row = Undefined THEN row ELSE [row EXCEPT !.pos = @ - from + to]
NewPositions == FlattenSeq([q \in DOMAIN BatchPrompts |-> [i \in Local(q) |-> i - 1]])

BlendRest ==
    /\ step = "blend" /\ layer > 1
    /\ Blended([i \in DOMAIN ValidMask |->
          IF i \in ToSet(indexes_in_kv)
          THEN Fresh[CHOOSE n \in DOMAIN indexes_in_kv : indexes_in_kv[n] = i]
          ELSE Rotate(Retrieved(layer)[i], OriginalPositions[i], NewPositions[i])])
    /\ UNCHANGED <<queries, indexes_in_kv>>

\* The next batch gets an executor of its own.
EndRequest ==
    /\ step \in {"done", "none", "failed"}
    /\ step' = "idle" /\ batch' = <<>> /\ tasks' = <<>> /\ layer' = 0
    /\ queries' = <<>> /\ indexes_in_kv' = <<>> /\ output' = <<>>

Next ==
    \/ NewRequest \/ Retrieve \/ WaitForResult
    \/ BlendFirst \/ BlendAndSelect \/ BlendRest \/ EndRequest

Spec == Init /\ [][Next]_lvars

-----------------------------------------------------------------------------
(* Properties *)

\* In every layer the model attends to the KV of every word of the batch, in
\* this layer and for its place in its own prompt, whatever was retrieved of
\* which segment and whichever tokens were recomputed.
BlendedIsRight ==
    output # <<>> =>
        output = FlattenSeq([q \in DOMAIN BatchPrompts |-> [i \in Local(q) |->
                    [word |-> BatchPrompts[q][i], layer |-> layer - 1, pos |-> i - 1]]])
=============================================================================
