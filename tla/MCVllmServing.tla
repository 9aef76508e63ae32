--------------------------- MODULE MCVllmServing ---------------------------
(* Three requests, two of them with a common prefix, either at vLLM v1 with *)
(* its adapter or, when use_v0 is set, at vLLM v0 with the older one.       *)
EXTENDS VllmServing

CONSTANTS V0ChunkSize, V0BlockSize, V0NumBlocks, V0MaxTokens, MinChunk, OptedOut

MCPrompt == ("r1" :> <<"a", "b", "c">>) @@ ("r2" :> <<"a", "b", "c", "d">>)
         @@ ("r3" :> <<"x", "y">>)

Setting(r, d, u) ==
    [role |-> r, discard |-> d, saveUnfull |-> u]

MCSettings == {Setting("kv_both", FALSE, TRUE), Setting("kv_both", TRUE, FALSE),
               Setting("kv_producer", FALSE, FALSE), Setting("kv_consumer", TRUE, TRUE)}

V0Prompt == ("r1" :> <<"a", "b", "c", "d", "e">>) @@ ("r2" :> <<"a", "b", "c", "d", "e", "f">>)
         @@ ("r3" :> <<"a", "b", "x", "y">>)

V0Setting(c, u, d) == [chunked |-> c, saveUnfull |-> u, saveDecode |-> d]

V0Settings == {V0Setting(FALSE, FALSE, TRUE), V0Setting(TRUE, TRUE, TRUE)}

VARIABLES
    use_v0,
    setting, turn, seqTokens, admitted, inPlace, blocks, keptUnder, batch, input, bypass,
    engine, paged

V0 == INSTANCE VllmV0Adapter
      WITH Prompt <- V0Prompt, Settings <- V0Settings, ChunkSize <- V0ChunkSize,
           BlockSize <- V0BlockSize, NumBlocks <- V0NumBlocks, MaxTokens <- V0MaxTokens

\* The two versions of vLLM share nothing: a behaviour is one of them, and the
\* other's setting is then of no account.
MCInit ==
    /\ Init /\ V0!Init /\ use_v0 \in BOOLEAN
    /\ IF use_v0 THEN role = "kv_producer" ELSE setting.chunked

MCNext ==
    \/ /\ ~use_v0
       /\ Next
       /\ UNCHANGED <<use_v0, setting, turn, seqTokens, admitted, inPlace, blocks, keptUnder,
                      batch, input, bypass, engine, paged>>
    \/ /\ use_v0
       /\ V0!Next
       /\ UNCHANGED <<use_v0, vars>>

MCSpec == MCInit /\ [][MCNext]_<<vars, use_v0, setting, turn, seqTokens, admitted, inPlace,
                                blocks, keptUnder, batch, input, bypass, engine, paged>>

\* vLLM v0 counts a token as computed only when its own KV is in its slot,
\* also when build_partial_prefill_input has cut the model's input.
ComputedIsInPlace == V0!ComputedIsInPlace

\* What MTDS_store_kv leaves in the engine under a key is that prefix's KV.
StoredIsTrue == V0!StoredIsTrue
=============================================================================
