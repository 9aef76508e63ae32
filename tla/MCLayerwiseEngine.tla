------------------------ MODULE MCLayerwiseEngine ------------------------
(***************************************************************************)
(* An engine is built with or without enable_blending, or is one of the    *)
(* first generation that blends: Init picks, and the state of the others   *)
(* stays as it is. Prompts of one and two chunks, two of them with a       *)
(* common first chunk; prompts of two and three segments, with a segment   *)
(* that moves and one that is there twice; batches of two prompts, with    *)
(* segments of one and two chunks.                                         *)
(***************************************************************************)
EXTENDS LayerwiseEngine

CONSTANTS BlendPrompts, BlendSteps, Sep, RecompPercent, LegacyLayers, LegacyBatches, ChunkSize

VARIABLES kind, bPc, bLayer, bSteps, bBatch, bCurrent, bHot, bMem, bBuffer,
          bCompute, bLoad, bImp, bKv, bStorers, bWork,
          gStep, gBatch, gTasks, gLayer, gQueries, gIndexes, gOutput

Blend == INSTANCE LayerwiseBlend WITH
    Prompts <- BlendPrompts, MaxSteps <- BlendSteps,
    pc <- bPc, layer <- bLayer, steps <- bSteps, batch <- bBatch, current <- bCurrent,
    hot <- bHot, mem <- bMem, buffer <- bBuffer, compute <- bCompute, load <- bLoad,
    imp <- bImp, kv <- bKv, storers <- bStorers, work <- bWork

bVars == <<bPc, bLayer, bSteps, bBatch, bCurrent, bHot, bMem, bBuffer,
           bCompute, bLoad, bImp, bKv, bStorers, bWork>>

Legacy == INSTANCE LegacyBlend WITH
    NumLayers <- LegacyLayers, Batches <- LegacyBatches,
    step <- gStep, batch <- gBatch, tasks <- gTasks, layer <- gLayer, queries <- gQueries,
    indexes_in_kv <- gIndexes, output <- gOutput

gVars == <<gStep, gBatch, gTasks, gLayer, gQueries, gIndexes, gOutput>>

allVars == <<vars, kind, bVars, gVars>>

MCInit ==
    /\ Init /\ Blend!Init /\ Legacy!Init
    /\ kind \in {"layerwise", "blending", "legacy blending"}
MCNext ==
    \/ kind = "layerwise" /\ Next /\ UNCHANGED <<kind, bVars, gVars>>
    \/ kind = "blending" /\ Blend!Next /\ UNCHANGED <<kind, vars, gVars>>
    \/ kind = "legacy blending" /\ Legacy!Next /\ UNCHANGED <<kind, vars, bVars>>
MCSpec == MCInit /\ [][MCNext]_allVars

\* LayerwiseBlend: loaded segments have their KV, where they stand now, in the
\* pages; LegacyBlend: so has what a layer attends to.
BlendedKVIsRight == Blend!BlendedKVIsRight /\ Legacy!BlendedIsRight

\* LayerwiseBlend: a cached segment has all its layers, and its positions.
SegmentsAreWhole == Blend!SegmentsAreWhole

MCPrompts == {<<"a">>, <<"a", "b">>, <<"c">>}
MCBlendPrompts == {<<"a", "#", "b", "#", "c">>, <<"b", "#", "a", "#", "d">>, <<"b", "#", "b", "d">>}

MCLegacyBatches == {<<<<<<"a", "b", "c">>, <<"d">>>>, <<<<"d">>, <<"e", "f">>>>>>,
                    <<<<<<"d">>, <<"a", "b", "c">>, <<>>>>>>}
=============================================================================
