--------------------------- MODULE MCLegacyEngine ---------------------------
(* Two chunks fit into a cache. The second chunk of a prompt is partial.   *)
(* A get that meets the second save of a chunk takes four calls.           *)
EXTENDS LegacyEngine

MCPrompts == {<<"x", "a">>, <<"x", "b">>, <<"y">>}
MCChunks == {"x", "a", "b", "y"}

Setting(mode, blocking, pipelined, srv, peers) ==
    [mode |-> mode, blocking |-> blocking, pipelined |-> pipelined, server |-> srv, peers |-> peers]

MCSettings ==
    {Setting("local", b, FALSE, "cpu", FALSE) : b \in BOOLEAN}
    \union {Setting("disk", b, FALSE, "cpu", FALSE) : b \in BOOLEAN}
    \union {Setting("remote", TRUE, TRUE, "cpu", FALSE), Setting("remote", FALSE, FALSE, "disk", TRUE),
            Setting("remote", TRUE, FALSE, "redis", TRUE)}
    \union {Setting("hybrid", TRUE, TRUE, "disk", FALSE), Setting("hybrid", FALSE, FALSE, "cpu", TRUE)}

\* The pipeline, with the put worker's chunks arriving while it asks.
PipelineSettings == {Setting("remote", FALSE, TRUE, "cpu", FALSE)}

MCMaxOps ==
    [s \in MCSettings \union PipelineSettings |->
        CASE s.mode = "disk" /\ ~s.blocking -> 4 [] s.mode \in {"local", "disk"} -> 3 [] OTHER -> 2]

MCInitialLists == {<<>>, <<"y", "x", "a">>}
=============================================================================
