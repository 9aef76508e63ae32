---------------------------- MODULE CudaStreams ----------------------------
(***************************************************************************)
(* CUDA streams as the layerwise connector uses them: a stream runs its    *)
(* operations in order and on its own time; stream.wait_stream(other)      *)
(* holds its later operations back until "other" has run everything it had *)
(* been given by then.                                                     *)
(*                                                                         *)
(* A wait is an operation [op |-> "wait", on |-> other, left |-> n] that   *)
(* counts the operations of "other" it still waits for.                    *)
(***************************************************************************)
EXTENDS Integers, Sequences

Streams == {"current", "load", "store"}

NoWork == [s \in Streams |-> <<>>]

Submit(work, s, op) == [work EXCEPT ![s] = Append(@, op)]

WaitStream(work, s, other) ==
    Submit(work, s, [op |-> "wait", on |-> other, left |-> Len(work[other])])

\* The operation at the head of s can run.
Ready(work, s) ==
    work[s] # <<>> /\ (Head(work[s]).op = "wait" => Head(work[s]).left = 0)

\* s has run the operation at its head.
Retire(work, s) ==
    [t \in Streams |->
        LET ops == IF t = s THEN Tail(work[t]) ELSE work[t]
        IN  [i \in DOMAIN ops |->
                IF ops[i].op # "wait" THEN ops[i]
                ELSE IF ops[i].on = s /\ ops[i].left > 0
                THEN [ops[i] EXCEPT !.left = @ - 1] ELSE ops[i]]]
=============================================================================
