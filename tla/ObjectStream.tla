----------------------------- MODULE ObjectStream -----------------------------
(***************************************************************************)
(* What a disaggregated-prefill transfer promises: each sender has a       *)
(* stream of chunks, and the receiver is handed, in order and once, the    *)
(* chunks of each stream, each with its own bytes.                         *)
(***************************************************************************)
EXTENDS Sequences, SequencesExt

CONSTANT Senders

VARIABLES
  sent,      \* of each sender: the keys it has announced
  delivered  \* of each sender: what the receiver was handed, <<key, bytes>>

vars == <<sent, delivered>>

Init == sent = [s \in Senders |-> <<>>] /\ delivered = [s \in Senders |-> <<>>]

\* A store of one or more chunks.
Announce(s) ==
  /\ IsStrictPrefix(sent[s], sent'[s])
  /\ sent' = [sent EXCEPT ![s] = sent'[s]]
  /\ UNCHANGED delivered

\* The next chunk of the stream, with nothing but its own bytes.
Deliver(s) ==
  /\ Len(delivered[s]) < Len(sent[s])
  /\ LET k == sent[s][Len(delivered[s]) + 1] IN
       delivered' = [delivered EXCEPT ![s] = Append(@, [key |-> k, bytes |-> {k}])]
  /\ UNCHANGED sent

Next == \E s \in Senders : Announce(s) \/ Deliver(s)

Spec == Init /\ [][Next]_vars
=============================================================================
