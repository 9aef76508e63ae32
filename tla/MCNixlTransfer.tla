---------------------------- MODULE MCNixlTransfer ----------------------------
EXTENDS NixlTransfer, TLC

CONSTANTS prefill1, prefill2, k1, k2, k3

\* k2 takes two bytes of the buffer, the others one.
Sizes == k1 :> 1 @@ k2 :> 2 @@ k3 :> 1

\* The first sender has a store of three chunks, which takes two writes, and
\* one that just fills the buffer; the second one shares a prefix with it.
StoreLists == prefill1 :> {<<k1, k2, k3>>, <<k2, k3>>} @@ prefill2 :> {<<k1>>}
StoreCounts == prefill1 :> 2 @@ prefill2 :> 1
=============================================================================
