-------------------------- MODULE MCLocalCPUBackend --------------------------
EXTENDS LocalCPUBackend, TLC

CONSTANTS engine, p2p, scheduler, controller

\* Threads of one instance: an engine that also fetches from a peer, a
\* connected peer, a scheduler that looks up and a controller that clears and
\* removes.
AllOps      == engine :> {"store", "retrieve", "receive"}
               @@ p2p :> {"serve"}
               @@ scheduler :> {"lookup"} @@ controller :> {"clear", "remove"}

\* An engine and one peer: few enough to check AdvertisedIsCached and
\* StaleEntryLeaves without View and symmetry.
ServingOps  == engine :> {"store", "retrieve"} @@ p2p :> {"serve"}

\* An engine and a scheduler whose lookups pin: the threads with which
\* PinnedNotEvicted does not hold.
PinOps      == engine :> {"store", "retrieve"} @@ scheduler :> {"lookup"}

Symmetry == Permutations(Objs)

\* What the next steps depend on: not the arguments of a finished operation,
\* the keys that a loop which is over has picked, the counts of a freed object
\* that is not cached, or what others were told.
View ==
  <<cache, cpu_lock, pc, held, todo,
    [t \in Threads |-> IF pc[t] \in {"evict", "retry"} THEN evict_keys[t] ELSE <<>>],
    [t \in Threads |-> IF pc[t] = "idle" THEN <<>> ELSE <<op[t], key[t]>>],
    [o \in Objs |-> IF mem[o].valid \/ KeysOf(o) # {} THEN mem[o] ELSE NoMem]>>
=============================================================================
