-------------------------- MODULE MCStorageManager --------------------------
(* The storage manager of one instance, or, when p2p is set, three instances *)
(* that fetch chunks from each other's memory.                               *)
EXTENDS StorageManager, TLC

CONSTANTS engine, peer, k1, k2
CONSTANTS Instances, NumBuffers, Parts, HighWater, CopiesOnWrite, MaxGets, MaxStores, MaxCrashes

\* The engine gets both chunks, the peer that is served asks for one of them.
EngineAndPeer == engine :> {k1, k2} @@ peer :> {k1}

VARIABLES p2p, mem, hot, listed, thread, conn, alive, gets, stores

pvars == <<mem, hot, listed, thread, conn, alive, gets, stores>>
all   == <<vars, p2p, pvars>>

Peers == INSTANCE PeerSharing

\* None is no instance, chunk or buffer.
ASSUME PeersAssumption ==
    /\ IsFiniteSet(Instances)
    /\ NumBuffers \in Nat /\ Parts \in Nat /\ HighWater \in Nat
    /\ None \notin Instances /\ None \notin Keys /\ None \notin Peers!Buffers

MCInit == Init /\ Peers!Init /\ p2p \in BOOLEAN

MCNext ==
    \/ ~p2p /\ Next /\ UNCHANGED <<p2p, mem, hot, listed, thread, conn, alive, gets, stores>>
    \/ p2p /\ Peers!Next
       /\ UNCHANGED <<p2p, hot_cache, prefetch_tasks, ref, manager_lock, future, pc, key, fut,
                      obj, buffer>>

\* The fairness of the two specifications.
MCFairness ==
    /\ WF_all(~p2p /\ LoopStep /\ UNCHANGED <<p2p, pvars>>)
    /\ \A i \in Futures : SF_all(~p2p /\ LoadStep(i) /\ UNCHANGED <<p2p, pvars>>)
    /\ WF_all(p2p /\ Peers!Progress /\ UNCHANGED <<p2p, vars>>)

MCSpec == MCInit /\ [][MCNext]_all /\ MCFairness

\* What issue_get brings are the bytes of the chunk it asked for, although the
\* peer goes on storing and evicting while it sends them.
PeerGivesOwnChunk == Peers!PeerGivesOwnChunk

\* Once gets have been left to the loops, all of them come to an end that do
\* not wait on a circle of instances that fetch from each other.
GetsEnd == Peers!GetsEnd
=============================================================================
