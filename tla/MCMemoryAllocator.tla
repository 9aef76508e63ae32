-------------------------- MODULE MCMemoryAllocator --------------------------
(***************************************************************************)
(* A wrapper (Host, Pin, Mixed or GPUMemoryAllocator) is built with or     *)
(* without use_paging: Init picks, and the other allocator stays as it is. *)
(***************************************************************************)
EXTENDS MemoryAllocator, TLC

CONSTANTS Threads, Pages, MaxBatch

VARIABLES use_paging, free_blocks, shape, cut, held, thread

Paged == INSTANCE PagedAllocator

pagedVars == <<free_blocks, shape, cut, held, thread>>

MCInit == Init /\ Paged!Init /\ use_paging \in BOOLEAN
MCNext ==
    \/ ~use_paging /\ Next /\ UNCHANGED <<use_paging, pagedVars>>
    \/ use_paging /\ Paged!Next /\ UNCHANGED <<use_paging, vars>>
MCSpec == MCInit /\ [][MCNext]_<<vars, use_paging, pagedVars>>

Symmetry == Permutations(Handles)

\* PagedAllocator: a page is free once, handed out, or with one thread, and a
\* free page has its whole length.
PagesOwnedOnce == Paged!PagesOwnedOnce
=============================================================================
