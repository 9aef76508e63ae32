--------------------------- MODULE PagedAllocator ---------------------------
(***************************************************************************)
(* PagedTensorMemoryAllocator (MTDS/v1/memory_management.py): the buffer   *)
(* is cut once into pages of one shape, each with its memory object, and   *)
(* the free ones are in a deque. With use_paging the wrappers take no lock,*)
(* so threads go through allocate, batched_allocate and free at the same   *)
(* time; only popleft and append are atomic. An object that is allocated   *)
(* with a smaller shape has its raw_data cut, and gets the whole page back *)
(* when it is freed. The counters, which are for debugging only, are left  *)
(* out.                                                                    *)
(***************************************************************************)
EXTENDS Integers, FiniteSets, SequencesExt

CONSTANTS Threads, Pages, MaxBatch

VARIABLES
    free_blocks,   \* the deque
    shape,         \* meta.shape of a page's object: "whole" is the allocator's own
    cut,           \* the pages whose object's raw_data is only a part of the page
    held,          \* the pages whose objects have been handed out
    thread         \* thread -> [at, shape, want, pages]: what it is doing

pagedVars == <<free_blocks, shape, cut, held, thread>>

Shapes == {"whole", "smaller"}
Idle == [at |-> "idle", shape |-> "whole", want |-> 0, pages |-> <<>>]

Init ==
    /\ free_blocks = SetToSeq(Pages)
    /\ shape = [p \in Pages |-> "whole"]
    /\ cut = {} /\ held = {}
    /\ thread = [t \in Threads |-> Idle]

Goto(t, st) == thread' = [thread EXCEPT ![t] = st]

-----------------------------------------------------------------------------
(* allocate is batched_allocate of one *)

Allocate(t, s, n) ==
    /\ thread[t].at = "idle"
    /\ Goto(t, [at |-> "pop", shape |-> s, want |-> n, pages |-> <<>>])
    /\ UNCHANGED <<free_blocks, shape, cut, held>>

\* The pages that were popped already are forgotten.
RollBackNothing(st) == Idle

\* Too few free pages: those that were popped are freed again.
RollBack(st) == IF st.pages = <<>> THEN Idle ELSE [st EXCEPT !.at = "restore"]

PopBlock(t) ==
    /\ thread[t].at = "pop"
    /\ IF free_blocks = <<>>
       THEN Goto(t, RollBack(thread[t])) /\ UNCHANGED free_blocks
       ELSE /\ Goto(t, [thread[t] EXCEPT !.at = "fill", !.pages = Append(@, Head(free_blocks))])
            /\ free_blocks' = Tail(free_blocks)
    /\ UNCHANGED <<shape, cut, held>>

\* raw_data[:size_in_bytes] of what the object has.
FillBlock(t) ==
    /\ thread[t].at = "fill"
    /\ LET st == thread[t]
           p == Last(st.pages)
       IN  /\ shape' = [shape EXCEPT ![p] = st.shape]
           /\ cut' = IF st.shape # "whole" THEN cut \union {p} ELSE cut
           /\ IF Len(st.pages) < st.want
              THEN Goto(t, [st EXCEPT !.at = "pop"]) /\ UNCHANGED held
              ELSE Goto(t, Idle) /\ held' = held \union ToSet(st.pages)
    /\ UNCHANGED free_blocks

-----------------------------------------------------------------------------
(* free is batched_free of one *)

BatchedFree(t, ps) ==
    /\ thread[t].at = "idle"
    /\ held' = held \ ToSet(ps)
    /\ Goto(t, [at |-> "restore", shape |-> "whole", want |-> 0, pages |-> ps])
    /\ UNCHANGED <<free_blocks, shape, cut>>

\* A smaller object gets its page back.
Restored(p) == IF shape[p] # "whole" THEN cut \ {p} ELSE cut

RestoreBlock(t) ==
    /\ thread[t].at = "restore"
    /\ cut' = Restored(Head(thread[t].pages))
    /\ Goto(t, [thread[t] EXCEPT !.at = "append"])
    /\ UNCHANGED <<free_blocks, shape, held>>

AppendBlock(t) ==
    /\ thread[t].at = "append"
    /\ free_blocks' = Append(free_blocks, Head(thread[t].pages))
    /\ Goto(t, IF Len(thread[t].pages) = 1 THEN Idle
               ELSE [thread[t] EXCEPT !.at = "restore", !.pages = Tail(@)])
    /\ UNCHANGED <<shape, cut, held>>

Next ==
    \E t \in Threads :
        \/ \E s \in Shapes : \E n \in 1..MaxBatch : Allocate(t, s, n)
        \/ PopBlock(t) \/ FillBlock(t)
        \/ \E ps \in {<<p>> : p \in held} \union {<<p, q>> : p, q \in held} :
              IsInjective(ps) /\ BatchedFree(t, ps)
        \/ RestoreBlock(t) \/ AppendBlock(t)

Spec == Init /\ [][Next]_pagedVars

-----------------------------------------------------------------------------
(* Properties *)

\* Whatever threads do at the same time, and whether or not their batches can
\* be had, a page is free once, or handed out, or in the hands of one thread;
\* and a free one has its whole length, so that no use of a page leaves it
\* shorter for the next.
PagesOwnedOnce ==
    /\ IsInjective(free_blocks)
    /\ \A p \in Pages :
          LET places == {pl \in {"free", "held"} \union Threads :
                            CASE pl = "free" -> p \in ToSet(free_blocks)
                              [] pl = "held" -> p \in held
                              [] OTHER -> p \in ToSet(thread[pl].pages)}
          IN  Cardinality(places) = 1
    /\ ToSet(free_blocks) \cap cut = {}
=============================================================================
