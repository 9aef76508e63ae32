---------------------------- MODULE PeerSharing ----------------------------
(***************************************************************************)
(* NaiveDistributedServer (MTDS/v1/distributed_server/naive_server.py):    *)
(* instances that fetch chunks from each other's memory.                   *)
(*                                                                         *)
(* An instance has an engine thread, which stores and retrieves, and one   *)
(* event loop, which serves its peers and also runs issue_get.  issue_get  *)
(* uses a blocking socket: while it waits for a peer, the loop does        *)
(* nothing else (Blocked).  Instances that fetch from each other at the    *)
(* same time wait for each other for ever (InCircle).                      *)
(*                                                                         *)
(* The objects in the hot cache are modelled by their buffers and the      *)
(* references to them; LocalCPUBackend has the cache in detail.            *)
(***************************************************************************)
EXTENDS Integers, Sequences, SequencesExt, FiniteSets

CONSTANTS
    Instances, Keys, None,
    NumBuffers,     \* buffers of each instance
    Parts,          \* pieces in which a chunk goes over the wire
    HighWater,      \* pieces a transport holds back without stopping its writer
    CopiesOnWrite,  \* a transport copies what it cannot send at once
    MaxGets,        \* bound: gets all engines issue
    MaxStores,      \* bound: chunks all engines store
    MaxCrashes      \* bound: instances that die

VARIABLES
    mem,       \* instance -> buffer -> [data, refs]; refs = 0: free
    hot,       \* instance -> key -> its buffer in the hot cache, or None
    listed,    \* the lookup server: key -> the instance it lives on, or None
    thread,    \* instance -> [pc, key, buf, got] of its engine thread and its get
    conn,      \* the client's instance -> its connection to a peer
    alive,
    gets, stores

vars == <<mem, hot, listed, thread, conn, alive, gets, stores>>

Buffers == 1..NumBuffers
Idle == [pc |-> "idle", key |-> None, buf |-> None, got |-> 0]
NoConn == [to |-> None, req |-> None, unsent |-> <<>>, wire |-> <<>>, serve |-> "none", buf |-> None,
           open |-> FALSE]

Init ==
    /\ mem = [i \in Instances |-> [b \in Buffers |-> [data |-> None, refs |-> 0]]]
    /\ hot = [i \in Instances |-> [k \in Keys |-> None]]
    /\ listed = [k \in Keys |-> None]
    /\ thread = [i \in Instances |-> Idle]
    /\ conn = [i \in Instances |-> NoConn]
    /\ alive = Instances
    /\ gets = 0
    /\ stores = 0

\* The loop stands in a recv of issue_get.
Blocked(i) == thread[i].pc \in {"header", "body"}
LoopFree(i) == i \in alive /\ ~Blocked(i)

-----------------------------------------------------------------------------
(* The cache *)

Free(i) == {b \in Buffers : mem[i][b].refs = 0}
Evictable(i) == {k \in Keys : hot[i][k] # None /\ (hot[i][k] # None => mem[i][hot[i][k]].refs = 1)}

\* storage_manager.allocate: a free buffer, or that of an evicted chunk,
\* which leaves the lookup server too.
Allocate(i, b) ==
    \/ /\ b \in Free(i)
       /\ UNCHANGED <<hot, listed>>
    \/ /\ Free(i) = {}
       /\ \E k \in Evictable(i) :
            /\ hot[i][k] = b
            /\ hot' = [hot EXCEPT ![i][k] = None]
            /\ listed' = [listed EXCEPT ![k] = None]

CannotAllocate(i) == Free(i) = {} /\ Evictable(i) = {}

\* The engine stores a chunk and advertises it.
Store(i, k) ==
    /\ i \in alive /\ thread[i].pc = "idle" /\ stores < MaxStores
    /\ hot[i][k] = None
    /\ \E b \in Buffers :
         /\ \/ b \in Free(i) /\ hot' = [hot EXCEPT ![i][k] = b]
               /\ listed' = [listed EXCEPT ![k] = i]
            \/ /\ Free(i) = {}
               /\ \E v \in Evictable(i) :
                    /\ hot[i][v] = b
                    /\ hot' = [hot EXCEPT ![i][v] = None, ![i][k] = b]
                    /\ listed' = [listed EXCEPT ![v] = None, ![k] = i]
         /\ mem' = [mem EXCEPT ![i][b] = [data |-> k, refs |-> 1]]
    /\ stores' = stores + 1
    /\ UNCHANGED <<thread, conn, alive, gets>>

Drop(i, b) == mem' = [mem EXCEPT ![i][b].refs = @ - 1]

-----------------------------------------------------------------------------
(* issue_get *)

\* retrieve misses a chunk and leaves the get to the loop.
RetrieveMisses(i, k) ==
    /\ i \in alive /\ thread[i].pc = "idle" /\ hot[i][k] = None
    /\ gets < MaxGets
    /\ gets' = gets + 1
    /\ thread' = [thread EXCEPT ![i] = [Idle EXCEPT !.pc = "queued", !.key = k]]
    /\ UNCHANGED <<mem, hot, listed, conn, alive, stores>>

\* A get that ends without an object, or with an exception, ends the retrieve.
\* The socket is closed with the last reference to it.
GivesUp(i) ==
    /\ thread' = [thread EXCEPT ![i] = Idle]
    /\ conn' = [conn EXCEPT ![i].open = FALSE]

\* RedisLookupServer.lookup: where the chunk was stored last, if nobody has
\* removed its entry since.
Lookup(k) == listed[k]

\* The lookup, the connection and the request. The backlog of the peer's
\* socket takes the connection whether its loop runs or not.
IssueGet(i) ==
    /\ i \in alive /\ thread[i].pc = "queued" /\ conn[i].serve = "none"
    /\ LET j == Lookup(thread[i].key) IN
       IF j = None \/ j \notin alive
       THEN thread' = [thread EXCEPT ![i] = Idle] /\ UNCHANGED conn
       ELSE /\ thread' = [thread EXCEPT ![i].pc = "header"]
            /\ conn' = [conn EXCEPT ![i] = [NoConn EXCEPT !.to = j, !.req = thread[i].key,
                                              !.serve = "accepted", !.open = TRUE]]
    /\ UNCHANGED <<mem, hot, listed, alive, gets, stores>>

Take(i) == conn' = [conn EXCEPT ![i].wire = Tail(@)]

\* The answer is "not found", or no memory can be had for the chunk.
HeaderInVain(i) ==
    /\ i \in alive /\ thread[i].pc = "header" /\ conn[i].wire # <<>>
    /\ Head(conn[i].wire) = "fail" \/ CannotAllocate(i)
    /\ GivesUp(i)
    /\ UNCHANGED <<mem, hot, listed, alive, gets, stores>>

RecvHeader(i) ==
    /\ i \in alive /\ thread[i].pc = "header" /\ conn[i].wire # <<>>
    /\ Head(conn[i].wire) = "success"
    /\ \E b \in Buffers :
         /\ Allocate(i, b)
         /\ mem' = [mem EXCEPT ![i][b] = [data |-> None, refs |-> 1]]
         /\ thread' = [thread EXCEPT ![i].pc = "body", ![i].buf = b]
    /\ Take(i)
    /\ UNCHANGED <<alive, gets, stores>>

\* recv_into: the next piece. Pieces of two chunks make neither.
Merged(old, piece, got) == IF got = 0 \/ old = piece THEN piece ELSE None

RecvBody(i) ==
    /\ i \in alive /\ thread[i].pc = "body" /\ conn[i].wire # <<>>
    /\ mem' = [mem EXCEPT ![i][thread[i].buf].data = Merged(@, Head(conn[i].wire), thread[i].got)]
    /\ IF thread[i].got + 1 = Parts
       THEN /\ thread' = [thread EXCEPT ![i].pc = "got", ![i].got = Parts]
            /\ conn' = [conn EXCEPT ![i].wire = <<>>, ![i].open = FALSE]
       ELSE /\ thread' = [thread EXCEPT ![i].got = @ + 1]
            /\ Take(i)
    /\ UNCHANGED <<hot, listed, alive, gets, stores>>

PeerClosed(i) == conn[i].serve = "none" /\ conn[i].wire = <<>>

\* The loop over recv_into takes an end of file for more to come.
EofPassedOver(i) == FALSE /\ GivesUp(i)

\* The end of file: the get ends, and a buffer it has taken is not given back.
OnEof(i) == PeerClosed(i) /\ GivesUp(i)

RecvEof(i) ==
    /\ i \in alive /\ Blocked(i)
    /\ OnEof(i)
    /\ UNCHANGED <<mem, hot, listed, alive, gets, stores>>

\* The engine copies the object to the GPU and drops it.
UseObject(i) ==
    /\ i \in alive /\ thread[i].pc = "got"
    /\ Drop(i, thread[i].buf)
    /\ thread' = [thread EXCEPT ![i] = Idle]
    /\ UNCHANGED <<hot, listed, conn, alive, gets, stores>>

-----------------------------------------------------------------------------
(* handle_client, at the peer of client i *)

Server(i) == conn[i].to
Serves(i, at) == conn[i].serve = at /\ Server(i) # None /\ (Server(i) # None => LoopFree(Server(i)))

\* A lookup of the buffer that takes no reference.
PeekBuffer(j, b) == UNCHANGED mem

\* storage_manager.get counts a reference for the answer.
HoldBuffer(j, b) == mem' = [mem EXCEPT ![j][b].refs = @ + 1]

\* The request and the header of the answer, which fits the socket's buffer.
HandleGet(i) ==
    /\ Serves(i, "accepted") /\ conn[i].req # None
    /\ LET j == Server(i)
           b == hot[j][conn[i].req]
       IN  IF b = None
           THEN /\ conn' = [conn EXCEPT ![i].req = None, ![i].wire = Append(@, "fail")]
                /\ UNCHANGED mem
           ELSE /\ conn' = [conn EXCEPT ![i].req = None, ![i].wire = Append(@, "success"),
                                        ![i].serve = "meta", ![i].buf = b]
                /\ HoldBuffer(j, b)
    /\ UNCHANGED <<hot, listed, thread, alive, gets, stores>>

\* writer.write of the chunk's bytes.
WriteBody(i) ==
    /\ Serves(i, "meta") /\ conn[i].open
    /\ conn' = [conn EXCEPT ![i].serve = "drain",
                 ![i].unsent = [n \in 1..Parts |->
                     [buf |-> conn[i].buf, data |-> mem[Server(i)][conn[i].buf].data]]]
    /\ UNCHANGED <<mem, hot, listed, thread, alive, gets, stores>>

\* The loop sends the next piece: the one written, or what is now in the
\* memory the transport points to.
Flush(i) ==
    /\ Server(i) # None /\ (Server(i) # None => LoopFree(Server(i)))
    /\ conn[i].open /\ conn[i].unsent # <<>> /\ Len(conn[i].wire) < 2
    /\ LET p == Head(conn[i].unsent)
           piece == IF CopiesOnWrite THEN p.data ELSE mem[Server(i)][p.buf].data
       IN  conn' = [conn EXCEPT ![i].unsent = Tail(@), ![i].wire = Append(@, piece)]
    /\ UNCHANGED <<mem, hot, listed, thread, alive, gets, stores>>

\* drain has returned: the transport holds no more than its mark.
BodyDrained(i) ==
    /\ Serves(i, "drain") /\ Len(conn[i].unsent) <= HighWater
    /\ conn[i].open \/ conn[i].unsent = <<>>
    /\ Drop(Server(i), conn[i].buf)
    /\ conn' = [conn EXCEPT ![i].serve = "accepted", ![i].buf = None]
    /\ UNCHANGED <<hot, listed, thread, alive, gets, stores>>

\* The client has closed the connection. In the middle of an answer write or
\* drain raises, and the reference to the chunk is not given back.
ServerEnds(i) ==
    /\ ~conn[i].open
    /\ \/ Serves(i, "accepted") /\ conn[i].req = None
       \/ Serves(i, "meta")
       \/ Serves(i, "drain") /\ conn[i].unsent # <<>>
    /\ conn' = [conn EXCEPT ![i] = NoConn]
    /\ UNCHANGED <<mem, hot, listed, thread, alive, gets, stores>>

\* An instance dies: its connections end. What it listed stays listed.
Crash(i) ==
    /\ i \in alive /\ Cardinality(Instances \ alive) < MaxCrashes
    /\ alive' = alive \ {i}
    /\ thread' = [thread EXCEPT ![i] = Idle]
    /\ conn' = [c \in Instances |->
                   IF conn[c].to = i THEN [conn[c] EXCEPT !.serve = "none", !.unsent = <<>>]
                   ELSE IF c = i THEN [conn[c] EXCEPT !.open = FALSE] ELSE conn[c]]
    /\ UNCHANGED <<mem, hot, listed, gets, stores>>

Client(i) == IssueGet(i) \/ HeaderInVain(i) \/ RecvHeader(i) \/ RecvBody(i) \/ RecvEof(i) \/ UseObject(i)
Serve(i) == HandleGet(i) \/ WriteBody(i) \/ Flush(i) \/ BodyDrained(i) \/ ServerEnds(i)

Next ==
    \/ \E i \in Instances, k \in Keys : Store(i, k) \/ RetrieveMisses(i, k)
    \/ \E i \in Instances : Client(i) \/ Serve(i) \/ Crash(i)

\* Some thread, loop or socket goes on as long as one can; nobody has to ask
\* or to die. As MaxGets bounds the gets, no more is needed.
Progress == \E i \in Instances : Client(i) \/ Serve(i)

Fairness == WF_vars(Progress)

Spec == Init /\ [][Next]_vars /\ Fairness

-----------------------------------------------------------------------------
(* Properties *)

\* What issue_get hands to the engine are the bytes of the chunk it asked
\* for, although the peer goes on storing and evicting while it sends them.
PeerGivesOwnChunk ==
    \A i \in Instances : thread[i].pc = "got" => mem[i][thread[i].buf].data = thread[i].key

\* Instances whose loops wait for each other in a circle, or for one that does:
\* each has read all that came and waits for a peer of the set to serve it.
InCircle(i) ==
    \E S \in SUBSET alive :
        /\ i \in S
        /\ \A j \in S : Blocked(j) /\ conn[j].wire = <<>> /\ conn[j].to \in S

\* Gets that were left to the loops all end, also when a peer is itself in the
\* middle of a get, or dies, but for those that wait on a circle. (The number
\* of gets is bounded: in the end no other thread waits.)
GetsEnd ==
    (\E i \in Instances : thread[i].pc # "idle")
      ~> (\A i \in Instances : thread[i].pc = "idle" \/ InCircle(i))
=============================================================================
