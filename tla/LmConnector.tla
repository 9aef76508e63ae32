---------------------------- MODULE LmConnector ----------------------------
(***************************************************************************)
(* connector/lm_connector.py and the server it talks to                    *)
(* (server/__main__.py, server/storage_backend/local_backend.py).          *)
(*                                                                         *)
(* A connection is a pair of byte streams, requests out and answers in.    *)
(* The connector's socket is a blocking one, so a coroutine holds the      *)
(* event loop ("busy") from its request to its answer, and puts, which are *)
(* not answered, are done in one step.  An answer is a header, and for a   *)
(* get that hits, the chunk's bytes.  The client reads its stream by       *)
(* length alone: whatever comes next is taken for what it waits for.       *)
(***************************************************************************)
EXTENDS RemoteBackend

VARIABLES chan,   \* the connections: requests, answers, state of the socket
          busy,   \* the call the event loop is blocked in, or None
          up      \* the server runs

lmvars == <<chan, busy, up>>

Header(hit, n) == [type |-> "header", hit |-> hit, len |-> n, data |-> None]
Body(x) == [type |-> "body", hit |-> FALSE, len |-> 0, data |-> x]
Miss == Header(FALSE, 0)

NewSocket == [out |-> <<>>, in |-> <<>>, st |-> "open"]
Closed == [NewSocket EXCEPT !.st = "closed"]

InitLm ==
    /\ chan = [i \in Instances |-> [c \in 1..MaxConnections |-> NewSocket]]
    /\ busy = [i \in Instances |-> None]
    /\ up = TRUE

Sock(p) == chan[p[1]][thread[p].con]
Send(i, c, m) == chan' = [chan EXCEPT ![i][c].out = Append(@, m)]
Take(p) == chan' = [chan EXCEPT ![p[1]][thread[p].con].in = Tail(@)]
Request(op, k, x) == [op |-> op, key |-> k, data |-> x]

(* LMCServerConnector.__init__ connects if the server listens. *)
LmConnects == up

(***************************************************************************)
(* exists and get send their request and block until the header arrives.   *)
(* On a connection the server has closed there is nothing to wait for.     *)
(***************************************************************************)
LmRequest(p, from, op, next) ==
    /\ thread[p].pc = from /\ busy[p[1]] = None /\ Sock(p).st = "open"
    /\ Send(p[1], thread[p].con, Request(op, thread[p].key, None))
    /\ busy' = [busy EXCEPT ![p[1]] = p]
    /\ Goto(p, next)
    /\ UNCHANGED <<bvars, put, up, remote>>

LmExists(p) == LmRequest(p, "exists", "EXIST", "existsReply")
LmGet(p) == LmRequest(p, "get", "GET", "header")

(* A read of a closed connection returns no bytes, which do not decode. *)
LmReadFails(p) ==
    /\ \/ thread[p].pc \in {"exists", "get"} /\ busy[p[1]] = None
       \/ thread[p].pc \in {"existsReply", "header"}
    /\ Sock(p).st = "closed" /\ Sock(p).in = <<>>
    /\ LoseConnection(p)
    /\ busy' = [busy EXCEPT ![p[1]] = None]
    /\ UNCHANGED <<chan, up, put, remote>>

(* The bytes of a chunk read as a header do not decode: the fields of the  *)
(* enumerations would have to be in their ranges.                          *)
LmDecodeFails(p) ==
    /\ thread[p].pc \in {"existsReply", "header"} /\ Sock(p).in # <<>>
    /\ Head(Sock(p).in).type = "body"
    /\ LoseConnection(p) /\ Take(p)
    /\ busy' = [busy EXCEPT ![p[1]] = None]
    /\ UNCHANGED <<up, put, remote>>

HeaderArrives(p) == Sock(p).in # <<>> /\ Head(Sock(p).in).type = "header"

LmExistsReply(p) ==
    /\ thread[p].pc = "existsReply" /\ HeaderArrives(p)
    /\ Answer(p, Exists(Head(Sock(p).in).hit)) /\ Take(p)
    /\ busy' = [busy EXCEPT ![p[1]] = None]
    /\ UNCHANGED <<bvars, put, up, remote>>

LmGetMiss(p) ==
    /\ thread[p].pc = "header" /\ HeaderArrives(p)
    /\ ~Head(Sock(p).in).hit
    /\ Answer(p, None) /\ Take(p)
    /\ busy' = [busy EXCEPT ![p[1]] = None]
    /\ UNCHANGED <<bvars, put, up, remote>>

(* receive_all allocates; when it cannot, the bytes stay in the stream. *)
LmGetHit(p, allocated) ==
    /\ thread[p].pc = "header" /\ HeaderArrives(p)
    /\ Head(Sock(p).in).hit
    /\ Take(p)
    /\ IF allocated THEN Hold(p, "body", Head(Sock(p).in).len) /\ UNCHANGED busy
       ELSE Answer(p, None) /\ busy' = [busy EXCEPT ![p[1]] = None]
    /\ UNCHANGED <<bvars, put, up, remote>>

(* The loop that fills the buffer: an object of no bytes needs none, the   *)
(* end of the stream gives None, and the object is not freed.              *)
LmGetBody(p) ==
    /\ thread[p].pc = "body"
    /\ \/ thread[p].tmp = 0 /\ Answer(p, Garbage) /\ UNCHANGED chan
       \/ /\ thread[p].tmp = 1 /\ Sock(p).in # <<>> /\ Take(p)
          /\ Answer(p, IF Head(Sock(p).in).type = "body" THEN Head(Sock(p).in).data ELSE Garbage)
       \/ /\ thread[p].tmp = 1 /\ Sock(p).in = <<>> /\ Sock(p).st = "closed"
          /\ Answer(p, None) /\ UNCHANGED chan
    /\ busy' = [busy EXCEPT ![p[1]] = None]
    /\ UNCHANGED <<bvars, put, up, remote>>

(* put sends header and bytes while it holds the lock and the loop. *)
LmPut(i, k) ==
    /\ put[i][k].pc = "scheduled" /\ busy[i] = None
    /\ IF chan[i][put[i][k].con].st = "open"
       THEN Send(i, put[i][k].con, Request("PUT", k, Chunk(i, k)))
       ELSE UNCHANGED chan
    /\ FinishPut(i, k)
    /\ UNCHANGED <<busy, up, remote, thread>>

(***************************************************************************)
(* handle_client: one thread per connection takes the requests in order.   *)
(* LMSLocalBackend keeps the latest bytes of a key, under its lock.        *)
(***************************************************************************)
Reply(i, c, cells) ==
    LET s == chan[i][c] IN
    chan' = [chan EXCEPT ![i][c] = [s EXCEPT !.out = Tail(@), !.in = @ \o cells]]

ServePut(i, c) ==
    LET m == Head(chan[i][c].out) IN
    /\ m.op = "PUT"
    /\ Reply(i, c, <<>>)
    /\ remote' = [remote EXCEPT ![m.key] = [meta |-> Chunk(i, m.key), body |-> m.data]]

ServeExist(i, c) ==
    LET m == Head(chan[i][c].out) IN
    /\ m.op = "EXIST"
    /\ Reply(i, c, <<Header(remote[m.key].meta # None, 0)>>)
    /\ UNCHANGED remote

(* A get of a key whose put was cut off: the header goes out, then sendall *)
(* of None raises and the handler closes the connection.                   *)
ServeGet(i, c) ==
    LET s == chan[i][c] m == Head(s.out) e == remote[m.key] IN
    /\ m.op = "GET"
    /\ IF e.meta = None THEN Reply(i, c, <<Miss>>)
       ELSE IF e.body # None THEN Reply(i, c, <<Header(TRUE, 1), Body(e.body)>>)
       ELSE chan' = [chan EXCEPT ![i][c] =
                        [s EXCEPT !.out = <<>>, !.st = "closed", !.in = @ \o <<Header(TRUE, 1)>>]]
    /\ UNCHANGED remote

HandleClient(i, c) ==
    /\ up /\ chan[i][c].out # <<>>
    /\ ServePut(i, c) \/ ServeExist(i, c) \/ ServeGet(i, c)
    /\ UNCHANGED <<bvars, thread, put, busy, up>>

(* The server dies with the chunks it holds in memory, and is restarted. *)
ServerDies ==
    /\ up /\ up' = FALSE
    /\ chan' = [i \in Instances |-> [c \in 1..MaxConnections |->
                  IF c <= opened[i] THEN Closed ELSE chan[i][c]]]
    /\ remote' = [k \in Keys |-> [meta |-> None, body |-> None]]
    /\ UNCHANGED <<bvars, thread, put, busy>>
ServerStarts ==
    /\ ~up /\ up' = TRUE
    /\ UNCHANGED <<bvars, thread, put, busy, chan, remote>>

(***************************************************************************)
(* An engine process dies.  Its requests still reach the server, but the   *)
(* last put may be cut off in its bytes: receive_all returns None, which   *)
(* handle_client stores like any other bytes.                              *)
(***************************************************************************)
CutOff(out) ==
    IF out = <<>> \/ out[Len(out)].op # "PUT" THEN out
    ELSE [out EXCEPT ![Len(out)].data = None]
Remains(i, c, cut) ==
    [chan[i][c] EXCEPT !.in = <<>>, !.out = IF cut /\ c = conn[i] THEN CutOff(@) ELSE @]
LmProcessDies(i, cut) ==
    /\ chan' = [chan EXCEPT ![i] = [c \in 1..MaxConnections |-> Remains(i, c, cut)]]
    /\ busy' = [busy EXCEPT ![i] = None]
    /\ UNCHANGED up
=============================================================================
