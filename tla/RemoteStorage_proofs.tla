------------------------ MODULE RemoteStorage_proofs ------------------------
(***************************************************************************)
(* Proofs about RemoteStorage, for any instances, threads, keys, calls and *)
(* bounds, and each of the eight connectors: the bytes that a get brings   *)
(* are those of the chunk it asked for, except where two listed connectors *)
(* may do otherwise; and the references to a memory object are those of    *)
(* the hot cache, of a store call in progress and of its put.              *)
(*                                                                         *)
(* The invariant has a part for the backend, which is kept by what a step  *)
(* of any connector looks like from the backend (Advance, PutMoves), and a *)
(* part for each kind of store: every value is kept under its own key      *)
(* (StoreKeyed), no file of fs:// is used for two keys (FilesKeyed), and   *)
(* the two streams of an lm:// socket stand where the call that waits on   *)
(* it expects them (LmInv).                                                *)
(***************************************************************************)
EXTENDS RemoteStorage, Integers, SequenceTheorems, TLAPS

\* What the variables may hold.
Tmps == Nat \cup {None}
Requests == [op : {"PUT", "GET", "EXIST"}, key : Keys, data : Bytes \cup {None}]
Cells == [type : {"header", "body"}, hit : BOOLEAN, len : Nat, data : Bytes \cup {None}]

ThreadPcs == {"idle", "append", "submit", "exists", "existsReply", "get", "header", "body",
              "bytes", "fileOpen", "fileBody", "reading"}
PutPcs == {"none", "orphan", "scheduled", "bytes", "opened", "metaWritten", "bodyWritten", "transfer"}
ThreadRec == [pc : ThreadPcs, key : Keys \cup {None}, con : Nat, tmp : Tmps, got : Stored]
PutRec == [pc : PutPcs, con : Nat, tmp : Tmps]
Socket == [out : Seq(Requests), in : Seq(Cells), st : {"open", "closed"}]

BackendTypes ==
  /\ kind \in Kinds /\ alive \subseteq Instances
  /\ conn \in [Instances -> Nat] /\ opened \in [Instances -> 1..MaxConnections]
  /\ hot \in [Instances -> SUBSET Keys] /\ refs \in [Instances -> [Keys -> Int]]
  /\ thread \in [Threads -> ThreadRec]
  /\ put \in [Instances -> [Keys -> PutRec]]
  /\ registry \in [Instances -> [Keys -> Stored]]
StoreTypes ==
  /\ remote \in [Keys -> [meta : Stored, body : Stored]]
  /\ temp \in [Keys -> Files \cup {0}] /\ final \in [Keys -> Files \cup {0}]
  /\ content \in [Files -> [meta : Stored, body : Stored]]
  /\ abandoned \in [Instances -> [Keys -> Stored]]
LmTypes ==
  /\ chan \in [Instances -> [1..MaxConnections -> Socket]]
  /\ busy \in [Instances -> Threads \cup {None}]
Types == BackendTypes /\ StoreTypes /\ LmTypes

\* Calls that store, before their put is submitted; puts that are over.
Started == {"append", "submit"}
Ended == {"none", "orphan"}

\* A call, and a put, go over a connection that was opened.
Connections ==
  /\ \A i \in Instances : conn[i] <= opened[i]
  /\ \A p \in Threads :
       /\ thread[p].pc # "idle" \/ thread[p].got # None => thread[p].key \in Keys
       /\ thread[p].pc \notin Started \cup {"idle"} \/ thread[p].got # None =>
            thread[p].con \in 1..opened[p[1]]
       /\ thread[p].got # None => thread[p].pc = "idle"
       /\ thread[p].pc \in Started => p[2] = "eng"
  /\ \A i \in Instances, k \in Keys :
       put[i][k].pc \notin Ended => put[i][k].con \in 1..opened[i]

\* What is being stored has no put before it is submitted; until the put ends,
\* the hot cache keeps the object.
Storing(i, k) == thread[<<i, "eng">>].key = k /\ thread[<<i, "eng">>].pc \in Started

PutsKeepHot ==
  \A i \in Instances, k \in Keys :
    /\ Storing(i, k) => put[i][k].pc = "none"
    /\ kind # "sentinel" /\ (Storing(i, k) \/ put[i][k].pc \notin Ended) => k \in hot[i]

\* Bytes of a key are of that key.
Own(x, k) == x = None \/ (x \in Bytes /\ x.key = k)
Keyed(x, k) == Own(x, k) \/ (kind = "mooncake" /\ x = Garbage)
StoreKeyed ==
  /\ \A k \in Keys : Keyed(remote[k].body, k)
  /\ \A i \in Instances, k \in Keys : Keyed(abandoned[i][k], k)

\* An audited instance gets no chunk that it is putting.
Getting == {"get", "bytes", "reading", "fileOpen", "fileBody", "header", "body"}
Reading(p) == thread[p].pc \in Getting \/ thread[p].got # None
GetsNoPut ==
  \A p \in Threads :
    /\ Reading(p) => p[2] = "eng"
    /\ kind = "audit" /\ Reading(p) => put[p[1]][thread[p].key].pc \in Ended

\* A file is of one key.
Uses(f, k) ==
  \/ f \in {temp[k], final[k]}
  \/ (\E i \in Instances : put[i][k].pc \in FSWriting /\ put[i][k].tmp = f)
  \/ \E p \in Threads : thread[p].pc \in {"fileOpen", "fileBody"} /\ thread[p].tmp = f
                        /\ thread[p].key = k
FilesKeyed ==
  kind = "fs" =>
    /\ \A i \in Instances, k \in Keys : put[i][k].pc \in FSWriting => put[i][k].tmp \in Files
    /\ \A p \in Threads : thread[p].pc \in {"fileOpen", "fileBody"} => thread[p].tmp \in Files
    /\ \A f \in Files, k \in Keys : Uses(f, k) =>
         /\ Own(content[f].body, k)
         /\ \A l \in Keys : Uses(f, l) => k = l

-----------------------------------------------------------------------------
(* The streams of lm:// *)

\* What is sent to be put is of the key it is put under; all that is sent is puts;
\* a request waits for its answer behind puts, which have none.
OwnPuts(out) == \A n \in 1..Len(out) : Own(out[n].data, out[n].key)
OnlyPuts(out) == \A n \in 1..Len(out) : out[n].op = "PUT"
Pending(out, op, k) ==
  /\ out # <<>> /\ out[Len(out)].op = op /\ out[Len(out)].key = k
  /\ \A n \in 1..Len(out) : n # Len(out) => out[n].op = "PUT"
\* A body that was left by a call that gave up is next to be read, for ever: it is
\* no header, and each call takes it for one and raises. A socket of which the
\* server, or the connection, is gone.
Stale(s) == s.in # <<>> /\ Head(s.in).type = "body"
Hit == Header(TRUE, 1)
Lost(s) == s.out = <<>> /\ s.in = <<>> /\ s.st = "closed"

Waiting == {"existsReply", "header", "body"}
\* What a call may find in a socket at a step at which it waits: nothing yet, or
\* the cells that the step reads, in that order, with bytes of its key.
Aligned(s, pc, k) ==
  CASE pc = "existsReply" ->
         \/ Stale(s)
         \/ Lost(s)
         \/ (s.in = <<>> /\ Pending(s.out, "EXIST", k))
         \/ (s.out = <<>> /\ \E h \in BOOLEAN : s.in = <<Header(h, 0)>>)
    [] pc = "header" ->
         \/ Stale(s)
         \/ Lost(s)
         \/ (s.in = <<>> /\ Pending(s.out, "GET", k))
         \/ (s.out = <<>> /\ s.in = <<Miss>>)
         \/ (s.out = <<>> /\ \E b \in Bytes : b.key = k /\ s.in = <<Hit, Body(b)>>)
         \/ (s.out = <<>> /\ s.in = <<Hit>> /\ s.st = "closed")
    [] pc = "body" ->
         \/ Lost(s)
         \/ (s.out = <<>> /\ \E b \in Bytes : b.key = k /\ s.in = <<Body(b)>>)
    [] OTHER -> Stale(s) \/ (s.in = <<>> /\ OnlyPuts(s.out))

\* p waits on socket c of instance i.
Waits(p, i, c) == p[1] = i /\ thread[p].pc \in Waiting /\ thread[p].con = c

\* The socket in use is aligned for the call that waits on it, or for the next one.
Streamed(i) ==
  /\ \A c \in 1..MaxConnections : c > opened[i] => chan[i][c] = NewSocket
  /\ conn[i] # 0 =>
       /\ \A p \in Threads : Waits(p, i, conn[i]) =>
            /\ Aligned(chan[i][conn[i]], thread[p].pc, thread[p].key)
            /\ thread[p].pc = "body" => thread[p].tmp = 1
       /\ (\A p \in Threads : ~Waits(p, i, conn[i])) => Aligned(chan[i][conn[i]], "idle", None)

\* One call at a time waits on the connection: it blocks the event loop.
LmInv ==
  kind = "lm" =>
    /\ \A p \in Threads : thread[p].pc \in Waiting => busy[p[1]] = p
    /\ \A p \in Threads : p[1] \notin alive => thread[p].pc = "idle"
    /\ \A i \in Instances : i \in alive => Streamed(i)
    /\ \A i \in Instances, c \in 1..MaxConnections : OwnPuts(chan[i][c].out)

\* The inductive invariant.
IInv ==
  /\ Types /\ Connections /\ PutsKeepHot /\ StoreKeyed /\ GetsNoPut /\ FilesKeyed /\ LmInv
  /\ ObjectRefsExact /\ AnswersOwnKey
-----------------------------------------------------------------------------
(* What a step of a call, and one of a put, does to the backend's state,    *)
(* whichever the connector.                                                 *)

\* x is what AnswersOwnKey lets a get of p return.
Truthful(p, x) ==
  \/ /\ x \in Bytes /\ x.key = thread[p].key
     /\ kind = "audit" => registry[p[1]][thread[p].key] \in {None, x}
  \/ kind = "mooncake" /\ x = Garbage
  \/ kind = "lm" /\ thread[p].con # conn[p[1]] /\ x \in Stored \ {None}

Continues(p) ==
  /\ thread'[p].key = thread[p].key /\ thread'[p].con = thread[p].con /\ thread'[p].got = None
  /\ thread'[p].pc \notin Started \cup {"idle"}
  /\ thread'[p].pc \in Getting => thread[p].pc \in Getting

Returns(p) ==
  /\ thread'[p].key = thread[p].key /\ thread'[p].con = thread[p].con
  /\ thread'[p].pc = "idle" /\ thread[p].pc \in Getting
  /\ Truthful(p, thread'[p].got)

Rest(p) == /\ thread' \in [Threads -> ThreadRec]
           /\ \A q \in Threads : q # p => thread'[q] = thread[q]

\* The step of a call that has begun: it goes on, returns, raises, or loses the
\* connection. It does nothing else to the backend's state.
Advance(p) ==
  /\ thread[p].pc \notin Started \cup {"idle"} /\ Rest(p)
  /\ UNCHANGED <<kind, alive, opened, hot, refs, put, registry>>
  /\ \/ conn' = conn /\ (thread'[p] = Idle \/ Continues(p) \/ Returns(p))
     \/ conn' = [conn EXCEPT ![p[1]] = 0] /\ thread'[p] = Idle

LEMMA IdleRec == Idle \in ThreadRec /\ Idle.pc = "idle" /\ Idle.key = None /\ Idle.got = None
<1>1. None \in Tmps /\ None \in Stored
  BY DEF Tmps, Stored
<1> QED
  BY <1>1 DEF Idle, ThreadRec, ThreadPcs

\* A thread is of an instance, and has a role there.
LEMMA ThreadIs ==
  ASSUME BackendTypes, NEW p \in Threads
  PROVE  /\ thread[p] \in ThreadRec /\ p[1] \in Instances
         /\ p \in Instances \X {"eng", "look"} /\ p = <<p[1], p[2]>>
BY RemoteAssumption DEF BackendTypes

LEMMA HoldIs ==
  ASSUME BackendTypes, NEW p \in Threads, NEW l, NEW x, Hold(p, l, x)
  PROVE  thread'[p].pc = l /\ thread'[p].tmp = x /\ thread'[p].key = thread[p].key
<1>1. thread[p] \in ThreadRec /\ thread \in [Threads -> ThreadRec]
  BY DEF BackendTypes
<1>2. thread'[p] = [thread[p] EXCEPT !.pc = l, !.tmp = x]
  BY <1>1 DEF Hold
<1> QED
  BY <1>1, <1>2 DEF ThreadRec

\* The call ends with an answer.
LEMMA Answers ==
  ASSUME BackendTypes, Connections, NEW p \in Threads, thread[p].pc \notin Started \cup {"idle"},
         UNCHANGED <<kind, alive, conn, opened, hot, refs, put, registry>>,
         NEW a, Answer(p, a),
         a \in {None, Found} \/ (thread[p].pc \in Getting /\ Truthful(p, a))
  PROVE  Advance(p)
<1>1. thread[p] \in ThreadRec /\ Idle \in ThreadRec
  BY ThreadIs, IdleRec
<1>2. CASE a \in {None, Found}
  <2>1. thread' = [thread EXCEPT ![p] = Idle]
    BY <1>2 DEF Answer
  <2>2. Rest(p) /\ thread'[p] = Idle
    BY <1>1, <2>1 DEF Rest, BackendTypes
  <2> QED
    BY <2>2 DEF Advance
<1>3. CASE a \notin {None, Found}
  <2> DEFINE r == [thread[p] EXCEPT !.pc = "idle", !.tmp = None, !.got = a]
  <2>1. thread' = [thread EXCEPT ![p] = r]
    BY <1>3 DEF Answer
  <2>2. a \in Stored
    BY <1>3 DEF Truthful, Stored
  <2>3. /\ r \in ThreadRec /\ r.key = thread[p].key /\ r.con = thread[p].con
        /\ r.pc = "idle" /\ r.got = a
    <3>1. None \in Tmps
      BY DEF Tmps
    <3> QED
      BY <1>1, <2>2, <3>1 DEF ThreadRec, ThreadPcs
  <2> HIDE DEF r
  <2>4. Rest(p) /\ thread'[p] = r
    BY <2>1, <2>3 DEF Rest, BackendTypes
  <2>5. Returns(p)
    BY <1>3, <2>3, <2>4 DEF Returns
  <2> QED
    BY <2>4, <2>5 DEF Advance
<1> QED
  BY <1>2, <1>3

\* It goes on to another step.
LEMMA GoesOn ==
  ASSUME BackendTypes, Connections, NEW p \in Threads, thread[p].pc \notin Started \cup {"idle"},
         UNCHANGED <<kind, alive, conn, opened, hot, refs, put, registry>>,
         NEW l \in ThreadPcs, NEW x \in Tmps, Goto(p, l) \/ Hold(p, l, x),
         l \notin Started \cup {"idle"}, l \in Getting => thread[p].pc \in Getting
  PROVE  Advance(p) /\ thread'[p].pc = l /\ (Hold(p, l, x) => thread'[p].tmp = x)
                    /\ (Goto(p, l) => thread'[p].tmp = thread[p].tmp)
<1>1. thread[p] \in ThreadRec /\ thread[p].got = None
  BY ThreadIs DEF Connections
<1>2. PICK y \in Tmps : /\ thread' = [thread EXCEPT ![p] = [thread[p] EXCEPT !.pc = l, !.tmp = y]]
                        /\ Hold(p, l, x) => y = x
                        /\ Goto(p, l) => y = thread[p].tmp
  <2>1. CASE Goto(p, l)
    <3>1. thread[p].tmp \in Tmps /\ thread[p] = [thread[p] EXCEPT !.tmp = thread[p].tmp]
      BY <1>1 DEF ThreadRec
    <3>2. [thread[p] EXCEPT !.pc = l] = [thread[p] EXCEPT !.pc = l, !.tmp = thread[p].tmp]
      BY <1>1 DEF ThreadRec
    <3>3. thread' = [thread EXCEPT ![p] = [thread[p] EXCEPT !.pc = l, !.tmp = thread[p].tmp]]
      BY <2>1, <3>2 DEF Goto
    <3>4. Hold(p, l, x) => thread[p].tmp = x
      <4> SUFFICES ASSUME Hold(p, l, x) PROVE thread[p].tmp = x
        OBVIOUS
      <4>1. thread'[p].tmp = x
        BY <1>1 DEF Hold, BackendTypes, ThreadRec
      <4>2. thread'[p].tmp = thread[p].tmp
        BY <1>1, <2>1 DEF Goto, BackendTypes, ThreadRec
      <4> QED
        BY <4>1, <4>2
    <3> QED
      BY <3>1, <3>3, <3>4
  <2>2. CASE Hold(p, l, x) /\ ~Goto(p, l)
    BY <2>2 DEF Hold
  <2> QED
    BY <2>1, <2>2
<1> DEFINE r == [thread[p] EXCEPT !.pc = l, !.tmp = y]
<1>3. /\ r \in ThreadRec /\ r.pc = l /\ r.tmp = y /\ r.key = thread[p].key
      /\ r.con = thread[p].con /\ r.got = None
  BY <1>1 DEF ThreadRec
<1>4. thread' = [thread EXCEPT ![p] = r]
  BY <1>2
<1> HIDE DEF r
<1>5. Rest(p) /\ thread'[p] = r
  BY <1>3, <1>4 DEF Rest, BackendTypes
<1>6. Continues(p)
  BY <1>3, <1>5 DEF Continues
<1> QED
  BY <1>2, <1>3, <1>5, <1>6 DEF Advance

\* Its future raises.
LEMMA Fails ==
  ASSUME BackendTypes, NEW p \in Threads, thread[p].pc \notin Started \cup {"idle"},
         LoseConnection(p), put' = put, registry' = registry
  PROVE  Advance(p)
<1>1. thread' = [thread EXCEPT ![p] = Idle]
  BY DEF LoseConnection, Answer
<1>2. Rest(p) /\ thread'[p] = Idle
  BY <1>1, IdleRec DEF Rest, BackendTypes
<1> QED
  BY <1>2 DEF Advance, LoseConnection

\* What is stored under a key is the key's.
LEMMA OwnOf ==
  ASSUME StoreKeyed, NEW k \in Keys, kind # "mooncake"
  PROVE  remote[k].body = None \/ (remote[k].body \in Bytes /\ remote[k].body.key = k)
BY DEF StoreKeyed, Keyed, Own

\* A call in progress has a key.
LEMMA KeyOf ==
  ASSUME Connections, NEW p \in Threads, thread[p].pc \notin Started \cup {"idle"}
  PROVE  thread[p].key \in Keys
BY DEF Connections

LEMMA ExistsIs == \A b : Exists(b) \in {None, Found}
BY DEF Exists

\* The calls of the redis://, redis-sentinel:// and audit:// connectors ...
LEMMA RedisAdvances ==
  ASSUME Types, Connections, StoreKeyed, NEW p \in Threads, kind \in RedisKinds, RedisThread(p)
  PROVE  Advance(p)
<1> USE DEF Types
<1>1. registry' = registry /\ kind # "mooncake"
  BY DEF RedisThread, RedisKinds
<1>2. CASE RedisExists(p)
  BY <1>1, <1>2, ExistsIs, Answers DEF RedisExists, bvars, Started
<1>3. CASE RedisCallFails(p)
  BY <1>1, <1>3, Fails DEF RedisCallFails, Started
<1>4. ASSUME NEW a \in BOOLEAN, RedisGetMetadata(p, a) PROVE Advance(p)
  <2>1. thread[p].pc = "get" /\ UNCHANGED <<kind, alive, conn, opened, hot, refs, put>>
    BY <1>4 DEF RedisGetMetadata, bvars
  <2>2. Answer(p, None) \/ Goto(p, "bytes")
    BY <1>4 DEF RedisGetMetadata
  <2>3. "bytes" \in ThreadPcs \ (Started \cup {"idle"}) /\ None \in Tmps
    BY DEF ThreadPcs, Started, Tmps
  <2> QED
    BY <1>1, <2>1, <2>2, <2>3, Answers, GoesOn DEF Started, Getting
<1>5. CASE RedisGetBytes(p)
  <2> DEFINE k == thread[p].key  a == Audited(p[1], k, remote[k].body)
  <2>1. /\ thread[p].pc = "bytes" /\ UNCHANGED <<kind, alive, conn, opened, hot, refs, put>>
        /\ Answer(p, a)
    BY <1>5 DEF RedisGetBytes, bvars
  <2>2. k \in Keys
    BY <2>1, KeyOf DEF Started
  <2>3. a = None \/ Truthful(p, a)
    BY <1>1, <2>2, OwnOf DEF Audited, Truthful
  <2> HIDE DEF a
  <2> QED
    BY <1>1, <2>1, <2>3, Answers DEF Started, Getting
<1> QED
  BY <1>2, <1>3, <1>4, <1>5 DEF RedisThread

\* ... of fs:// ...
LEMMA FSAdvances ==
  ASSUME Types, Connections, FilesKeyed, NEW p \in Threads, kind = "fs", FSThread(p),
         registry' = registry
  PROVE  Advance(p)
<1> USE DEF Types
<1>1. UNCHANGED <<kind, alive, conn, opened, hot, refs, put>>
  BY DEF FSThread, bvars
<1>2. CASE FSExists(p)
  BY <1>1, <1>2, ExistsIs, Answers DEF FSExists, Started
<1>3. CASE FSOpenRead(p)
  <2>1. thread[p].pc = "get" /\ thread[p].key \in Keys
    BY <1>3, KeyOf DEF FSOpenRead, Started
  <2>2. final[thread[p].key] \in Tmps
    BY <2>1, FilesAssumption DEF StoreTypes, Files, Tmps
  <2>3. Answer(p, None) \/ Hold(p, "fileOpen", final[thread[p].key])
    BY <1>3 DEF FSOpenRead
  <2>4. "fileOpen" \in ThreadPcs \ (Started \cup {"idle"})
    BY DEF ThreadPcs, Started
  <2> QED
    BY <1>1, <2>1, <2>2, <2>3, <2>4, Answers, GoesOn DEF Started, Getting
<1>4. ASSUME NEW a \in BOOLEAN, FSReadMetadata(p, a) PROVE Advance(p)
  <2>1. thread[p].pc = "fileOpen" /\ (Answer(p, None) \/ Goto(p, "fileBody"))
    BY <1>4 DEF FSReadMetadata
  <2>2. "fileBody" \in ThreadPcs \ (Started \cup {"idle"}) /\ None \in Tmps
    BY DEF ThreadPcs, Started, Tmps
  <2> QED
    BY <1>1, <2>1, <2>2, Answers, GoesOn DEF Started, Getting
<1>5. CASE FSReadBody(p)
  <2> DEFINE x == content[thread[p].tmp].body
  <2>1. thread[p].pc = "fileBody" /\ Answer(p, x)
    BY <1>5 DEF FSReadBody
  <2>2. thread[p].key \in Keys
    BY <2>1, KeyOf DEF Started
  <2>3. thread[p].tmp \in Files /\ Uses(thread[p].tmp, thread[p].key)
    BY <2>1 DEF FilesKeyed, Uses
  <2>4. Own(x, thread[p].key)
    BY <2>2, <2>3 DEF FilesKeyed
  <2>5. x = None \/ Truthful(p, x)
    BY <2>4 DEF Own, Truthful
  <2> HIDE DEF x
  <2> QED
    BY <1>1, <2>1, <2>5, Answers DEF Started, Getting
<1> QED
  BY <1>2, <1>3, <1>4, <1>5 DEF FSThread

\* ... of mooncake:// and infinistore:// ...
LEMMA BufferAdvances ==
  ASSUME Types, Connections, StoreKeyed, NEW p \in Threads, kind \in BufferKinds,
         BufferThread(p), registry' = registry
  PROVE  Advance(p)
<1> USE DEF Types
<1>1. kind # "audit" /\ (kind # "mooncake" => kind \in {"blackhole", "infinistore"})
  BY DEF BufferKinds
<1>2. CASE BufferExists(p)
  BY <1>2, ExistsIs, Answers DEF BufferExists, bvars, Started
<1>3. CASE BlackholeGet(p)
  BY <1>3, Answers DEF BlackholeGet, bvars, Started
<1>4. ASSUME thread[p].pc \in {"get", "reading"}, NEW x \in {None, remote[thread[p].key].body},
             Answer(p, x), UNCHANGED <<bvars, put>>
      PROVE  Advance(p)
  <2>1. thread[p].key \in Keys
    BY <1>4, KeyOf DEF Started
  <2>2. x = None \/ Truthful(p, x)
    BY <1>1, <1>4, <2>1 DEF StoreKeyed, Keyed, Own, Truthful
  <2> QED
    BY <1>4, <2>2, Answers DEF Started, Getting, bvars
<1>5. CASE MooncakeGet(p) \/ InfinistoreRead(p)
  BY <1>4, <1>5 DEF MooncakeGet, InfinistoreRead
<1>6. CASE MooncakeGetFails(p) \/ InfinistoreNoMemory(p)
  BY <1>6, Fails DEF MooncakeGetFails, InfinistoreNoMemory, Started
<1>7. CASE InfinistoreGet(p)
  <2>1. thread[p].pc = "get" /\ Goto(p, "reading") /\ UNCHANGED <<bvars, put>>
    BY <1>7 DEF InfinistoreGet
  <2>2. "reading" \in ThreadPcs \ (Started \cup {"idle"}) /\ None \in Tmps
    BY DEF ThreadPcs, Started, Tmps
  <2> QED
    BY <2>1, <2>2, GoesOn DEF Started, Getting, bvars
<1> QED
  BY <1>2, <1>3, <1>5, <1>6, <1>7 DEF BufferThread

\* The socket of a call is one that was opened.
LEMMA SockIs ==
  ASSUME Types, Connections, NEW p \in Threads, thread[p].pc \notin Started \cup {"idle"}
  PROVE  /\ p[1] \in Instances /\ thread[p].con \in 1..MaxConnections
         /\ thread[p].con \in 1..opened[p[1]]
         /\ Sock(p) \in Socket /\ Sock(p) = chan[p[1]][thread[p].con]
         /\ Sock(p).in \in Seq(Cells) /\ Sock(p).out \in Seq(Requests)
         /\ Sock(p).in # <<>> => Head(Sock(p).in) \in Cells
<1>1. p[1] \in Instances /\ thread[p].con \in 1..opened[p[1]]
  BY ThreadIs DEF Types, Connections
<1>2. thread[p].con \in 1..MaxConnections
  BY <1>1, RemoteAssumption DEF Types, BackendTypes
<1>3. Sock(p) \in Socket
  BY <1>1, <1>2 DEF Types, LmTypes, Sock
<1>4. Sock(p).in \in Seq(Cells) /\ Sock(p).out \in Seq(Requests)
  BY <1>3 DEF Socket
<1>5. Sock(p).in # <<>> => Head(Sock(p).in) \in Cells
  BY <1>4
<1> QED
  BY <1>1, <1>2, <1>3, <1>4, <1>5 DEF Sock

\* A call that waits on the connection of its instance finds there what it
\* waits for.
LEMMA WaitsAligned ==
  ASSUME Types, Connections, LmInv, kind = "lm", NEW p \in Threads, thread[p].pc \in Waiting,
         thread[p].con = conn[p[1]]
  PROVE  /\ Aligned(Sock(p), thread[p].pc, thread[p].key)
         /\ thread[p].pc = "body" => thread[p].tmp = 1
<1>1. p[1] \in Instances /\ thread[p].con \in 1..MaxConnections
  BY SockIs DEF Waiting, Started
<1>2. p[1] \in alive
  BY DEF LmInv, Waiting
<1>3. Streamed(p[1]) /\ conn[p[1]] # 0 /\ Waits(p, p[1], conn[p[1]])
  BY <1>1, <1>2 DEF LmInv, Waits
<1> QED
  BY <1>3 DEF Streamed, Sock

\* The body that a get reads is of its key, unless another call has given up the
\* connection since.
LEMMA BodyIs ==
  ASSUME Types, Connections, LmInv, kind = "lm", NEW p \in Threads, thread[p].pc = "body",
         thread[p].con = conn[p[1]]
  PROVE  /\ thread[p].tmp = 1
         /\ Sock(p).in # <<>> => /\ Head(Sock(p).in).type = "body" /\ Head(Sock(p).in).data \in Bytes
                                 /\ Head(Sock(p).in).data.key = thread[p].key
<1>1. Aligned(Sock(p), "body", thread[p].key) /\ thread[p].tmp = 1
  BY WaitsAligned DEF Waiting
<1> SUFFICES ASSUME Sock(p).in # <<>>
             PROVE  /\ Head(Sock(p).in).type = "body" /\ Head(Sock(p).in).data \in Bytes
                    /\ Head(Sock(p).in).data.key = thread[p].key
  BY <1>1
<1>2. PICK b \in Bytes : b.key = thread[p].key /\ Sock(p).in = <<Body(b)>>
  BY <1>1 DEF Aligned, Lost
<1>3. Head(Sock(p).in) = Body(b)
  BY <1>2
<1> QED
  BY <1>2, <1>3 DEF Body

\* ... and of lm:// do no more to the backend's state than Advance says,
LEMMA LmAdvances ==
  ASSUME Types, Connections, LmInv, kind = "lm", NEW p \in Threads, LmCall(p), registry' = registry
  PROVE  Advance(p)
<1> USE DEF Types
<1>0. None \in Tmps
  BY DEF Tmps
<1>1. CASE LmExists(p)
  <2>1. thread[p].pc = "exists" /\ Goto(p, "existsReply") /\ UNCHANGED <<bvars, put>>
    BY <1>1 DEF LmExists, LmRequest
  <2>2. "existsReply" \in ThreadPcs \ (Started \cup {"idle"} \cup Getting)
    BY DEF ThreadPcs, Started, Getting
  <2> QED
    BY <1>0, <2>1, <2>2, GoesOn DEF Started, bvars
<1>2. CASE LmGet(p)
  <2>1. thread[p].pc = "get" /\ Goto(p, "header") /\ UNCHANGED <<bvars, put>>
    BY <1>2 DEF LmGet, LmRequest
  <2>2. "header" \in ThreadPcs \ (Started \cup {"idle"})
    BY DEF ThreadPcs, Started
  <2> QED
    BY <1>0, <2>1, <2>2, GoesOn DEF Started, Getting, bvars
<1>3. CASE LmReadFails(p) \/ LmDecodeFails(p)
  BY <1>3, Fails DEF LmReadFails, LmDecodeFails, Started
<1>4. CASE LmExistsReply(p)
  BY <1>4, ExistsIs, Answers DEF LmExistsReply, Started, bvars
<1>5. CASE LmGetMiss(p)
  BY <1>5, Answers DEF LmGetMiss, Started, bvars
<1>6. ASSUME NEW a \in BOOLEAN, LmGetHit(p, a) PROVE Advance(p)
  <2>1. thread[p].pc = "header" /\ HeaderArrives(p) /\ UNCHANGED <<bvars, put>>
    BY <1>6 DEF LmGetHit
  <2>2. Head(Sock(p).in).len \in Tmps
    BY <2>1, SockIs DEF HeaderArrives, Started, Cells, Tmps
  <2>3. Hold(p, "body", Head(Sock(p).in).len) \/ Answer(p, None)
    BY <1>6 DEF LmGetHit
  <2>4. "body" \in ThreadPcs \ (Started \cup {"idle"})
    BY DEF ThreadPcs, Started
  <2> QED
    BY <2>1, <2>2, <2>3, <2>4, Answers, GoesOn DEF Started, Getting, bvars
<1>7. CASE LmGetBody(p)
  <2>1. thread[p].pc = "body" /\ UNCHANGED <<bvars, put>>
    BY <1>7 DEF LmGetBody
  <2>2. PICK x : /\ Answer(p, x)
                 /\ \/ x = None
                    \/ thread[p].tmp = 0 /\ x = Garbage
                    \/ /\ Sock(p).in # <<>>
                       /\ x = IF Head(Sock(p).in).type = "body" THEN Head(Sock(p).in).data ELSE Garbage
    BY <1>7 DEF LmGetBody
  <2>3. x = None \/ Truthful(p, x)
    <3>1. CASE thread[p].con = conn[p[1]]
      BY <2>1, <2>2, <3>1, BodyIs DEF Truthful
    <3>2. CASE thread[p].con # conn[p[1]]
      BY <2>1, <2>2, <3>2, SockIs DEF Truthful, Stored, Cells, Started
    <3> QED
      BY <3>1, <3>2
  <2> QED
    BY <2>1, <2>2, <2>3, Answers DEF Started, Getting, bvars
<1> QED
  BY <1>1, <1>2, <1>3, <1>4, <1>5, <1>6, <1>7 DEF LmCall

\* and so do those of every connector.
LEMMA GoOnAdvances ==
  ASSUME IInv, NEW p \in Threads, GoOn(p), ~AppendTask(p), ~SubmitPutTask(p)
  PROVE  Advance(p)
BY RedisAdvances, FSAdvances, BufferAdvances, LmAdvances
   DEF GoOn, IInv, RedisKinds, BufferKinds
-----------------------------------------------------------------------------
(* Steps of puts *)

\* The step of a put that is under way, seen from the backend.
PutMoves(i, k) ==
  /\ put[i][k].pc \notin Ended
  /\ UNCHANGED <<kind, alive, conn, opened, hot, thread>>
  /\ put' \in [Instances -> [Keys -> PutRec]]
  /\ \A j \in Instances, l \in Keys : j # i \/ l # k => put'[j][l] = put[j][l]
  /\ \/ put'[i][k] = NoPut /\ InstrumentedDone(i, k)
     \/ /\ put'[i][k].pc \notin Ended /\ put'[i][k].con = put[i][k].con
        /\ refs' = refs
  /\ \/ registry' = registry
     \/ kind = "audit" /\ registry' = [registry EXCEPT ![i][k] = Chunk(i, k)]

\* The bytes of a put are registered with the audit connector, at its end.
LEMMA PutEnds ==
  ASSUME BackendTypes, NEW i \in Instances, NEW k \in Keys, put[i][k].pc \notin Ended,
         FinishPut(i, k), thread' = thread,
         \/ registry' = registry
         \/ kind = "audit" /\ registry' = [registry EXCEPT ![i][k] = Chunk(i, k)]
  PROVE  PutMoves(i, k) /\ put'[i][k] = NoPut
<1>1. NoPut \in PutRec
  <2>1. None \in Tmps
    BY DEF Tmps
  <2> QED
    BY <2>1 DEF NoPut, PutRec, PutPcs
<1>2. /\ put' \in [Instances -> [Keys -> PutRec]] /\ put'[i][k] = NoPut
      /\ \A j \in Instances, l \in Keys : j # i \/ l # k => put'[j][l] = put[j][l]
  BY <1>1 DEF FinishPut, BackendTypes
<1> QED
  BY <1>2 DEF PutMoves, FinishPut

\* A put goes on to another step.
LEMMA PutGoes ==
  ASSUME BackendTypes, NEW i \in Instances, NEW k \in Keys, put[i][k].pc \notin Ended,
         NEW l \in PutPcs \ Ended, NEW x \in Tmps,
         PutStep(i, k, l, x) \/ put' = [put EXCEPT ![i][k].pc = l],
         UNCHANGED <<bvars, thread, registry>>
  PROVE  PutMoves(i, k) /\ put'[i][k].pc = l
<1>1. put[i][k] \in PutRec
  BY DEF BackendTypes
<1>2. \E y \in Tmps : put' = [put EXCEPT ![i][k] = [@ EXCEPT !.pc = l, !.tmp = y]]
  <2>1. CASE PutStep(i, k, l, x)
    BY <2>1 DEF PutStep
  <2>2. CASE put' = [put EXCEPT ![i][k].pc = l]
    <3>1. [put[i][k] EXCEPT !.pc = l] = [put[i][k] EXCEPT !.pc = l, !.tmp = put[i][k].tmp]
      BY <1>1 DEF PutRec
    <3>2. put' = [put EXCEPT ![i][k] = [@ EXCEPT !.pc = l, !.tmp = put[i][k].tmp]]
      BY <2>2, <3>1 DEF BackendTypes
    <3>3. put[i][k].tmp \in Tmps
      BY <1>1 DEF PutRec
    <3> QED
      BY <3>2, <3>3
  <2> QED
    BY <2>1, <2>2
<1>3. PICK y \in Tmps : put' = [put EXCEPT ![i][k] = [@ EXCEPT !.pc = l, !.tmp = y]]
  BY <1>2
<1> DEFINE r == [put[i][k] EXCEPT !.pc = l, !.tmp = y]
<1>4. r \in PutRec /\ r.pc = l /\ r.con = put[i][k].con
  BY <1>1 DEF PutRec
<1>5. put' = [put EXCEPT ![i][k] = r]
  BY <1>3
<1> HIDE DEF r
<1>6. /\ put' \in [Instances -> [Keys -> PutRec]] /\ put'[i][k] = r
      /\ \A j \in Instances, m \in Keys : j # i \/ m # k => put'[j][m] = put[j][m]
  BY <1>4, <1>5 DEF BackendTypes
<1> QED
  BY <1>4, <1>6 DEF PutMoves, bvars

\* Whatever the connector, a put does no more than PutMoves says.
LEMMA RunPutMoves ==
  ASSUME IInv, NEW i \in Instances, NEW k \in Keys, RunPut(i, k)
  PROVE  PutMoves(i, k)
<1> USE DEF IInv, Types
<1>0. None \in Tmps /\ {"scheduled", "bytes", "opened", "metaWritten", "bodyWritten", "transfer"} \subseteq PutPcs \ Ended
  BY DEF Tmps, PutPcs, Ended
<1>1. CASE LmPut(i, k) /\ registry' = registry
  BY <1>0, <1>1, PutEnds DEF LmPut, Ended
<1>2. CASE RedisPut(i, k)
  <2>1. CASE RedisPutMetadata(i, k)
    BY <1>0, <2>1, PutGoes DEF RedisPutMetadata, Ended
  <2>2. CASE RedisPutBytes(i, k)
    BY <1>0, <2>2, PutEnds DEF RedisPutBytes, Ended
  <2>3. CASE RedisPutFails(i, k)
    BY <1>0, <2>3, PutEnds DEF RedisPutFails, Ended
  <2> QED
    BY <1>2, <2>1, <2>2, <2>3 DEF RedisPut
<1>3. CASE FSPut(i, k) /\ registry' = registry
  <2>1. CASE FSOpenWrite(i, k)
    <3>1. PICK f \in Files : PutStep(i, k, "opened", f)
      BY <2>1 DEF FSOpenWrite
    <3>2. f \in Tmps
      BY FilesAssumption DEF Files, Tmps
    <3> QED
      BY <1>0, <1>3, <2>1, <3>1, <3>2, PutGoes DEF FSOpenWrite, FSPut, Ended
  <2>2. CASE FSWriteMetadata(i, k)
    BY <1>0, <1>3, <2>2, PutGoes DEF FSWriteMetadata, FSPut, Ended
  <2>3. CASE FSWriteBody(i, k)
    BY <1>0, <1>3, <2>3, PutGoes DEF FSWriteBody, FSPut, Ended
  <2>4. CASE FSReplace(i, k) \/ FSWriteFails(i, k)
    BY <1>0, <1>3, <2>4, PutEnds DEF FSReplace, FSWriteFails, FSPut, Ended
  <2> QED
    BY <1>3, <2>1, <2>2, <2>3, <2>4 DEF FSPut
<1>4. CASE BufferPut(i, k) /\ registry' = registry
  <2>1. CASE MooncakePutStart(i, k)
    BY <1>0, <1>4, <2>1, PutGoes DEF MooncakePutStart, BufferPut, Ended
  <2>2. CASE InfinistorePut(i, k)
    BY <1>0, <1>4, <2>2, PutGoes, PutEnds DEF InfinistorePut, BufferPut, Ended
  <2>3. CASE BlackholePut(i, k) \/ MooncakePutDone(i, k) \/ MooncakePutTimesOut(i, k)
             \/ InfinistoreWritten(i, k)
    BY <1>0, <1>4, <2>3, PutEnds
       DEF BlackholePut, MooncakePutDone, MooncakePutTimesOut, InfinistoreWritten, BufferPut, Ended
  <2> QED
    BY <1>4, <2>1, <2>2, <2>3 DEF BufferPut
<1> QED
  BY <1>1, <1>2, <1>3, <1>4 DEF RunPut
-----------------------------------------------------------------------------
(* The backend's part of the invariant: it does not depend on the connector. *)

\* What counts as claims, in terms of Storing.
PutClaims(i, k) == CASE put[i][k].pc = "none" -> 0 [] put[i][k].pc = "orphan" -> 2 [] OTHER -> 1
LEMMA ClaimsAre ==
  \A j, l : Claims(j, l) = (IF l \in hot[j] THEN 1 ELSE 0)
                            + (IF Storing(j, l) THEN 2 ELSE 0) + PutClaims(j, l)
BY DEF Claims, Storing, Started, PutClaims

\* They stay when hot, put and what is being stored stay.
LEMMA ClaimsStay ==
  ASSUME hot' = hot, put' = put, NEW i, NEW k, Storing(i, k)' <=> Storing(i, k)
  PROVE  Claims(i, k)' = Claims(i, k)
<1>1. PutClaims(i, k)' = PutClaims(i, k)
  BY DEF PutClaims
<1>2. (\A j, l : Claims(j, l) = (IF l \in hot[j] THEN 1 ELSE 0)
                               + (IF Storing(j, l) THEN 2 ELSE 0) + PutClaims(j, l))'
  BY ClaimsAre, PTL
<1> QED
  BY <1>1, <1>2, ClaimsAre

\* The backend's part.
Kept ==
  /\ BackendTypes /\ Connections /\ PutsKeepHot /\ GetsNoPut
  /\ ObjectRefsExact /\ AnswersOwnKey

EngineOf(i) == <<i, "eng">>

LEMMA EngineIs ==
  \A i \in Instances : EngineOf(i) \in Threads /\ EngineOf(i)[1] = i /\ EngineOf(i)[2] = "eng"
<1>1. \A i \in Instances : EngineOf(i) \in Threads
  BY RemoteAssumption DEF EngineOf
<1>2. \A i : EngineOf(i)[1] = i /\ EngineOf(i)[2] = "eng"
  BY DEF EngineOf
<1> QED
  BY <1>1, <1>2

\* A call in progress is not one that stores.
LEMMA AdvanceKeeps ==
  ASSUME Kept, NEW p \in Threads, Advance(p)
  PROVE  Kept'
<1>1. BackendTypes'
  <2>1. p[1] \in Instances
    BY ThreadIs DEF Kept
  <2> QED
    BY <2>1 DEF Kept, Advance, Rest, BackendTypes
<1>2. /\ \A q \in Threads : q # p => thread'[q] = thread[q]
      /\ thread[p].pc \notin Started \cup {"idle"} /\ thread[p].got = None
      /\ thread[p].key \in Keys
  BY DEF Kept, Advance, Rest, Connections
<1>3. /\ thread'[p].pc \notin Started
      /\ thread'[p].pc # "idle" \/ thread'[p].got # None => thread'[p].key = thread[p].key /\ thread'[p].con = thread[p].con
      /\ thread'[p].got # None => thread'[p].pc = "idle" /\ Returns(p) /\ conn' = conn
      /\ thread'[p].pc \in Getting => thread[p].pc \in Getting
  <2>1. CASE thread'[p] = Idle
    BY <2>1, IdleRec DEF Started, Getting
  <2>2. CASE Continues(p)
    BY <2>2 DEF Continues
  <2>3. CASE Returns(p) /\ conn' = conn
    BY <2>3 DEF Returns, Started, Getting
  <2> QED
    BY <2>1, <2>2, <2>3 DEF Advance
<1>4. \A i \in Instances : conn'[i] = conn[i] \/ conn'[i] = 0
  BY DEF Advance, Kept, BackendTypes
<1>5. Connections'
  <2>1. \A i \in Instances : conn'[i] <= opened'[i]
    BY <1>4, RemoteAssumption DEF Advance, Kept, Connections, BackendTypes
  <2>2. ASSUME NEW q \in Threads
        PROVE  /\ thread'[q].pc # "idle" \/ thread'[q].got # None => thread'[q].key \in Keys
               /\ thread'[q].pc \notin Started \cup {"idle"} \/ thread'[q].got # None =>
                    thread'[q].con \in 1..opened'[q[1]]
               /\ thread'[q].got # None => thread'[q].pc = "idle"
               /\ thread'[q].pc \in Started => q[2] = "eng"
    BY <1>2, <1>3 DEF Advance, Kept, Connections
  <2>3. \A i \in Instances, k \in Keys : put'[i][k].pc \notin Ended => put'[i][k].con \in 1..opened'[i]
    BY DEF Advance, Kept, Connections
  <2> QED
    BY <2>1, <2>2, <2>3 DEF Connections
<1>6. \A i \in Instances, k \in Keys : Storing(i, k)' <=> Storing(i, k)
  <2> SUFFICES ASSUME NEW i \in Instances PROVE \A k \in Keys : Storing(i, k)' <=> Storing(i, k)
    OBVIOUS
  <2>1. CASE EngineOf(i) = p
    BY <1>2, <1>3, <2>1 DEF Storing, EngineOf
  <2>2. CASE EngineOf(i) # p
    BY <1>2, <2>2, EngineIs DEF Storing, EngineOf
  <2> QED
    BY <2>1, <2>2
<1>7. PutsKeepHot'
  BY <1>6 DEF Advance, Kept, PutsKeepHot
<1>8. ObjectRefsExact'
  BY <1>6, ClaimsStay DEF Advance, Kept, ObjectRefsExact
<1>9. GetsNoPut'
  <2> SUFFICES ASSUME NEW q \in Threads, Reading(q)'
               PROVE  q[2] = "eng" /\ (kind' = "audit" => put'[q[1]][thread'[q].key].pc \in Ended)
    BY DEF GetsNoPut
  <2>1. CASE q # p
    BY <1>2, <2>1 DEF Advance, Kept, GetsNoPut, Reading
  <2>2. CASE q = p
    <3>1. thread[p].pc \in Getting /\ thread'[p].key = thread[p].key
      BY <1>3, <2>2 DEF Reading, Returns, Getting
    <3> QED
      BY <2>2, <3>1 DEF Advance, Kept, GetsNoPut, Reading
  <2> QED
    BY <2>1, <2>2
<1>10. AnswersOwnKey'
  <2> SUFFICES ASSUME NEW q \in Threads, thread'[q].got # None
               PROVE  \/ OwnBytes(q)'
                      \/ kind' = "mooncake" /\ thread'[q].got = Garbage
                      \/ kind' = "lm" /\ thread'[q].con # conn'[q[1]]
    BY DEF AnswersOwnKey
  <2>1. CASE q # p
    <3>1. thread'[q] = thread[q] /\ q[1] \in Instances
      BY <1>2, <2>1, ThreadIs DEF Kept
    <3>2. thread[q].con \in 1..opened[q[1]]
      BY <3>1 DEF Kept, Connections
    <3>3. thread[q].con # conn[q[1]] => thread[q].con # conn'[q[1]]
      BY <1>4, <3>1, <3>2
    <3> QED
      BY <3>1, <3>3 DEF Advance, Kept, AnswersOwnKey, OwnBytes
  <2>2. CASE q = p
    <3>1. Returns(p) /\ conn' = conn /\ kind' = kind /\ registry' = registry
      BY <1>3, <2>2 DEF Advance
    <3>2. CASE /\ thread'[p].got \in Bytes /\ thread'[p].got.key = thread[p].key
               /\ kind = "audit" => registry[p[1]][thread[p].key] \in {None, thread'[p].got}
      BY <2>2, <3>1, <3>2, ValuesDiffer DEF OwnBytes, Returns
    <3> QED
      BY <2>2, <3>1, <3>2 DEF Returns, Truthful
  <2> QED
    BY <2>1, <2>2
<1> QED
  BY <1>1, <1>5, <1>7, <1>8, <1>9, <1>10 DEF Kept

\* A step of a put keeps the backend's part: it gives up a reference when it ends.
LEMMA PutMovesKeep ==
  ASSUME Kept, NEW i \in Instances, NEW k \in Keys, PutMoves(i, k)
  PROVE  Kept'
<1>1. BackendTypes'
  <2>1. refs' \in [Instances -> [Keys -> Int]]
    <3>1. CASE refs' = refs
      BY <3>1 DEF Kept, BackendTypes
    <3>2. CASE InstrumentedDone(i, k)
      BY <3>2 DEF Kept, BackendTypes, InstrumentedDone
    <3> QED
      BY <3>1, <3>2 DEF PutMoves
  <2>2. registry' \in [Instances -> [Keys -> Stored]]
    <3>1. Chunk(i, k) \in Stored /\ registry \in [Instances -> [Keys -> Stored]]
      BY DEF Chunk, Stored, Bytes, Kept, BackendTypes
    <3>2. CASE registry' = registry
      BY <3>1, <3>2
    <3>3. CASE registry' = [registry EXCEPT ![i][k] = Chunk(i, k)]
      BY <3>1, <3>3
    <3> QED
      BY <3>2, <3>3 DEF PutMoves
  <2> QED
    BY <2>1, <2>2 DEF Kept, BackendTypes, PutMoves
<1>2. Connections'
  <2>1. \A j \in Instances, l \in Keys : put'[j][l].pc \notin Ended => put'[j][l].con \in 1..opened'[j]
    BY DEF Kept, PutMoves, Connections, NoPut, Ended
  <2> QED
    BY <2>1 DEF Kept, PutMoves, Connections
<1>3. \A j \in Instances, l \in Keys :
        /\ Storing(j, l)' <=> Storing(j, l)
        /\ put'[j][l].pc \notin Ended => put[j][l].pc \notin Ended
        /\ put[j][l].pc \in Ended => put'[j][l] = put[j][l]
  BY DEF Kept, PutMoves, Storing
<1>4. PutsKeepHot'
  BY <1>3 DEF Kept, PutMoves, PutsKeepHot, Ended
<1>5. ObjectRefsExact'
  <2> SUFFICES ASSUME kind # "sentinel", NEW j \in Instances, NEW l \in Keys
               PROVE  refs'[j][l] = Claims(j, l)'
    BY DEF ObjectRefsExact, PutMoves
  <2>1. refs[j][l] = Claims(j, l) /\ refs[j][l] \in Int
    BY DEF Kept, ObjectRefsExact, BackendTypes
  <2>2. CASE refs'[j][l] = refs[j][l] /\ (put'[j][l] = put[j][l] \/ (put'[j][l].pc \notin Ended /\ put[j][l].pc \notin Ended))
    BY <2>1, <2>2 DEF PutMoves, Claims, Ended
  <2>3. CASE j = i /\ l = k /\ put'[i][k] = NoPut /\ InstrumentedDone(i, k)
    <3>1. refs'[j][l] = refs[j][l] - 1
      BY <2>3 DEF InstrumentedDone, Kept, BackendTypes
    <3>2. put[j][l].pc \notin Ended /\ put'[j][l].pc = "none"
      BY <2>3 DEF PutMoves, NoPut
    <3> QED
      BY <2>1, <3>1, <3>2 DEF PutMoves, Claims, Ended
  <2>4. \/ refs'[j][l] = refs[j][l] /\ put'[j][l] = put[j][l]
        \/ refs'[j][l] = refs[j][l] /\ put'[j][l].pc \notin Ended /\ put[j][l].pc \notin Ended
        \/ j = i /\ l = k /\ put'[i][k] = NoPut /\ InstrumentedDone(i, k)
    BY DEF PutMoves, InstrumentedDone, Kept, BackendTypes
  <2> QED
    BY <2>2, <2>3, <2>4
<1>6. GetsNoPut'
  <2> SUFFICES ASSUME NEW q \in Threads, Reading(q)
               PROVE  q[2] = "eng" /\ (kind = "audit" => put'[q[1]][thread[q].key].pc \in Ended)
    BY DEF GetsNoPut, Reading, PutMoves
  <2>1. thread[q].key \in Keys /\ q[1] \in Instances
    BY ThreadIs DEF Reading, Kept, Connections, Getting
  <2>2. q[2] = "eng" /\ (kind = "audit" => put[q[1]][thread[q].key].pc \in Ended)
    BY DEF Kept, GetsNoPut
  <2> QED
    BY <1>3, <2>1, <2>2
<1>7. AnswersOwnKey'
  <2> SUFFICES ASSUME NEW q \in Threads, thread[q].got # None
               PROVE  \/ OwnBytes(q)'
                      \/ kind = "mooncake" /\ thread[q].got = Garbage
                      \/ kind = "lm" /\ thread[q].con # conn[q[1]]
    BY DEF AnswersOwnKey, PutMoves
  <2>1. thread[q].key \in Keys /\ q[1] \in Instances
    BY ThreadIs DEF Kept, Connections
  <2>2. kind = "audit" => put[q[1]][thread[q].key].pc \in Ended
    BY DEF Kept, GetsNoPut, Reading
  <2>3. registry'[q[1]][thread[q].key] = registry[q[1]][thread[q].key]
    <3>1. registry \in [Instances -> [Keys -> Stored]]
      BY DEF Kept, BackendTypes
    <3>2. CASE registry' = registry
      BY <3>2
    <3>3. CASE kind = "audit" /\ registry' = [registry EXCEPT ![i][k] = Chunk(i, k)]
      <4>1. q[1] # i \/ thread[q].key # k
        BY <2>2, <3>3 DEF PutMoves
      <4> QED
        BY <2>1, <3>1, <3>3, <4>1
    <3> QED
      BY <3>2, <3>3 DEF PutMoves
  <2> QED
    BY <2>3 DEF PutMoves, Kept, AnswersOwnKey, OwnBytes
<1> QED
  BY <1>1, <1>2, <1>4, <1>5, <1>6, <1>7 DEF Kept
-----------------------------------------------------------------------------
(* Steps of the backend itself *)

\* A lookup or a get begins, or is answered at once.
CallBegins(p) ==
  /\ thread[p].pc = "idle" /\ Rest(p)
  /\ UNCHANGED <<kind, alive, hot, refs, put, registry>>
  /\ conn' \in [Instances -> Nat] /\ opened' \in [Instances -> 1..MaxConnections]
  /\ \A i \in Instances :
       /\ conn'[i] <= opened'[i] /\ opened[i] <= opened'[i]
       /\ conn'[i] = conn[i] \/ conn'[i] > opened[i]
  /\ thread'[p].got = None /\ thread'[p].pc \in {"idle", "exists", "get"}
  /\ thread'[p].pc # "idle" =>
       thread'[p].key \in Keys /\ thread'[p].con = conn'[p[1]] /\ conn'[p[1]] # 0
  /\ thread'[p].pc = "get" =>
       p[2] = "eng" /\ (kind = "audit" => put[p[1]][thread'[p].key].pc \in Ended)

\* Calls that begin keep the backend's part.
LEMMA CallBeginsKeeps ==
  ASSUME Kept, NEW p \in Threads, CallBegins(p)
  PROVE  Kept'
<1>1. BackendTypes'
  BY DEF Kept, CallBegins, Rest, BackendTypes
<1>2. /\ \A q \in Threads : q # p => thread'[q] = thread[q]
      /\ thread[p].pc = "idle" /\ thread'[p].pc \notin Started /\ thread'[p].got = None
      /\ thread'[p].pc \in Getting => thread'[p].pc = "get"
  BY DEF Kept, CallBegins, Rest, Started, Getting
<1>3. \A q \in Threads : q[1] \in Instances
  BY ThreadIs DEF Kept
<1>4. Connections'
  <2>1. \A i \in Instances : conn'[i] <= opened'[i]
    BY DEF CallBegins
  <2>2. ASSUME NEW q \in Threads
        PROVE  /\ thread'[q].pc # "idle" \/ thread'[q].got # None => thread'[q].key \in Keys
               /\ thread'[q].pc \notin Started \cup {"idle"} \/ thread'[q].got # None =>
                    thread'[q].con \in 1..opened'[q[1]]
               /\ thread'[q].got # None => thread'[q].pc = "idle"
               /\ thread'[q].pc \in Started => q[2] = "eng"
    <3>1. CASE q # p
      <4>1. 1..opened[q[1]] \subseteq 1..opened'[q[1]]
        BY <1>3, RemoteAssumption DEF CallBegins, Kept, BackendTypes
      <4> QED
        BY <1>2, <3>1, <4>1 DEF Kept, Connections
    <3>2. CASE q = p
      <4>1. thread'[p].pc # "idle" => thread'[p].con \in 1..opened'[p[1]]
        BY <1>3, RemoteAssumption DEF CallBegins
      <4> QED
        BY <1>2, <3>2, <4>1 DEF CallBegins
    <3> QED
      BY <3>1, <3>2
  <2>3. \A i \in Instances, k \in Keys : put'[i][k].pc \notin Ended => put'[i][k].con \in 1..opened'[i]
    <3> SUFFICES ASSUME NEW i \in Instances PROVE 1..opened[i] \subseteq 1..opened'[i]
      BY DEF CallBegins, Kept, Connections
    <3> QED
      BY RemoteAssumption DEF CallBegins, Kept, BackendTypes
  <2> QED
    BY <2>1, <2>2, <2>3 DEF Connections
<1>6. \A i \in Instances, k \in Keys : Storing(i, k)' <=> Storing(i, k)
  <2> SUFFICES ASSUME NEW i \in Instances PROVE \A k \in Keys : Storing(i, k)' <=> Storing(i, k)
    OBVIOUS
  <2>1. CASE EngineOf(i) = p
    BY <1>2, <2>1 DEF Storing, EngineOf, Started
  <2>2. CASE EngineOf(i) # p
    BY <1>2, <2>2, EngineIs DEF Storing, EngineOf
  <2> QED
    BY <2>1, <2>2
<1>7. PutsKeepHot'
  BY <1>6 DEF CallBegins, Kept, PutsKeepHot
<1>8. ObjectRefsExact'
  BY <1>6, ClaimsStay DEF CallBegins, Kept, ObjectRefsExact
<1>9. GetsNoPut'
  <2> SUFFICES ASSUME NEW q \in Threads, Reading(q)'
               PROVE  q[2] = "eng" /\ (kind' = "audit" => put'[q[1]][thread'[q].key].pc \in Ended)
    BY DEF GetsNoPut
  <2>1. CASE q # p
    BY <1>2, <2>1 DEF CallBegins, Kept, GetsNoPut, Reading
  <2>2. CASE q = p
    BY <1>2, <2>2 DEF CallBegins, Reading
  <2> QED
    BY <2>1, <2>2
<1>10. AnswersOwnKey'
  <2> SUFFICES ASSUME NEW q \in Threads, thread'[q].got # None
               PROVE  \/ OwnBytes(q)'
                      \/ kind' = "mooncake" /\ thread'[q].got = Garbage
                      \/ kind' = "lm" /\ thread'[q].con # conn'[q[1]]
    BY DEF AnswersOwnKey
  <2>1. q # p /\ thread'[q] = thread[q]
    BY <1>2
  <2>2. thread[q].con \in 1..opened[q[1]]
    BY <2>1 DEF Kept, Connections
  <2>3. thread[q].con # conn[q[1]] => thread[q].con # conn'[q[1]]
    BY <1>3, <2>2, RemoteAssumption DEF CallBegins, Kept, BackendTypes
  <2> QED
    BY <2>1, <2>3 DEF CallBegins, Kept, AnswersOwnKey, OwnBytes
<1> QED
  BY <1>1, <1>4, <1>7, <1>8, <1>9, <1>10 DEF Kept

\* contains is such a call,
LEMMA ContainsBegins ==
  ASSUME Kept, NEW p \in Threads, NEW k \in Keys, NEW b \in BOOLEAN, Contains(p, k, b),
         registry' = registry
  PROVE  CallBegins(p)
<1>1. p[1] \in Instances /\ thread[p] \in ThreadRec
  BY ThreadIs DEF Kept
<1>2. /\ conn' \in [Instances -> Nat] /\ opened' \in [Instances -> 1..MaxConnections]
      /\ \A i \in Instances :
           /\ conn'[i] <= opened'[i] /\ opened[i] <= opened'[i]
           /\ conn'[i] = conn[i] \/ conn'[i] > opened[i]
  <2>1. \A i \in Instances : conn[i] \in Nat /\ opened[i] \in 1..MaxConnections /\ conn[i] <= opened[i]
    BY DEF Kept, BackendTypes, Connections
  <2>2. CASE UNCHANGED <<conn, opened>>
    BY <2>1, <2>2, RemoteAssumption DEF Kept, BackendTypes
  <2>3. CASE /\ opened[p[1]] # MaxConnections
             /\ opened' = [opened EXCEPT ![p[1]] = @ + 1]
             /\ conn' = [conn EXCEPT ![p[1]] = opened[p[1]] + 1]
    <3>1. opened[p[1]] + 1 \in 1..MaxConnections /\ opened[p[1]] + 1 \in Nat
      BY <1>1, <2>1, <2>3, RemoteAssumption
    <3>2. /\ opened' \in [Instances -> 1..MaxConnections] /\ opened'[p[1]] = opened[p[1]] + 1
          /\ \A i \in Instances : i # p[1] => opened'[i] = opened[i]
      BY <1>1, <2>3, <3>1 DEF Kept, BackendTypes
    <3>3. /\ conn' \in [Instances -> Nat] /\ conn'[p[1]] = opened[p[1]] + 1
          /\ \A i \in Instances : i # p[1] => conn'[i] = conn[i]
      BY <1>1, <2>3, <3>1 DEF Kept, BackendTypes
    <3> QED
      BY <2>1, <3>2, <3>3, RemoteAssumption
  <2> QED
    BY <2>2, <2>3 DEF Contains, InitConnection
<1>3. conn'[p[1]] \in Nat
  BY <1>1, <1>2
<1> DEFINE r == IF conn'[p[1]] = 0 THEN [Idle EXCEPT !.key = k]
                ELSE [Idle EXCEPT !.pc = "exists", !.key = k, !.con = conn'[p[1]]]
<1>4. /\ r \in ThreadRec /\ r.got = None /\ r.pc \in {"idle", "exists"}
      /\ r.pc # "idle" => r.key \in Keys /\ r.con = conn'[p[1]] /\ conn'[p[1]] # 0
  <2>1. None \in Tmps /\ None \in Stored
    BY DEF Tmps, Stored
  <2> QED
    BY <1>3, <2>1 DEF Idle, ThreadRec, ThreadPcs
<1>5. thread' = [thread EXCEPT ![p] = r]
  BY DEF Contains
<1> HIDE DEF r
<1>6. Rest(p) /\ thread'[p] = r
  BY <1>4, <1>5 DEF Rest, Kept, BackendTypes
<1> QED
  BY <1>2, <1>4, <1>6 DEF Contains, CallBegins

\* and get_blocking.
LEMMA GetBegins ==
  ASSUME Kept, NEW p \in Threads, NEW k \in Keys, GetBlocking(p, k), registry' = registry
  PROVE  CallBegins(p)
<1>1. p[1] \in Instances /\ thread[p] \in ThreadRec /\ conn[p[1]] \in Nat
  BY ThreadIs DEF Kept, BackendTypes
<1>2. /\ conn' = conn /\ opened' = opened
      /\ \A i \in Instances : conn[i] \in Nat /\ opened[i] \in 1..MaxConnections /\ conn[i] <= opened[i]
  BY DEF Kept, BackendTypes, Connections, GetBlocking, bvars
<1> DEFINE r == IF conn[p[1]] = 0 THEN [Idle EXCEPT !.key = k]
                ELSE [Idle EXCEPT !.pc = "get", !.key = k, !.con = conn[p[1]]]
<1>4. /\ r \in ThreadRec /\ r.got = None /\ r.pc \in {"idle", "get"} /\ r.key = k
      /\ r.pc # "idle" => r.con = conn[p[1]] /\ conn[p[1]] # 0
  <2>1. None \in Tmps /\ None \in Stored
    BY DEF Tmps, Stored
  <2> QED
    BY <1>1, <2>1 DEF Idle, ThreadRec, ThreadPcs
<1>5. thread' = [thread EXCEPT ![p] = r]
  BY DEF GetBlocking
<1> HIDE DEF r
<1>6. Rest(p) /\ thread'[p] = r
  BY <1>4, <1>5 DEF Rest, Kept, BackendTypes
<1>7. p[2] = "eng"
  BY RemoteAssumption DEF GetBlocking, Kept, BackendTypes
<1>8. kind = "audit" => put[p[1]][k].pc \in Ended
  BY <1>1 DEF GetBlocking, Kept, PutsKeepHot
<1>9. /\ conn' \in [Instances -> Nat] /\ opened' \in [Instances -> 1..MaxConnections]
      /\ \A i \in Instances :
           /\ conn'[i] <= opened'[i] /\ opened[i] <= opened'[i]
           /\ conn'[i] = conn[i] \/ conn'[i] > opened[i]
  BY <1>2, RemoteAssumption DEF Kept, BackendTypes
<1>10. thread[p].pc = "idle" /\ UNCHANGED <<kind, alive, hot, refs, put, registry>>
  BY DEF GetBlocking, bvars
<1>11. /\ thread'[p].got = None /\ thread'[p].pc \in {"idle", "exists", "get"}
       /\ thread'[p].pc # "idle" =>
            thread'[p].key \in Keys /\ thread'[p].con = conn'[p[1]] /\ conn'[p[1]] # 0
       /\ thread'[p].pc = "get" =>
            p[2] = "eng" /\ (kind = "audit" => put[p[1]][thread'[p].key].pc \in Ended)
  BY <1>2, <1>4, <1>6, <1>7, <1>8
<1> QED
  BY <1>6, <1>9, <1>10, <1>11 DEF CallBegins

\* What PutsKeepHot and ObjectRefsExact say of one key of one instance.
KeyKept(i, k) ==
  /\ Storing(i, k) => put[i][k].pc = "none"
  /\ kind # "sentinel" /\ (Storing(i, k) \/ put[i][k].pc \notin Ended) => k \in hot[i]
  /\ kind # "sentinel" => refs[i][k] = Claims(i, k)

\* A step of a call that stores.
StoreStep(p, k) ==
  /\ p[2] = "eng" /\ UNCHANGED <<kind, alive, conn, opened, registry>> /\ Rest(p)
  /\ thread[p].pc \in Started \cup {"idle"} /\ thread'[p].pc \in Started \cup {"idle"}
  /\ thread'[p].got = None
  /\ thread[p].pc \in Started => thread[p].key = k
  /\ thread'[p].pc \in Started => thread'[p].key = k
  /\ hot' \in [Instances -> SUBSET Keys] /\ refs' \in [Instances -> [Keys -> Int]]
  /\ put' \in [Instances -> [Keys -> PutRec]]
  /\ \A j \in Instances, l \in Keys : j # p[1] \/ l # k =>
       /\ put'[j][l] = put[j][l] /\ refs'[j][l] = refs[j][l]
       /\ l \in hot'[j] <=> l \in hot[j]
  /\ put'[p[1]][k] = put[p[1]][k] \/ put'[p[1]][k].pc \in {"orphan", "scheduled"}
  /\ put'[p[1]][k].pc \notin Ended => put'[p[1]][k].con \in 1..opened[p[1]]
  /\ KeyKept(p[1], k)'

\* A store keeps the backend's part, when it does of its key.
LEMMA StoreStepKeeps ==
  ASSUME Kept, NEW p \in Threads, NEW k \in Keys, StoreStep(p, k)
  PROVE  Kept'
<1>1. BackendTypes'
  BY DEF Kept, StoreStep, Rest, BackendTypes
<1>2. /\ \A q \in Threads : q # p => thread'[q] = thread[q]
      /\ thread'[p].pc \in Started \cup {"idle"} /\ thread'[p].got = None
      /\ thread'[p].pc \in Started => thread'[p].key = k
  BY DEF StoreStep, Rest
<1>3. p[1] \in Instances /\ p = EngineOf(p[1])
  BY ThreadIs DEF Kept, StoreStep, EngineOf
<1>4. Connections'
  <2>1. \A i \in Instances : conn'[i] <= opened'[i]
    BY DEF StoreStep, Kept, Connections
  <2>2. ASSUME NEW q \in Threads
        PROVE  /\ thread'[q].pc # "idle" \/ thread'[q].got # None => thread'[q].key \in Keys
               /\ thread'[q].pc \notin Started \cup {"idle"} \/ thread'[q].got # None =>
                    thread'[q].con \in 1..opened'[q[1]]
               /\ thread'[q].got # None => thread'[q].pc = "idle"
               /\ thread'[q].pc \in Started => q[2] = "eng"
    BY <1>2 DEF StoreStep, Kept, Connections
  <2>3. \A j \in Instances, l \in Keys : put'[j][l].pc \notin Ended => put'[j][l].con \in 1..opened'[j]
    BY DEF StoreStep, Kept, Connections
  <2> QED
    BY <2>1, <2>2, <2>3 DEF Connections
<1>5. \A j \in Instances, l \in Keys : j # p[1] \/ l # k => (Storing(j, l)' <=> Storing(j, l))
  <2> SUFFICES ASSUME NEW j \in Instances, NEW l \in Keys, j # p[1] \/ l # k
               PROVE  Storing(j, l)' <=> Storing(j, l)
    OBVIOUS
  <2>1. CASE j # p[1]
    <3>1. EngineOf(j) \in Threads /\ EngineOf(j) # p
      BY <2>1, EngineIs
    <3> QED
      BY <1>2, <3>1 DEF Storing, EngineOf
  <2>2. CASE j = p[1] /\ l # k
    BY <1>2, <1>3, <2>2 DEF Storing, EngineOf, StoreStep
  <2> QED
    BY <2>1, <2>2
<1>6. ASSUME NEW j \in Instances, NEW l \in Keys PROVE KeyKept(j, l)'
  <2>1. KeyKept(j, l)
    BY DEF Kept, PutsKeepHot, ObjectRefsExact, KeyKept
  <2>2. CASE j # p[1] \/ l # k
    <3>1. Claims(j, l)' = Claims(j, l)
      BY <1>5, <2>2 DEF StoreStep, Claims, Storing, Started
    <3> QED
      BY <1>5, <2>1, <2>2, <3>1 DEF StoreStep, KeyKept
  <2>3. CASE j = p[1] /\ l = k
    BY <2>3 DEF StoreStep
  <2> QED
    BY <2>2, <2>3
<1>7. PutsKeepHot' /\ ObjectRefsExact'
  BY <1>6 DEF PutsKeepHot, ObjectRefsExact, KeyKept
<1>8. GetsNoPut'
  <2> SUFFICES ASSUME NEW q \in Threads, Reading(q)'
               PROVE  q[2] = "eng" /\ (kind' = "audit" => put'[q[1]][thread'[q].key].pc \in Ended)
    BY DEF GetsNoPut
  <2>1. q # p /\ thread'[q] = thread[q]
    BY <1>2 DEF Reading, Started, Getting
  <2>2. q[2] = "eng" /\ thread[q].key \in Keys /\ q[1] \in Instances
        /\ (kind = "audit" => put[q[1]][thread[q].key].pc \in Ended)
    BY <2>1, ThreadIs DEF Kept, GetsNoPut, Reading, Connections, Getting
  <2>3. q[1] # p[1]
    BY <1>3, <2>1, <2>2, ThreadIs DEF Kept, EngineOf
  <2> QED
    BY <2>1, <2>2, <2>3 DEF StoreStep
<1>9. AnswersOwnKey'
  BY <1>2 DEF StoreStep, Kept, AnswersOwnKey, OwnBytes
<1> QED
  BY <1>1, <1>4, <1>7, <1>8, <1>9 DEF Kept

\* The three steps of a store: a reference is had, the object is in the hot cache,
\* and the put is submitted.
LEMMA StorePutSteps ==
  ASSUME Kept, NEW p \in Threads, NEW k \in Keys, StorePut(p, k), registry' = registry
  PROVE  StoreStep(p, k)
<1> DEFINE i == p[1]
           r == IF k \in putTasks[i] \/ conn[i] = 0 THEN Idle
                ELSE [Idle EXCEPT !.pc = "append", !.key = k]
<1>1. /\ i \in Instances /\ thread[p].pc = "idle" /\ k \notin hot[i] /\ refs[i][k] = 0
      /\ put[i][k].pc = "none" /\ UNCHANGED <<kind, alive, conn, opened, put>>
  BY ThreadIs DEF StorePut, Kept
<1>2. p[2] = "eng" /\ p = <<i, "eng">>
  <2>1. p[2] = "eng"
    BY RemoteAssumption DEF StorePut, Kept, BackendTypes
  <2> QED
    BY <2>1, ThreadIs DEF Kept
<1>3. /\ r \in ThreadRec /\ r.got = None /\ (r = Idle \/ (r.pc = "append" /\ r.key = k))
      /\ Idle.pc = "idle"
  <2>1. None \in Tmps /\ None \in Stored
    BY DEF Tmps, Stored
  <2> QED
    BY <2>1 DEF Idle, ThreadRec, ThreadPcs
<1>4. thread' = [thread EXCEPT ![p] = r]
  BY DEF StorePut
<1>5. r # Idle => k \in hot'[i] /\ refs'[i][k] = 3
  BY <1>1 DEF StorePut, Kept, BackendTypes
<1>6. r = Idle => \/ k \notin hot'[i] /\ refs'[i][k] = 0
                  \/ k \in hot'[i] /\ refs'[i][k] = 1
  <2>1. SUFFICES ASSUME r = Idle, conn[i] # 0, k \notin putTasks[i] PROVE FALSE
    BY <1>1 DEF StorePut, Kept, BackendTypes
  <2>2. r.pc = "append"
    BY <2>1 DEF Idle
  <2> QED
    BY <1>3, <2>1, <2>2
<1> HIDE DEF r
<1>7. Rest(p) /\ thread'[p] = r
  BY <1>3, <1>4 DEF Rest, Kept, BackendTypes
<1>8. /\ hot' \in [Instances -> SUBSET Keys] /\ refs' \in [Instances -> [Keys -> Int]]
      /\ \A j \in Instances, l \in Keys : j # i \/ l # k =>
           refs'[j][l] = refs[j][l] /\ (l \in hot'[j] <=> l \in hot[j])
  <2>1. CASE hot' = hot /\ refs' = refs
    BY <2>1 DEF Kept, BackendTypes
  <2>2. CASE /\ hot' = [hot EXCEPT ![i] = @ \cup {k}]
             /\ refs' = [refs EXCEPT ![i][k] = IF conn[i] = 0 THEN 1 ELSE 3]
    BY <1>1, <2>2 DEF Kept, BackendTypes
  <2> QED
    BY <2>1, <2>2 DEF StorePut
<1>9. KeyKept(i, k)'
  <2>1. thread'[<<i, "eng">>] = r /\ put'[i][k].pc = "none"
    BY <1>1, <1>2, <1>7
  <2>2. CASE r = Idle
    BY <1>3, <1>6, <2>1, <2>2 DEF KeyKept, Storing, Claims, Started, Ended
  <2>3. CASE r # Idle
    BY <1>3, <1>5, <2>1, <2>3 DEF KeyKept, Storing, Claims, Started, Ended
  <2> QED
    BY <2>2, <2>3
<1> QED
  BY <1>1, <1>2, <1>3, <1>7, <1>8, <1>9 DEF StoreStep, Started, Ended, Kept, BackendTypes

LEMMA AppendSteps ==
  ASSUME Kept, NEW p \in Threads, AppendTask(p), registry' = registry,
         NEW k \in Keys, k = thread[p].key
  PROVE  StoreStep(p, k)
<1> DEFINE i == p[1]  r == [thread[p] EXCEPT !.pc = "submit"]
<1>1. /\ i \in Instances /\ thread[p] \in ThreadRec /\ thread[p].key = k /\ p[2] = "eng" /\ p = <<i, "eng">>
      /\ thread[p].pc = "append" /\ thread[p].got = None
  BY ThreadIs DEF AppendTask, Kept, Connections, Started
<1>2. UNCHANGED <<kind, alive, conn, opened, hot, refs, put>>
  BY DEF AppendTask
<1>3. r \in ThreadRec /\ r.got = None /\ r.pc = "submit" /\ r.key = k
  BY <1>1 DEF ThreadRec, ThreadPcs
<1>4. thread' = [thread EXCEPT ![p] = r]
  BY DEF AppendTask, Goto
<1> HIDE DEF r
<1>5. Rest(p) /\ thread'[p] = r
  BY <1>3, <1>4 DEF Rest, Kept, BackendTypes
<1>6. KeyKept(i, k)'
  <2>1. KeyKept(i, k)
    BY <1>1 DEF Kept, PutsKeepHot, ObjectRefsExact, KeyKept
  <2>2. Storing(i, k) /\ Storing(i, k)' /\ Claims(i, k)' = Claims(i, k)
    BY <1>1, <1>2, <1>3, <1>5 DEF Storing, Claims, Started
  <2> QED
    BY <1>2, <2>1, <2>2 DEF KeyKept
<1>7. put'[i][k].pc \notin Ended => put'[i][k].con \in 1..opened[i]
  BY <1>1, <1>2 DEF Kept, Connections
<1> QED
  BY <1>1, <1>2, <1>3, <1>5, <1>6, <1>7 DEF StoreStep, Started, Kept, BackendTypes

LEMMA SubmitSteps ==
  ASSUME Kept, NEW p \in Threads, SubmitPutTask(p), registry' = registry,
         NEW k \in Keys, k = thread[p].key
  PROVE  StoreStep(p, k)
<1> DEFINE i == p[1]
           r == IF conn[i] = 0 THEN [put[i][k] EXCEPT !.pc = "orphan"]
                ELSE [NoPut EXCEPT !.pc = "scheduled", !.con = conn[i]]
<1>1. /\ i \in Instances /\ thread[p] \in ThreadRec /\ thread[p].key = k /\ p[2] = "eng" /\ p = <<i, "eng">>
      /\ thread[p].pc = "submit"
  BY ThreadIs DEF SubmitPutTask, Kept, Connections, Started
<1>2. UNCHANGED <<kind, alive, conn, opened, hot>> /\ thread' = [thread EXCEPT ![p] = Idle]
  BY DEF SubmitPutTask
<1>3. Rest(p) /\ thread'[p] = Idle
  BY <1>2, IdleRec DEF Rest, Kept, BackendTypes
<1>4. put[i][k] \in PutRec /\ conn[i] \in Nat /\ conn[i] <= opened[i] /\ opened[i] \in Nat
  BY <1>1, RemoteAssumption DEF Kept, BackendTypes, Connections
<1>5. /\ r \in PutRec
      /\ conn[i] = 0 => r.pc = "orphan"
      /\ conn[i] # 0 => r.pc = "scheduled" /\ r.con \in 1..opened[i]
  <2>1. None \in Tmps
    BY DEF Tmps
  <2>2. CASE conn[i] = 0
    BY <1>4, <2>2 DEF PutRec, PutPcs
  <2>3. CASE conn[i] # 0
    <3>1. conn[i] \in 1..opened[i]
      BY <1>4, <2>3
    <3> QED
      BY <1>4, <2>1, <2>3, <3>1 DEF NoPut, PutRec, PutPcs
  <2> QED
    BY <2>2, <2>3
<1>6. put' = [put EXCEPT ![i][k] = r]
  BY <1>1 DEF SubmitPutTask, Kept, BackendTypes
<1> HIDE DEF r
<1>7. /\ put' \in [Instances -> [Keys -> PutRec]] /\ put'[i][k] = r
      /\ \A j \in Instances, l \in Keys : j # i \/ l # k => put'[j][l] = put[j][l]
  BY <1>1, <1>5, <1>6 DEF Kept, BackendTypes
<1>8. /\ refs' \in [Instances -> [Keys -> Int]]
      /\ refs'[i][k] = IF conn[i] = 0 THEN refs[i][k] ELSE refs[i][k] - 1
      /\ \A j \in Instances, l \in Keys : j # i \/ l # k => refs'[j][l] = refs[j][l]
  <2>1. refs' = IF conn[i] = 0 THEN refs ELSE [refs EXCEPT ![i][k] = @ - 1]
    BY DEF SubmitPutTask
  <2> QED
    BY <1>1, <2>1 DEF Kept, BackendTypes
<1>9. KeyKept(i, k)'
  <2>1. Storing(i, k) /\ put[i][k].pc = "none" /\ (kind # "sentinel" => k \in hot[i] /\ refs[i][k] = 3)
    <3>1. Storing(i, k)
      BY <1>1 DEF Storing, Started
    <3>2. put[i][k].pc = "none" /\ (kind # "sentinel" => k \in hot[i] /\ refs[i][k] = Claims(i, k))
      BY <1>1, <3>1 DEF Kept, PutsKeepHot, ObjectRefsExact
    <3> QED
      BY <3>1, <3>2 DEF Claims, Storing, Started
  <2>2. ~Storing(i, k)' /\ put'[i][k].pc = IF conn[i] = 0 THEN "orphan" ELSE "scheduled"
    BY <1>1, <1>3, <1>5, <1>7, IdleRec DEF Storing, Started
  <2>3. Claims(i, k)' = (IF k \in hot[i] THEN 1 ELSE 0) + (IF conn[i] = 0 THEN 2 ELSE 1)
    BY <1>2, <2>2 DEF Claims, Storing, Started
  <2> QED
    BY <1>2, <1>8, <2>1, <2>2, <2>3 DEF KeyKept
<1>10. put'[i][k].pc \notin Ended => put'[i][k].con \in 1..opened[i]
  BY <1>5, <1>7 DEF Ended
<1>11. put'[i][k].pc \in {"orphan", "scheduled"}
  BY <1>5, <1>7
<1>12. hot' \in [Instances -> SUBSET Keys]
  BY <1>2 DEF Kept, BackendTypes
<1> QED
  BY <1>1, <1>2, <1>3, <1>7, <1>8, <1>9, <1>10, <1>11, <1>12, IdleRec DEF StoreStep, Started

\* A call begins, or stores.
LEMMA CallIs ==
  ASSUME Kept, NEW p \in Threads, Call(p)
  PROVE  CallBegins(p) \/ \E k \in Keys : StoreStep(p, k)
<1>1. PICK k \in Keys : Contains(p, k, CreateConnector) \/ GetBlocking(p, k) \/ StorePut(p, k)
  BY DEF Call
<1>2. registry' = registry /\ CreateConnector \in BOOLEAN
  BY DEF Call, evars, CreateConnector
<1> HIDE DEF CreateConnector
<1>3. CASE Contains(p, k, CreateConnector)
  BY <1>2, <1>3, ContainsBegins
<1>4. CASE GetBlocking(p, k)
  BY <1>2, <1>4, GetBegins
<1>5. CASE StorePut(p, k)
  BY <1>2, <1>5, StorePutSteps
<1> QED
  BY <1>1, <1>3, <1>4, <1>5

\* The steps of a call that are not those of a connector.
LEMMA SubmitIs ==
  ASSUME Kept, NEW p \in Threads, AppendTask(p) \/ SubmitPutTask(p), GoOn(p)
  PROVE  (\E k \in Keys : StoreStep(p, k)) /\ UNCHANGED <<remote, evars>> /\ p[1] \in alive
<1>1. UNCHANGED <<remote, evars>> /\ p[1] \in alive
  <2>1. thread[p].pc \in Started /\ p[1] \in alive
    BY DEF AppendTask, SubmitPutTask, Started
  <2>2. ~LmCall(p) /\ ~RedisThread(p) /\ ~FSThread(p) /\ ~BufferThread(p)
    BY <2>1 DEF Started, LmCall, LmExists, LmGet, LmRequest, LmReadFails, LmDecodeFails,
         LmExistsReply, LmGetMiss, LmGetBody, LmGetHit, RedisThread, RedisExists, RedisCallFails,
         RedisGetBytes, RedisGetMetadata, FSThread, FSExists, FSOpenRead, FSReadBody,
         FSReadMetadata, BufferThread, BufferExists, BlackholeGet, MooncakeGet,
         MooncakeGetFails, InfinistoreGet, InfinistoreRead, InfinistoreNoMemory
  <2> QED
    BY <2>1, <2>2 DEF GoOn
<1>2. registry' = registry
  BY <1>1 DEF evars
<1>3. thread[p].key \in Keys
  BY DEF AppendTask, SubmitPutTask, Kept, Connections
<1> QED
  BY <1>1, <1>2, <1>3, AppendSteps, SubmitSteps

\* The steps of the backend keep its part of the invariant.
LEMMA CallKeeps ==
  ASSUME Kept, NEW p \in Threads, Call(p)
  PROVE  Kept'
BY CallIs, CallBeginsKeeps, StoreStepKeeps

LEMMA GoOnKeeps ==
  ASSUME IInv, Kept, NEW p \in Threads, GoOn(p)
  PROVE  Kept'
<1>1. CASE ~AppendTask(p) /\ ~SubmitPutTask(p)
  BY <1>1, GoOnAdvances, AdvanceKeeps
<1>2. CASE AppendTask(p) \/ SubmitPutTask(p)
  BY <1>2, SubmitIs, StoreStepKeeps
<1> QED
  BY <1>1, <1>2

LEMMA OtherStepsKeep ==
  ASSUME Kept, UNCHANGED <<kind, alive, conn, opened, hot, refs, thread, put, registry>>
  PROVE  Kept'
<1>1. BackendTypes' /\ Connections'
  BY DEF Kept, BackendTypes, Connections
<1>2. PutsKeepHot' /\ ObjectRefsExact'
  BY DEF Kept, PutsKeepHot, ObjectRefsExact, Claims, Storing
<1>3. GetsNoPut' /\ AnswersOwnKey'
  BY DEF Kept, GetsNoPut, AnswersOwnKey, OwnBytes, Reading
<1> QED
  BY <1>1, <1>2, <1>3 DEF Kept

\* Who puts the object, or is about to, has a reference.
LEMMA EvictKeeps ==
  ASSUME Kept, NEW i \in Instances, NEW k \in Keys, EvictHot(i, k), registry' = registry
  PROVE  Kept'
<1>1. UNCHANGED <<kind, alive, conn, opened, thread, put, registry>> /\ k \in hot[i] /\ refs[i][k] = 1
  BY DEF EvictHot
<1>2. /\ hot' \in [Instances -> SUBSET Keys] /\ refs' \in [Instances -> [Keys -> Int]]
      /\ k \notin hot'[i] /\ refs'[i][k] = 0
      /\ \A j \in Instances, l \in Keys : j # i \/ l # k =>
           refs'[j][l] = refs[j][l] /\ (l \in hot'[j] <=> l \in hot[j])
  BY DEF EvictHot, Kept, BackendTypes
<1>3. BackendTypes' /\ Connections'
  BY <1>1, <1>2 DEF Kept, BackendTypes, Connections
<1>4. GetsNoPut' /\ AnswersOwnKey'
  BY <1>1 DEF Kept, GetsNoPut, AnswersOwnKey, OwnBytes, Reading
<1>5. ASSUME NEW j \in Instances, NEW l \in Keys PROVE KeyKept(j, l)'
  <2>1. KeyKept(j, l) /\ (Storing(j, l)' <=> Storing(j, l))
    BY <1>1 DEF Kept, PutsKeepHot, ObjectRefsExact, KeyKept, Storing
  <2>2. CASE j # i \/ l # k
    <3>1. Claims(j, l)' = Claims(j, l)
      BY <1>1, <1>2, <2>2 DEF Claims
    <3> QED
      BY <1>1, <1>2, <2>1, <2>2, <3>1 DEF KeyKept
  <2>3. CASE j = i /\ l = k
    <3>1. kind # "sentinel" => ~Storing(i, k) /\ put[i][k].pc = "none"
      BY <1>1, <2>1, <2>3 DEF KeyKept, Claims, Storing, Started
    <3>2. kind # "sentinel" => Claims(i, k)' = 0
      BY <1>1, <1>2, <3>1 DEF Claims, Storing, Started
    <3> QED
      BY <1>1, <1>2, <2>1, <2>3, <3>1, <3>2 DEF KeyKept, Ended
  <2> QED
    BY <2>2, <2>3
<1>6. PutsKeepHot' /\ ObjectRefsExact'
  BY <1>5 DEF PutsKeepHot, ObjectRefsExact, KeyKept
<1> QED
  BY <1>3, <1>4, <1>6 DEF Kept

\* A process that dies takes its hot cache, calls and puts with it.
LEMMA ProcessDiesKeeps ==
  ASSUME Kept, NEW i \in Instances, ProcessDies(i)
  PROVE  Kept'
<1>1. UNCHANGED <<kind, conn, opened, registry>> /\ alive' \subseteq Instances
  BY DEF ProcessDies, Kept, BackendTypes
<1>2. /\ thread' \in [Threads -> ThreadRec]
      /\ \A q \in Threads : thread'[q] = IF q[1] = i THEN Idle ELSE thread[q]
  BY IdleRec DEF ProcessDies, Kept, BackendTypes
<1>3. /\ put' \in [Instances -> [Keys -> PutRec]]
      /\ \A j \in Instances, k \in Keys : put'[j][k] = IF j = i THEN NoPut ELSE put[j][k]
  <2>1. NoPut \in PutRec
    <3>1. None \in Tmps
      BY DEF Tmps
    <3> QED
      BY <3>1 DEF NoPut, PutRec, PutPcs
  <2> QED
    BY <2>1 DEF ProcessDies, Kept, BackendTypes
<1>4. /\ hot' \in [Instances -> SUBSET Keys] /\ refs' \in [Instances -> [Keys -> Int]]
      /\ \A j \in Instances : hot'[j] = IF j = i THEN {} ELSE hot[j]
      /\ \A j \in Instances, k \in Keys : refs'[j][k] = IF j = i THEN 0 ELSE refs[j][k]
  BY DEF ProcessDies, Kept, BackendTypes
<1>5. BackendTypes'
  BY <1>1, <1>2, <1>3, <1>4 DEF Kept, BackendTypes
<1>6. Connections'
  <2>1. \A j \in Instances : conn'[j] <= opened'[j]
    BY <1>1 DEF Kept, Connections
  <2>2. ASSUME NEW q \in Threads
        PROVE  /\ thread'[q].pc # "idle" \/ thread'[q].got # None => thread'[q].key \in Keys
               /\ thread'[q].pc \notin Started \cup {"idle"} \/ thread'[q].got # None =>
                    thread'[q].con \in 1..opened'[q[1]]
               /\ thread'[q].got # None => thread'[q].pc = "idle"
               /\ thread'[q].pc \in Started => q[2] = "eng"
    <3>1. CASE q[1] = i
      BY <1>2, <3>1, IdleRec DEF Started
    <3>2. CASE q[1] # i
      BY <1>1, <1>2, <3>2 DEF Kept, Connections
    <3> QED
      BY <3>1, <3>2
  <2>3. \A j \in Instances, k \in Keys : put'[j][k].pc \notin Ended => put'[j][k].con \in 1..opened'[j]
    BY <1>1, <1>3 DEF Kept, Connections, NoPut, Ended
  <2> QED
    BY <2>1, <2>2, <2>3 DEF Connections
<1>7. ASSUME NEW j \in Instances, NEW k \in Keys PROVE KeyKept(j, k)'
  <2>1. KeyKept(j, k) /\ EngineOf(j) \in Threads /\ EngineOf(j)[1] = j
    BY EngineIs DEF Kept, PutsKeepHot, ObjectRefsExact, KeyKept
  <2>2. CASE j # i
    <3>1. (Storing(j, k)' <=> Storing(j, k)) /\ Claims(j, k)' = Claims(j, k)
      BY <1>2, <1>3, <1>4, <2>1, <2>2 DEF Storing, Claims, EngineOf
    <3> QED
      BY <1>1, <1>3, <1>4, <2>1, <2>2, <3>1 DEF KeyKept
  <2>3. CASE j = i
    <3>1. ~Storing(j, k)' /\ put'[j][k].pc = "none"
      BY <1>2, <1>3, <2>1, <2>3, IdleRec DEF Storing, EngineOf, Started, NoPut
    <3>2. Claims(j, k)' = 0
      BY <1>4, <2>3, <3>1 DEF Claims, Storing, Started
    <3> QED
      BY <1>4, <2>3, <3>1, <3>2 DEF KeyKept, Ended
  <2> QED
    BY <2>2, <2>3
<1>8. PutsKeepHot' /\ ObjectRefsExact'
  BY <1>7 DEF PutsKeepHot, ObjectRefsExact, KeyKept
<1>9. GetsNoPut'
  <2> SUFFICES ASSUME NEW q \in Threads, Reading(q)'
               PROVE  q[2] = "eng" /\ (kind' = "audit" => put'[q[1]][thread'[q].key].pc \in Ended)
    BY DEF GetsNoPut
  <2>1. q[1] # i /\ thread'[q] = thread[q]
    BY <1>2, IdleRec DEF Reading, Getting
  <2>2. q[1] \in Instances /\ thread[q].key \in Keys
    BY <2>1, ThreadIs DEF Kept, Connections, Reading, Getting
  <2> QED
    BY <1>1, <1>3, <2>1, <2>2 DEF Kept, GetsNoPut, Reading
<1>10. AnswersOwnKey'
  BY <1>1, <1>2, IdleRec DEF Kept, AnswersOwnKey, OwnBytes
<1> QED
  BY <1>5, <1>6, <1>8, <1>9, <1>10 DEF Kept

\* Every step keeps the backend's part.
LEMMA NextKeeps ==
  ASSUME IInv, Next
  PROVE  Kept'
<1>0. Kept
  BY DEF IInv, Types, Kept
<1>1. ASSUME NEW p \in Threads, Call(p) \/ GoOn(p) PROVE Kept'
  BY <1>0, <1>1, CallKeeps, GoOnKeeps
<1>2. ASSUME NEW i \in Instances, Backend(i) PROVE Kept'
  <2>1. CASE Elapse(i)
    BY <1>0, <1>2, <2>1, OtherStepsKeep DEF Elapse, Backend, evars
  <2>2. ASSUME NEW k \in Keys, EvictHot(i, k) PROVE Kept'
    BY <1>0, <1>2, <2>2, EvictKeeps DEF Backend, evars
  <2> QED
    BY <1>2, <2>1, <2>2 DEF Backend
<1>3. ASSUME NEW i \in Instances, Serve(i) PROVE Kept'
  BY <1>0, <1>3, OtherStepsKeep DEF Serve, HandleClient, bvars
<1>4. ASSUME NEW i \in Instances, ProcessDies(i) PROVE Kept'
  BY <1>0, <1>4, ProcessDiesKeeps
<1>5. ASSUME NEW i \in Instances, NEW k \in Keys, RunPut(i, k) PROVE Kept'
  BY <1>0, <1>5, RunPutMoves, PutMovesKeep
<1>6. CASE Outside
  BY <1>0, <1>6, OtherStepsKeep
     DEF Outside, ServerDies, ServerStarts, RedisEvicts, MemoryReused, AbandonedDone, bvars
<1> QED
  BY <1>1, <1>2, <1>3, <1>4, <1>5, <1>6 DEF Next

\* The connector stays the one that was configured.
LEMMA KindStays ==
  ASSUME IInv, Next
  PROVE  kind' = kind
<1>1. ASSUME NEW p \in Threads, Call(p) PROVE kind' = kind
  BY <1>1 DEF Call, Contains, GetBlocking, StorePut, bvars
<1>2. ASSUME NEW p \in Threads, GoOn(p) PROVE kind' = kind
  <2>1. CASE AppendTask(p) \/ SubmitPutTask(p)
    BY <2>1 DEF AppendTask, SubmitPutTask
  <2> QED
    BY <1>2, <2>1, GoOnAdvances DEF Advance
<1>3. ASSUME NEW i \in Instances, Backend(i) \/ Serve(i) \/ ProcessDies(i) PROVE kind' = kind
  BY <1>3 DEF Backend, Elapse, EvictHot, Serve, HandleClient, ProcessDies, bvars
<1>4. ASSUME NEW i \in Instances, NEW k \in Keys, RunPut(i, k) PROVE kind' = kind
  BY <1>4, RunPutMoves DEF PutMoves
<1>5. CASE Outside
  BY <1>5 DEF Outside, ServerDies, ServerStarts, RedisEvicts, MemoryReused, AbandonedDone, bvars
<1> QED
  BY <1>1, <1>2, <1>3, <1>4, <1>5 DEF Next
-----------------------------------------------------------------------------
(* What the stores hold *)

\* What may be stored under a key; the steps that change what is stored; those
\* that change what a dead process leaves under way.
Values(k) == {x \in Stored : Keyed(x, k)}

RemoteMoves ==
  \/ remote' = remote
  \/ \E k \in Keys, m \in Stored : remote' = [remote EXCEPT ![k].meta = m]
  \/ \E k \in Keys : \E x \in Values(k) : remote' = [remote EXCEPT ![k].body = x]
  \/ \E k \in Keys, m \in Stored : \E x \in Values(k) :
       remote' = [remote EXCEPT ![k] = [meta |-> m, body |-> x]]
  \/ remote' = [k \in Keys |-> [meta |-> None, body |-> None]]

AbandonedMoves ==
  \/ abandoned' = abandoned
  \/ \E i \in Instances, k \in Keys : \E x \in Values(k) :
       abandoned' = [abandoned EXCEPT ![i][k] = x]
  \/ \E i \in Instances : abandoned' = [abandoned EXCEPT ![i] = [k \in Keys |-> None]]

LEMMA ValuesAre ==
  /\ \A k \in Keys : None \in Values(k)
  /\ \A i \in Instances, k \in Keys : Chunk(i, k) \in Values(k) /\ Chunk(i, k) \in Stored
  /\ None \in Stored /\ Garbage \in Stored
BY DEF Values, Keyed, Own, Chunk, Stored, Bytes

LEMMA MovesKeepKeys ==
  ASSUME StoreTypes, StoreKeyed, kind' = kind, RemoteMoves, AbandonedMoves
  PROVE  /\ StoreKeyed' /\ remote' \in [Keys -> [meta : Stored, body : Stored]]
         /\ abandoned' \in [Instances -> [Keys -> Stored]]
<1>1. /\ remote' \in [Keys -> [meta : Stored, body : Stored]]
      /\ \A k \in Keys : Keyed(remote'[k].body, k)
  <2>1. CASE remote' = remote
    BY <2>1 DEF StoreTypes, StoreKeyed
  <2>2. ASSUME NEW k \in Keys, NEW m \in Stored, remote' = [remote EXCEPT ![k].meta = m]
        PROVE  <1>1!1 /\ <1>1!2
    BY <2>2 DEF StoreTypes, StoreKeyed
  <2>3. ASSUME NEW k \in Keys, NEW x \in Values(k), remote' = [remote EXCEPT ![k].body = x]
        PROVE  <1>1!1 /\ <1>1!2
    BY <2>3 DEF StoreTypes, StoreKeyed, Values
  <2>4. ASSUME NEW k \in Keys, NEW m \in Stored, NEW x \in Values(k),
               remote' = [remote EXCEPT ![k] = [meta |-> m, body |-> x]]
        PROVE  <1>1!1 /\ <1>1!2
    BY <2>4 DEF StoreTypes, StoreKeyed, Values
  <2>5. CASE remote' = [k \in Keys |-> [meta |-> None, body |-> None]]
    BY <2>5, ValuesAre DEF Values
  <2> QED
    BY <2>1, <2>2, <2>3, <2>4, <2>5 DEF RemoteMoves
<1>2. /\ abandoned' \in [Instances -> [Keys -> Stored]]
      /\ \A i \in Instances, k \in Keys : Keyed(abandoned'[i][k], k)
  <2>1. CASE abandoned' = abandoned
    BY <2>1 DEF StoreTypes, StoreKeyed
  <2>2. ASSUME NEW i \in Instances, NEW k \in Keys, NEW x \in Values(k),
               abandoned' = [abandoned EXCEPT ![i][k] = x]
        PROVE  <1>2!1 /\ <1>2!2
    BY <2>2 DEF StoreTypes, StoreKeyed, Values
  <2>3. ASSUME NEW i \in Instances, abandoned' = [abandoned EXCEPT ![i] = [k \in Keys |-> None]]
        PROVE  <1>2!1 /\ <1>2!2
    BY <2>3, ValuesAre DEF StoreTypes, StoreKeyed, Values
  <2> QED
    BY <2>1, <2>2, <2>3 DEF AbandonedMoves
<1> QED
  BY <1>1, <1>2 DEF StoreKeyed, Keyed

\* The server of lm:// stores a put under its key.
LEMMA LmMovesRemote ==
  ASSUME IInv, kind = "lm", NEW i \in Instances, NEW c \in 1..MaxConnections, HandleClient(i, c)
  PROVE  RemoteMoves
<1> DEFINE m == Head(chan[i][c].out)
<1>1. CASE ServePut(i, c)
  <2>1. chan[i][c].out \in Seq(Requests) /\ chan[i][c].out # <<>>
    BY DEF IInv, Types, LmTypes, Socket, HandleClient
  <2>2. m = chan[i][c].out[1] /\ 1 \in 1..Len(chan[i][c].out) /\ m \in Requests
    BY <2>1
  <2>3. m.key \in Keys /\ m.data \in Stored /\ Own(m.data, m.key)
    BY <2>2 DEF IInv, LmInv, OwnPuts, Requests, Stored
  <2>4. remote' = [remote EXCEPT ![m.key] = [meta |-> Chunk(i, m.key), body |-> m.data]]
    BY <1>1 DEF ServePut
  <2>5. m.data \in Values(m.key) /\ Chunk(i, m.key) \in Stored
    BY <2>3, ValuesAre DEF Values, Keyed
  <2>6. \E k \in Keys, e \in Stored : \E x \in Values(k) :
          remote' = [remote EXCEPT ![k] = [meta |-> e, body |-> x]]
    <3> HIDE DEF m
    <3> QED
      BY <2>3, <2>4, <2>5
  <2> QED
    BY <2>6 DEF RemoteMoves
<1>2. CASE ServeExist(i, c) \/ ServeGet(i, c)
  BY <1>2 DEF ServeExist, ServeGet, RemoteMoves
<1> QED
  BY <1>1, <1>2 DEF HandleClient

LEMMA PutMovesRemote ==
  ASSUME IInv, NEW i \in Instances, NEW k \in Keys, RunPut(i, k)
  PROVE  RemoteMoves /\ AbandonedMoves
<1> USE ValuesAre
<1>1. CASE kind = "lm" /\ LmPut(i, k) /\ UNCHANGED bufvars
  BY <1>1 DEF LmPut, RemoteMoves, AbandonedMoves, bufvars
<1>2. CASE RedisPut(i, k) /\ UNCHANGED bufvars
  BY <1>2 DEF RedisPut, RedisPutMetadata, RedisPutBytes, RedisPutFails, RemoteMoves, AbandonedMoves, bufvars
<1>3. CASE FSPut(i, k) /\ UNCHANGED bufvars
  BY <1>3 DEF FSPut, RemoteMoves, AbandonedMoves, bufvars
<1>4. CASE BufferPut(i, k)
  <2>1. CASE MooncakePutTimesOut(i, k)
    BY <2>1 DEF MooncakePutTimesOut, RemoteMoves, AbandonedMoves
  <2>2. CASE MooncakePutDone(i, k) \/ InfinistoreWritten(i, k)
    BY <2>2 DEF MooncakePutDone, InfinistoreWritten, StoreAll, RemoteMoves, AbandonedMoves, bufvars
  <2>3. CASE BlackholePut(i, k) \/ MooncakePutStart(i, k) \/ InfinistorePut(i, k)
    BY <2>3 DEF BlackholePut, MooncakePutStart, InfinistorePut, RemoteMoves, AbandonedMoves, bufvars
  <2> QED
    BY <1>4, <2>1, <2>2, <2>3 DEF BufferPut
<1> QED
  BY <1>1, <1>2, <1>3, <1>4 DEF RunPut

LEMMA GoOnMovesRemote ==
  ASSUME IInv, NEW p \in Threads, GoOn(p)
  PROVE  RemoteMoves /\ AbandonedMoves
<1>1. CASE UNCHANGED <<remote, bufvars>>
  BY <1>1 DEF RemoteMoves, AbandonedMoves, bufvars
<1>2. CASE LmCall(p) /\ UNCHANGED bufvars
  BY <1>1, <1>2 DEF LmCall, LmExists, LmGet, LmRequest, LmReadFails, LmDecodeFails,
     LmExistsReply, LmGetMiss, LmGetBody, LmGetHit
<1>3. CASE RedisThread(p) /\ UNCHANGED bufvars
  <2>1. CASE RedisGetBytes(p)
    <3>1. thread[p].key \in Keys
      BY <2>1 DEF RedisGetBytes, IInv, Connections
    <3> QED
      BY <1>3, <2>1, <3>1, ValuesAre DEF RedisGetBytes, RemoteMoves, AbandonedMoves, bufvars
  <2>2. CASE ~RedisGetBytes(p)
    BY <1>1, <1>3, <2>2 DEF RedisThread, RedisExists, RedisCallFails, RedisGetMetadata
  <2> QED
    BY <2>1, <2>2
<1>4. CASE FSThread(p) /\ UNCHANGED bufvars
  BY <1>1, <1>4 DEF FSThread
<1>5. CASE BufferThread(p)
  BY <1>5 DEF BufferThread, BufferExists, BlackholeGet, MooncakeGet, MooncakeGetFails,
     InfinistoreGet, InfinistoreRead, InfinistoreNoMemory, RemoteMoves, AbandonedMoves, bufvars
<1> QED
  BY <1>1, <1>2, <1>3, <1>4, <1>5 DEF GoOn, evars

\* Every step keeps each value under its own key.
LEMMA StoresKeyed ==
  ASSUME IInv, Next
  PROVE  /\ StoreKeyed' /\ remote' \in [Keys -> [meta : Stored, body : Stored]]
         /\ abandoned' \in [Instances -> [Keys -> Stored]]
<1>1. SUFFICES RemoteMoves /\ AbandonedMoves
  BY <1>1, KindStays, MovesKeepKeys DEF IInv, Types
<1>2. CASE UNCHANGED <<remote, evars>>
  BY <1>2 DEF RemoteMoves, AbandonedMoves, evars, bufvars
<1>3. ASSUME NEW p \in Threads, Call(p) \/ GoOn(p) PROVE RemoteMoves /\ AbandonedMoves
  BY <1>2, <1>3, GoOnMovesRemote DEF Call
<1>4. ASSUME NEW i \in Instances, Backend(i) PROVE RemoteMoves /\ AbandonedMoves
  BY <1>2, <1>4 DEF Backend
<1>5. ASSUME NEW i \in Instances, Serve(i) PROVE RemoteMoves /\ AbandonedMoves
  BY <1>5, LmMovesRemote DEF Serve, AbandonedMoves, bufvars
<1>6. ASSUME NEW i \in Instances, ProcessDies(i) PROVE RemoteMoves /\ AbandonedMoves
  BY <1>6 DEF ProcessDies, RemoteMoves, AbandonedMoves
<1>7. ASSUME NEW i \in Instances, NEW k \in Keys, RunPut(i, k) PROVE RemoteMoves /\ AbandonedMoves
  BY <1>7, PutMovesRemote
<1>8. CASE Outside
  <2>1. CASE (ServerDies \/ ServerStarts) /\ UNCHANGED bufvars
    BY <2>1 DEF ServerDies, ServerStarts, RemoteMoves, AbandonedMoves, bufvars
  <2>2. ASSUME NEW k \in Keys, RedisEvicts(k), UNCHANGED bufvars PROVE RemoteMoves /\ AbandonedMoves
    BY <2>2, ValuesAre DEF RedisEvicts, RemoteMoves, AbandonedMoves, bufvars
  <2>3. ASSUME kind = "mooncake", NEW i \in Instances, NEW k \in Keys, MemoryReused(i, k)
        PROVE  RemoteMoves /\ AbandonedMoves
    <3>1. Garbage \in Values(k)
      BY <2>3, ValuesAre DEF Values, Keyed
    <3> QED
      BY <2>3, <3>1 DEF MemoryReused, RemoteMoves, AbandonedMoves
  <2>4. ASSUME NEW i \in Instances, NEW k \in Keys, AbandonedDone(i, k)
        PROVE  RemoteMoves /\ AbandonedMoves
    <3>1. abandoned[i][k] \in Values(k) /\ abandoned[i][k] \in Stored
      BY DEF IInv, Types, StoreTypes, StoreKeyed, Values
    <3> QED
      BY <2>4, <3>1, ValuesAre DEF AbandonedDone, StoreAll, RemoteMoves, AbandonedMoves
  <2> QED
    BY <1>8, <2>1, <2>2, <2>3, <2>4 DEF Outside
<1> QED
  BY <1>3, <1>4, <1>5, <1>6, <1>7, <1>8 DEF Next
-----------------------------------------------------------------------------
(* The files of fs:// *)

FileReads == {"fileOpen", "fileBody"}

\* No file gets to be of another key, and what is written is of the file's key.
LEMMA FilesStay ==
  ASSUME FilesKeyed, kind = "fs", kind' = "fs",
         \A i \in Instances, k \in Keys : put'[i][k].pc \in FSWriting => put'[i][k].tmp \in Files,
         \A p \in Threads : thread'[p].pc \in FileReads => thread'[p].tmp \in Files,
         \A f \in Files, k \in Keys : Uses(f, k)' => Uses(f, k) /\ Own(content'[f].body, k)
  PROVE  FilesKeyed'
BY DEF FilesKeyed, FileReads, Own, Bytes

\* A step of a call, or the end of one.
LEMMA CallsKeepFiles ==
  ASSUME IInv, kind' = kind, UNCHANGED fsvars,
         \A i \in Instances, k \in Keys : put'[i][k] = put[i][k] \/ put'[i][k].pc \notin FSWriting,
         kind = "fs" => \A p \in Threads :
           \/ thread'[p] = thread[p] \/ thread'[p].pc \notin FileReads
           \/ thread'[p].tmp \in Files /\ Uses(thread'[p].tmp, thread'[p].key)
  PROVE  FilesKeyed'
<1> SUFFICES ASSUME kind = "fs" PROVE FilesKeyed'
  BY DEF FilesKeyed
<1> USE DEF IInv
<1>1. \A i \in Instances, k \in Keys : put'[i][k].pc \in FSWriting => put'[i][k].tmp \in Files
  BY DEF FilesKeyed
<1>2. \A p \in Threads : thread'[p].pc \in FileReads => thread'[p].tmp \in Files
  BY DEF FilesKeyed, FileReads
<1>3. ASSUME NEW f \in Files, NEW k \in Keys, Uses(f, k)'
      PROVE  Uses(f, k) /\ Own(content'[f].body, k)
  <2>1. Uses(f, k)
    <3>1. CASE f \in {temp[k], final[k]}
      BY <3>1 DEF Uses
    <3>2. ASSUME NEW i \in Instances, put'[i][k].pc \in FSWriting, put'[i][k].tmp = f
          PROVE  Uses(f, k)
      BY <3>2 DEF Uses
    <3>3. ASSUME NEW p \in Threads, thread'[p].pc \in FileReads, thread'[p].tmp = f, thread'[p].key = k
          PROVE  Uses(f, k)
      <4>1. CASE thread'[p] = thread[p]
        BY <3>3, <4>1 DEF Uses, FileReads
      <4>2. CASE Uses(thread'[p].tmp, thread'[p].key)
        BY <3>3, <4>2
      <4> QED
        BY <3>3, <4>1, <4>2
    <3> QED
      BY <1>3, <3>1, <3>2, <3>3 DEF Uses, fsvars, FileReads
  <2> QED
    BY <2>1 DEF FilesKeyed, fsvars
<1> QED
  BY <1>1, <1>2, <1>3, FilesStay DEF FilesKeyed

\* The end of a call leaves the files alone.
LEMMA AnswerEnds ==
  ASSUME BackendTypes, NEW p \in Threads, NEW a, Answer(p, a)
  PROVE  thread'[p].pc = "idle" /\ \A q \in Threads : q # p => thread'[q] = thread[q]
<1>1. thread[p] \in ThreadRec
  BY DEF BackendTypes
<1>2. CASE a \in {None, Found}
  BY <1>2 DEF Answer, BackendTypes, Idle
<1>3. CASE a \notin {None, Found}
  BY <1>1, <1>3 DEF Answer, BackendTypes, ThreadRec
<1> QED
  BY <1>2, <1>3

\* A get of fs:// opens the file at the path of its key, which stays the key's when
\* a put renames another one over it.
LEMMA FSThreadKeepsFiles ==
  ASSUME IInv, kind = "fs", NEW p \in Threads, FSThread(p)
  PROVE  FilesKeyed'
<1> USE DEF IInv, Types
<1>1. kind' = kind /\ put' = put /\ UNCHANGED fsvars
  BY DEF FSThread, bvars
<1>2. thread[p] \in ThreadRec
  BY DEF BackendTypes
<1>3. /\ \A q \in Threads : q # p => thread'[q] = thread[q]
      /\ \/ thread'[p].pc \notin FileReads
         \/ thread'[p].tmp \in Files /\ Uses(thread'[p].tmp, thread'[p].key)
  <2>1. ASSUME NEW a, Answer(p, a) PROVE <1>3!1 /\ <1>3!2
    BY <2>1, AnswerEnds DEF FileReads
  <2>2. CASE FSExists(p) \/ FSReadBody(p)
    BY <2>1, <2>2 DEF FSExists, FSReadBody
  <2>3. CASE FSOpenRead(p)
    <3> DEFINE f == final[thread[p].key]
    <3>1. thread[p].key \in Keys
      BY <2>3 DEF FSOpenRead, Connections
    <3>2. CASE f = 0
      BY <2>1, <2>3, <3>2 DEF FSOpenRead
    <3>3. CASE f # 0
      <4>1. f \in Files
        BY <3>1, <3>3 DEF StoreTypes
      <4>2. Uses(f, thread[p].key)
        BY DEF Uses
      <4>3. thread' = [thread EXCEPT ![p] = [thread[p] EXCEPT !.pc = "fileOpen", !.tmp = f]]
        BY <2>3, <3>3 DEF FSOpenRead, Hold
      <4>4. thread'[p].tmp = f /\ thread'[p].key = thread[p].key
        BY <1>2, <4>3 DEF BackendTypes, ThreadRec
      <4> QED
        BY <4>1, <4>2, <4>3, <4>4 DEF BackendTypes
    <3> QED
      BY <3>2, <3>3
  <2>4. ASSUME NEW a \in BOOLEAN, FSReadMetadata(p, a) PROVE <1>3!1 /\ <1>3!2
    <3>1. CASE Answer(p, None)
      BY <2>1, <3>1
    <3>2. CASE Goto(p, "fileBody")
      <4>1. thread[p].tmp \in Files /\ Uses(thread[p].tmp, thread[p].key)
        BY <2>4 DEF FSReadMetadata, FilesKeyed, Uses
      <4>2. thread'[p].tmp = thread[p].tmp /\ thread'[p].key = thread[p].key
        BY <1>2, <3>2 DEF Goto, BackendTypes, ThreadRec
      <4>3. \A q \in Threads : q # p => thread'[q] = thread[q]
        BY <3>2 DEF Goto, BackendTypes
      <4> QED
        BY <4>1, <4>2, <4>3
    <3> QED
      BY <2>4, <3>1, <3>2 DEF FSReadMetadata
  <2> QED
    BY <2>2, <2>3, <2>4 DEF FSThread
<1> QED
  BY <1>1, <1>3, CallsKeepFiles

\* A put of fs:// takes a file that nobody uses.
LEMMA FSPutKeepsFiles ==
  ASSUME IInv, kind = "fs", NEW i \in Instances, NEW k \in Keys, FSPut(i, k)
  PROVE  /\ FilesKeyed'
         /\ temp' \in [Keys -> Files \cup {0}] /\ final' \in [Keys -> Files \cup {0}]
         /\ content' \in [Files -> [meta : Stored, body : Stored]]
<1> USE DEF IInv, Types
<1>1. kind' = kind /\ thread' = thread
  BY DEF FSPut, FSOpenWrite, FSWriteMetadata, FSWriteBody, FSReplace, FSWriteFails, FinishPut, bvars
<1>2. put[i][k] \in PutRec /\ put \in [Instances -> [Keys -> PutRec]]
  BY DEF BackendTypes
<1>3. \A p \in Threads : thread'[p].pc \in FileReads => thread'[p].tmp \in Files
  BY <1>1 DEF FilesKeyed, FileReads
<1>4. Chunk(i, k) \in Stored /\ Own(Chunk(i, k), k) /\ None \in Stored /\ Own(None, k)
  BY ValuesAre DEF Own, Chunk, Bytes
<1>5. CASE FSOpenWrite(i, k)
  <2>1. PICK f \in Files :
          /\ IF temp[k] = 0 THEN Free(f) ELSE f = temp[k]
          /\ temp' = [temp EXCEPT ![k] = f] /\ content' = [content EXCEPT ![f] = Empty]
          /\ PutStep(i, k, "opened", f)
    BY <1>5 DEF FSOpenWrite
  <2>2. final' = final
    BY <1>5 DEF FSOpenWrite
  <2> DEFINE r == [put[i][k] EXCEPT !.pc = "opened", !.tmp = f]
  <2>3. put' = [put EXCEPT ![i][k] = r] /\ r.tmp = f
    BY <1>2, <2>1 DEF PutStep, PutRec
  <2> HIDE DEF r
  <2>4. put'[i][k].tmp = f /\ \A j \in Instances, l \in Keys : j # i \/ l # k => put'[j][l] = put[j][l]
    BY <1>2, <2>3
  <2>5. /\ temp' \in [Keys -> Files \cup {0}] /\ temp'[k] = f
        /\ \A l \in Keys : l # k => temp'[l] = temp[l]
    BY <2>1 DEF StoreTypes
  <2>6. /\ content' \in [Files -> [meta : Stored, body : Stored]] /\ content'[f].body = None
        /\ \A g \in Files : g # f => content'[g] = content[g]
    BY <1>4, <2>1 DEF StoreTypes, Empty
  <2>7. \A l \in Keys : Uses(f, l) => l = k
    <3>1. CASE temp[k] = 0
      BY <2>1, <3>1 DEF Free, OpenBy, Uses
    <3>2. CASE temp[k] # 0
      <4>1. Uses(f, k)
        BY <2>1, <3>2 DEF Uses
      <4> QED
        BY <4>1 DEF FilesKeyed
    <3> QED
      BY <3>1, <3>2
  <2>8. \A g \in Files, l \in Keys : Uses(g, l)' => Uses(g, l) \/ (g = f /\ l = k)
    BY <1>1, <2>2, <2>4, <2>5 DEF Uses
  <2>9. \A j \in Instances, l \in Keys : put'[j][l].pc \in FSWriting => put'[j][l].tmp \in Files
    BY <2>4 DEF FilesKeyed
  <2>10. ASSUME NEW g \in Files, NEW l \in Keys, Uses(g, l)'
         PROVE  Own(content'[g].body, l) /\ \A m \in Keys : Uses(g, m)' => l = m
    <3>1. CASE g = f
      BY <1>4, <2>6, <2>7, <2>8, <2>10, <3>1 DEF Own
    <3>2. CASE g # f
      BY <2>6, <2>8, <2>10, <3>2 DEF FilesKeyed
    <3> QED
      BY <3>1, <3>2
  <2>11. FilesKeyed'
    BY <1>1, <1>3, <2>9, <2>10 DEF FilesKeyed, FileReads, Own, Bytes
  <2> QED
    BY <2>2, <2>5, <2>6, <2>11 DEF StoreTypes
<1>6. CASE FSWriteMetadata(i, k) \/ FSWriteBody(i, k)
  <2>1. PICK l \in {"metaWritten", "bodyWritten"} : put' = [put EXCEPT ![i][k].pc = l]
    BY <1>6 DEF FSWriteMetadata, FSWriteBody
  <2> DEFINE f == put[i][k].tmp
  <2>2. put[i][k].pc \in FSWriting /\ f \in Files /\ Uses(f, k)
    BY <1>6 DEF FSWriteMetadata, FSWriteBody, FSWriting, FilesKeyed, Uses
  <2>3. put'[i][k].tmp = f /\ \A j \in Instances, m \in Keys : j # i \/ m # k => put'[j][m] = put[j][m]
    BY <1>2, <2>1 DEF PutRec
  <2>4. UNCHANGED <<temp, final>>
    BY <1>6 DEF FSWriteMetadata, FSWriteBody
  <2>5. /\ content' \in [Files -> [meta : Stored, body : Stored]]
        /\ content'[f].body \in {content[f].body, Chunk(i, k)}
        /\ \A g \in Files : g # f => content'[g] = content[g]
    <3>1. CASE content' = [content EXCEPT ![f].meta = Chunk(i, k)]
      BY <1>4, <2>2, <3>1 DEF StoreTypes
    <3>2. CASE content' = [content EXCEPT ![f].body = Chunk(i, k)]
      BY <1>4, <2>2, <3>2 DEF StoreTypes
    <3> QED
      BY <1>6, <3>1, <3>2 DEF FSWriteMetadata, FSWriteBody
  <2>6. \A g \in Files, m \in Keys : Uses(g, m)' => Uses(g, m)
    BY <1>1, <2>2, <2>3, <2>4 DEF Uses
  <2>7. \A g \in Files, m \in Keys : Uses(g, m) => Own(content'[g].body, m)
    <3> SUFFICES ASSUME NEW g \in Files, NEW m \in Keys, Uses(g, m) PROVE Own(content'[g].body, m)
      OBVIOUS
    <3>1. CASE g # f
      BY <2>5, <3>1 DEF FilesKeyed
    <3>2. CASE g = f
      <4>1. m = k /\ Own(content[f].body, k)
        BY <2>2, <3>2 DEF FilesKeyed
      <4> QED
        BY <1>4, <2>5, <3>2, <4>1
    <3> QED
      BY <3>1, <3>2
  <2>8. \A j \in Instances, m \in Keys : put'[j][m].pc \in FSWriting => put'[j][m].tmp \in Files
    BY <2>2, <2>3 DEF FilesKeyed
  <2>9. FilesKeyed'
    BY <1>1, <1>3, <2>6, <2>7, <2>8, FilesStay
  <2> QED
    BY <2>4, <2>5, <2>9 DEF StoreTypes
<1>7. CASE FSReplace(i, k) \/ FSWriteFails(i, k)
  <2>1. put' = [put EXCEPT ![i][k] = NoPut] /\ temp' = [temp EXCEPT ![k] = 0] /\ content' = content
    BY <1>7 DEF FSReplace, FSWriteFails, FinishPut
  <2>2. \A j \in Instances, m \in Keys : put'[j][m] = put[j][m] \/ put'[j][m].pc = "none"
    BY <1>2, <2>1 DEF NoPut
  <2>3. /\ temp' \in [Keys -> Files \cup {0}] /\ \A m \in Keys : temp'[m] \in {temp[m], 0}
    BY <2>1 DEF StoreTypes
  <2>4. /\ final' \in [Keys -> Files \cup {0}]
        /\ \A m \in Keys : final'[m] \in {temp[m], final[m]}
    BY <1>7 DEF FSReplace, FSWriteFails, StoreTypes
  <2>5. \A g \in Files : g # 0
    BY DEF Files
  <2>6. \A g \in Files, m \in Keys : Uses(g, m)' => Uses(g, m)
    BY <1>1, <2>2, <2>3, <2>4, <2>5 DEF Uses, FSWriting
  <2>7. \A j \in Instances, m \in Keys : put'[j][m].pc \in FSWriting => put'[j][m].tmp \in Files
    BY <2>2 DEF FilesKeyed, FSWriting
  <2>8. \A g \in Files, m \in Keys : Uses(g, m)' => Uses(g, m) /\ Own(content'[g].body, m)
    BY <2>1, <2>6 DEF FilesKeyed
  <2>9. FilesKeyed'
    BY <1>1, <1>3, <2>7, <2>8, FilesStay
  <2> QED
    BY <2>1, <2>3, <2>4, <2>9 DEF StoreTypes
<1> QED
  BY <1>5, <1>6, <1>7 DEF FSPut

LEMMA StoreStepKeepsFiles ==
  ASSUME IInv, NEW p \in Threads, NEW k \in Keys, StoreStep(p, k), UNCHANGED fsvars
  PROVE  FilesKeyed'
<1>1. \A j \in Instances, l \in Keys : put'[j][l] = put[j][l] \/ put'[j][l].pc \notin FSWriting
  BY DEF StoreStep, FSWriting
<1>2. \A q \in Threads : thread'[q] = thread[q] \/ thread'[q].pc \notin FileReads
  BY DEF StoreStep, Rest, Started, FileReads
<1> QED
  BY <1>1, <1>2, CallsKeepFiles DEF StoreStep

LEMMA ThreadsKeepFiles ==
  ASSUME IInv, NEW p \in Threads, Call(p) \/ GoOn(p)
  PROVE  FilesKeyed' /\ UNCHANGED fsvars
<1>0. Kept
  BY DEF IInv, Types, Kept
<1>1. CASE UNCHANGED fsvars /\ \E k \in Keys : StoreStep(p, k)
  BY <1>1, StoreStepKeepsFiles
<1>2. CASE UNCHANGED fsvars /\ CallBegins(p)
  <2>1. \A q \in Threads : thread'[q] = thread[q] \/ thread'[q].pc \notin FileReads
    BY <1>2 DEF CallBegins, Rest, FileReads
  <2> QED
    BY <1>2, <2>1, CallsKeepFiles DEF CallBegins
<1>3. CASE Call(p)
  BY <1>0, <1>1, <1>2, <1>3, CallIs DEF Call, evars, fsvars
<1>4. CASE GoOn(p) /\ (AppendTask(p) \/ SubmitPutTask(p))
  BY <1>0, <1>1, <1>4, SubmitIs DEF evars, fsvars
<1>5. CASE GoOn(p) /\ ~AppendTask(p) /\ ~SubmitPutTask(p)
  <2>1. kind' = kind /\ put' = put
    BY <1>5, GoOnAdvances DEF Advance
  <2>2. CASE kind = "fs"
    BY <1>5, <2>2, FSThreadKeepsFiles DEF GoOn, FSThread, RedisKinds, BufferKinds
  <2>3. CASE kind # "fs"
    BY <1>5, <2>1, <2>3, CallsKeepFiles DEF GoOn
  <2> QED
    BY <2>2, <2>3
<1> QED
  BY <1>3, <1>4, <1>5

\* Every step keeps each file to one key.
LEMMA FilesStayKeyed ==
  ASSUME IInv, Next
  PROVE  /\ FilesKeyed'
         /\ temp' \in [Keys -> Files \cup {0}] /\ final' \in [Keys -> Files \cup {0}]
         /\ content' \in [Files -> [meta : Stored, body : Stored]]
<1> USE KindStays
<1>1. CASE FilesKeyed' /\ UNCHANGED fsvars
  BY <1>1 DEF IInv, Types, StoreTypes, fsvars
<1>2. CASE UNCHANGED <<thread, put, fsvars>>
  BY <1>1, <1>2, CallsKeepFiles
<1>3. ASSUME NEW p \in Threads, Call(p) \/ GoOn(p) PROVE FilesKeyed' /\ UNCHANGED fsvars
  BY <1>3, ThreadsKeepFiles
<1>4. ASSUME NEW i \in Instances, Backend(i) \/ Serve(i) PROVE UNCHANGED <<thread, put, fsvars>>
  BY <1>4 DEF Backend, Elapse, EvictHot, Serve, HandleClient, evars, fsvars
<1>5. ASSUME NEW i \in Instances, ProcessDies(i) PROVE FilesKeyed' /\ UNCHANGED fsvars
  <2>1. UNCHANGED fsvars
    BY <1>5 DEF ProcessDies
  <2>2. \A q \in Threads : thread'[q] = thread[q] \/ thread'[q].pc \notin FileReads
    BY <1>5, IdleRec DEF ProcessDies, FileReads, IInv, Types, BackendTypes
  <2>3. \A j \in Instances, l \in Keys : put'[j][l] = put[j][l] \/ put'[j][l].pc \notin FSWriting
    BY <1>5 DEF ProcessDies, FSWriting, IInv, Types, BackendTypes, NoPut
  <2> QED
    BY <2>1, <2>2, <2>3, CallsKeepFiles
<1>6. ASSUME NEW i \in Instances, NEW k \in Keys, RunPut(i, k)
      PROVE  \/ FilesKeyed' /\ UNCHANGED fsvars
             \/ kind = "fs" /\ FSPut(i, k)
  <2>1. CASE kind = "fs"
    BY <1>6, <2>1 DEF RunPut, RedisKinds, BufferKinds
  <2>2. CASE kind # "fs"
    BY <1>6, <2>2 DEF RunPut, FilesKeyed
  <2> QED
    BY <2>1, <2>2
<1>7. CASE Outside
  BY <1>1, <1>7 DEF Outside, ServerDies, ServerStarts, RedisEvicts, MemoryReused, AbandonedDone, fsvars,
     FilesKeyed, RedisKinds
<1> QED
  BY <1>1, <1>2, <1>3, <1>4, <1>5, <1>6, <1>7, FSPutKeepsFiles DEF Next
-----------------------------------------------------------------------------
(* What a socket's streams are after they were written or read *)

\* Aligned, step by step.
LEMMA AlignedIs ==
  ASSUME NEW s, NEW k
  PROVE  /\ Aligned(s, "idle", None) <=> (Stale(s) \/ (s.in = <<>> /\ OnlyPuts(s.out)))
         /\ Aligned(s, "existsReply", k) <=>
              \/ Stale(s)
              \/ Lost(s)
              \/ (s.in = <<>> /\ Pending(s.out, "EXIST", k))
              \/ (s.out = <<>> /\ \E h \in BOOLEAN : s.in = <<Header(h, 0)>>)
         /\ Aligned(s, "header", k) <=>
              \/ Stale(s)
              \/ Lost(s)
              \/ (s.in = <<>> /\ Pending(s.out, "GET", k))
              \/ (s.out = <<>> /\ s.in = <<Miss>>)
              \/ (s.out = <<>> /\ \E b \in Bytes : b.key = k /\ s.in = <<Hit, Body(b)>>)
              \/ (s.out = <<>> /\ s.in = <<Hit>> /\ s.st = "closed")
         /\ Aligned(s, "body", k) <=>
              \/ Lost(s)
              \/ (s.out = <<>> /\ \E b \in Bytes : b.key = k /\ s.in = <<Body(b)>>)
BY DEF Aligned

\* A request is sent behind puts.
LEMMA OutAppend ==
  ASSUME NEW out \in Seq(Requests), NEW m \in Requests, OwnPuts(out), Own(m.data, m.key)
  PROVE  /\ Append(out, m) \in Seq(Requests) /\ OwnPuts(Append(out, m))
         /\ OnlyPuts(out) => Pending(Append(out, m), m.op, m.key)
         /\ OnlyPuts(out) /\ m.op = "PUT" => OnlyPuts(Append(out, m))
<1>1. /\ Append(out, m) \in Seq(Requests) /\ Append(out, m) # <<>>
      /\ Len(Append(out, m)) = Len(out) + 1 /\ Append(out, m)[Len(out) + 1] = m
      /\ \A n \in 1..Len(out) : Append(out, m)[n] = out[n]
      /\ Len(out) \in Nat
  OBVIOUS
<1>2. \A n \in 1..(Len(out) + 1) : n = Len(out) + 1 \/ n \in 1..Len(out)
  BY <1>1
<1> QED
  BY <1>1, <1>2 DEF OwnPuts, OnlyPuts, Pending

\* t is out without its first request, h.
FollowsFrom(t, h, out) ==
  /\ t \in Seq(Requests) /\ Len(t) = Len(out) - 1 /\ Len(out) > 0
  /\ \A n \in 1..Len(t) : t[n] = out[n + 1]
  /\ h = out[1] /\ h \in Requests

LEMMA TailFollows ==
  ASSUME NEW out \in Seq(Requests), out # <<>>
  PROVE  FollowsFrom(Tail(out), Head(out), out)
<1>1. Head(out) = out[1] /\ Len(out) > 0
  BY EmptySeq
<1> QED
  BY <1>1, HeadTailProperties DEF FollowsFrom

\* The server takes a put off the stream, or the one request that is answered.
LEMMA OutTail ==
  ASSUME NEW out \in Seq(Requests), OwnPuts(out), NEW t, NEW h, FollowsFrom(t, h, out)
  PROVE  /\ t \in Seq(Requests) /\ OwnPuts(t) /\ h \in Requests /\ Own(h.data, h.key)
         /\ OnlyPuts(out) => OnlyPuts(t) /\ h.op = "PUT"
         /\ \A op \in {"GET", "EXIST"}, k \in Keys : Pending(out, op, k) =>
              \/ h.op = "PUT" /\ Pending(t, op, k)
              \/ h.op = op /\ h.key = k /\ t = <<>>
<1>1. /\ t \in Seq(Requests) /\ Len(t) = Len(out) - 1 /\ Len(out) \in Nat /\ Len(out) > 0
      /\ \A n \in 1..Len(t) : t[n] = out[n + 1]
      /\ h = out[1] /\ h \in Requests
  BY DEF FollowsFrom
<1>2. (Len(out) = 1 => t = <<>>) /\ (Len(out) # 1 => t # <<>>)
  BY <1>1, EmptySeq
<1>3. \A n \in 1..Len(t) : n + 1 \in 1..Len(out) /\ (n + 1 = Len(out) => n = Len(t))
  BY <1>1
<1>4. OwnPuts(t) /\ Own(h.data, h.key)
  BY <1>1, <1>3 DEF OwnPuts
<1>5. OnlyPuts(out) => OnlyPuts(t) /\ h.op = "PUT"
  BY <1>1, <1>3 DEF OnlyPuts
<1>6. ASSUME NEW op \in {"GET", "EXIST"}, NEW k \in Keys, Pending(out, op, k)
      PROVE  \/ h.op = "PUT" /\ Pending(t, op, k)
             \/ h.op = op /\ h.key = k /\ t = <<>>
  <2>1. CASE Len(out) = 1
    BY <1>1, <1>2, <1>6, <2>1 DEF Pending
  <2>2. CASE Len(out) # 1
    <3>1. Len(t) \in 1..Len(t) /\ Len(t) + 1 = Len(out) /\ 1 \in 1..Len(out)
      BY <1>1, <2>2
    <3>2. h.op = "PUT"
      BY <1>1, <1>2, <1>6, <2>2, <3>1 DEF Pending
    <3>3. t[Len(t)] = out[Len(out)]
      BY <1>1, <3>1
    <3>4. \A n \in 1..Len(t) : n # Len(t) => t[n].op = "PUT"
      BY <1>1, <1>3, <1>6 DEF Pending
    <3> QED
      BY <1>2, <1>6, <2>2, <3>2, <3>3, <3>4 DEF Pending
  <2> QED
    BY <2>1, <2>2
<1> QED
  BY <1>1, <1>4, <1>5, <1>6

\* What a process that died leaves of its last request has no wrong key.
LEMMA OutCutOff ==
  ASSUME NEW out \in Seq(Requests)
  PROVE  CutOff(out) \in Seq(Requests) /\ (OwnPuts(out) => OwnPuts(CutOff(out)))
<1>1. CASE out = <<>> \/ out[Len(out)].op # "PUT"
  BY <1>1 DEF CutOff
<1>2. CASE ~(out = <<>> \/ out[Len(out)].op # "PUT")
  <2> DEFINE e == [out[Len(out)] EXCEPT !.data = None]
  <2>1. Len(out) \in 1..Len(out) /\ out[Len(out)] \in Requests
    BY <1>2
  <2>2. e \in Requests /\ Own(e.data, e.key)
    BY <2>1 DEF Requests, Own
  <2>3. CutOff(out) = [out EXCEPT ![Len(out)] = e]
    BY <1>2 DEF CutOff
  <2> HIDE DEF e
  <2>4. /\ CutOff(out) \in Seq(Requests) /\ Len(CutOff(out)) = Len(out)
        /\ \A n \in 1..Len(out) : CutOff(out)[n] = IF n = Len(out) THEN e ELSE out[n]
    BY <2>1, <2>2, <2>3
  <2> QED
    BY <2>2, <2>4 DEF OwnPuts
<1> QED
  BY <1>1, <1>2

OtherSockets(i, c) ==
  /\ chan' \in [Instances -> [1..MaxConnections -> Socket]]
  /\ \A j \in Instances, d \in 1..MaxConnections : j # i \/ d # c => chan'[j][d] = chan[j][d]

\* A socket's type, and the other sockets'.
LEMMA SocketIs ==
  ASSUME LmTypes, NEW i \in Instances, NEW c \in 1..MaxConnections, NEW s \in Socket,
         chan' = [chan EXCEPT ![i][c] = s]
  PROVE  OtherSockets(i, c) /\ chan'[i][c] = s
BY DEF LmTypes, OtherSockets

\* The effect of Send.
LEMMA SendIs ==
  ASSUME LmTypes, NEW i \in Instances, NEW c \in 1..MaxConnections, NEW m \in Requests, Send(i, c, m)
  PROVE  /\ OtherSockets(i, c) /\ chan'[i][c].out = Append(chan[i][c].out, m)
         /\ chan'[i][c].in = chan[i][c].in /\ chan'[i][c].st = chan[i][c].st
<1>0. chan[i][c] \in Socket
  BY DEF LmTypes
<1>1. chan[i][c] \in Socket /\ Append(chan[i][c].out, m) \in Seq(Requests)
  BY <1>0 DEF Socket
<1> DEFINE s == [chan[i][c] EXCEPT !.out = Append(@, m)]
<1>2. s \in Socket /\ s.out = Append(chan[i][c].out, m) /\ s.in = chan[i][c].in /\ s.st = chan[i][c].st
  BY <1>1 DEF Socket
<1>3. chan' = [chan EXCEPT ![i][c] = s]
  BY DEF Send, LmTypes
<1> HIDE DEF s
<1> QED
  BY <1>2, <1>3, SocketIs

TakeFrom(i, c) == chan' = [chan EXCEPT ![i][c].in = Tail(@)]

\* The effect of reading a cell.
LEMMA TakeIs ==
  ASSUME LmTypes, NEW i \in Instances, NEW c \in 1..MaxConnections, chan[i][c].in # <<>>,
         TakeFrom(i, c)
  PROVE  /\ OtherSockets(i, c) /\ chan'[i][c].in = Tail(chan[i][c].in)
         /\ chan'[i][c].out = chan[i][c].out /\ chan'[i][c].st = chan[i][c].st
<1>0. chan[i][c] \in Socket
  BY DEF LmTypes
<1>1. PICK s : s = [chan[i][c] EXCEPT !.in = Tail(@)]
  OBVIOUS
<1>2. s \in Socket /\ s.in = Tail(chan[i][c].in) /\ s.out = chan[i][c].out /\ s.st = chan[i][c].st
  <2>1. Tail(chan[i][c].in) \in Seq(Cells)
    BY <1>0, HeadTailProperties DEF Socket
  <2> QED
    BY <1>0, <1>1, <2>1 DEF Socket
<1>3. chan' = [chan EXCEPT ![i][c] = s]
  BY <1>1 DEF LmTypes, TakeFrom
<1>4. OtherSockets(i, c) /\ chan'[i][c] = s
  BY <1>2, <1>3, SocketIs
<1> QED
  BY <1>2, <1>4
-----------------------------------------------------------------------------
(* The calls of lm:// *)

\* What is there for a thread that waits, and for one that does not.
Expects(s, th) ==
  IF th.pc \in Waiting THEN Aligned(s, th.pc, th.key) /\ (th.pc = "body" => th.tmp = 1)
  ELSE Aligned(s, "idle", None)

\* The step of a call on its socket, which keeps the two of them aligned.
LmMoves(p, c) ==
  /\ p[1] \in alive /\ Rest(p) /\ UNCHANGED <<kind, alive, opened>>
  /\ conn' = conn \/ conn' = [conn EXCEPT ![p[1]] = 0]
  /\ c = thread[p].con /\ c \in 1..opened[p[1]]
  /\ thread[p].pc \in Waiting \/ busy[p[1]] = None
  /\ OtherSockets(p[1], c) /\ OwnPuts(chan'[p[1]][c].out)
  /\ busy' = [busy EXCEPT ![p[1]] = IF thread'[p].pc \in Waiting THEN p ELSE None]
  /\ thread'[p].pc \in Waiting => thread'[p].con = c
  /\ conn' = conn /\ c = conn[p[1]] => Expects(chan'[p[1]][c], thread'[p])

\* Such a step keeps LmInv.
LEMMA LmMovesKeep ==
  ASSUME IInv, kind = "lm", NEW p \in Threads, NEW c \in Nat, LmMoves(p, c)
  PROVE  LmTypes' /\ LmInv'
<1> DEFINE i == p[1]
<1> USE DEF IInv, Types
<1>1. i \in Instances /\ p \in Threads /\ c \in 1..MaxConnections /\ kind' = "lm"
      /\ \A q \in Threads : q # p => thread'[q] = thread[q]
  BY ThreadIs, RemoteAssumption DEF LmMoves, BackendTypes, Rest
<1>2. LmTypes'
  BY DEF LmMoves, OtherSockets, LmTypes
<1>3. \A q \in Threads : q # p /\ q[1] = i => thread[q].pc \notin Waiting
  BY ValuesDiffer DEF LmMoves, LmInv
<1>4. \A q \in Threads : thread'[q].pc \in Waiting => busy'[q[1]] = q
  <2> SUFFICES ASSUME NEW q \in Threads, thread'[q].pc \in Waiting PROVE busy'[q[1]] = q
    OBVIOUS
  <2>1. CASE q = p
    BY <1>1, <2>1 DEF LmMoves, LmTypes
  <2>2. CASE q # p
    <3>1. q[1] # i /\ busy[q[1]] = q /\ q[1] \in Instances
      BY <1>1, <1>3, <2>2, ThreadIs DEF LmInv
    <3> QED
      BY <1>1, <3>1 DEF LmMoves, LmTypes
  <2> QED
    BY <2>1, <2>2
<1>5. \A q \in Threads : q[1] \notin alive' => thread'[q].pc = "idle"
  BY <1>1 DEF LmMoves, LmInv
<1>6. ASSUME NEW j \in Instances, j \in alive PROVE Streamed(j)'
  <2>0. Streamed(j) /\ opened' = opened
    BY <1>6 DEF LmInv, LmMoves
  <2>1. \A d \in 1..MaxConnections : d > opened[j] => chan'[j][d] = NewSocket
    <3> SUFFICES ASSUME NEW d \in 1..MaxConnections, d > opened[j] PROVE chan'[j][d] = NewSocket
      OBVIOUS
    <3>1. j # i \/ d # c
      BY RemoteAssumption DEF LmMoves, BackendTypes
    <3> QED
      BY <2>0, <3>1 DEF LmMoves, OtherSockets, Streamed
  <2>2. SUFFICES ASSUME NEW o, o = conn'[j], o # 0
                 PROVE  /\ \A q \in Threads : Waits(q, j, o)' => Expects(chan'[j][o], thread'[q])
                        /\ (\A q \in Threads : ~Waits(q, j, o)') => Aligned(chan'[j][o], "idle", None)
    <3> SUFFICES ASSUME conn'[j] # 0
                 PROVE  /\ \A q \in Threads : Waits(q, j, conn[j])' =>
                             /\ Aligned(chan'[j][conn'[j]], thread'[q].pc, thread'[q].key)
                             /\ thread'[q].pc = "body" => thread'[q].tmp = 1
                        /\ (\A q \in Threads : ~Waits(q, j, conn[j])') =>
                             Aligned(chan'[j][conn'[j]], "idle", None)
      BY <2>0, <2>1 DEF Streamed
    <3> QED
      BY <2>2 DEF Expects, Waits
  <2>3. o = conn[j] /\ o \in 1..MaxConnections
    <3>1. conn'[j] = conn[j] \/ conn'[j] = 0
      BY DEF LmMoves, BackendTypes
    <3>2. conn[j] \in Nat /\ opened[j] \in 1..MaxConnections /\ conn[j] <= opened[j]
      BY DEF BackendTypes, Connections
    <3> QED
      BY <2>2, <3>1, <3>2, RemoteAssumption
  <2>4. /\ \A q \in Threads : Waits(q, j, o) => Expects(chan[j][o], thread[q])
        /\ (\A q \in Threads : ~Waits(q, j, o)) => Aligned(chan[j][o], "idle", None)
    BY <2>0, <2>2, <2>3 DEF Streamed, Expects, Waits
  <2>5. CASE j # i
    <3>1. \A q \in Threads : (Waits(q, j, o)' <=> Waits(q, j, o)) /\ (Waits(q, j, o) => thread'[q] = thread[q])
      BY <1>1, <2>5 DEF Waits
    <3>2. chan'[j][o] = chan[j][o]
      BY <2>3, <2>5 DEF LmMoves, OtherSockets
    <3> QED
      BY <2>4, <3>1, <3>2
  <2>6. CASE j = i /\ o # c
    <3>1. \A q \in Threads : ~Waits(q, j, o)
      BY <1>3, <2>6 DEF LmMoves, Waits
    <3>2. \A q \in Threads : ~Waits(q, j, o)'
      <4> SUFFICES ASSUME NEW q \in Threads PROVE ~Waits(q, j, o)'
        OBVIOUS
      <4>1. CASE q = p
        BY <2>6, <4>1 DEF LmMoves, Waits
      <4>2. CASE q # p
        BY <1>1, <3>1, <4>2 DEF Waits
      <4> QED
        BY <4>1, <4>2
    <3>3. chan'[j][o] = chan[j][o]
      BY <2>3, <2>6 DEF LmMoves, OtherSockets
    <3> QED
      BY <2>4, <3>1, <3>2, <3>3
  <2>7. CASE j = i /\ o = c
    <3>1. conn' = conn
      BY <1>1, <2>2, <2>7 DEF LmMoves, BackendTypes
    <3>2. Expects(chan'[j][o], thread'[p])
      BY <2>3, <2>7, <3>1 DEF LmMoves
    <3>3. \A q \in Threads : Waits(q, j, o)' => q = p
      BY <1>1, <1>3, <2>7 DEF Waits
    <3>4. thread'[p].pc \in Waiting => Waits(p, j, o)'
      BY <2>7 DEF LmMoves, Waits
    <3> QED
      BY <3>2, <3>3, <3>4 DEF Expects
  <2> QED
    BY <2>5, <2>6, <2>7
<1>7. \A j \in Instances, d \in 1..MaxConnections : OwnPuts(chan'[j][d].out)
  <2> SUFFICES ASSUME NEW j \in Instances, NEW d \in 1..MaxConnections PROVE OwnPuts(chan'[j][d].out)
    OBVIOUS
  <2>1. CASE j = i /\ d = c
    BY <2>1 DEF LmMoves
  <2>2. CASE j # i \/ d # c
    BY <2>2 DEF LmMoves, OtherSockets, LmInv
  <2> QED
    BY <2>1, <2>2
<1>8. alive' = alive
  BY DEF LmMoves
<1>9. \A j \in Instances : j \in alive' => Streamed(j)'
  BY <1>6, <1>8
<1>10. \A j \in Instances, d \in 1..MaxConnections : OwnPuts(chan[j][d].out)'
  BY <1>7 DEF OwnPuts, Own, Bytes
<1>11. LmInv'
  BY <1>4, <1>5, <1>9, <1>10 DEF LmInv
<1> QED
  BY <1>2, <1>11

\* The steps of an lm:// call are such steps.
LEMMA LmCallMoves ==
  ASSUME IInv, kind = "lm", NEW p \in Threads, LmCall(p), registry' = registry
  PROVE  \E c \in Nat : LmMoves(p, c)
<1> USE DEF IInv, Types
<1>1. Advance(p)
  BY LmAdvances
<1>2. /\ thread[p].pc \notin Started \cup {"idle"} /\ Rest(p) /\ UNCHANGED <<kind, alive, opened>>
      /\ conn' = conn \/ conn' = [conn EXCEPT ![p[1]] = 0]
      /\ thread'[p].pc \in Waiting => thread'[p].con = thread[p].con /\ thread'[p].key = thread[p].key
  BY <1>1, IdleRec DEF Advance, Continues, Returns, Waiting
<1>3. PICK c \in 1..MaxConnections :
        /\ c = thread[p].con /\ c \in 1..opened[p[1]] /\ p[1] \in Instances
        /\ Sock(p) = chan[p[1]][c] /\ chan[p[1]][c] \in Socket /\ Sock(p) \in Socket
  BY <1>2, SockIs
<1>4. PICK i \in Instances : i = p[1] /\ i \in alive /\ c \in Nat
  BY <1>2, <1>3 DEF LmInv
<1>5. PICK k : k = thread[p].key /\ k \in Keys
  BY <1>2, KeyOf
<1>6. conn[i] \in Nat /\ conn \in [Instances -> Nat] /\ busy \in [Instances -> Threads \cup {None}]
  BY DEF BackendTypes, LmTypes
<1>7. OwnPuts(chan[i][c].out) /\ chan[i][c].in \in Seq(Cells) /\ chan[i][c].out \in Seq(Requests)
      /\ (chan' = chan => OtherSockets(i, c))
  <2>1. OwnPuts(chan[i][c].out)
    BY DEF LmInv
  <2>2. chan[i][c].in \in Seq(Cells) /\ chan[i][c].out \in Seq(Requests)
    BY <1>3, <1>4 DEF Socket
  <2> QED
    BY <2>1, <2>2 DEF OtherSockets, LmTypes
<1>8. ASSUME thread[p].pc \in Waiting \/ busy[i] = None,
             OtherSockets(i, c), OwnPuts(chan'[i][c].out),
             busy' = [busy EXCEPT ![i] = IF thread'[p].pc \in Waiting THEN p ELSE None],
             conn' = conn /\ c = conn[i] => Expects(chan'[i][c], thread'[p])
      PROVE  LmMoves(p, c)
  BY <1>2, <1>3, <1>4, <1>8 DEF LmMoves
<1> SUFFICES LmMoves(p, c)
  BY <1>4
<1>9. conn' = conn /\ c = conn[i] /\ thread[p].pc \in Waiting =>
        Aligned(chan[i][c], thread[p].pc, k) /\ (thread[p].pc = "body" => thread[p].tmp = 1)
  BY <1>3, <1>4, <1>5, WaitsAligned
<1>10. ASSUME NEW a, Answer(p, a) PROVE thread'[p].pc = "idle" /\ thread'[p].pc \notin Waiting
  BY <1>10, AnswerEnds DEF Waiting
<1>11. CASE LmExists(p) \/ LmGet(p)
  <2>1. PICK op \in {"EXIST", "GET"}, l \in {"existsReply", "header"} :
          /\ op = "EXIST" <=> l = "existsReply"
          /\ busy[i] = None /\ Send(i, c, Request(op, k, None))
          /\ busy' = [busy EXCEPT ![i] = p] /\ Goto(p, l)
    BY <1>3, <1>4, <1>5, <1>11 DEF LmExists, LmGet, LmRequest
  <2>2. thread'[p].pc = l /\ thread'[p].key = k
    BY <1>5, <2>1, ThreadIs DEF Goto, BackendTypes, ThreadRec
  <2> DEFINE m == Request(op, k, None)
  <2>3. m \in Requests /\ Own(m.data, m.key) /\ m.op = op /\ m.key = k
    BY <1>5, <2>1 DEF Request, Requests, Own
  <2>4. Send(i, c, m)
    BY <2>1
  <2> HIDE DEF m
  <2>5. /\ OtherSockets(i, c) /\ chan'[i][c].out = Append(chan[i][c].out, m)
        /\ chan'[i][c].in = chan[i][c].in
    BY <2>3, <2>4, SendIs
  <2>6. OwnPuts(chan'[i][c].out)
        /\ (OnlyPuts(chan[i][c].out) => Pending(chan'[i][c].out, op, k))
    BY <1>7, <2>3, <2>5, OutAppend
  <2>7. conn' = conn /\ c = conn[i] => Expects(chan'[i][c], thread'[p])
    <3> SUFFICES ASSUME c = conn[i] PROVE Expects(chan'[i][c], thread'[p])
      OBVIOUS
    <3>1. \A q \in Threads : ~Waits(q, i, conn[i])
      BY <2>1, ValuesDiffer DEF Waits, LmInv
    <3>2. Aligned(chan[i][c], "idle", None)
      <4>1. Streamed(i) /\ conn[i] # 0
        BY <1>4 DEF LmInv
      <4> QED
        BY <3>1, <4>1 DEF Streamed
    <3>3. Stale(chan[i][c]) \/ (chan[i][c].in = <<>> /\ OnlyPuts(chan[i][c].out))
      BY <3>2, AlignedIs
    <3>4. Aligned(chan'[i][c], l, k)
      <4>1. Stale(chan'[i][c]) \/ (chan'[i][c].in = <<>> /\ Pending(chan'[i][c].out, op, k))
        BY <2>5, <2>6, <3>3 DEF Stale
      <4>2. CASE op = "EXIST"
        BY <2>1, <4>1, <4>2, AlignedIs
      <4>3. CASE op = "GET"
        BY <2>1, <4>1, <4>3, AlignedIs
      <4> QED
        BY <4>2, <4>3
    <3> QED
      BY <2>1, <2>2, <3>4 DEF Expects, Waiting
  <2> QED
    BY <1>8, <2>1, <2>2, <2>5, <2>6, <2>7 DEF Waiting
<1>12. CASE LmReadFails(p)
  <2>1. conn' = [conn EXCEPT ![i] = 0] /\ Answer(p, None) /\ chan' = chan
        /\ busy' = [busy EXCEPT ![i] = None] /\ (thread[p].pc \in Waiting \/ busy[i] = None)
    BY <1>4, <1>12 DEF LmReadFails, LoseConnection, Waiting
  <2>2. ~(conn' = conn /\ c = conn[i])
    BY <1>3, <1>6, <2>1
  <2> QED
    BY <1>7, <1>8, <1>10, <2>1, <2>2
<1>13. ASSUME chan[i][c].in # <<>>, TakeFrom(i, c)
       PROVE  /\ OtherSockets(i, c) /\ OwnPuts(chan'[i][c].out)
              /\ chan'[i][c].in = Tail(chan[i][c].in) /\ chan'[i][c].out = chan[i][c].out
              /\ chan'[i][c].st = chan[i][c].st
  BY <1>7, <1>13, TakeIs
<1>14. Sock(p) = chan[i][c] /\ (Take(p) <=> TakeFrom(i, c))
  BY <1>3, <1>4 DEF Take, TakeFrom
<1>15. CASE LmDecodeFails(p)
  <2>1. conn' = [conn EXCEPT ![i] = 0] /\ Answer(p, None) /\ chan[i][c].in # <<>> /\ TakeFrom(i, c)
        /\ busy' = [busy EXCEPT ![i] = None] /\ thread[p].pc \in Waiting
    BY <1>4, <1>14, <1>15 DEF LmDecodeFails, LoseConnection, Waiting
  <2>2. ~(conn' = conn /\ c = conn[i])
    BY <1>3, <1>6, <2>1
  <2>3. OtherSockets(i, c) /\ OwnPuts(chan'[i][c].out)
    BY <1>13, <2>1
  <2> QED
    BY <1>8, <1>10, <2>1, <2>2, <2>3
<1>16. ASSUME NEW a, Answer(p, a), thread[p].pc \in Waiting, busy' = [busy EXCEPT ![i] = None],
              OtherSockets(i, c), OwnPuts(chan'[i][c].out),
              c = conn[i] =>
                Stale(chan'[i][c]) \/ (chan'[i][c].in = <<>> /\ chan'[i][c].out = <<>>)
       PROVE  LmMoves(p, c)
  <2>1. thread'[p].pc \notin Waiting
    BY <1>10, <1>16
  <2>2. conn' = conn /\ c = conn[i] => Expects(chan'[i][c], thread'[p])
    <3> SUFFICES ASSUME c = conn[i] PROVE Aligned(chan'[i][c], "idle", None)
      BY <2>1 DEF Expects
    <3>1. chan'[i][c].out = <<>> => OnlyPuts(chan'[i][c].out)
      BY DEF OnlyPuts
    <3> QED
      BY <1>16, <3>1, AlignedIs
  <2> QED
    BY <1>8, <1>16, <2>1, <2>2
<1>17. CASE LmExistsReply(p)
  <2>1. /\ thread[p].pc = "existsReply" /\ chan[i][c].in # <<>> /\ Head(chan[i][c].in).type = "header"
        /\ TakeFrom(i, c) /\ busy' = [busy EXCEPT ![i] = None] /\ conn' = conn
        /\ \E a : Answer(p, a)
    BY <1>4, <1>14, <1>17 DEF LmExistsReply, HeaderArrives, bvars
  <2>2. ASSUME c = conn[i] PROVE Tail(chan[i][c].in) = <<>> /\ chan[i][c].out = <<>>
    <3>1. Aligned(chan[i][c], "existsReply", k)
      BY <1>9, <2>1, <2>2 DEF Waiting
    <3>2. chan[i][c].out = <<>> /\ \E h \in BOOLEAN : chan[i][c].in = <<Header(h, 0)>>
      BY <2>1, <3>1, AlignedIs DEF Stale, Lost
    <3> QED
      BY <3>2
  <2>3. OtherSockets(i, c) /\ OwnPuts(chan'[i][c].out)
        /\ chan'[i][c].in = Tail(chan[i][c].in) /\ chan'[i][c].out = chan[i][c].out
    BY <1>13, <2>1
  <2> QED
    BY <1>16, <2>1, <2>2, <2>3 DEF Waiting
<1>18. ASSUME thread[p].pc = "header", chan[i][c].in # <<>>, Head(chan[i][c].in).type = "header",
              conn' = conn, c = conn[i]
       PROVE  /\ chan[i][c].out = <<>>
              /\ \/ ~Head(chan[i][c].in).hit /\ Tail(chan[i][c].in) = <<>>
                 \/ /\ Head(chan[i][c].in).hit /\ Head(chan[i][c].in).len = 1
                    /\ \/ \E b \in Bytes : b.key = k /\ Tail(chan[i][c].in) = <<Body(b)>>
                       \/ Tail(chan[i][c].in) = <<>> /\ chan[i][c].st = "closed"
  <2>1. /\ chan[i][c].out = <<>>
        /\ \/ chan[i][c].in = <<Miss>>
           \/ \E b \in Bytes : b.key = k /\ chan[i][c].in = <<Hit, Body(b)>>
           \/ chan[i][c].in = <<Hit>> /\ chan[i][c].st = "closed"
    BY <1>9, <1>18, AlignedIs DEF Waiting, Stale, Lost
  <2>2. ~Miss.hit /\ Hit.hit /\ Hit.len = 1
    BY DEF Miss, Hit, Header
  <2>3. ASSUME NEW b \in Bytes, chan[i][c].in = <<Hit, Body(b)>>
        PROVE  Tail(chan[i][c].in) = <<Body(b)>> /\ Head(chan[i][c].in) = Hit
    BY <2>3
  <2>4. chan[i][c].in = <<Hit>> => Tail(chan[i][c].in) = <<>> /\ Head(chan[i][c].in) = Hit
    OBVIOUS
  <2>5. chan[i][c].in = <<Miss>> => Tail(chan[i][c].in) = <<>> /\ Head(chan[i][c].in) = Miss
    OBVIOUS
  <2> QED
    BY <2>1, <2>2, <2>3, <2>4, <2>5
<1>19. CASE LmGetMiss(p)
  <2>1. /\ thread[p].pc = "header" /\ chan[i][c].in # <<>> /\ Head(chan[i][c].in).type = "header"
        /\ ~Head(chan[i][c].in).hit
        /\ TakeFrom(i, c) /\ busy' = [busy EXCEPT ![i] = None] /\ conn' = conn
        /\ Answer(p, None)
    BY <1>4, <1>14, <1>19 DEF LmGetMiss, HeaderArrives, bvars
  <2>2. c = conn[i] => Tail(chan[i][c].in) = <<>> /\ chan[i][c].out = <<>>
    BY <1>18, <2>1
  <2>3. OtherSockets(i, c) /\ OwnPuts(chan'[i][c].out)
        /\ chan'[i][c].in = Tail(chan[i][c].in) /\ chan'[i][c].out = chan[i][c].out
    BY <1>13, <2>1
  <2> QED
    BY <1>16, <2>1, <2>2, <2>3 DEF Waiting
<1>20. ASSUME NEW a \in BOOLEAN, LmGetHit(p, a) PROVE LmMoves(p, c)
  <2>1. /\ thread[p].pc = "header" /\ chan[i][c].in # <<>> /\ Head(chan[i][c].in).type = "header"
        /\ Head(chan[i][c].in).hit /\ TakeFrom(i, c) /\ conn' = conn
        /\ IF a THEN Hold(p, "body", Head(chan[i][c].in).len) /\ busy' = busy
           ELSE Answer(p, None) /\ busy' = [busy EXCEPT ![i] = None]
    BY <1>4, <1>14, <1>20 DEF LmGetHit, HeaderArrives, bvars
  <2>2. c = conn[i] =>
          /\ chan[i][c].out = <<>> /\ Head(chan[i][c].in).len = 1
          /\ \/ \E b \in Bytes : b.key = k /\ Tail(chan[i][c].in) = <<Body(b)>>
             \/ Tail(chan[i][c].in) = <<>> /\ chan[i][c].st = "closed"
    BY <1>18, <2>1
  <2>3. OtherSockets(i, c) /\ OwnPuts(chan'[i][c].out)
        /\ chan'[i][c].in = Tail(chan[i][c].in) /\ chan'[i][c].out = chan[i][c].out
        /\ chan'[i][c].st = chan[i][c].st
    BY <1>13, <2>1
  <2>4. CASE a
    <3>1. busy[i] = p /\ busy' = [busy EXCEPT ![i] = p]
      BY <1>4, <1>6, <2>1, <2>4 DEF LmInv, Waiting
    <3>2. thread'[p].pc = "body" /\ thread'[p].tmp = Head(chan[i][c].in).len /\ thread'[p].key = k
      BY <1>5, <2>1, <2>4, HoldIs
    <3>3. ASSUME c = conn[i] PROVE Expects(chan'[i][c], thread'[p])
      <4>1. \/ \E b \in Bytes : b.key = k /\ chan'[i][c].in = <<Body(b)>>
            \/ chan'[i][c].in = <<>> /\ chan'[i][c].st = "closed"
        BY <2>2, <2>3, <3>3
      <4>2. Aligned(chan'[i][c], "body", k)
        BY <2>2, <2>3, <3>3, <4>1, AlignedIs DEF Lost
      <4> QED
        BY <2>2, <3>2, <3>3, <4>2 DEF Expects, Waiting
    <3> QED
      BY <1>8, <2>1, <2>3, <3>1, <3>2, <3>3 DEF Waiting
  <2>5. CASE ~a
    <3>1. ASSUME NEW b \in Bytes, chan'[i][c].in = <<Body(b)>> PROVE Stale(chan'[i][c])
      BY <3>1 DEF Stale, Body
    <3> QED
      BY <1>16, <2>1, <2>2, <2>3, <2>5, <3>1 DEF Waiting
  <2> QED
    BY <2>4, <2>5
<1>21. CASE LmGetBody(p)
  <2>1. /\ thread[p].pc = "body" /\ busy' = [busy EXCEPT ![i] = None] /\ conn' = conn
        /\ \E a : Answer(p, a)
        /\ \/ thread[p].tmp = 0 /\ chan' = chan
           \/ chan[i][c].in # <<>> /\ TakeFrom(i, c)
           \/ chan[i][c].in = <<>> /\ chan' = chan
    BY <1>4, <1>14, <1>21 DEF LmGetBody, bvars
  <2>2. c = conn[i] => /\ thread[p].tmp = 1 /\ chan[i][c].out = <<>>
                       /\ chan[i][c].in # <<>> => Tail(chan[i][c].in) = <<>>
    <3> SUFFICES ASSUME c = conn[i] PROVE <2>2!2
      OBVIOUS
    <3>1. Aligned(chan[i][c], "body", k) /\ thread[p].tmp = 1
      BY <1>9, <2>1 DEF Waiting
    <3>2. chan[i][c].out = <<>> /\ (chan[i][c].in = <<>> \/ \E b \in Bytes : chan[i][c].in = <<Body(b)>>)
      BY <3>1, AlignedIs DEF Lost
    <3>3. \A b \in Bytes : Tail(<<Body(b)>>) = <<>>
      OBVIOUS
    <3> QED
      BY <3>1, <3>2, <3>3
  <2>3. chan[i][c].in # <<>> /\ TakeFrom(i, c) =>
        OtherSockets(i, c) /\ OwnPuts(chan'[i][c].out)
        /\ chan'[i][c].in = Tail(chan[i][c].in) /\ chan'[i][c].out = chan[i][c].out
    BY <1>13
  <2>4. OtherSockets(i, c) /\ OwnPuts(chan'[i][c].out)
    BY <1>7, <2>1, <2>3
  <2>5. c = conn[i] => chan'[i][c].in = <<>> /\ chan'[i][c].out = <<>>
    <3> SUFFICES ASSUME c = conn[i], thread[p].tmp = 1, chan[i][c].out = <<>>,
                        chan[i][c].in # <<>> => Tail(chan[i][c].in) = <<>>
                 PROVE  chan'[i][c].in = <<>> /\ chan'[i][c].out = <<>>
      BY <2>2
    <3>1. CASE chan[i][c].in # <<>> /\ TakeFrom(i, c)
      BY <2>3, <3>1
    <3>2. CASE chan[i][c].in = <<>> /\ chan' = chan
      BY <3>2
    <3> QED
      BY <2>1, <3>1, <3>2
  <2>6. PICK a : Answer(p, a)
    BY <2>1
  <2> QED
    BY <1>16, <2>1, <2>4, <2>5, <2>6 DEF Waiting
<1> QED
  BY <1>11, <1>12, <1>15, <1>17, <1>19, <1>20, <1>21 DEF LmCall
-----------------------------------------------------------------------------
(* The other steps of lm:// *)

\* Threads that do not wait come and go; a connection may be opened.
LEMMA SocketsStay ==
  ASSUME IInv, kind = "lm", UNCHANGED <<kind, alive, chan, busy>>,
         \A q \in Threads : \/ thread'[q] = thread[q]
                            \/ q[1] \in alive /\ {thread[q].pc, thread'[q].pc} \cap Waiting = {},
         opened' \in [Instances -> 1..MaxConnections],
         \A i \in Instances : /\ opened[i] <= opened'[i] /\ conn'[i] <= opened'[i]
                              /\ conn'[i] = conn[i] \/ (conn'[i] \in Nat /\ conn'[i] > opened[i])
  PROVE  LmTypes' /\ LmInv'
<1> USE DEF IInv, Types
<1>1. LmTypes'
  BY DEF LmTypes
<1>2. \A q \in Threads : thread'[q].pc \in Waiting => thread'[q] = thread[q]
  OBVIOUS
<1>3. \A q \in Threads : thread'[q].pc \in Waiting => busy'[q[1]] = q
  BY <1>2 DEF LmInv
<1>4. \A q \in Threads : q[1] \notin alive' => thread'[q].pc = "idle"
  BY DEF LmInv
<1>5. \A i \in Instances, c \in 1..MaxConnections : OwnPuts(chan[i][c].out)'
  BY DEF LmInv, OwnPuts, Own, Bytes
<1>6. ASSUME NEW i \in Instances, i \in alive PROVE Streamed(i)'
  <2>0. Streamed(i)
    BY <1>6 DEF LmInv
  <2>1. \A c \in 1..MaxConnections : c > opened'[i] => c > opened[i]
    BY RemoteAssumption DEF BackendTypes
  <2>2. \A c \in 1..MaxConnections : c > opened'[i] => chan'[i][c] = NewSocket
    BY <2>0, <2>1 DEF Streamed
  <2>3. \A q \in Threads, c \in Nat : Waits(q, i, c)' <=> Waits(q, i, c)
    BY <1>2 DEF Waits
  <2>4. CASE conn'[i] = conn[i]
    <3>1. PICK o : o = conn[i]
      OBVIOUS
    <3>2. \A q \in Threads : (Waits(q, i, o)' <=> Waits(q, i, o)) /\ (Waits(q, i, o) => thread'[q] = thread[q])
      BY DEF Waits
    <3> QED
      BY <2>0, <2>2, <2>4, <3>1, <3>2 DEF Streamed
  <2>5. CASE conn'[i] # conn[i]
    <3>1. conn'[i] \in 1..MaxConnections /\ conn'[i] > opened[i] /\ conn'[i] \in Nat
      BY <2>5, RemoteAssumption DEF BackendTypes
    <3>2. PICK o \in Nat : o = conn'[i] /\ o > opened[i] /\ o \in 1..MaxConnections
      BY <3>1
    <3>3. \A q \in Threads : ~Waits(q, i, o)'
      <4> SUFFICES ASSUME NEW q \in Threads, Waits(q, i, o) PROVE FALSE
        BY <2>3, <3>2
      <4>1. thread[q].con \in 1..opened[i]
        BY DEF Waits, Waiting, Connections, Started
      <4> QED
        BY <3>2, <4>1, RemoteAssumption DEF Waits, BackendTypes
    <3>4. chan'[i][o] = NewSocket
      BY <2>0, <3>2 DEF Streamed
    <3>5. Aligned(chan'[i][o], "idle", None)
      <4>1. NewSocket.in = <<>> /\ OnlyPuts(NewSocket.out)
        BY DEF NewSocket, OnlyPuts
      <4> QED
        BY <3>4, <4>1, AlignedIs
    <3> QED
      BY <2>2, <3>2, <3>3, <3>5 DEF Streamed
  <2> QED
    BY <2>4, <2>5
<1> QED
  BY <1>1, <1>3, <1>4, <1>5, <1>6 DEF LmInv

\* Sockets are written and read by others than the thread.
LEMMA SocketsMove ==
  ASSUME IInv, kind = "lm", UNCHANGED <<kind, alive, conn, opened, busy, thread>>,
         chan' \in [Instances -> [1..MaxConnections -> Socket]],
         \A i \in Instances, c \in 1..MaxConnections :
           /\ OwnPuts(chan'[i][c].out)
           /\ i \in alive /\ c > opened[i] => chan'[i][c] = chan[i][c],
         \A i \in Instances : i \in alive /\ conn[i] # 0 =>
           \A th \in ThreadRec \cup {Idle} :
             Expects(chan[i][conn[i]], th) =>
               \/ Expects(chan'[i][conn[i]], th)
               \/ th.pc \in Waiting /\ \A q \in Threads : ~Waits(q, i, conn[i])
  PROVE  LmTypes' /\ LmInv'
<1> USE DEF IInv, Types
<1>1. LmTypes'
  BY DEF LmTypes
<1>2. \A i \in Instances, c \in 1..MaxConnections : OwnPuts(chan[i][c].out)'
  BY DEF OwnPuts, Own, Bytes
<1>3. ASSUME NEW i \in Instances, i \in alive PROVE Streamed(i)'
  <2>0. Streamed(i)
    BY <1>3 DEF LmInv
  <2>1. \A c \in 1..MaxConnections : c > opened'[i] => chan'[i][c] = NewSocket
    BY <1>3, <2>0 DEF Streamed
  <2>2. SUFFICES ASSUME NEW o, o = conn[i], o # 0
                 PROVE  /\ \A q \in Threads : Waits(q, i, o)' => Expects(chan'[i][o], thread[q])
                        /\ (\A q \in Threads : ~Waits(q, i, o)') => Aligned(chan'[i][o], "idle", None)
    BY <2>1, <2>2 DEF Streamed, Expects, Waits
  <2>3. \A q \in Threads : (Waits(q, i, o)' <=> Waits(q, i, o)) /\ thread[q] \in ThreadRec
    BY DEF Waits, BackendTypes
  <2>4. ASSUME NEW q \in Threads, Waits(q, i, o) PROVE Expects(chan'[i][o], thread[q])
    <3>1. Expects(chan[i][o], thread[q])
      BY <2>0, <2>2, <2>4 DEF Streamed, Expects, Waits
    <3> QED
      BY <1>3, <2>2, <2>3, <2>4, <3>1
  <2>5. ASSUME \A q \in Threads : ~Waits(q, i, o) PROVE Aligned(chan'[i][o], "idle", None)
    <3>1. Idle.pc \notin Waiting
      BY DEF Idle, Waiting
    <3>2. Expects(chan[i][o], Idle)
      BY <2>0, <2>2, <2>5, <3>1 DEF Streamed, Expects
    <3>3. Expects(chan'[i][o], Idle)
      BY <1>3, <2>2, <3>1, <3>2
    <3> QED
      BY <3>1, <3>3 DEF Expects
  <2> QED
    BY <2>3, <2>4, <2>5
<1> QED
  BY <1>1, <1>2, <1>3 DEF LmInv

\* A put is sent while nobody waits.
LEMMA LmPutStays ==
  ASSUME IInv, kind = "lm", NEW i \in Instances, NEW k \in Keys, LmPut(i, k)
  PROVE  LmTypes' /\ LmInv'
<1> USE DEF IInv, Types
<1>1. /\ UNCHANGED <<kind, alive, conn, opened, busy, thread>> /\ busy[i] = None
      /\ put[i][k].pc = "scheduled"
  BY DEF LmPut, FinishPut
<1>2. \A q \in Threads : q[1] = i => thread[q].pc \notin Waiting
  BY <1>1, ValuesDiffer DEF LmInv
<1>3. CASE chan' = chan
  BY <1>1, <1>3, SocketsStay DEF BackendTypes, Connections
<1>4. CASE chan' # chan
  <2> DEFINE m == Request("PUT", k, Chunk(i, k))
  <2>1. PICK c : c = put[i][k].con
    OBVIOUS
  <2>2. c \in 1..opened[i] /\ c \in 1..MaxConnections /\ Send(i, c, m)
    <3>1. c \in 1..opened[i]
      BY <1>1, <2>1 DEF Connections, Ended
    <3>2. opened[i] \in 1..MaxConnections
      BY DEF BackendTypes
    <3> QED
      BY <1>4, <2>1, <3>1, <3>2, RemoteAssumption DEF LmPut
  <2>3. m \in Requests /\ Own(m.data, m.key) /\ m.op = "PUT"
    BY DEF Request, Requests, Own, Chunk, Bytes
  <2> HIDE DEF m
  <2>4. /\ OtherSockets(i, c) /\ chan'[i][c].out = Append(chan[i][c].out, m)
        /\ chan'[i][c].in = chan[i][c].in /\ chan[i][c] \in Socket
    BY <2>2, <2>3, SendIs DEF LmTypes
  <2>5. OwnPuts(chan[i][c].out) /\ chan[i][c].out \in Seq(Requests)
    BY <2>2, <2>4 DEF LmInv, Socket
  <2>6. OwnPuts(chan'[i][c].out) /\ (OnlyPuts(chan[i][c].out) => OnlyPuts(chan'[i][c].out))
    BY <2>3, <2>4, <2>5, OutAppend
  <2>7. \A j \in Instances, d \in 1..MaxConnections :
          /\ OwnPuts(chan'[j][d].out)
          /\ j \in alive /\ d > opened[j] => chan'[j][d] = chan[j][d]
    <3> SUFFICES ASSUME NEW j \in Instances, NEW d \in 1..MaxConnections
                 PROVE  OwnPuts(chan'[j][d].out) /\ (d > opened[j] => chan'[j][d] = chan[j][d])
      OBVIOUS
    <3>1. CASE j = i /\ d = c
      <4>1. ~(d > opened[j])
        BY <2>2, <3>1, RemoteAssumption DEF BackendTypes
      <4> QED
        BY <2>6, <3>1, <4>1
    <3>2. CASE ~(j = i /\ d = c)
      BY <2>4, <3>2 DEF OtherSockets, LmInv
    <3> QED
      BY <3>1, <3>2
  <2>8. ASSUME NEW j \in Instances, j \in alive, conn[j] # 0, NEW th \in ThreadRec \cup {Idle},
               Expects(chan[j][conn[j]], th)
        PROVE  \/ Expects(chan'[j][conn[j]], th)
               \/ th.pc \in Waiting /\ \A q \in Threads : ~Waits(q, j, conn[j])
    <3>1. conn[j] \in 1..MaxConnections
      <4>1. conn[j] \in Nat /\ opened[j] \in 1..MaxConnections /\ conn[j] <= opened[j]
        BY DEF BackendTypes, Connections
      <4> QED
        BY <2>8, <4>1, RemoteAssumption
    <3>2. CASE j # i \/ conn[j] # c
      BY <2>4, <2>8, <3>1, <3>2 DEF OtherSockets
    <3>3. CASE j = i /\ th.pc \in Waiting
      BY <1>2, <3>3 DEF Waits
    <3>4. CASE j = i /\ conn[j] = c /\ th.pc \notin Waiting
      <4>1. Aligned(chan[i][c], "idle", None)
        BY <2>8, <3>4 DEF Expects
      <4>2. Stale(chan'[i][c]) \/ (chan'[i][c].in = <<>> /\ OnlyPuts(chan'[i][c].out))
        BY <2>4, <2>6, <4>1, AlignedIs DEF Stale
      <4>3. Aligned(chan'[i][c], "idle", None)
        BY <4>2, AlignedIs
      <4> QED
        BY <3>4, <4>3 DEF Expects
    <3> QED
      BY <3>2, <3>3, <3>4
  <2> QED
    BY <1>1, <2>4, <2>7, <2>8, SocketsMove DEF OtherSockets
<1> QED
  BY <1>3, <1>4

\* The server takes a request off the stream and puts its answer, if any, on
\* the other.
Replies(s, r, t, h) ==
  \/ \E cells \in Seq(Cells) :
       /\ r.out = t /\ r.in = s.in \o cells /\ r.st = s.st
       /\ \/ h.op = "PUT" /\ cells = <<>>
          \/ h.op = "EXIST" /\ \E b \in BOOLEAN : cells = <<Header(b, 0)>>
          \/ h.op = "GET" /\ cells = <<Miss>>
          \/ h.op = "GET" /\ \E b \in Bytes : b.key = h.key /\ cells = <<Hit, Body(b)>>
  \/ h.op = "GET" /\ r.out = <<>> /\ r.in = s.in \o <<Hit>> /\ r.st = "closed"

\* The server's answer is what the call expects.
LEMMA RepliesKeep ==
  ASSUME NEW s \in Socket, NEW r \in Socket, OwnPuts(s.out), NEW t, NEW h,
         FollowsFrom(t, h, s.out), Replies(s, r, t, h)
  PROVE  /\ OwnPuts(r.out)
         /\ \A th \in ThreadRec \cup {Idle} : Expects(s, th) => Expects(r, th)
<1>1. s.in \in Seq(Cells) /\ s.out \in Seq(Requests) /\ r.in \in Seq(Cells) /\ r.out \in Seq(Requests)
  BY DEF Socket
<1>2. /\ t \in Seq(Requests) /\ OwnPuts(t) /\ h \in Requests
      /\ OnlyPuts(s.out) => OnlyPuts(t) /\ h.op = "PUT"
      /\ \A op \in {"GET", "EXIST"}, k \in Keys : Pending(s.out, op, k) =>
           \/ h.op = "PUT" /\ Pending(t, op, k)
           \/ h.op = op /\ h.key = k /\ t = <<>>
  BY <1>1, OutTail
<1>3. OwnPuts(r.out)
  BY <1>2 DEF Replies, OwnPuts
<1>4. s.out # <<>>
  BY <1>1 DEF FollowsFrom
<1>5. Stale(s) => Stale(r)
  <2> SUFFICES ASSUME s.in # <<>>, NEW cells \in Seq(Cells), r.in = s.in \o cells
               PROVE  r.in # <<>> /\ Head(r.in) = Head(s.in)
    <3>1. <<Hit>> \in Seq(Cells)
      BY ValuesDiffer DEF Hit, Header, Cells
    <3> QED
      BY <3>1 DEF Stale, Replies
  <2> QED
    BY <1>1
<1>6. \A cells \in Seq(Cells) : s.in = <<>> => s.in \o cells = cells
  OBVIOUS
<1>7. <<Hit>> \in Seq(Cells)
  BY DEF Hit, Header, Cells
<1>8. ASSUME s.in = <<>>, OnlyPuts(s.out) PROVE r.in = <<>> /\ OnlyPuts(r.out)
  BY <1>2, <1>6, <1>8 DEF Replies
<1>9. ASSUME s.in = <<>>, NEW k \in Keys, Pending(s.out, "EXIST", k)
      PROVE  \/ r.in = <<>> /\ Pending(r.out, "EXIST", k)
             \/ r.out = <<>> /\ \E b \in BOOLEAN : r.in = <<Header(b, 0)>>
  BY <1>2, <1>6, <1>9 DEF Replies
<1>10. ASSUME s.in = <<>>, NEW k \in Keys, Pending(s.out, "GET", k)
       PROVE  \/ r.in = <<>> /\ Pending(r.out, "GET", k)
              \/ r.out = <<>> /\ r.in = <<Miss>>
              \/ r.out = <<>> /\ \E b \in Bytes : b.key = k /\ r.in = <<Hit, Body(b)>>
              \/ r.out = <<>> /\ r.in = <<Hit>> /\ r.st = "closed"
  BY <1>2, <1>6, <1>7, <1>10 DEF Replies
<1>11. ASSUME NEW op, NEW k, Pending(s.out, op, k) PROVE k \in Keys
  <2>1. s.out # <<>> => Len(s.out) \in 1..Len(s.out)
    BY <1>1
  <2>2. s.out[Len(s.out)] \in Requests
    BY <1>1, <1>11, <2>1 DEF Pending
  <2> QED
    BY <1>11, <2>2 DEF Pending, Requests
<1>12. ASSUME NEW th \in ThreadRec \cup {Idle}, Expects(s, th) PROVE Expects(r, th)
  <2>1. CASE th.pc \notin Waiting
    BY <1>5, <1>8, <1>12, <2>1, AlignedIs DEF Expects
  <2>2. CASE th.pc = "existsReply"
    <3>1. Aligned(s, "existsReply", th.key)
      BY <1>12, <2>2 DEF Expects, Waiting
    <3>2. Stale(s) \/ (s.in = <<>> /\ Pending(s.out, "EXIST", th.key))
      BY <1>4, <3>1, AlignedIs DEF Lost
    <3>3. Pending(s.out, "EXIST", th.key) => th.key \in Keys
      BY <1>11
    <3>4. Aligned(r, "existsReply", th.key)
      BY <1>5, <1>9, <3>2, <3>3, AlignedIs
    <3> QED
      BY <2>2, <3>4 DEF Expects, Waiting
  <2>3. CASE th.pc = "header"
    <3>1. Aligned(s, "header", th.key)
      BY <1>12, <2>3 DEF Expects, Waiting
    <3>2. Stale(s) \/ (s.in = <<>> /\ Pending(s.out, "GET", th.key))
      BY <1>4, <3>1, AlignedIs DEF Lost
    <3>3. Pending(s.out, "GET", th.key) => th.key \in Keys
      BY <1>11
    <3>4. Aligned(r, "header", th.key)
      BY <1>5, <1>10, <3>2, <3>3, AlignedIs
    <3> QED
      BY <2>3, <3>4 DEF Expects, Waiting
  <2>4. CASE th.pc = "body"
    <3>1. Aligned(s, "body", th.key)
      BY <1>12, <2>4 DEF Expects, Waiting
    <3> QED
      BY <1>4, <3>1, AlignedIs DEF Lost
  <2> QED
    BY <2>1, <2>2, <2>3, <2>4 DEF Waiting
<1> QED
  BY <1>3, <1>12

\* The server answers, and drops a put.
LEMMA ServeReplies ==
  ASSUME IInv, kind = "lm", NEW i \in Instances, NEW c \in 1..MaxConnections, HandleClient(i, c)
  PROVE  /\ OtherSockets(i, c) /\ chan[i][c].out # <<>>
         /\ \E t, h : FollowsFrom(t, h, chan[i][c].out) /\ Replies(chan[i][c], chan'[i][c], t, h)
<1> USE DEF IInv, Types
<1>1. PICK s : s = chan[i][c]
  OBVIOUS
<1>2. s \in Socket /\ s.in \in Seq(Cells) /\ s.out \in Seq(Requests) /\ s.st \in {"open", "closed"}
      /\ s.out # <<>>
  BY <1>1 DEF LmTypes, Socket, HandleClient
<1>3. PICK t, h : t = Tail(s.out) /\ h = Head(s.out)
  OBVIOUS
<1>4. FollowsFrom(t, h, s.out)
  BY <1>2, <1>3, TailFollows
<1>5. h \in Requests /\ t \in Seq(Requests) /\ h.key \in Keys
  BY <1>4 DEF FollowsFrom, Requests
<1>6. ASSUME NEW cells \in Seq(Cells), Reply(i, c, cells)
      PROVE  /\ OtherSockets(i, c) /\ chan'[i][c].out = t /\ chan'[i][c].in = s.in \o cells
             /\ chan'[i][c].st = s.st
  <2>1. PICK r : r = [s EXCEPT !.out = t, !.in = s.in \o cells]
    OBVIOUS
  <2>2. s.in \o cells \in Seq(Cells)
    BY <1>2, <1>6
  <2>3. r \in Socket /\ r.out = t /\ r.in = s.in \o cells /\ r.st = s.st
    BY <1>2, <1>5, <2>1, <2>2 DEF Socket
  <2>4. chan' = [chan EXCEPT ![i][c] = r]
    BY <1>1, <1>3, <1>6, <2>1 DEF Reply, LmTypes
  <2>5. OtherSockets(i, c) /\ chan'[i][c] = r
    BY <2>3, <2>4, SocketIs
  <2> QED
    BY <2>3, <2>5
<1>7. CASE ServePut(i, c)
  <2>1. h.op = "PUT" /\ Reply(i, c, <<>>) /\ <<>> \in Seq(Cells)
    BY <1>1, <1>3, <1>7 DEF ServePut
  <2>2. Replies(s, chan'[i][c], t, h)
    BY <1>6, <2>1 DEF Replies
  <2> QED
    BY <1>1, <1>2, <1>4, <1>6, <2>1, <2>2
<1>8. CASE ServeExist(i, c)
  <2>1. PICK b \in BOOLEAN : h.op = "EXIST" /\ Reply(i, c, <<Header(b, 0)>>)
    BY <1>1, <1>3, <1>8 DEF ServeExist
  <2>2. <<Header(b, 0)>> \in Seq(Cells)
    BY DEF Header, Cells
  <2>3. Replies(s, chan'[i][c], t, h)
    BY <1>6, <2>1, <2>2 DEF Replies
  <2> QED
    BY <1>1, <1>2, <1>4, <1>6, <2>1, <2>2, <2>3
<1>9. CASE ServeGet(i, c)
  <2> DEFINE e == remote[h.key]
  <2>1. /\ h.op = "GET"
        /\ \/ Reply(i, c, <<Miss>>)
           \/ e.body # None /\ Reply(i, c, <<Header(TRUE, 1), Body(e.body)>>)
           \/ chan' = [chan EXCEPT ![i][c] = [chan[i][c] EXCEPT !.out = <<>>, !.st = "closed",
                                                       !.in = @ \o <<Header(TRUE, 1)>>]]
    BY <1>1, <1>3, <1>9 DEF ServeGet
  <2>2. CASE Reply(i, c, <<Miss>>)
    <3>1. <<Miss>> \in Seq(Cells)
      BY DEF Miss, Header, Cells
    <3>2. Replies(s, chan'[i][c], t, h)
      BY <1>6, <2>1, <2>2, <3>1 DEF Replies
    <3> QED
      BY <1>1, <1>2, <1>4, <1>6, <2>2, <3>1, <3>2
  <2>3. CASE e.body # None /\ Reply(i, c, <<Header(TRUE, 1), Body(e.body)>>)
    <3>1. PICK b : b = e.body
      OBVIOUS
    <3>2. b \in Bytes /\ b.key = h.key
      BY <1>5, <2>3, <3>1, OwnOf
    <3>3. <<Hit, Body(b)>> \in Seq(Cells)
      BY <3>2 DEF Hit, Body, Header, Cells
    <3>4. Reply(i, c, <<Hit, Body(b)>>)
      BY <2>3, <3>1 DEF Hit
    <3>5. Replies(s, chan'[i][c], t, h)
      BY <1>6, <2>1, <3>2, <3>3, <3>4 DEF Replies
    <3> QED
      BY <1>1, <1>2, <1>4, <1>6, <3>3, <3>4, <3>5
  <2>4. CASE chan' = [chan EXCEPT ![i][c] = [chan[i][c] EXCEPT !.out = <<>>, !.st = "closed",
                                                      !.in = @ \o <<Header(TRUE, 1)>>]]
    <3>0. PICK x \in Seq(Cells) : x = s.in \o <<Hit>>
      <4>1. <<Hit>> \in Seq(Cells)
        BY DEF Hit, Header, Cells
      <4>2. s.in \o <<Hit>> \in Seq(Cells)
        BY <1>2, <4>1
      <4> QED
        BY <4>2
    <3>1. PICK r : r = [s EXCEPT !.out = <<>>, !.st = "closed", !.in = x]
      OBVIOUS
    <3>2. <<>> \in Seq(Requests) /\ LmTypes
      OBVIOUS
    <3>3. r \in Socket /\ r.out = <<>> /\ r.in = x /\ r.st = "closed"
      BY <1>2, <3>1, <3>2 DEF Socket
    <3>4. chan' = [chan EXCEPT ![i][c] = r]
      BY <1>1, <2>4, <3>0, <3>1 DEF LmTypes, Hit
    <3>5. OtherSockets(i, c) /\ chan'[i][c] = r
      <4>1. LmTypes /\ r \in Socket
        BY <3>2, <3>3
      <4> HIDE <2>4
      <4> QED
        BY <4>1, <3>4, SocketIs
    <3>6. Replies(s, chan'[i][c], t, h)
      BY <2>1, <3>0, <3>3, <3>5 DEF Replies
    <3> QED
      BY <1>1, <1>2, <1>4, <3>5, <3>6
  <2> QED
    BY <2>1, <2>2, <2>3, <2>4
<1> QED
  BY <1>7, <1>8, <1>9 DEF HandleClient

\* Its steps keep LmInv.
LEMMA ServeStays ==
  ASSUME IInv, kind = "lm", NEW i \in Instances, NEW c \in 1..MaxConnections, HandleClient(i, c)
  PROVE  LmTypes' /\ LmInv'
<1> USE DEF IInv, Types
<1>1. UNCHANGED <<kind, alive, conn, opened, busy, thread>>
  BY DEF HandleClient, bvars
<1>2. OtherSockets(i, c) /\ chan[i][c].out # <<>>
  BY ServeReplies
<1>3. PICK t, h : FollowsFrom(t, h, chan[i][c].out) /\ Replies(chan[i][c], chan'[i][c], t, h)
  BY ServeReplies
<1>4. chan[i][c] \in Socket /\ chan'[i][c] \in Socket /\ OwnPuts(chan[i][c].out)
  BY <1>2 DEF LmTypes, OtherSockets, LmInv
<1>5. /\ OwnPuts(chan'[i][c].out)
      /\ \A th \in ThreadRec \cup {Idle} : Expects(chan[i][c], th) => Expects(chan'[i][c], th)
  BY <1>3, <1>4, RepliesKeep
<1>6. i \in alive => ~(c > opened[i])
  BY <1>2 DEF LmInv, Streamed, NewSocket
<1>7. \A j \in Instances, d \in 1..MaxConnections :
        /\ OwnPuts(chan'[j][d].out)
        /\ j \in alive /\ d > opened[j] => chan'[j][d] = chan[j][d]
  BY <1>2, <1>5, <1>6 DEF OtherSockets, LmInv
<1>8. ASSUME NEW j \in Instances, conn[j] # 0, NEW th \in ThreadRec \cup {Idle},
             Expects(chan[j][conn[j]], th)
      PROVE  Expects(chan'[j][conn[j]], th)
  <2>1. conn[j] \in 1..MaxConnections
    <3>1. conn[j] \in Nat /\ opened[j] \in 1..MaxConnections /\ conn[j] <= opened[j]
      BY DEF BackendTypes, Connections
    <3> QED
      BY <1>8, <3>1, RemoteAssumption
  <2>2. CASE j = i /\ conn[j] = c
    BY <1>5, <1>8, <2>2
  <2>3. CASE j # i \/ conn[j] # c
    BY <1>2, <1>8, <2>1, <2>3 DEF OtherSockets
  <2> QED
    BY <2>2, <2>3
<1> QED
  BY <1>1, <1>2, <1>7, <1>8, SocketsMove DEF OtherSockets

\* Every connection that was opened is lost.
LEMMA ServerDiesStays ==
  ASSUME IInv, kind = "lm", ServerDies
  PROVE  LmTypes' /\ LmInv'
<1> USE DEF IInv, Types
<1>1. UNCHANGED <<kind, alive, conn, opened, busy, thread>>
  BY DEF ServerDies, bvars
<1>2. Closed \in Socket /\ Lost(Closed) /\ OwnPuts(Closed.out) /\ OnlyPuts(Closed.out)
  <2>1. Closed = [out |-> <<>>, in |-> <<>>, st |-> "closed"]
    BY DEF Closed, NewSocket
  <2>2. Closed.out = <<>> /\ Closed.in = <<>> /\ Closed.st = "closed" /\ Closed \in Socket
    BY <2>1 DEF Socket
  <2> QED
    BY <2>2 DEF Lost, OwnPuts, OnlyPuts
<1>3. \A i \in Instances, c \in 1..MaxConnections :
        chan'[i][c] = IF c <= opened[i] THEN Closed ELSE chan[i][c]
  BY DEF ServerDies
<1>4. chan' \in [Instances -> [1..MaxConnections -> Socket]]
  BY <1>2 DEF ServerDies, LmTypes
<1>5. \A i \in Instances, c \in 1..MaxConnections :
        /\ OwnPuts(chan'[i][c].out)
        /\ i \in alive /\ c > opened[i] => chan'[i][c] = chan[i][c]
  BY <1>2, <1>3, RemoteAssumption DEF LmInv, BackendTypes
<1>6. ASSUME NEW i \in Instances, conn[i] # 0, NEW th \in ThreadRec \cup {Idle},
             Expects(chan[i][conn[i]], th)
      PROVE  Expects(chan'[i][conn[i]], th)
  <2>1. conn[i] \in 1..MaxConnections /\ conn[i] <= opened[i]
    <3>1. conn[i] \in Nat /\ opened[i] \in 1..MaxConnections /\ conn[i] <= opened[i]
      BY DEF BackendTypes, Connections
    <3> QED
      BY <1>6, <3>1, RemoteAssumption
  <2>2. chan'[i][conn[i]] = Closed
    BY <1>3, <2>1
  <2>3. \A pc \in Waiting : \A k : Aligned(Closed, pc, k)
    BY <1>2, AlignedIs DEF Waiting
  <2>4. Aligned(Closed, "idle", None)
    BY <1>2, AlignedIs DEF Lost
  <2> QED
    BY <1>6, <2>2, <2>3, <2>4 DEF Expects
<1> QED
  BY <1>1, <1>4, <1>5, <1>6, SocketsMove

\* What a process that died had sent goes on to the server.
LEMMA ProcessDiesStays ==
  ASSUME IInv, NEW i \in Instances, ProcessDies(i)
  PROVE  LmTypes' /\ LmInv'
<1>0. /\ LmTypes /\ LmInv
      /\ \A j \in Instances, c \in 1..MaxConnections :
           chan[j][c] \in Socket /\ chan[j][c].out \in Seq(Requests)
  BY DEF IInv, Types, LmTypes, Socket
<1>1. /\ UNCHANGED <<kind, conn, opened>> /\ alive' = alive \ {i}
      /\ thread' = [p \in Threads |-> IF p[1] = i THEN Idle ELSE thread[p]]
  BY DEF ProcessDies
<1>2. PICK cut \in BOOLEAN : LmProcessDies(i, cut)
  BY DEF ProcessDies
<1> DEFINE s == [c \in 1..MaxConnections |-> Remains(i, c, cut)]
<1>3. chan' = [chan EXCEPT ![i] = s] /\ busy' = [busy EXCEPT ![i] = None]
  BY <1>2 DEF LmProcessDies
<1>4. ASSUME NEW c \in 1..MaxConnections
      PROVE  s[c] \in Socket /\ (kind = "lm" => OwnPuts(s[c].out))
  <2>1. chan[i][c] \in Socket /\ chan[i][c].out \in Seq(Requests) /\ <<>> \in Seq(Cells)
    BY <1>0
  <2>2. PICK o : o = IF cut /\ c = conn[i] THEN CutOff(chan[i][c].out) ELSE chan[i][c].out
    OBVIOUS
  <2>3. s[c] = [chan[i][c] EXCEPT !.in = <<>>, !.out = o]
    BY <2>2 DEF Remains
  <2> HIDE DEF s
  <2>4. kind = "lm" => OwnPuts(chan[i][c].out)
    BY <1>0 DEF LmInv
  <2>5. o \in Seq(Requests) /\ (kind = "lm" => OwnPuts(o))
    BY <2>1, <2>2, <2>4, OutCutOff
  <2>6. s[c] \in Socket /\ s[c].out = o
    BY <2>1, <2>3, <2>5 DEF Socket
  <2> QED
    BY <2>5, <2>6
<1>5. s \in [1..MaxConnections -> Socket]
  BY <1>4
<1> HIDE DEF s
<1>6. /\ chan' \in [Instances -> [1..MaxConnections -> Socket]]
      /\ \A j \in Instances : chan'[j] = IF j = i THEN s ELSE chan[j]
  BY <1>0, <1>3, <1>5 DEF LmTypes
<1>7. /\ busy' \in [Instances -> Threads \cup {None}]
      /\ \A j \in Instances : j # i => busy'[j] = busy[j]
  BY <1>0, <1>3 DEF LmTypes
<1>8. SUFFICES ASSUME kind = "lm" PROVE LmInv'
  BY <1>1, <1>6, <1>7 DEF LmTypes, LmInv
<1>9. \A q \in Threads : thread'[q] = IF q[1] = i THEN Idle ELSE thread[q]
  BY <1>1
<1>10. \A q \in Threads : thread'[q].pc \in Waiting => busy'[q[1]] = q
  <2>1. \A q \in Threads : q[1] \in Instances
    BY RemoteAssumption
  <2> QED
    BY <1>0, <1>7, <1>8, <1>9, <2>1, IdleRec DEF LmInv, Waiting
<1>11. \A q \in Threads : q[1] \notin alive' => thread'[q].pc = "idle"
  BY <1>0, <1>1, <1>8, <1>9, IdleRec DEF LmInv
<1>12. \A j \in Instances, c \in 1..MaxConnections : OwnPuts(chan[j][c].out)'
  <2>1. \A j \in Instances, c \in 1..MaxConnections : OwnPuts(chan'[j][c].out)
    BY <1>0, <1>4, <1>6, <1>8 DEF LmInv
  <2> QED
    BY <2>1 DEF OwnPuts, Own, Bytes
<1>13. ASSUME NEW j \in Instances, j \in alive' PROVE Streamed(j)'
  <2>1. Streamed(j) /\ j # i /\ chan'[j] = chan[j] /\ conn'[j] = conn[j] /\ opened'[j] = opened[j]
    BY <1>0, <1>1, <1>6, <1>8, <1>13 DEF LmInv
  <2>2. PICK o : o = conn[j]
    OBVIOUS
  <2>3. \A q \in Threads : (Waits(q, j, o)' <=> Waits(q, j, o)) /\ (Waits(q, j, o) => thread'[q] = thread[q])
    BY <1>9, <2>1 DEF Waits
  <2> QED
    BY <2>1, <2>2, <2>3 DEF Streamed
<1> QED
  BY <1>1, <1>10, <1>11, <1>12, <1>13 DEF LmInv

\* Calls keep LmInv.
LEMMA CallsKeepSockets ==
  ASSUME IInv, kind = "lm", NEW p \in Threads, Call(p) \/ GoOn(p)
  PROVE  LmTypes' /\ LmInv'
<1> USE DEF IInv, Types
<1>0. Kept
  BY DEF Kept
<1>1. CASE Call(p)
  <2>1. UNCHANGED <<chan, busy>> /\ p[1] \in alive
    <3>1. UNCHANGED <<chan, busy>>
      BY <1>1 DEF Call, evars, lmvars
    <3>2. PICK k \in Keys : Contains(p, k, CreateConnector) \/ GetBlocking(p, k) \/ StorePut(p, k)
      BY <1>1 DEF Call
    <3> QED
      BY <3>1, <3>2 DEF Contains, GetBlocking, StorePut
  <2>2. ASSUME CallBegins(p) PROVE LmTypes' /\ LmInv'
    BY <2>1, <2>2, SocketsStay DEF CallBegins, Rest, Waiting
  <2>3. ASSUME NEW k \in Keys, StoreStep(p, k) PROVE LmTypes' /\ LmInv'
    BY <2>1, <2>3, SocketsStay DEF StoreStep, Rest, Waiting, Started, BackendTypes, Connections
  <2> QED
    BY <1>0, <1>1, <2>2, <2>3, CallIs
<1>2. CASE GoOn(p) /\ (AppendTask(p) \/ SubmitPutTask(p))
  <2>1. PICK k \in Keys : StoreStep(p, k) /\ UNCHANGED <<remote, evars>> /\ p[1] \in alive
    BY <1>0, <1>2, SubmitIs
  <2>2. UNCHANGED <<chan, busy>>
    BY <2>1 DEF evars, lmvars
  <2> QED
    BY <2>1, <2>2, SocketsStay DEF StoreStep, Rest, Waiting, Started, BackendTypes, Connections
<1>3. CASE GoOn(p) /\ ~(AppendTask(p) \/ SubmitPutTask(p))
  <2>1. LmCall(p) /\ registry' = registry
    BY <1>3 DEF GoOn, RedisKinds, BufferKinds
  <2> QED
    BY <2>1, LmCallMoves, LmMovesKeep
<1> QED
  BY <1>1, <1>2, <1>3

\* Every step keeps LmInv.
LEMMA SocketsKeep ==
  ASSUME IInv, Next
  PROVE  LmTypes' /\ LmInv'
<1> USE DEF IInv, Types
<1>1. CASE kind # "lm"
  <2>1. ASSUME NEW i \in Instances, ProcessDies(i) PROVE LmTypes' /\ LmInv'
    BY <2>1, ProcessDiesStays
  <2>2. ASSUME ~\E i \in Instances : ProcessDies(i) PROVE LmTypes' /\ LmInv'
    <3>1. UNCHANGED lmvars
      BY <1>1, <2>2 DEF Next, Call, GoOn, Backend, Serve, RunPut, Outside, evars
    <3>2. kind' # "lm"
      BY <1>1, KindStays
    <3> QED
      BY <3>1, <3>2 DEF lmvars, LmTypes, LmInv
  <2> QED
    BY <2>1, <2>2
<1>2. CASE kind = "lm"
  <2>1. ASSUME NEW p \in Threads, Call(p) \/ GoOn(p) PROVE LmTypes' /\ LmInv'
    BY <1>2, <2>1, CallsKeepSockets
  <2>2. ASSUME UNCHANGED <<kind, alive, conn, opened, thread, chan, busy>> PROVE LmTypes' /\ LmInv'
    BY <1>2, <2>2, SocketsStay DEF BackendTypes, Connections
  <2>3. ASSUME NEW i \in Instances, Backend(i) PROVE LmTypes' /\ LmInv'
    BY <2>2, <2>3 DEF Backend, Elapse, EvictHot, evars, lmvars
  <2>4. ASSUME NEW i \in Instances, Serve(i) PROVE LmTypes' /\ LmInv'
    BY <1>2, <2>4, ServeStays DEF Serve
  <2>5. ASSUME NEW i \in Instances, ProcessDies(i) PROVE LmTypes' /\ LmInv'
    BY <2>5, ProcessDiesStays
  <2>6. ASSUME NEW i \in Instances, NEW k \in Keys, RunPut(i, k) PROVE LmTypes' /\ LmInv'
    BY <1>2, <2>6, LmPutStays DEF RunPut, RedisKinds, BufferKinds
  <2>7. CASE Outside
    <3>1. CASE ServerDies
      BY <1>2, <3>1, ServerDiesStays
    <3>2. CASE ServerStarts
      BY <2>2, <3>2 DEF ServerStarts, bvars
    <3> QED
      BY <1>2, <2>7, <3>1, <3>2 DEF Outside, RedisKinds
  <2> QED
    BY <2>1, <2>3, <2>4, <2>5, <2>6, <2>7 DEF Next
<1> QED
  BY <1>1, <1>2
-----------------------------------------------------------------------------
(* The invariant *)

LEMMA InitIInv == Init => IInv
<1> SUFFICES ASSUME Init PROVE IInv
  OBVIOUS
<1>1. BackendTypes
  <2>1. None \in Tmps /\ None \in Stored
    BY DEF Tmps, Stored
  <2>2. NoPut \in PutRec
    BY <2>1 DEF NoPut, PutRec, PutPcs
  <2> QED
    BY <2>1, <2>2, IdleRec, RemoteAssumption DEF Init, InitBackend, InitRedis, BackendTypes
<1>2. StoreTypes
  BY DEF Init, InitFS, InitBuffers, StoreTypes, Stored, Empty
<1>3. LmTypes
  <2>1. NewSocket \in Socket
    BY DEF NewSocket, Socket
  <2> QED
    BY <2>1 DEF Init, InitLm, LmTypes
<1>4. \A p \in Threads : thread[p].pc = "idle" /\ thread[p].got = None /\ thread[p].key = None
  BY IdleRec DEF Init, InitBackend
<1>5. \A i \in Instances, k \in Keys : put[i][k].pc = "none"
  BY DEF Init, InitBackend, NoPut
<1>6. Connections
  BY <1>4, <1>5 DEF Init, InitBackend, Connections, Ended, Started
<1>7. \A i \in Instances, k \in Keys : ~Storing(i, k) /\ Claims(i, k) = 0 /\ refs[i][k] = 0
  <2> SUFFICES ASSUME NEW i \in Instances, NEW k \in Keys
               PROVE  ~Storing(i, k) /\ Claims(i, k) = 0 /\ refs[i][k] = 0
    OBVIOUS
  <2>1. thread[<<i, "eng">>].pc = "idle"
    BY <1>4, RemoteAssumption
  <2>2. k \notin hot[i] /\ refs[i][k] = 0
    BY DEF Init, InitBackend
  <2> QED
    BY <1>5, <2>1, <2>2 DEF Storing, Claims, Started
<1>8. PutsKeepHot /\ ObjectRefsExact
  BY <1>5, <1>7 DEF PutsKeepHot, ObjectRefsExact, Ended
<1>9. StoreKeyed
  BY DEF Init, InitBuffers, StoreKeyed, Keyed, Own
<1>10. GetsNoPut /\ AnswersOwnKey
  BY <1>4 DEF GetsNoPut, Reading, Getting, AnswersOwnKey
<1>11. FilesKeyed
  BY <1>4, <1>5 DEF FilesKeyed, Init, InitFS, Empty, Own, Uses, FSWriting, Files
<1>12. LmInv
  <2>1. \A i \in Instances, c \in 1..MaxConnections : chan[i][c] = NewSocket
    BY DEF Init, InitLm
  <2>2. OwnPuts(NewSocket.out) /\ Aligned(NewSocket, "idle", None)
    <3>1. NewSocket.in = <<>> /\ NewSocket.out = <<>>
      BY DEF NewSocket
    <3>2. OwnPuts(NewSocket.out) /\ OnlyPuts(NewSocket.out)
      BY <3>1 DEF OwnPuts, OnlyPuts
    <3> QED
      BY <3>1, <3>2, AlignedIs
  <2>3. \A i \in Instances : conn[i] = 1 /\ 1 \in 1..MaxConnections
    BY RemoteAssumption DEF Init, InitBackend
  <2>4. \A i \in Instances : Streamed(i)
    BY <1>4, <2>1, <2>2, <2>3 DEF Streamed, Waits, Waiting
  <2> QED
    BY <1>4, <2>1, <2>2, <2>4 DEF LmInv, Waiting
<1> QED
  BY <1>1, <1>2, <1>3, <1>6, <1>8, <1>9, <1>10, <1>11, <1>12 DEF IInv, Types

\* A stutter keeps the invariant.
LEMMA StutterIInv ==
  ASSUME IInv, UNCHANGED vars
  PROVE  IInv'
<1>1. UNCHANGED <<kind, alive, conn, opened, recent, putTasks, hot, refs, stores, thread, put, remote,
                  chan, busy, up, registry, temp, final, content, abandoned, sendFree, recvFree>>
  BY DEF vars, bvars, evars, lmvars, fsvars, bufvars
<1>2. Types' /\ Connections'
  BY <1>1 DEF IInv, Types, BackendTypes, StoreTypes, LmTypes, Connections
<1>3. PutsKeepHot' /\ ObjectRefsExact' /\ GetsNoPut' /\ AnswersOwnKey'
  BY <1>1 DEF IInv, PutsKeepHot, ObjectRefsExact, Claims, Storing, GetsNoPut, Reading, AnswersOwnKey, OwnBytes
<1>4. StoreKeyed'
  BY <1>1 DEF IInv, StoreKeyed, Keyed, Own, Bytes
<1>5. FilesKeyed'
  BY <1>1, CallsKeepFiles DEF fsvars
<1>6. LmInv'
  <2>1. CASE kind = "lm"
    BY <1>1, <2>1, SocketsStay DEF IInv, Types, BackendTypes, Connections
  <2>2. CASE kind # "lm"
    BY <1>1, <2>2 DEF LmInv
  <2> QED
    BY <2>1, <2>2
<1> QED
  BY <1>2, <1>3, <1>4, <1>5, <1>6 DEF IInv

\* So does every step.
LEMMA StepIInv == IInv /\ [Next]_vars => IInv'
<1>1. ASSUME IInv, Next PROVE IInv'
  <2>1. BackendTypes' /\ Connections' /\ PutsKeepHot' /\ GetsNoPut' /\ ObjectRefsExact' /\ AnswersOwnKey'
    BY <1>1, NextKeeps DEF Kept
  <2>2. StoreKeyed' /\ FilesKeyed' /\ StoreTypes'
    BY <1>1, StoresKeyed, FilesStayKeyed DEF StoreTypes
  <2>3. LmTypes' /\ LmInv'
    BY <1>1, SocketsKeep
  <2> QED
    BY <2>1, <2>2, <2>3 DEF IInv, Types
<1> QED
  BY <1>1, StutterIInv

\* The streams of an lm:// socket, the files of fs:// and the values in each store
\* stay those of the key that they are read for, and whatever puts an object has a
\* reference to it, through lost connections, calls that give up, and crashes.
THEOREM IInvInvariant == Spec => []IInv
BY InitIInv, StepIInv, PTL DEF Spec

\* A get brings bytes of the chunk it asked for, from every connector, while other
\* instances store it and processes die, except that mooncake may bring garbage, and
\* lm:// another call's answer once the connection was given up under the call.
THEOREM AnswersOwnKeyHolds == Spec => []AnswersOwnKey
<1>1. IInv => AnswersOwnKey
  BY DEF IInv
<1> QED
  BY IInvInvariant, <1>1, PTL

\* The references to an object are those of the hot cache, of the store in progress
\* and of the put: none is lost, so that the memory comes back, and none is given up
\* twice, so that it is not reused under a put.
THEOREM ObjectRefsExactHolds == Spec => []ObjectRefsExact
<1>1. IInv => ObjectRefsExact
  BY DEF IInv
<1> QED
  BY IInvInvariant, <1>1, PTL
=============================================================================
