--------------------------- MODULE StoreConnectors ---------------------------
(***************************************************************************)
(* The connectors to a store that several instances read and write: redis, *)
(* a shared directory, and those that hand memory to a transfer library.   *)
(***************************************************************************)
EXTENDS RemoteBackend

(***************************************************************************)
(* connector/redis_connector.py, alone or under connector/                 *)
(* audit_connector.py, and its sentinel variant.  Metadata and bytes of a  *)
(* key are two redis keys: another instance, and redis' own eviction, come *)
(* between the two calls.  The client is synchronous, but each call is a   *)
(* step of its own for the other instances.  The store is external.        *)
(***************************************************************************)

VARIABLES registry   \* checksum_registry of the audit connector

RedisKinds == {"redis", "sentinel", "audit"}
InitRedis == registry = [i \in Instances |-> [k \in Keys |-> None]]

RedisExists(p) ==
    /\ thread[p].pc = "exists"
    /\ Answer(p, Exists(remote[thread[p].key].meta # None))
    /\ UNCHANGED <<bvars, put, remote>>

RedisGetMetadata(p, allocated) ==
    /\ thread[p].pc = "get"
    /\ IF remote[thread[p].key].meta = None \/ ~allocated THEN Answer(p, None)
       ELSE Goto(p, "bytes")
    /\ UNCHANGED <<bvars, put, remote>>

(* The audit connector refuses bytes other than the ones it put last. *)
Audited(i, k, x) ==
    IF kind = "audit" /\ registry[i][k] \notin {None, x} THEN None ELSE x

(* Metadata without bytes is taken for an eviction and deleted. *)
RedisGetBytes(p) ==
    LET k == thread[p].key IN
    /\ thread[p].pc = "bytes"
    /\ remote' = IF remote[k].body = None THEN [remote EXCEPT ![k].meta = None] ELSE remote
    /\ Answer(p, Audited(p[1], k, remote[k].body))
    /\ UNCHANGED <<bvars, put>>

RedisPutMetadata(i, k) ==
    /\ put[i][k].pc = "scheduled"
    /\ remote' = [remote EXCEPT ![k].meta = Chunk(i, k)]
    /\ PutStep(i, k, "bytes", None)
    /\ UNCHANGED <<bvars, thread, registry>>

RedisPutBytes(i, k) ==
    /\ put[i][k].pc = "bytes"
    /\ remote' = [remote EXCEPT ![k].body = Chunk(i, k)]
    /\ registry' = IF kind = "audit" THEN [registry EXCEPT ![i][k] = Chunk(i, k)] ELSE registry
    /\ FinishPut(i, k)
    /\ UNCHANGED thread

(* Faulty: the reference is not dropped in a finally clause. *)
RedisPutFailsHolding(i, k) ==
    /\ put[i][k].pc \in {"scheduled", "bytes"}
    /\ PutCallback(i, k) /\ put' = [put EXCEPT ![i][k] = NoPut]
    /\ UNCHANGED <<kind, alive, conn, opened, recent, hot, refs, stores, thread, remote, registry>>

(* Faulty: the callback runs for a put that succeeded only. *)
RedisPutFailsSilently(i, k) ==
    /\ put[i][k].pc \in {"scheduled", "bytes"}
    /\ InstrumentedDone(i, k) /\ put' = [put EXCEPT ![i][k] = NoPut]
    /\ UNCHANGED <<kind, alive, conn, opened, recent, hot, putTasks, stores, thread, remote, registry>>

(* A call to redis raises: a put gives up, any other call loses the connection. *)
RedisPutFails(i, k) ==
    /\ put[i][k].pc \in {"scheduled", "bytes"}
    /\ FinishPut(i, k)
    /\ UNCHANGED <<thread, remote, registry>>
RedisCallFails(p) ==
    /\ thread[p].pc \in {"exists", "get", "bytes"}
    /\ LoseConnection(p)
    /\ UNCHANGED <<put, remote>>

(* redis evicts keys one by one. *)
RedisEvicts(k) ==
    /\ \/ remote[k].meta # None /\ remote' = [remote EXCEPT ![k].meta = None]
       \/ remote[k].body # None /\ remote' = [remote EXCEPT ![k].body = None]
    /\ UNCHANGED <<bvars, thread, put, registry>>

RedisThread(p) ==
    /\ \/ RedisExists(p) \/ RedisCallFails(p) \/ RedisGetBytes(p)
       \/ \E a \in BOOLEAN : RedisGetMetadata(p, a)
    /\ UNCHANGED registry
RedisPut(i, k) == RedisPutMetadata(i, k) \/ RedisPutBytes(i, k) \/ RedisPutFails(i, k)

-----------------------------------------------------------------------------
(***************************************************************************)
(* connector/fs_connector.py: one file per key in a directory that several *)
(* instances share.  A put writes a temporary file, whose name depends on  *)
(* the key alone, and renames it.  A file that is open for writing stays   *)
(* the same file when it is renamed or unlinked: files have numbers, names *)
(* point to them, 0 is no file.                                            *)
(***************************************************************************)

CONSTANTS MaxFiles   \* bound: files that exist at once

ASSUME FilesAssumption == MaxFiles \in Nat \ {0}

VARIABLES temp,     \* the key's temporary file
          final,    \* the key's file
          content   \* what the files hold

fsvars == <<temp, final, content>>
Files == 1..MaxFiles
Empty == [meta |-> None, body |-> None]

InitFS ==
    /\ temp = [k \in Keys |-> 0] /\ final = [k \in Keys |-> 0]
    /\ content = [f \in Files |-> Empty]

FSWriting == {"opened", "metaWritten", "bodyWritten"}
OpenBy(f) == \/ \E i \in Instances, k \in Keys : put[i][k].pc \in FSWriting /\ put[i][k].tmp = f
             \/ \E p \in Threads : thread[p].pc \in {"fileOpen", "fileBody"} /\ thread[p].tmp = f
Free(f) == ~OpenBy(f) /\ \A k \in Keys : f \notin {temp[k], final[k]}

FSExists(p) ==
    /\ thread[p].pc = "exists"
    /\ Answer(p, Exists(final[thread[p].key] # 0))

FSOpenRead(p) ==
    LET f == final[thread[p].key] IN
    /\ thread[p].pc = "get"
    /\ IF f = 0 THEN Answer(p, None) ELSE Hold(p, "fileOpen", f)

(* A short or zeroed header, and a failed allocation, end the get with None. *)
FSReadMetadata(p, allocated) ==
    /\ thread[p].pc = "fileOpen"
    /\ IF content[thread[p].tmp].meta = None \/ ~allocated THEN Answer(p, None)
       ELSE Goto(p, "fileBody")

(* So does a short body. *)
FSReadBody(p) ==
    /\ thread[p].pc = "fileBody"
    /\ Answer(p, content[thread[p].tmp].body)

FSThread(p) ==
    /\ \/ FSExists(p) \/ FSOpenRead(p) \/ FSReadBody(p)
       \/ \E a \in BOOLEAN : FSReadMetadata(p, a)
    /\ UNCHANGED <<bvars, put, remote, fsvars>>

(* Opening for writing empties a temporary file that exists. *)
FSOpenWrite(i, k) ==
    /\ put[i][k].pc = "scheduled"
    /\ \E f \in Files :
         /\ IF temp[k] = 0 THEN Free(f) /\ \A g \in Files : Free(g) => f <= g ELSE f = temp[k]
         /\ temp' = [temp EXCEPT ![k] = f]
         /\ content' = [content EXCEPT ![f] = Empty]
         /\ PutStep(i, k, "opened", f)
    /\ UNCHANGED <<bvars, final>>

FSWriteMetadata(i, k) ==
    /\ put[i][k].pc = "opened"
    /\ content' = [content EXCEPT ![put[i][k].tmp].meta = Chunk(i, k)]
    /\ put' = [put EXCEPT ![i][k].pc = "metaWritten"]
    /\ UNCHANGED <<bvars, temp, final>>

FSWriteBody(i, k) ==
    /\ put[i][k].pc = "metaWritten"
    /\ content' = [content EXCEPT ![put[i][k].tmp].body = Chunk(i, k)]
    /\ put' = [put EXCEPT ![i][k].pc = "bodyWritten"]
    /\ UNCHANGED <<bvars, temp, final>>

(* os.replace moves whatever file has the temporary name now, and raises   *)
(* if there is none.                                                       *)
FSReplace(i, k) ==
    /\ put[i][k].pc = "bodyWritten"
    /\ final' = IF temp[k] = 0 THEN final ELSE [final EXCEPT ![k] = temp[k]]
    /\ temp' = [temp EXCEPT ![k] = 0]
    /\ FinishPut(i, k)
    /\ UNCHANGED content

(* A write that fails: the temporary name is unlinked. *)
FSWriteFails(i, k) ==
    /\ put[i][k].pc \in {"opened", "metaWritten"}
    /\ temp' = [temp EXCEPT ![k] = 0]
    /\ FinishPut(i, k)
    /\ UNCHANGED <<final, content>>

FSPut(i, k) ==
    /\ \/ FSOpenWrite(i, k) \/ FSWriteMetadata(i, k) \/ FSWriteBody(i, k)
       \/ FSReplace(i, k) \/ FSWriteFails(i, k)
    /\ UNCHANGED <<thread, remote>>

-----------------------------------------------------------------------------
(***************************************************************************)
(* The connectors that hand memory to a transfer library and wait for it:  *)
(* mooncakestore_connector.py, whose transfers run in a thread under a     *)
(* timeout and read the caller's memory, infinistore_connector.py, which   *)
(* copies into registered buffers of two pools, and, with neither memory   *)
(* nor store, blackhole_connector.py.  The stores are external.            *)
(***************************************************************************)

CONSTANTS PoolSize,   \* MAX_BUFFER_CNT
          Oversize    \* keys whose chunk does not fit a buffer

ASSUME PoolAssumption == PoolSize \in Nat \ {0} /\ Oversize \subseteq Keys

VARIABLES abandoned,  \* transfers that went on after their put timed out
          sendFree,   \* send buffers in the queue, per connection
          recvFree    \* receive buffers in the queue, per connection

BufferKinds == {"blackhole", "mooncake", "infinistore"}
bufvars == <<abandoned, sendFree, recvFree>>

InitBuffers ==
    /\ abandoned = [i \in Instances |-> [k \in Keys |-> None]]
    /\ sendFree = [i \in Instances |-> [c \in 1..MaxConnections |-> PoolSize]]
    /\ recvFree = [i \in Instances |-> [c \in 1..MaxConnections |-> PoolSize]]

StoreAll(k, x) == remote' = [remote EXCEPT ![k] = [meta |-> x, body |-> x]]

(* All three answer exists at once; the black hole contains nothing. *)
BufferExists(p) ==
    /\ thread[p].pc = "exists"
    /\ Answer(p, Exists(kind # "blackhole" /\ remote[thread[p].key].meta # None))
    /\ UNCHANGED <<bvars, put, remote, bufvars>>

BlackholeGet(p) ==
    /\ kind = "blackhole" /\ thread[p].pc = "get"
    /\ Answer(p, None)
    /\ UNCHANGED <<bvars, put, remote, bufvars>>
BlackholePut(i, k) ==
    /\ kind = "blackhole" /\ put[i][k].pc = "scheduled"
    /\ FinishPut(i, k)
    /\ UNCHANGED <<remote, bufvars>>

(***************************************************************************)
(* Mooncake: a get times out, misses, cannot allocate (None), hits, or     *)
(* fails; a failure leaves "buffer" unbound, and using it raises.          *)
(***************************************************************************)
MooncakeGet(p) ==
    /\ kind = "mooncake" /\ thread[p].pc = "get"
    /\ \E x \in {None, remote[thread[p].key].body} : Answer(p, x)
    /\ UNCHANGED <<bvars, put, remote, bufvars>>
MooncakeGetFails(p) ==
    /\ kind = "mooncake" /\ thread[p].pc = "get"
    /\ LoseConnection(p)
    /\ UNCHANGED <<put, remote, bufvars>>

MooncakePutStart(i, k) ==
    /\ kind = "mooncake" /\ put[i][k].pc = "scheduled"
    /\ PutStep(i, k, "transfer", None)
    /\ UNCHANGED <<bvars, remote, bufvars>>
MooncakePutDone(i, k) ==
    /\ kind = "mooncake" /\ put[i][k].pc = "transfer"
    /\ StoreAll(k, Chunk(i, k)) \/ UNCHANGED remote
    /\ FinishPut(i, k)
    /\ UNCHANGED bufvars

(* wait_for gives up, the thread does not: it goes on reading the bytes.   *)
MooncakePutTimesOut(i, k) ==
    /\ kind = "mooncake" /\ put[i][k].pc = "transfer" /\ abandoned[i][k] = None
    /\ abandoned' = [abandoned EXCEPT ![i][k] = Chunk(i, k)]
    /\ FinishPut(i, k)
    /\ UNCHANGED <<remote, sendFree, recvFree>>
MemoryReused(i, k) ==
    /\ abandoned[i][k] # None /\ refs[i][k] = 0
    /\ abandoned' = [abandoned EXCEPT ![i][k] = Garbage]
    /\ UNCHANGED <<bvars, put, remote, sendFree, recvFree>>
AbandonedDone(i, k) ==
    /\ abandoned[i][k] # None
    /\ StoreAll(k, abandoned[i][k])
    /\ abandoned' = [abandoned EXCEPT ![i][k] = None]
    /\ UNCHANGED <<bvars, put, sendFree, recvFree>>

(***************************************************************************)
(* Infinistore: a get waits for a receive buffer; a failed read gives it   *)
(* back, a failed allocation trips an assertion and does not.              *)
(***************************************************************************)
InfinistoreGet(p) ==
    LET i == p[1] c == thread[p].con IN
    /\ kind = "infinistore" /\ thread[p].pc = "get" /\ recvFree[i][c] > 0
    /\ recvFree' = [recvFree EXCEPT ![i][c] = @ - 1]
    /\ Goto(p, "reading")
    /\ UNCHANGED <<bvars, put, remote, abandoned, sendFree>>
InfinistoreRead(p) ==
    /\ kind = "infinistore" /\ thread[p].pc = "reading"
    /\ \E x \in {None, remote[thread[p].key].body} : Answer(p, x)
    /\ recvFree' = [recvFree EXCEPT ![p[1]][thread[p].con] = @ + 1]
    /\ UNCHANGED <<bvars, put, remote, abandoned, sendFree>>
InfinistoreNoMemory(p) ==
    /\ kind = "infinistore" /\ thread[p].pc = "reading"
    /\ remote[thread[p].key].body # None
    /\ LoseConnection(p)
    /\ UNCHANGED <<put, remote, bufvars>>

(* A put waits for a send buffer, which a chunk that is too large keeps.   *)
InfinistorePut(i, k) ==
    LET c == put[i][k].con IN
    /\ kind = "infinistore" /\ put[i][k].pc = "scheduled" /\ sendFree[i][c] > 0
    /\ sendFree' = [sendFree EXCEPT ![i][c] = @ - 1]
    /\ IF k \in Oversize THEN FinishPut(i, k)
       ELSE PutStep(i, k, "transfer", None) /\ UNCHANGED bvars
    /\ UNCHANGED <<remote, abandoned, recvFree>>
InfinistoreWritten(i, k) ==
    /\ kind = "infinistore" /\ put[i][k].pc = "transfer"
    /\ StoreAll(k, Chunk(i, k)) \/ UNCHANGED remote
    /\ sendFree' = [sendFree EXCEPT ![i][put[i][k].con] = @ + 1]
    /\ FinishPut(i, k)
    /\ UNCHANGED <<abandoned, recvFree>>

BufferThread(p) ==
    \/ BufferExists(p) \/ BlackholeGet(p) \/ MooncakeGet(p) \/ MooncakeGetFails(p)
    \/ InfinistoreGet(p) \/ InfinistoreRead(p) \/ InfinistoreNoMemory(p)
BufferPut(i, k) ==
    /\ \/ BlackholePut(i, k) \/ MooncakePutStart(i, k) \/ MooncakePutDone(i, k)
       \/ MooncakePutTimesOut(i, k) \/ InfinistorePut(i, k) \/ InfinistoreWritten(i, k)
    /\ UNCHANGED thread
=============================================================================
