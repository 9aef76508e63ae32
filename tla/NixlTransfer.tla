----------------------------- MODULE NixlTransfer -----------------------------
(***************************************************************************)
(* Transfer of KV chunks between the senders and the receiver of           *)
(* disaggregated prefill: MTDSEngine.store_distributed, the                *)
(* DistributedStorageManager, nixl_backend.py and nixl_connector_v2.py.    *)
(*                                                                         *)
(* A sender announces the keys of a store on the side channel, fills its   *)
(* transfer buffer, and writes the buffer into the one the receiver keeps  *)
(* for it when it is full and at the end.  One write needs one             *)
(* acknowledgement, which the receiver sends when it has copied what came  *)
(* before.  The receiver has one thread for all senders.                   *)
(***************************************************************************)
EXTENDS Integers, Sequences, FiniteSets, Functions, SequencesExt, FiniteSetsExt

CONSTANTS
  Senders, Keys,
  Size,              \* bytes of the chunk of each key
  Capacity,          \* nixl_buffer_size
  TransferUnit,      \* NixlPipe.TRANSFER_BUFFER_SIZE
  Stores,            \* Stores[s]: the lists of keys sender s may store
  MaxStores,         \* bound: the number of stores of each sender
  MaxFailures,       \* bound: transfers and observers that fail
  RecentAdds,        \* _recent_add_threshold
  RecycleThreshold,  \* _recycle_threshold
  None

ASSUME NixlAssumption ==
  /\ Capacity \in Nat \ {0} /\ TransferUnit \in Nat \ {0}
  /\ Size \in [Keys -> 1 .. Capacity - 1]  \* asserted by the allocator
  /\ Stores \in [Senders -> SUBSET (Seq(Keys) \ {<<>>})]
  /\ MaxStores \in [Senders -> Nat] /\ MaxFailures \in Nat
  /\ {RecentAdds, RecycleThreshold} \subseteq Nat \ {0}
  /\ None \notin Keys \cup Senders

VARIABLES
  pc,         \* of each sender, and of the receiver thread
  job,        \* of each sender: _registered_keys
  placed,     \* ... and how many of them have a place in the buffer
  buffer,     \* ... its transfer buffer: the chunk each byte belongs to
  allocated,  \* ... allocated_size
  side,       \* ... what it sent on the side channel, not yet received
  acks,       \* ... acknowledgements on their way to it
  uuid,       \* ... that of the write in progress
  stores,     \* ... how many it has begun
  pipes,      \* receiver: of each sender, its buffer and expected uuid
  notifs,     \* receiver: of each sender, uuids of completed writes
  trans,      \* receiver: the transaction in progress
  pool, cnt, recent,  \* RecvObjPool: keys with an object, _cnt, _recent_added_keys
  engine,     \* the key the receiver's engine has in hand
  sent, delivered,  \* history: keys announced, objects given to the observer
  written,          \* history: how many keys were written and notified
  taken,      \* history: how often retrieve or _gc took one more of a key
  failures

sender == <<job, placed, buffer, allocated, uuid, stores, sent, written>>
store  == <<pool, cnt, recent, engine, taken>>
vars   == <<pc, sender, side, acks, pipes, notifs, trans, store, delivered, failures>>

Receiver == None  \* the thread's index in pc
Bytes    == 0 .. Capacity - 1
Empty    == [b \in Bytes |-> None]
NoPipe   == [buffer |-> Empty, uuid |-> 0]
NoTrans  == [from |-> None, keys |-> <<>>, got |-> 0, read |-> 0, seen |-> 0]

\* Offset(keys)[i]: the bytes of the first i chunks, one after the other.
Offset(keys) ==
  LET upto[i \in 0 .. Len(keys)] ==
        IF i = 0 THEN 0 ELSE upto[i - 1] + Size[keys[i]]
  IN  upto

Goto(t, label) == pc' = [pc EXCEPT ![t] = label]

InitSenders ==
  /\ job = [s \in Senders |-> <<>>] /\ placed = [s \in Senders |-> 0]
  /\ buffer = [s \in Senders |-> Empty] /\ allocated = [s \in Senders |-> 0]
  /\ side = [s \in Senders |-> <<>>] /\ acks = [s \in Senders |-> <<>>]
  /\ uuid = [s \in Senders |-> 0] /\ stores = [s \in Senders |-> 0]
  /\ sent = [s \in Senders |-> <<>>] /\ written = [s \in Senders |-> 0]

InitReceiver ==
  /\ pipes = [s \in Senders |-> NoPipe] /\ notifs = [s \in Senders |-> {}]
  /\ trans = NoTrans /\ delivered = [s \in Senders |-> <<>>]

InitPool ==
  /\ pool = {} /\ cnt = [k \in Keys |-> 0] /\ recent = <<>>
  /\ engine = None /\ taken = [k \in Keys |-> 0]

Init ==
  /\ pc = [t \in Senders \cup {Receiver} |-> IF t = Receiver THEN "poll" ELSE "new"]
  /\ InitSenders /\ InitReceiver /\ InitPool
  /\ failures = 0

-----------------------------------------------------------------------------
(* The sender: handshake, then stores, by the engine's thread.             *)

\* NixlPipe.__init__: the agent's metadata is the first message.
Connect(s) ==
  /\ pc[s] = "new"
  /\ side' = [side EXCEPT ![s] = Append(@, <<>>)]
  /\ Goto(s, "handshake")
  /\ UNCHANGED <<sender, acks, pipes, notifs, trans, store, delivered, failures>>

\* The receiver's metadata and descriptors have come.
Connected(s) ==
  /\ pc[s] = "handshake" /\ pipes[s] # NoPipe
  /\ Goto(s, "idle")
  /\ UNCHANGED <<sender, side, acks, pipes, notifs, trans, store, delivered, failures>>

\* prepare_send: the request goes out on the side channel.
PrepareSend(s, keys) == side' = [side EXCEPT ![s] = Append(@, keys)]

\* After a store that failed, _registered_keys is not empty and this raises.
RegisterPutTasks(s, keys) ==
  /\ job[s] = <<>>
  /\ job' = [job EXCEPT ![s] = keys]
  /\ PrepareSend(s, keys)

\* store_distributed: the keys of the chunks and their sizes are announced.
PreparePut(s, keys) ==
  /\ pc[s] = "idle" /\ stores[s] < MaxStores[s]
  /\ RegisterPutTasks(s, keys)
  /\ sent' = [sent EXCEPT ![s] = @ \o keys]
  /\ stores' = [stores EXCEPT ![s] = @ + 1]
  /\ Goto(s, "fill")
  /\ UNCHANGED <<placed, buffer, allocated, uuid, written, acks, pipes, notifs, trans,
                 store, delivered, failures>>

\* The next chunk of the store has room in the buffer.
NextFits(s) == /\ placed[s] < Len(job[s])
               /\ allocated[s] + Size[job[s][placed[s] + 1]] <= Capacity

\* NixlBufferAllocator.allocate: the next bytes of the buffer.
BufferAllocate(s, k) ==
  /\ buffer' = [buffer EXCEPT ![s] = [b \in Bytes |->
       IF b - allocated[s] \in 0 .. Size[k] - 1 THEN k ELSE @[b]]]
  /\ allocated' = [allocated EXCEPT ![s] = @ + Size[k]]

\* The next object of the registered ones.
AllocateZeroCopyWriteObject(s) ==
  /\ placed' = [placed EXCEPT ![s] = @ + 1]
  /\ BufferAllocate(s, job[s][placed[s] + 1])

\* The loop of store_distributed: allocate and from_gpu.
Allocate(s) ==
  /\ pc[s] = "fill" /\ NextFits(s)
  /\ AllocateZeroCopyWriteObject(s)
  /\ UNCHANGED <<pc, job, uuid, stores, sent, written, side, acks, pipes, notifs, trans,
                 store, delivered, failures>>

\* When it has none, and after the last chunk (finish_send), the pipe is flushed.
Flush(s) ==
  /\ pc[s] = "fill" /\ ~NextFits(s)
  /\ Goto(s, "spin")
  /\ UNCHANGED <<sender, side, acks, pipes, notifs, trans, store, delivered, failures>>

\* Faulty variant: no acknowledgement is needed when none has come.
SpinNotForAck(s) ==
  /\ pc[s] = "spin"
  /\ uuid' = [uuid EXCEPT ![s] = IF acks[s] = <<>> THEN @ + 1 ELSE Head(acks[s])]
  /\ acks' = [acks EXCEPT ![s] = <<>>]
  /\ Goto(s, "write")
  /\ UNCHANGED <<job, placed, buffer, allocated, stores, sent, written, side, pipes,
                 notifs, trans, store, delivered, failures>>

\* get_new_notifs takes all of them, and the first is used.
SpinCheckForAck(s) ==
  /\ pc[s] = "spin" /\ acks[s] # <<>>
  /\ uuid' = [uuid EXCEPT ![s] = Head(acks[s])]
  /\ acks' = [acks EXCEPT ![s] = <<>>]
  /\ Goto(s, "write")
  /\ UNCHANGED <<job, placed, buffer, allocated, stores, sent, written, side, pipes,
                 notifs, trans, store, delivered, failures>>

\* Faulty variant: the last unit is not transferred unless it is full.
WrittenRoundedDown(size) == {b \in Bytes : b < (size \div TransferUnit) * TransferUnit}

\* The write of whole transfer units, up to that of the last byte.
Written(size) == {b \in Bytes : b < ((size - 1) \div TransferUnit + 1) * TransferUnit}

\* It is done, or it has failed: then the store raises.
CommitWrite(s) ==
  /\ pc[s] = "write"
  /\ \/ /\ pipes' = [pipes EXCEPT ![s].buffer = [b \in Bytes |->
             IF b \in Written(allocated[s]) THEN buffer[s][b] ELSE @[b]]]
        /\ Goto(s, "notify")
        /\ UNCHANGED failures
     \/ /\ failures < MaxFailures
        /\ failures' = failures + 1
        /\ Goto(s, "idle")
        /\ UNCHANGED pipes
  /\ UNCHANGED <<sender, side, acks, notifs, trans, store, delivered>>

\* finish_send and flush_put_tasks, when the last chunk was written.
FinishSend(s) ==
  /\ placed[s] = Len(job[s])
  /\ job' = [job EXCEPT ![s] = <<>>]
  /\ placed' = [placed EXCEPT ![s] = 0]
  /\ Goto(s, "idle")

\* The uuid is sent after the data, and the buffer is empty again.
SendNotif(s) ==
  /\ pc[s] = "notify"
  /\ notifs' = [notifs EXCEPT ![s] = @ \cup {uuid[s]}]
  /\ allocated' = [allocated EXCEPT ![s] = 0]
  /\ written' = [written EXCEPT ![s] = Len(sent[s]) - Len(job[s]) + placed[s]]
  /\ \/ FinishSend(s)
     \/ placed[s] < Len(job[s]) /\ Goto(s, "fill") /\ UNCHANGED <<job, placed>>
  /\ UNCHANGED <<buffer, uuid, stores, sent, side, acks, pipes, trans, store,
                 delivered, failures>>

-----------------------------------------------------------------------------
(* The receiver thread.                                                    *)

\* ack_receive, with the uuid that the next write will carry.
AckReceive(s, id) == acks' = [acks EXCEPT ![s] = Append(@, id)]

\* The first message of a sender makes its pipe.  The uuid of the pipe's
\* construction is replaced by that of the first acknowledgement.
InitializePipe(s) ==
  /\ pc[Receiver] = "poll" /\ side[s] # <<>> /\ pipes[s] = NoPipe
  /\ pipes' = [pipes EXCEPT ![s] = [buffer |-> Empty, uuid |-> 1]]
  /\ AckReceive(s, 1)
  /\ side' = [side EXCEPT ![s] = Tail(@)]
  /\ UNCHANGED <<pc, sender, notifs, trans, store, delivered, failures>>

ReceiveRequest(s) ==
  /\ pc[Receiver] = "poll" /\ side[s] # <<>> /\ pipes[s] # NoPipe
  /\ trans' = [NoTrans EXCEPT !.from = s, !.keys = Head(side[s])]
  /\ side' = [side EXCEPT ![s] = Tail(@)]
  /\ Goto(Receiver, "wait")
  /\ UNCHANGED <<sender, acks, pipes, notifs, store, delivered, failures>>

\* read_buffer: as many of the remaining objects as fit in a buffer.
ReadBuffer(keys, got) ==
  Max({n \in 0 .. Len(keys) - got :
         Offset(keys)[got + n] - Offset(keys)[got] <= Capacity})

WaitRead ==
  LET s == trans.from IN
  /\ pc[Receiver] = "wait" /\ pipes[s].uuid \in notifs[s]
  /\ notifs' = [notifs EXCEPT ![s] = @ \ {pipes[s].uuid}]
  /\ trans' = [trans EXCEPT !.read = ReadBuffer(trans.keys, trans.got), !.seen = 0]
  /\ Goto(Receiver, "observe")
  /\ UNCHANGED <<sender, side, acks, pipes, store, delivered, failures>>

\* RecvObjPool.add.
AddToPool(k) ==
  /\ recent' = LET r == Append(recent, k) IN
               SubSeq(r, Max({1, Len(r) - RecentAdds + 1}), Len(r))
  /\ pool' = pool \cup {k}
  /\ cnt' = [cnt EXCEPT ![k] = @ + 1]

\* BasicNixlObserver: the object is cloned out of the buffer.
CloneAndAdd(s, k, first) ==
  /\ AddToPool(k)
  /\ delivered' = [delivered EXCEPT ![s] = Append(@, [key |-> k,
       bytes |-> {pipes[s].buffer[b] : b \in first .. first + Size[k] - 1}])]

\* The next object is observed; an exception, when there is no memory for the
\* clone, ends the transaction without an acknowledgement.
Observe ==
  LET i == trans.got + trans.seen + 1
      first == Offset(trans.keys)[i - 1] - Offset(trans.keys)[trans.got] IN
  /\ pc[Receiver] = "observe" /\ trans.seen < trans.read
  /\ \/ /\ CloneAndAdd(trans.from, trans.keys[i], first)
        /\ trans' = [trans EXCEPT !.seen = @ + 1]
        /\ UNCHANGED <<pc, failures>>
     \/ /\ failures < MaxFailures
        /\ failures' = failures + 1
        /\ trans' = NoTrans
        /\ Goto(Receiver, "poll")
        /\ UNCHANGED <<pool, cnt, recent, delivered>>
  /\ UNCHANGED <<sender, side, acks, pipes, notifs, engine, taken>>

\* Faulty variant: the last write of a transaction is not acknowledged.
AcknowledgeAllButLast ==
  LET s == trans.from
      got == trans.got + trans.read IN
  /\ pc[Receiver] = "observe" /\ trans.seen = trans.read
  /\ pipes' = [pipes EXCEPT ![s].uuid = @ + 1]
  /\ IF got < Len(trans.keys)
     THEN /\ AckReceive(s, pipes[s].uuid + 1)
          /\ trans' = [trans EXCEPT !.got = got, !.read = 0, !.seen = 0]
     ELSE trans' = NoTrans /\ UNCHANGED acks
  /\ Goto(Receiver, IF got < Len(trans.keys) THEN "wait" ELSE "poll")
  /\ UNCHANGED <<sender, side, notifs, store, delivered, failures>>

\* All objects of this write were handed on.
Acknowledge ==
  LET s == trans.from
      got == trans.got + trans.read IN
  /\ pc[Receiver] = "observe" /\ trans.seen = trans.read
  /\ pipes' = [pipes EXCEPT ![s].uuid = @ + 1]
  /\ AckReceive(s, pipes[s].uuid + 1)
  /\ trans' = IF got < Len(trans.keys)
              THEN [trans EXCEPT !.got = got, !.read = 0, !.seen = 0] ELSE NoTrans
  /\ Goto(Receiver, IF got < Len(trans.keys) THEN "wait" ELSE "poll")
  /\ UNCHANGED <<sender, side, notifs, store, delivered, failures>>

-----------------------------------------------------------------------------
(* The receiver's engine: lookup and retrieve on the pool.                 *)

\* _gc: what was not added lately.
GarbageOf(K) == K \ ToSet(recent)

\* contains: a full pool is collected first.
PoolContains ==
  LET old == IF Cardinality(pool) >= RecycleThreshold THEN GarbageOf(pool) ELSE {} IN
  /\ pool' = pool \ old
  /\ taken' = [k \in Keys |-> IF k \in old THEN taken[k] + cnt[k] ELSE taken[k]]
  /\ cnt' = [k \in Keys |-> IF k \in old THEN 0 ELSE cnt[k]]
  /\ UNCHANGED <<pc, sender, side, acks, pipes, notifs, trans, recent, engine,
                 delivered, failures>>

\* retrieve: get, and the copy to the GPU begins ...
PoolGet(k) ==
  /\ engine = None /\ k \in pool
  /\ engine' = k
  /\ UNCHANGED <<pc, sender, side, acks, pipes, notifs, trans, pool, cnt, recent,
                 taken, delivered, failures>>

\* ... and remove, after it; the object stays while it is owed to another get.
PoolRemove ==
  LET k == engine IN
  /\ k # None
  /\ cnt' = [cnt EXCEPT ![k] = IF k \in pool THEN @ - 1 ELSE @]
  /\ taken' = [taken EXCEPT ![k] = IF k \in pool THEN @ + 1 ELSE @]
  /\ pool' = IF cnt[k] = 1 THEN pool \ {k} ELSE pool
  /\ engine' = None
  /\ UNCHANGED <<pc, sender, side, acks, pipes, notifs, trans, recent, delivered, failures>>

-----------------------------------------------------------------------------
SenderStep(s) ==
  \/ Connect(s) \/ Connected(s) \/ Allocate(s) \/ Flush(s)
  \/ SpinCheckForAck(s) \/ CommitWrite(s) \/ SendNotif(s)
ReceiverStep ==
  \/ \E s \in Senders : InitializePipe(s) \/ ReceiveRequest(s)
  \/ WaitRead \/ Observe \/ Acknowledge

Next ==
  \/ \E s \in Senders : SenderStep(s) \/ \E keys \in Stores[s] : PreparePut(s, keys)
  \/ ReceiverStep
  \/ PoolContains \/ PoolRemove \/ \E k \in Keys : PoolGet(k)

\* The side channel is served fairly: ZeroMQ reads its peers in turn.
Spec ==
  /\ Init /\ [][Next]_vars
  /\ \A s \in Senders : /\ WF_vars(SenderStep(s))
                        /\ SF_vars(InitializePipe(s)) /\ SF_vars(ReceiveRequest(s))
  /\ WF_vars(ReceiverStep)

-----------------------------------------------------------------------------
(***************************************************************************)
(* Correctness.                                                            *)
(***************************************************************************)
TypeOK ==
  /\ pc \in [Senders \cup {Receiver} ->
       {"new", "handshake", "idle", "fill", "spin", "write", "notify",
        "poll", "wait", "observe"}]
  /\ \A s \in Senders :
       /\ job[s] = <<>> \/ job[s] \in Stores[s]
       /\ placed[s] \in 0 .. Len(job[s])
       /\ allocated[s] \in 0 .. Capacity /\ buffer[s] \in [Bytes -> Keys \cup {None}]
       /\ Len(acks[s]) <= 1 /\ Cardinality(notifs[s]) <= 1
       /\ pipes[s].buffer \in [Bytes -> Keys \cup {None}]
  /\ trans.seen <= trans.read /\ trans.got + trans.read <= Len(trans.keys)
  /\ pool = {k \in Keys : cnt[k] > 0} /\ Len(recent) <= RecentAdds
  /\ engine \in Keys \cup {None}

\* The receiver is handed each sender's chunks once, in order, each with its
\* own bytes, however the stores are cut into writes.
Stream == INSTANCE ObjectStream
DeliversStreams == Stream!Spec

\* A sender does not write to its buffer at the receiver while the receiver
\* waits to read it, or reads it.
WriteExcludesRead ==
  \A s \in Senders : pc[s] = "write" =>
    /\ ~(trans.from = s /\ pc[Receiver] = "observe")
    /\ pipes[s].uuid \notin notifs[s]

\* The pool holds what was delivered and has not been taken: by a retrieve, or
\* by the collector.
PoolIsExact ==
  \A k \in Keys :
    LET times(s) == Cardinality({i \in DOMAIN delivered[s] : delivered[s][i].key = k})
    IN cnt[k] = MapThenSumSet(times, Senders) - taken[k]

\* A store ends, unless a transfer or an observer has failed: one failure may
\* stop every sender.
StoreEnds == \A s \in Senders : pc[s] = "fill" ~> pc[s] = "idle" \/ failures > 0
=============================================================================
