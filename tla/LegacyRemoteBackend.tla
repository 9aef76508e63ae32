------------------------- MODULE LegacyRemoteBackend -------------------------
(***************************************************************************)
(* LMCRemoteBackend and LMCPipelinedRemoteBackend (MTDS/storage_backend/   *)
(* remote_backend.py) with their connectors, and the lm server (MTDS/      *)
(* server). One socket carries the requests of all threads: the thread     *)
(* that reads (the engine's, or the network worker of the pipeline) and    *)
(* the put worker, which sends a chunk as two messages, header and body,   *)
(* with the socket lock taken for each. The server answers exist and get,  *)
(* not put.                                                                *)
(***************************************************************************)
EXTENDS LegacyLocalBackend

VARIABLES
    stream,      \* client to server: messages [m ("exist", "get", "put", "body", "set"), key]
    reply,       \* server to client
    server,      \* "cpu" or "disk" (lm), or "redis"
    stored,      \* the server's chunks: key -> the chunk whose KV it has, "mixed" or "none"
    rewriting,   \* keys whose file the disk server is writing for a peer
    serverLock,  \* update_lock of the cpu server: "free" or "dead"
    reader,      \* the thread that reads: [step ("idle", "exist", "get"), key, cmd]
    network,     \* network_queue of the pipeline, the item in work first
    deserialize, \* deserialize_queue
    result_list  \* result_list of the pipeline

remoteVars == <<stream, reply, stored, rewriting, serverLock, reader, network, deserialize, result_list>>
othersOfRemote == <<local, mem, diskVars, server, lock>>

InitRemote ==
    /\ stream = <<>> /\ reply = <<>>
    /\ rewriting = {} /\ serverLock = "free"
    /\ reader = [step |-> "idle", key |-> "none", cmd |-> "none"]
    /\ network = <<>> /\ deserialize = <<>> /\ result_list = <<>>

Message(m, k) == [m |-> m, key |-> k]
Send(m, k) == stream' = Append(stream, Message(m, k))

RedisSet(k) == <<Message("set", k)>>
LmSet(k) == <<Message("put", k), Message("body", k)>>

\* A chunk on its way: redis sends a command whole.
PutMessages(k) == IF server = "redis" THEN RedisSet(k) ELSE LmSet(k)

-----------------------------------------------------------------------------
(* The reading thread: contains, and get, which asks contains first. *)

Ask(k, cmd) ==
    /\ reader.step = "idle"
    /\ reader' = [step |-> "exist", key |-> k, cmd |-> cmd]
    /\ Send("exist", k)

\* A call of the engine thread.
RemoteAsk ==
    /\ call.to = "remote" /\ call.answer = "pending" /\ call.cmd \in {"contains", "get"}
    /\ Ask(call.key, call.cmd)
    /\ UNCHANGED <<othersOfRemote, call, put_queue, put_worker, reply, stored, rewriting, serverLock,
                   network, deserialize, result_list>>

\* batched_get of the pipeline queues all keys.
PipelineAsk ==
    /\ Pending("remote", "batched_get")
    /\ call' = [call EXCEPT !.answer = "joining"]
    /\ network' = call.keys /\ result_list' = <<>>
    /\ UNCHANGED <<othersOfRemote, put_queue, put_worker, stream, reply, stored, rewriting, serverLock,
                   reader, deserialize>>

\* The network worker takes a key.
NetworkAsk ==
    /\ network # <<>> /\ Ask(Head(network), "fetch")
    /\ UNCHANGED <<othersOfRemote, call, put_queue, put_worker, reply, stored, rewriting, serverLock,
                   network, deserialize, result_list>>

Idle == reader' = [step |-> "idle", key |-> "none", cmd |-> "none"]

\* The answer to exist. The network worker just forgets a key that is not
\* there: it gets no place in the results.
ReadExist ==
    /\ reader.step = "exist" /\ reply # <<>>
    /\ reply' = Tail(reply)
    /\ IF Head(reply) = "yes" /\ reader.cmd # "contains"
       THEN /\ Send("get", reader.key) /\ reader' = [reader EXCEPT !.step = "get"]
            /\ UNCHANGED <<call, network>>
       ELSE /\ Idle /\ UNCHANGED stream
            /\ IF reader.cmd = "fetch"
               THEN network' = Tail(network) /\ UNCHANGED call
               ELSE /\ Answered(IF reader.cmd = "get" THEN "none" ELSE Head(reply))
                    /\ UNCHANGED network
    /\ UNCHANGED <<othersOfRemote, put_queue, put_worker, stored, rewriting, serverLock,
                   deserialize, result_list>>

\* The answer to get. The network worker asserts that it is data: without,
\* it is dead, and its task is never done.
ReadGet ==
    /\ reader.step = "get" /\ reply # <<>>
    /\ reply' = Tail(reply)
    /\ IF reader.cmd = "fetch"
       THEN IF Head(reply) = "none"
            THEN reader' = [reader EXCEPT !.step = "dead"] /\ UNCHANGED <<network, deserialize, call>>
            ELSE /\ network' = Tail(network) /\ deserialize' = Append(deserialize, Head(reply))
                 /\ Idle /\ UNCHANGED call
       ELSE Answered(Head(reply)) /\ Idle /\ UNCHANGED <<network, deserialize>>
    /\ UNCHANGED <<othersOfRemote, put_queue, put_worker, stream, stored, rewriting, serverLock, result_list>>

\* The deserialize worker.
Deserialize ==
    /\ deserialize # <<>>
    /\ deserialize' = Tail(deserialize)
    /\ result_list' = Append(result_list, Head(deserialize))
    /\ UNCHANGED <<othersOfRemote, call, put_queue, put_worker, stream, reply, stored, rewriting,
                   serverLock, reader, network>>

\* Both queues are joined: the engine thread has the results.
PipelineAnswers ==
    /\ call.to = "remote" /\ call.answer = "joining" /\ network = <<>> /\ deserialize = <<>>
    /\ Answered("done")
    /\ UNCHANGED <<othersOfRemote, put_queue, put_worker, remoteVars>>

-----------------------------------------------------------------------------
(* Puts *)

\* put_blocking by the engine thread: nobody else sends.
RemotePutBlocking ==
    /\ Pending("remote", "put")
    /\ stream' = stream \o PutMessages(call.key)
    /\ Answered("done")
    /\ UNCHANGED <<othersOfRemote, put_queue, put_worker, reply, stored, rewriting, serverLock, reader,
                   network, deserialize, result_list>>

\* The put worker sends the header, ...
RemoteWorkerHeader ==
    /\ put_worker.step = "idle" /\ put_queue # <<>>
    /\ put_queue' = Tail(put_queue)
    /\ stream' = Append(stream, PutMessages(Head(put_queue))[1])
    /\ put_worker' = [step |-> IF Len(PutMessages(Head(put_queue))) = 1 THEN "idle" ELSE "body",
                      key |-> Head(put_queue), idx |-> 0]
    /\ UNCHANGED <<othersOfRemote, call, reply, stored, rewriting, serverLock, reader, network,
                   deserialize, result_list>>

\* ... and, the lock taken anew, the body.
RemoteWorkerBody ==
    /\ put_worker.step = "body"
    /\ Send("body", put_worker.key)
    /\ put_worker' = [step |-> "idle", key |-> "none", idx |-> 0]
    /\ UNCHANGED <<othersOfRemote, call, put_queue, reply, stored, rewriting, serverLock, reader,
                   network, deserialize, result_list>>

-----------------------------------------------------------------------------
(* The server's thread for this connection, handle_client *)

ServerUnchanged == UNCHANGED <<othersOfRemote, call, put_queue, put_worker, reader, network,
                               deserialize, result_list, rewriting, serverLock>>

\* exist takes no lock.
ServerExist ==
    /\ stream # <<>> /\ Head(stream).m = "exist"
    /\ stream' = Tail(stream)
    /\ reply' = Append(reply, IF stored[Head(stream).key] # "none" THEN "yes" ELSE "no")
    /\ UNCHANGED stored /\ ServerUnchanged

\* get of the data store. The disk server's lock does not keep writers out of
\* the file that it reads.
ReadStored(k) == IF stored[k] # "none" /\ k \in rewriting THEN "part" ELSE stored[k]

ServerGet ==
    /\ stream # <<>> /\ Head(stream).m = "get" /\ serverLock = "free"
    /\ stream' = Tail(stream)
    /\ reply' = Append(reply, ReadStored(Head(stream).key))
    /\ UNCHANGED stored /\ ServerUnchanged

\* put takes as many bytes as the header says for the body, whatever they are:
\* after a request of another thread, the end of the body is left over.
ServerPut ==
    /\ Len(stream) > 1 /\ Head(stream).m = "put" /\ serverLock = "free"
    /\ stored' = [stored EXCEPT ![Head(stream).key] =
                    IF stream[2].m = "body" THEN Head(stream).key ELSE "mixed"]
    /\ stream' = SubSeq(stream, 3, Len(stream))
    /\ UNCHANGED reply /\ ServerUnchanged

\* What is left over has no known command.
ServerSkips ==
    /\ stream # <<>> /\ Head(stream).m = "body"
    /\ stream' = Tail(stream)
    /\ UNCHANGED <<reply, stored>> /\ ServerUnchanged

\* A redis server's set.
ServerSet ==
    /\ stream # <<>> /\ Head(stream).m = "set"
    /\ stored' = [stored EXCEPT ![Head(stream).key] = Head(stream).key]
    /\ stream' = Tail(stream)
    /\ UNCHANGED reply /\ ServerUnchanged

-----------------------------------------------------------------------------
(* Other clients of the server *)

PeersUnchanged == UNCHANGED <<othersOfRemote, call, put_queue, put_worker, stream, reply, reader,
                              network, deserialize, result_list>>

\* A peer stores a chunk: at once, under the lock (redis has none), ...
PeerPuts(c) ==
    /\ server # "disk" /\ serverLock = "free"
    /\ stored' = [stored EXCEPT ![c] = c]
    /\ UNCHANGED <<rewriting, serverLock>> /\ PeersUnchanged

\* ... or, on the disk server, the file first and without the lock, ...
PeerPutBegins(c) ==
    /\ server = "disk" /\ c \notin rewriting
    /\ rewriting' = rewriting \union {c}
    /\ UNCHANGED <<stored, serverLock>> /\ PeersUnchanged

\* ... then the entry.
PeerPutEnds(c) ==
    /\ c \in rewriting
    /\ rewriting' = rewriting \ {c}
    /\ stored' = [stored EXCEPT ![c] = c]
    /\ UNCHANGED serverLock /\ PeersUnchanged

\* A peer goes away between header and body: the cpu server asks for the size
\* of None with its lock held.
PeerDies ==
    /\ server = "cpu" /\ serverLock = "free"
    /\ serverLock' = "dead"
    /\ UNCHANGED <<stored, rewriting>> /\ PeersUnchanged

\* A redis server is full.
RedisEvicts(c) ==
    /\ server = "redis" /\ stored[c] # "none"
    /\ stored' = [stored EXCEPT ![c] = "none"]
    /\ UNCHANGED <<rewriting, serverLock>> /\ PeersUnchanged
=============================================================================
