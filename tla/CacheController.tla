---------------------------- MODULE CacheController ----------------------------
(***************************************************************************)
(* The cache controller (src/MTDS/v1/cache_controller/): each worker       *)
(* reports to one controller what enters and leaves its cache.  A message  *)
(* goes from the thread that changes the cache into msg_queue, in batches  *)
(* from there onto a ZeroMQ PUSH connection, and part by part into the     *)
(* handlers of the controller, whose kv_pool answers lookups.  The         *)
(* controller asks workers to clear their caches over REQ/REP sockets.     *)
(*                                                                         *)
(* A batch is one multipart message: a part knows whether more follow, and *)
(* it stays in pipe until it is handled.  handling names the connection    *)
(* whose batch the controller is in the middle of.                         *)
(*                                                                         *)
(* A worker that restarts has a new connection, and what is still on the   *)
(* old one may arrive later.  The store and its lock are those of          *)
(* LocalCPUBackend.tla: submit_put_task and remove put their message while *)
(* they hold the lock, write_back when it has let go of it.                *)
(***************************************************************************)
EXTENDS Integers, Sequences, SequencesExt, FiniteSets

CONSTANTS
  Workers, Instances, Ips, Keys,
  Writers,            \* of each worker, the threads that write chunks back (a workload)
  InstanceOf, IpOf,   \* of each worker
  MaxBatch,           \* max_bsz of batched_get_msg (50 in the code)
  Stopping,           \* workers that close or die (a workload)
  Cleared,            \* instances that are cleared (a workload)
  MaxStarts,          \* how often a worker is started (a bound)
  QueueBound,         \* messages that wait in a queue (a bound)
  PipeBound,          \* parts that wait on a connection before a batch (a bound)
  NoInstance

ASSUME ControllerAssumption ==
  /\ InstanceOf \in [Workers -> Instances] /\ IpOf \in [Workers -> Ips]
  /\ {MaxBatch, MaxStarts, QueueBound, PipeBound} \subseteq Nat \ {0}
  /\ Stopping \subseteq Workers /\ Cleared \subseteq Instances
  /\ NoInstance \notin Instances /\ IsFiniteSet(Keys)

Connections == Workers \X (1 .. MaxStarts)

VARIABLES
  running,    \* of each worker: "off", "up", or "closing"
  starts,     \* how often it has been started
  cached,     \* the keys its engine caches
  unreported, \* the threads that wrote a key back and have not reported it yet
  msg_queue,  \* messages not sent yet
  pipe,       \* of each connection: the parts of batches sent and not handled
  handling,   \* the connection, if any, whose batch is being handled
  controller, \* the controller's tables:
              \*   kv_pool           key -> the workers known to have the chunk
              \*   worker_mapping    worker -> how often its instance's list has it
              \*   socket_mapping    worker -> state of the REQ socket to it
              \*   instance_mapping  ip -> instance
  overtaken   \* history: of each worker, the keys that last left the cache while
              \* a thread had yet to report that they had come

worker == <<running, starts, cached, unreported, msg_queue, overtaken>>
vars   == <<worker, pipe, handling, controller>>

RegisterMsg(w)   == [type |-> "register", worker |-> w]
DeRegisterMsg(w) == [type |-> "deregister", worker |-> w]
KVAdmitMsg(w, k) == [type |-> "admit", worker |-> w, key |-> k]
KVEvictMsg(w, k) == [type |-> "evict", worker |-> w, key |-> k]

Init ==
  /\ running = [w \in Workers |-> "off"]
  /\ starts = [w \in Workers |-> 0]
  /\ cached = [w \in Workers |-> {}] /\ unreported = [w \in Workers |-> {}]
  /\ overtaken = [w \in Workers |-> {}]
  /\ msg_queue = [w \in Workers |-> <<>>]
  /\ pipe = [c \in Connections |-> <<>>] /\ handling = {}
  /\ controller = [kv_pool          |-> [k \in Keys |-> {}],
                   worker_mapping   |-> [w \in Workers |-> 0],
                   socket_mapping   |-> [w \in Workers |-> "none"],
                   instance_mapping |-> [ip \in Ips |-> NoInstance]]

-----------------------------------------------------------------------------
(* A worker.                                                               *)

Start(w) ==
  /\ running[w] = "off" /\ starts[w] < MaxStarts
  /\ running' = [running EXCEPT ![w] = "up"]
  /\ starts' = [starts EXCEPT ![w] = @ + 1]
  /\ msg_queue' = [msg_queue EXCEPT ![w] = <<RegisterMsg(w)>>]
  /\ UNCHANGED <<cached, unreported, overtaken, pipe, handling, controller>>

PutMsgs(w, msgs) == msg_queue' = [msg_queue EXCEPT ![w] = @ \o msgs]
Room(w) == Len(msg_queue[w]) < QueueBound

\* The keys K leave the cache.  If a thread has yet to report that one of them
\* came, that report will be behind the one that it left.
Leave(w, K) ==
  /\ cached' = [cached EXCEPT ![w] = @ \ K]
  /\ overtaken' = [overtaken EXCEPT ![w] = (@ \ K) \cup {k \in K : \E p \in unreported[w] : p[2] = k}]

\* submit_put_task and remove of LocalCPUBackend, by whatever thread: the message
\* is put under the lock.
Put(w, k) ==
  /\ running[w] = "up" /\ Room(w)
  /\ cached' = [cached EXCEPT ![w] = @ \cup {k}]
  /\ PutMsgs(w, <<KVAdmitMsg(w, k)>>)
  /\ UNCHANGED <<running, starts, unreported, overtaken, pipe, handling, controller>>

\* Faulty variant: the controller is not told.
RemoveUnreported(w, k) ==
  /\ running[w] = "up" /\ Room(w) /\ k \in cached[w]
  /\ Leave(w, {k})
  /\ UNCHANGED <<running, starts, unreported, msg_queue, pipe, handling, controller>>

RemoveKey(w, k) ==
  /\ running[w] = "up" /\ Room(w) /\ k \in cached[w]
  /\ Leave(w, {k})
  /\ PutMsgs(w, <<KVEvictMsg(w, k)>>)
  /\ UNCHANGED <<running, starts, unreported, pipe, handling, controller>>

\* write_back: thread t enters the chunk it got from another tier under the lock,
\* over one that another thread entered since it looked, ...
WriteBack(w, t, k) ==
  /\ running[w] = "up" /\ \A p \in unreported[w] : p[1] # t
  /\ cached' = [cached EXCEPT ![w] = @ \cup {k}]
  /\ unreported' = [unreported EXCEPT ![w] = @ \cup {<<t, k>>}]
  /\ UNCHANGED <<running, starts, msg_queue, overtaken, pipe, handling, controller>>

\* ... and reports it when it has released the lock.
ReportWriteBack(w, t, k) ==
  /\ running[w] = "up" /\ Room(w) /\ <<t, k>> \in unreported[w]
  /\ unreported' = [unreported EXCEPT ![w] = @ \ {<<t, k>>}]
  /\ PutMsgs(w, <<KVAdmitMsg(w, k)>>)
  /\ UNCHANGED <<running, starts, cached, overtaken, pipe, handling, controller>>

Send(w, batch) ==
  LET c == <<w, starts[w]>> IN
  /\ Len(pipe[c]) < PipeBound
  /\ pipe' = [pipe EXCEPT ![c] =
                @ \o [n \in DOMAIN batch |-> [msg |-> batch[n], more |-> n < Len(batch)]]]

\* push: batched_get_msg takes what is there, up to the limit, and one
\* multipart message carries it.
Push(w) ==
  /\ running[w] # "off" /\ msg_queue[w] # <<>>
  /\ LET n == IF Len(msg_queue[w]) < MaxBatch THEN Len(msg_queue[w]) ELSE MaxBatch IN
       /\ Send(w, SubSeq(msg_queue[w], 1, n))
       /\ msg_queue' = [msg_queue EXCEPT ![w] = SubSeq(@, n + 1, Len(@))]
  /\ UNCHANGED <<running, starts, cached, unreported, overtaken, handling, controller>>

\* close: the deregistration is queued, and the loop is told to stop.
Close(w) ==
  /\ running[w] = "up" /\ w \in Stopping
  /\ running' = [running EXCEPT ![w] = "closing"]
  /\ PutMsgs(w, <<DeRegisterMsg(w)>>)
  /\ UNCHANGED <<starts, cached, unreported, overtaken, pipe, handling, controller>>

\* The first n parts of a connection are whole batches.
Whole(c, n) == IF n = 0 THEN c \notin handling ELSE ~pipe[c][n].more

\* The loop stops, or the process dies: what is in the queue is lost, and with
\* a linger of 0 so are the batches that have not left the socket; a request on
\* its way may be lost or reach the next process.
Stop(w) ==
  LET c == <<w, starts[w]>>
      socket == controller.socket_mapping[w] IN
  /\ running[w] # "off" /\ w \in Stopping
  /\ running' = [running EXCEPT ![w] = "off"]
  /\ cached' = [cached EXCEPT ![w] = {}] /\ unreported' = [unreported EXCEPT ![w] = {}]
  /\ overtaken' = [overtaken EXCEPT ![w] = {}]
  /\ msg_queue' = [msg_queue EXCEPT ![w] = <<>>]
  /\ \E n \in 0 .. Len(pipe[c]) :
       Whole(c, n) /\ pipe' = [pipe EXCEPT ![c] = SubSeq(@, 1, n)]
  /\ \E s \in {socket} \cup (IF socket \in {"sent", "replied"} THEN {"lost"} ELSE {}) :
       controller' = [controller EXCEPT !.socket_mapping[w] = s]
  /\ UNCHANGED <<starts, handling>>

-----------------------------------------------------------------------------
(* The controller: what each handler makes of the tables c.                *)

\* Faulty variant: a worker that is listed is not listed again.
RegisterOnce(c, w) ==
  [c EXCEPT !.instance_mapping[IpOf[w]] = InstanceOf[w],
            !.socket_mapping[w] = "ready",
            !.worker_mapping[w] = IF @ = 0 THEN 1 ELSE @]

\* A new socket replaces an old one, and the worker is listed once more.
Register(c, w) ==
  [c EXCEPT !.instance_mapping[IpOf[w]] = InstanceOf[w],
            !.socket_mapping[w] = "ready",
            !.worker_mapping[w] = @ + 1]

\* list.remove takes one occurrence out.  The coroutine that would take the
\* worker's chunks out of kv_pool is created and never run.
Deregister(c, w) ==
  [c EXCEPT !.instance_mapping[IpOf[w]] = NoInstance,
            !.worker_mapping[w] = IF @ = 0 THEN 0 ELSE @ - 1,
            !.socket_mapping[w] = "none"]

\* The test for a known key looks for the instance among the keys, and fails:
\* the list is made anew each time.
Admit(c, w, k) == [c EXCEPT !.kv_pool[k] = {w}]

\* Faulty variant: the entries of others go, this one stays.
EvictOthers(c, w, k) == [c EXCEPT !.kv_pool[k] = @ \cap {w}]

Evict(c, w, k) == [c EXCEPT !.kv_pool[k] = @ \ {w}]

HandleWorkerMessage(c, m) ==
  CASE m.type = "register"   -> Register(c, m.worker)
    [] m.type = "deregister" -> Deregister(c, m.worker)
    [] m.type = "admit"      -> Admit(c, m.worker, m.key)
    [] m.type = "evict"      -> Evict(c, m.worker, m.key)

\* handle_batched_request: the next part of a batch.  No handler gives up the
\* event loop, so nothing else of the controller runs between two parts.
Receive(conn) ==
  LET part == Head(pipe[conn]) IN
  /\ pipe[conn] # <<>> /\ handling \subseteq {conn}
  /\ controller' = HandleWorkerMessage(controller, part.msg)
  /\ pipe' = [pipe EXCEPT ![conn] = Tail(@)]
  /\ handling' = IF part.more THEN {conn} ELSE {}
  /\ UNCHANGED worker

-----------------------------------------------------------------------------
(* Clearing an instance.                                                   *)

SetSocket(w, s) == controller' = [controller EXCEPT !.socket_mapping[w] = s]

\* executor.clear: an error unless there is a socket to every listed worker.
\* Sending on a socket that waits for a reply fails.
ClearBegin(i) ==
  LET targets == {w \in Workers : InstanceOf[w] = i /\ controller.worker_mapping[w] > 0}
      socket  == controller.socket_mapping IN
  /\ handling = {}
  /\ \A w \in targets : socket[w] # "none"
  /\ \E w \in targets : socket[w] = "ready"
  /\ controller' = [controller EXCEPT !.socket_mapping =
                      [w \in Workers |-> IF w \in targets /\ socket[w] = "ready"
                                         THEN "sent" ELSE socket[w]]]
  /\ UNCHANGED <<worker, pipe, handling>>

\* handle_request: engine.clear of the given tokens removes their chunks.
WorkerClear(w, K) ==
  LET gone == SetToSeq(cached[w] \cap K) IN
  /\ controller.socket_mapping[w] = "sent" /\ running[w] = "up"
  /\ Len(msg_queue[w]) + Len(gone) <= QueueBound
  /\ Leave(w, cached[w] \cap K)
  /\ PutMsgs(w, [n \in DOMAIN gone |-> KVEvictMsg(w, gone[n])])
  /\ SetSocket(w, "replied")
  /\ UNCHANGED <<running, starts, unreported, pipe, handling>>

ReplyRead(w) ==
  /\ handling = {} /\ controller.socket_mapping[w] = "replied"
  /\ SetSocket(w, "ready")
  /\ UNCHANGED <<worker, pipe, handling>>

-----------------------------------------------------------------------------
Next ==
  \/ \E w \in Workers : \/ Start(w) \/ Close(w) \/ Stop(w)
                        \/ Push(w) \/ ReplyRead(w)
                        \/ \E K \in SUBSET Keys : WorkerClear(w, K)
                        \/ \E k \in Keys : Put(w, k) \/ RemoveKey(w, k)
                        \/ \E t \in Writers[w], k \in Keys :
                             WriteBack(w, t, k) \/ ReportWriteBack(w, t, k)
  \/ \E conn \in Connections : Receive(conn)
  \/ \E i \in Cleared : ClearBegin(i)

\* The loops of the workers and of the controller run on, and ZeroMQ delivers what
\* it accepted, from every connection in its turn.
Spec == /\ Init /\ [][Next]_vars
        /\ \A w \in Workers : WF_vars(Push(w))
        /\ \A conn \in Connections : SF_vars(Receive(conn))
-----------------------------------------------------------------------------
(***************************************************************************)
(* Correctness.                                                            *)
(***************************************************************************)
DeRegisterMsgs == {DeRegisterMsg(w) : w \in Workers}
Messages == DeRegisterMsgs \cup {RegisterMsg(w) : w \in Workers}
            \cup {KVAdmitMsg(w, k) : w \in Workers, k \in Keys}
            \cup {KVEvictMsg(w, k) : w \in Workers, k \in Keys}

TypeOK ==
  /\ running \in [Workers -> {"off", "up", "closing"}]
  /\ starts \in [Workers -> 0 .. MaxStarts]
  /\ cached \in [Workers -> SUBSET Keys] /\ overtaken \in [Workers -> SUBSET Keys]
  /\ unreported \in [Workers -> SUBSET ((UNION {Writers[w] : w \in Workers}) \X Keys)]
  /\ msg_queue \in [Workers -> Seq(Messages)]
  /\ pipe \in [Connections -> Seq([msg : Messages, more : BOOLEAN])]
  /\ handling \in SUBSET Connections
  /\ controller \in
       [kv_pool          : [Keys -> SUBSET Workers],
        worker_mapping   : [Workers -> Nat],
        socket_mapping   : [Workers -> {"none", "ready", "sent", "replied", "lost"}],
        instance_mapping : [Ips -> Instances \cup {NoInstance}]]

\* What the process of a connection has reported and the controller has not
\* handled, in order: what it sent, and if it runs, what is in its queue.
Stream(c) ==
  [n \in DOMAIN pipe[c] |-> pipe[c][n].msg]
    \o (IF c[2] = starts[c[1]] THEN msg_queue[c[1]] ELSE <<>>)

InFlight(c) == {Stream(c)[n] : n \in DOMAIN Stream(c)}

Known(w, k)  == w \in controller.kv_pool[k]
Listed(w)    == controller.worker_mapping[w] > 0
FirstLife(w) == starts[w] = 1 /\ running[w] = "up"

\* What lookup says a worker has, it has, or the news that it has not is on
\* its way, whatever the batches, and however chunks come and go: but for a chunk
\* whose removal overtook the late report of a write-back.  That is the only way
\* to a stale entry, and removing the chunk once more mends it.
EntryIsCachedOrEvicting ==
  \A w \in Workers, k \in Keys : FirstLife(w) /\ Known(w, k) =>
    k \in cached[w] \cup overtaken[w] \/ KVEvictMsg(w, k) \in InFlight(<<w, 1>>)

\* ... and that news arrives: no other entry outlives its chunk for ever.
StaleEntryLeaves ==
  \A w \in Workers, k \in Keys :
    (FirstLife(w) /\ Known(w, k) /\ k \notin cached[w] \cup overtaken[w]) ~>
      (~FirstLife(w) \/ ~Known(w, k) \/ k \in cached[w])

\* A worker whose deregistration is handled is listed, through restarts, losses
\* and late messages: list.remove never raises, which would drop the rest of the
\* batch.
DeregisteredIsListed ==
  \A c \in Connections :
    pipe[c] # <<>> /\ Head(pipe[c]).msg = DeRegisterMsg(c[1]) => Listed(c[1])

\* A started worker becomes known to the controller.  (One that is started
\* again may lose its registration to the late message of the process before.)
StartedIsRegistered ==
  \A w \in Workers :
    FirstLife(w) ~> controller.socket_mapping[w] # "none" \/ ~FirstLife(w)
=============================================================================
