--------------------------- MODULE RemoteBackend ---------------------------
(***************************************************************************)
(* The remote backend of one or several engine instances that share one    *)
(* external store (storage_backend/remote_backend.py), the part that is    *)
(* common to all connectors: the connection with its retry interval, the   *)
(* list of put tasks, the reference counts of the objects being put, and   *)
(* the two threads of an instance that call it.  "eng" stores, retrieves   *)
(* and looks up, "look" only looks up.  A connector's coroutines run on    *)
(* the instance's event loop; they are in LmConnector and StoreConnectors. *)
(***************************************************************************)
EXTENDS Naturals, FiniteSets, Sequences

CONSTANTS Instances,      \* engine processes
          Threads,        \* their threads: pairs of an instance and "eng" or "look"
          Keys,           \* chunks
          Kinds,          \* connectors to choose the configuration from
          None,           \* no bytes, no answer
          Found,          \* the answer of contains for a key that exists
          Garbage,        \* bytes that are no chunk of anyone
          Calls,          \* the calls of a configuration: thread, operation, key
          Mortal,         \* instances whose process may die
          MaxConnections  \* bound: connections an instance opens

ASSUME RemoteAssumption ==
    /\ MaxConnections \in Nat \ {0}
    /\ Mortal \subseteq Instances
    /\ Threads \subseteq Instances \X {"eng", "look"}
    /\ \A i \in Instances : <<i, "eng">> \in Threads
    /\ Calls \in [Kinds -> SUBSET (Threads \X {"contains", "get", "store"} \X Keys)]
    /\ \A d \in Kinds : \A c \in Calls[d] : c[2] # "contains" => c[1][2] = "eng"

VARIABLES kind,      \* the connector of this configuration
          alive,     \* the engine processes that have not died
          conn,      \* self.connection: a number, 0 for None
          opened,    \* connections opened so far
          recent,    \* less than min_reconnect_interval since failure_time
          putTasks,  \* self.put_tasks
          hot,       \* keys of the hot cache whose object is the one stored
          refs,      \* ref_count of the object stored for a key
          stores,    \* keys stored so far: an instance stores a key once (bound)
          thread,    \* the calls in progress
          put,       \* the put coroutines
          remote     \* the external store: metadata and bytes of each key

bvars == <<kind, alive, conn, opened, recent, putTasks, hot, refs, stores>>

(***************************************************************************)
(* The bytes an instance writes for a key, and the absence of bytes.       *)
(***************************************************************************)
Bytes == [key: Keys, by: Instances]
Exists(b) == IF b THEN Found ELSE None
Chunk(i, k) == [key |-> k, by |-> i]
Stored == Bytes \cup {None, Garbage}

ASSUME ValuesDiffer ==
    /\ None \notin Bytes /\ None \notin Keys /\ None \notin Threads
    /\ Found \notin Bytes /\ Garbage \notin Bytes
    /\ None # Found /\ None # Garbage /\ Found # Garbage

Idle == [pc |-> "idle", key |-> None, con |-> 0, tmp |-> None, got |-> None]
NoPut == [pc |-> "none", con |-> 0, tmp |-> None]

InitBackend ==
    /\ kind \in Kinds
    /\ alive = Instances
    /\ conn = [i \in Instances |-> 1] /\ opened = [i \in Instances |-> 1]
    /\ recent = [i \in Instances |-> FALSE]
    /\ putTasks = [i \in Instances |-> {}]
    /\ hot = [i \in Instances |-> {}]
    /\ refs = [i \in Instances |-> [k \in Keys |-> 0]]
    /\ stores = [i \in Instances |-> {}]
    /\ thread = [p \in Threads |-> Idle]
    /\ put = [i \in Instances |-> [k \in Keys |-> NoPut]]

Goto(p, l) == thread' = [thread EXCEPT ![p].pc = l]
Hold(p, l, x) == thread' = [thread EXCEPT ![p].pc = l, ![p].tmp = x]

(* The call of p ends with answer a; bytes are kept until the next call.   *)
Answer(p, a) ==
    thread' = [thread EXCEPT ![p] =
        IF a \in {None, Found} THEN Idle
        ELSE [thread[p] EXCEPT !.pc = "idle", !.tmp = None, !.got = a]]

(* Faulty: the exception is caught, the connection stays. *)
LoseConnectionKeepsIt(p) ==
    /\ Answer(p, None)
    /\ UNCHANGED bvars

(* The future of an exists or a get raises: the connection is dropped, and *)
(* the answer is that there is nothing. *)
LoseConnection(p) ==
    /\ conn' = [conn EXCEPT ![p[1]] = 0]
    /\ recent' = [recent EXCEPT ![p[1]] = TRUE]
    /\ Answer(p, None)
    /\ UNCHANGED <<kind, alive, opened, putTasks, hot, refs, stores>>

(***************************************************************************)
(* _init_connection: nothing if connected, nothing within the interval of  *)
(* the last failure; the connector may fail to be created.                 *)
(***************************************************************************)
InitConnection(i, canConnect) ==
    IF conn[i] # 0 \/ recent[i] \/ (canConnect /\ opened[i] = MaxConnections)
    THEN UNCHANGED <<conn, opened, recent>>
    ELSE IF canConnect
    THEN /\ opened' = [opened EXCEPT ![i] = @ + 1]
         /\ conn' = [conn EXCEPT ![i] = opened[i] + 1]
         /\ UNCHANGED recent
    ELSE /\ recent' = [recent EXCEPT ![i] = TRUE]
         /\ UNCHANGED <<conn, opened>>

(***************************************************************************)
(* contains, wrapped by _init_connection_wrapper.  self.connection is      *)
(* tested and read again for the call: where the other thread has reset it *)
(* in between, contains raises an AttributeError.  That leaves what a call *)
(* leaves that fails right after the reset, which is among the connector's *)
(* steps; the exception itself is not told from the answer False.          *)
(***************************************************************************)
Contains(p, k, canConnect) ==
    /\ p[1] \in alive /\ thread[p].pc = "idle" /\ <<p, "contains", k>> \in Calls[kind]
    /\ InitConnection(p[1], canConnect)
    /\ thread' = [thread EXCEPT ![p] =
         IF conn'[p[1]] = 0 THEN [Idle EXCEPT !.key = k]
         ELSE [Idle EXCEPT !.pc = "exists", !.key = k, !.con = conn'[p[1]]]]
    /\ UNCHANGED <<kind, alive, putTasks, hot, refs, stores, put>>

(***************************************************************************)
(* get_blocking, which does not try to reconnect.  It reads the connection *)
(* twice too; a reset in between raises, and leaves what a call leaves     *)
(* that begins now and finds no connection.                                *)
(***************************************************************************)
GetBlocking(p, k) ==
    /\ p[1] \in alive /\ thread[p].pc = "idle" /\ <<p, "get", k>> \in Calls[kind]
    /\ k \notin hot[p[1]]
    /\ thread' = [thread EXCEPT ![p] =
         IF conn[p[1]] = 0 THEN [Idle EXCEPT !.key = k]
         ELSE [Idle EXCEPT !.pc = "get", !.key = k, !.con = conn[p[1]]]]
    /\ UNCHANGED <<bvars, put>>

(***************************************************************************)
(* StorageManager.put of a new object that the caller holds: nothing if    *)
(* the key is being put; otherwise the hot cache takes a reference and     *)
(* submit_put_task starts, unless there is no connection.                  *)
(***************************************************************************)
StorePut(p, k) ==
    /\ p[1] \in alive /\ thread[p].pc = "idle" /\ <<p, "store", k>> \in Calls[kind]
    /\ k \notin stores[p[1]]
    /\ k \notin hot[p[1]] /\ refs[p[1]][k] = 0 /\ put[p[1]][k].pc = "none"
    /\ stores' = [stores EXCEPT ![p[1]] = @ \cup {k}]
    /\ IF k \in putTasks[p[1]]
       THEN thread' = [thread EXCEPT ![p] = Idle] /\ UNCHANGED <<hot, refs>>
       ELSE /\ hot' = [hot EXCEPT ![p[1]] = @ \cup {k}]
            /\ refs' = [refs EXCEPT ![p[1]][k] = IF conn[p[1]] = 0 THEN 1 ELSE 3]
            /\ thread' = [thread EXCEPT ![p] =
                 IF conn[p[1]] = 0 THEN Idle ELSE [Idle EXCEPT !.pc = "append", !.key = k]]
    /\ UNCHANGED <<kind, alive, conn, opened, recent, putTasks, put>>

(* submit_put_task appends the key under the lock. *)
AppendTask(p) ==
    /\ p[1] \in alive /\ thread[p].pc = "append"
    /\ putTasks' = [putTasks EXCEPT ![p[1]] = @ \cup {thread[p].key}]
    /\ Goto(p, "submit")
    /\ UNCHANGED <<kind, alive, conn, opened, recent, hot, refs, stores, put>>

(***************************************************************************)
(* It serializes (the naive serializer returns the object with one more    *)
(* reference), drops its own reference and reads self.connection again:    *)
(* if the other thread has reset it meanwhile, the store call raises, and  *)
(* neither the key nor the references of caller and serializer are taken   *)
(* back.  Otherwise the coroutine is scheduled, its callback registered,   *)
(* and StorageManager.put drops the caller's reference.                    *)
(***************************************************************************)
SubmitPutTask(p) ==
    LET i == p[1] k == thread[p].key IN
    /\ i \in alive /\ thread[p].pc = "submit"
    /\ IF conn[i] = 0
       THEN /\ put' = [put EXCEPT ![i][k].pc = "orphan"]
            /\ UNCHANGED refs
       ELSE /\ put' = [put EXCEPT ![i][k] = [NoPut EXCEPT !.pc = "scheduled", !.con = conn[i]]]
            /\ refs' = [refs EXCEPT ![i][k] = @ - 1]
    /\ thread' = [thread EXCEPT ![p] = Idle]
    /\ UNCHANGED <<kind, alive, conn, opened, recent, putTasks, hot, stores>>

(* put_callback: the key leaves the list. *)
PutCallback(i, k) == putTasks' = [putTasks EXCEPT ![i] = @ \ {k}]

(***************************************************************************)
(* The end of a put coroutine, with or without an exception:               *)
(* InstrumentedRemoteConnector.put drops the reference, then the callback  *)
(* runs.  The sentinel connector has dropped one of its own before.        *)
(***************************************************************************)
InstrumentedDone(i, k) ==
    refs' = [refs EXCEPT ![i][k] = @ - (IF kind = "sentinel" THEN 2 ELSE 1)]
FinishPut(i, k) ==
    /\ InstrumentedDone(i, k)
    /\ PutCallback(i, k)
    /\ put' = [put EXCEPT ![i][k] = NoPut]
    /\ UNCHANGED <<kind, alive, conn, opened, recent, hot, stores>>

PutStep(i, k, l, x) == put' = [put EXCEPT ![i][k] = [@ EXCEPT !.pc = l, !.tmp = x]]

(* The evictor drops the hot cache's reference of a key nobody else uses. *)
EvictHot(i, k) ==
    /\ i \in alive /\ k \in hot[i] /\ refs[i][k] = 1
    /\ hot' = [hot EXCEPT ![i] = @ \ {k}]
    /\ refs' = [refs EXCEPT ![i][k] = 0]
    /\ UNCHANGED <<kind, alive, conn, opened, recent, putTasks, stores, thread, put>>

(* Ten seconds have passed since the last failure. *)
Elapse(i) ==
    /\ recent[i] /\ i \in alive
    /\ recent' = [recent EXCEPT ![i] = FALSE]
    /\ UNCHANGED <<kind, alive, conn, opened, putTasks, hot, refs, stores, thread, put>>
=============================================================================
