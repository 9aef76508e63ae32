--------------------------- MODULE RemoteStorage ---------------------------
(***************************************************************************)
(* The remote backend composed with the connector of its configuration.    *)
(***************************************************************************)
EXTENDS LmConnector, StoreConnectors

evars == <<lmvars, registry, fsvars, bufvars>>
vars == <<bvars, thread, put, remote, evars>>

Init ==
    /\ InitBackend /\ InitLm /\ InitRedis /\ InitFS /\ InitBuffers
    /\ remote = [k \in Keys |-> [meta |-> None, body |-> None]]

(* CreateConnector: only the lm connector connects to its server at once. *)
CreateConnector == kind # "lm" \/ LmConnects

Call(p) ==
    /\ \E k \in Keys : Contains(p, k, CreateConnector) \/ GetBlocking(p, k) \/ StorePut(p, k)
    /\ UNCHANGED <<remote, evars>>

Backend(i) ==
    /\ Elapse(i) \/ \E k \in Keys : EvictHot(i, k)
    /\ UNCHANGED <<remote, evars>>

LmCall(p) ==
    \/ LmExists(p) \/ LmGet(p) \/ LmReadFails(p) \/ LmDecodeFails(p)
    \/ LmExistsReply(p) \/ LmGetMiss(p) \/ LmGetBody(p)
    \/ \E a \in BOOLEAN : LmGetHit(p, a)
(* A call in progress, a put coroutine, and a server thread each make a    *)
(* step of the connector of this configuration.                            *)
GoOn(p) ==
    \/ (AppendTask(p) \/ SubmitPutTask(p)) /\ UNCHANGED <<remote, evars>>
    \/ kind = "lm" /\ LmCall(p) /\ UNCHANGED <<registry, fsvars, bufvars>>
    \/ kind \in RedisKinds /\ RedisThread(p) /\ UNCHANGED <<lmvars, fsvars, bufvars>>
    \/ kind = "fs" /\ FSThread(p) /\ UNCHANGED <<lmvars, registry, bufvars>>
    \/ kind \in BufferKinds /\ BufferThread(p) /\ UNCHANGED <<lmvars, registry, fsvars>>
RunPut(i, k) ==
    \/ kind = "lm" /\ LmPut(i, k) /\ UNCHANGED <<registry, fsvars, bufvars>>
    \/ kind \in RedisKinds /\ RedisPut(i, k) /\ UNCHANGED <<lmvars, fsvars, bufvars>>
    \/ kind = "fs" /\ FSPut(i, k) /\ UNCHANGED <<lmvars, registry, bufvars>>
    \/ kind \in BufferKinds /\ BufferPut(i, k) /\ UNCHANGED <<lmvars, registry, fsvars>>
Serve(i) ==
    /\ kind = "lm" /\ \E c \in 1..MaxConnections : HandleClient(i, c)
    /\ UNCHANGED <<registry, fsvars, bufvars>>

(* What happens to the store from outside. *)
Outside ==
    \/ /\ kind = "lm" /\ (ServerDies \/ ServerStarts)
       /\ UNCHANGED <<registry, fsvars, bufvars>>
    \/ /\ kind \in RedisKinds /\ \E k \in Keys : RedisEvicts(k)
       /\ UNCHANGED <<lmvars, fsvars, bufvars>>
    \/ /\ kind = "mooncake"
       /\ \E i \in Instances, k \in Keys : MemoryReused(i, k) \/ AbandonedDone(i, k)
       /\ UNCHANGED <<thread, lmvars, registry, fsvars>>

(* An engine process dies with its calls, its coroutines and its memory. *)
ProcessDies(i) ==
    /\ i \in alive \cap Mortal
    /\ alive' = alive \ {i}
    /\ thread' = [p \in Threads |-> IF p[1] = i THEN Idle ELSE thread[p]]
    /\ put' = [put EXCEPT ![i] = [k \in Keys |-> NoPut]]
    /\ putTasks' = [putTasks EXCEPT ![i] = {}]
    /\ hot' = [hot EXCEPT ![i] = {}]
    /\ refs' = [refs EXCEPT ![i] = [k \in Keys |-> 0]]
    /\ abandoned' = [abandoned EXCEPT ![i] = [k \in Keys |-> None]]
    /\ \E cut \in BOOLEAN : LmProcessDies(i, cut)
    /\ UNCHANGED <<kind, conn, opened, recent, stores, remote, registry, fsvars, sendFree, recvFree>>

Next ==
    \/ \E p \in Threads : Call(p) \/ GoOn(p)
    \/ \E i \in Instances :
         \/ Backend(i) \/ Serve(i) \/ ProcessDies(i)
         \/ \E k \in Keys : RunPut(i, k)
    \/ Outside

(***************************************************************************)
(* Fairness: a thread that has begun a call goes on with it (looking up    *)
(* anew is not going on), the loop comes to every scheduled coroutine (it  *)
(* is free again and again, hence strong), and the server's threads run.   *)
(***************************************************************************)
Spec ==
    /\ Init /\ [][Next]_vars
    /\ \A p \in Threads : WF_vars(GoOn(p))
    /\ \A i \in Instances \ Mortal : \A k \in Keys : SF_vars(RunPut(i, k))
    /\ \A i \in Instances : WF_vars(Serve(i))

TypeOK ==
    /\ kind \in Kinds /\ alive \subseteq Instances
    /\ conn \in [Instances -> 0..MaxConnections] /\ opened \in [Instances -> 1..MaxConnections]
    /\ recent \in [Instances -> BOOLEAN]
    /\ putTasks \in [Instances -> SUBSET Keys] /\ hot \in [Instances -> SUBSET Keys]
    /\ refs \in [Instances -> [Keys -> 0..4]]
    /\ \A k \in Keys : remote[k].meta \in Stored /\ remote[k].body \in Stored
    /\ \A k \in Keys : {temp[k], final[k]} \subseteq 0..MaxFiles
    /\ sendFree \in [Instances -> [1..MaxConnections -> 0..PoolSize]]
    /\ recvFree \in [Instances -> [1..MaxConnections -> 0..PoolSize]]

(***************************************************************************)
(* What a get returns is what some instance stored for that very key: not  *)
(* the bytes of another chunk, nor of an interrupted put, whichever way    *)
(* streams, files and keys were torn before.  An audited instance gets     *)
(* what it put itself.  Two exceptions: the bytes a mooncake transfer sent *)
(* from memory that was given up when its put timed out, and a call that   *)
(* goes on using an lm connection after another call has given it up.      *)
(***************************************************************************)
OwnBytes(p) ==
    /\ thread[p].got # Garbage
    /\ thread[p].got.key = thread[p].key
    /\ kind = "audit" => registry[p[1]][thread[p].key] \in {None, thread[p].got}
AnswersOwnKey ==
    \A p \in Threads : thread[p].got # None =>
        \/ OwnBytes(p)
        \/ kind = "mooncake" /\ thread[p].got = Garbage
        \/ kind = "lm" /\ thread[p].con # conn[p[1]]

(***************************************************************************)
(* The same of every lm answer: base_connector.py says of get that it will *)
(* "Get the memory_obj of the corresponding key". Does not hold (README,   *)
(* section 6).                                                             *)
(***************************************************************************)
GetsOfTheCorrespondingKey == \A p \in Threads : thread[p].got # None => OwnBytes(p)

(***************************************************************************)
(* The references of a stored object are those of the hot cache, of the    *)
(* store call and of the coroutine: none is lost or dropped twice,         *)
(* whatever connector fails at whatever step.  (The sentinel connector     *)
(* drops one twice, its own and the instrumented connector's.)             *)
(***************************************************************************)
Claims(i, k) ==
    (IF k \in hot[i] THEN 1 ELSE 0)
    + (IF thread[<<i, "eng">>].key = k /\ thread[<<i, "eng">>].pc \in {"append", "submit"}
       THEN 2 ELSE 0)
    + (CASE put[i][k].pc = "none" -> 0 [] put[i][k].pc = "orphan" -> 2 [] OTHER -> 1)
ObjectRefsExact ==
    kind # "sentinel" =>
    \A i \in Instances, k \in Keys : refs[i][k] = Claims(i, k)

(***************************************************************************)
(* In a process that does not die, a put task ends, so that the key can be *)
(* stored again, unless the connection was lost under the store call, or   *)
(* oversized chunks have taken all the send buffers of its connection.     *)
(***************************************************************************)
SendBuffersLost(i) ==
    \E c \in 1..MaxConnections :
        sendFree[i][c] = 0 /\ ~\E k \in Keys : put[i][k].con = c /\ put[i][k].pc = "transfer"
PutTaskEnds ==
    \A i \in Instances \ Mortal : \A k \in Keys :
        k \in putTasks[i] ~> \/ k \notin putTasks[i]
                             \/ put[i][k].pc = "orphan"
                             \/ SendBuffersLost(i)

=============================================================================
