---------------------------- MODULE LegacyEngine ----------------------------
(***************************************************************************)
(* The first-generation MTDSEngine (MTDS/cache_engine.py) over one of its  *)
(* backends: host memory, disk, a remote server, or LMCHybridBackend       *)
(* (MTDS/storage_backend/hybrid_backend.py), which writes through host     *)
(* memory to the server. A prompt is its sequence of chunks; chunks of two *)
(* prompts have the same name when their prefixes are equal.               *)
(***************************************************************************)
EXTENDS LegacyRemoteBackend, FiniteSets

CONSTANTS
    Chunks, Prompts,
    Settings,       \* configurations: [mode, blocking, pipelined, server, peers
                    \* (other engines store on the server)]
    InitialLists,   \* what the server may hold, in the order in which it lists it
    MaxOps          \* setting -> calls of the engine to look at

VARIABLES
    setting,   \* the configuration
    op,        \* the engine's call: [kind, prompt, pos, phase, got, miss]
    ops        \* calls made

vars == <<call, localVars, put_queue, put_worker, lock, diskVars, server, remoteVars, setting, op, ops>>

backendVars == <<localVars, put_queue, put_worker, lock, diskVars, server, remoteVars, setting>>

NoCall == [to |-> "none", cmd |-> "none", key |-> "none", val |-> "none", keys |-> <<>>, answer |-> "idle"]
NoOp == [kind |-> "none", prompt |-> <<>>, pos |-> 1, phase |-> "none", got |-> <<>>, miss |-> <<>>]

\* _prefetch: a new hybrid backend copies what the server lists.
Prefetching(list) == [NoOp EXCEPT !.kind = "prefetch", !.prompt = list, !.phase = "fill",
                      !.miss = [i \in DOMAIN list |-> i], !.got = [i \in DOMAIN list |-> "none"]]

Init ==
    /\ setting \in Settings
    /\ InitLocal /\ InitDisk(Chunks) /\ InitRemote
    /\ put_queue = <<>> /\ lock = "free"
    /\ put_worker = [step |-> "idle", key |-> "none", idx |-> 0]
    /\ server = setting.server
    /\ call = NoCall /\ ops = 0
    /\ \E list \in InitialLists :
          /\ stored = [c \in Chunks |-> IF c \in ToSet(list) THEN c ELSE "none"]
          /\ op = IF setting.mode = "hybrid" THEN Prefetching(list) ELSE NoOp

-----------------------------------------------------------------------------

\* The backend that is asked first.
Top == IF setting.mode = "hybrid" THEN "local" ELSE setting.mode

Calling(to, cmd, k) == call' = [NoCall EXCEPT !.to = to, !.cmd = cmd, !.key = k, !.val = k, !.answer = "pending"]

Putting(to, k, v, blocking) ==
    call' = [NoCall EXCEPT !.to = to, !.cmd = IF blocking THEN "put" ELSE "put_later",
             !.key = k, !.val = v, !.answer = "pending"]

Ready(phase) == op.phase = phase /\ call.answer = "idle"
Back(phase, cmd) == op.phase = phase /\ call.cmd = cmd
                    /\ call.answer \notin {"idle", "pending", "joining"}

AtEnd == op.pos > Len(op.prompt)
Key == op.prompt[op.pos]

Engine == UNCHANGED <<backendVars, ops>>

\* store, lookup or retrieve is called. Only store has skip_existing.
Begin(kind, prompt, skip_existing) ==
    /\ op.kind = "none" /\ ops < MaxOps[setting]
    /\ ops' = ops + 1
    /\ op' = [NoOp EXCEPT !.kind = kind, !.prompt = prompt,
              !.phase = CASE kind = "lookup" -> "scan"
                          [] kind = "store" -> IF skip_existing THEN "scan" ELSE "put"
                          [] setting.mode = "hybrid" -> "local"
                          [] setting.pipelined -> "batch"
                          [] OTHER -> "get"]
    /\ UNCHANGED <<backendVars, call>>

\* The call returns, or an exception leaves it.
End ==
    /\ op.kind # "none" /\ call.answer = "idle"
    /\ \/ op.phase = "end"
       \/ AtEnd /\ op.phase \in {"scan", "put", "get"}
    /\ op' = NoOp
    /\ UNCHANGED call /\ Engine

-----------------------------------------------------------------------------
(* lookup, and store up to the first chunk that is not there *)

Scan == /\ Ready("scan") /\ ~AtEnd
        /\ Calling(Top, "contains", Key)
        /\ UNCHANGED op /\ Engine

\* LMCHybridBackend.contains asks the server what is not in host memory.
ScanRemote == /\ Back("scan", "contains") /\ call.answer = "no"
              /\ setting.mode = "hybrid" /\ call.to = "local"
              /\ Calling("remote", "contains", Key)
              /\ UNCHANGED op /\ Engine

Scanned ==
    /\ Back("scan", "contains")
    /\ call.answer = "no" => ~(setting.mode = "hybrid" /\ call.to = "local")
    /\ call' = NoCall
    /\ op' = IF call.answer = "yes" THEN [op EXCEPT !.pos = @ + 1]
             ELSE [op EXCEPT !.phase = IF op.kind = "store" THEN "put" ELSE "end"]
    /\ Engine

-----------------------------------------------------------------------------
(* store: batched_put of the rest *)

Put == /\ Ready("put") /\ ~AtEnd
       /\ Putting(Top, Key, Key, setting.blocking \/ setting.mode = "hybrid")
       /\ UNCHANGED op /\ Engine

\* Only what was stored in host memory afresh is written through.
WroteLocallyBlockingOnly ==
    /\ Back("put", "put") /\ call.to = "local" /\ setting.mode = "hybrid"
    /\ call.answer = "done"
    /\ IF setting.blocking THEN Putting("remote", Key, Key, TRUE) /\ UNCHANGED op
       ELSE call' = NoCall /\ op' = [op EXCEPT !.pos = @ + 1]
    /\ Engine

\* LMCHybridBackend.put writes through.
WroteLocally ==
    /\ Back("put", "put") /\ call.to = "local" /\ setting.mode = "hybrid"
    /\ call.answer = "done"
    /\ Putting("remote", Key, Key, setting.blocking)
    /\ UNCHANGED op /\ Engine

Wrote ==
    /\ op.phase = "put" /\ call.answer \in {"done", "raised"}
    /\ ~(call.to = "local" /\ setting.mode = "hybrid" /\ call.answer = "done")
    /\ call' = NoCall
    /\ op' = IF call.answer = "raised" THEN [op EXCEPT !.phase = "end"] ELSE [op EXCEPT !.pos = @ + 1]
    /\ Engine

-----------------------------------------------------------------------------
(* retrieve *)

\* The default batched_get, which the engine stops at the first miss.
Get == /\ Ready("get") /\ ~AtEnd
       /\ Calling(Top, "contains", Key)
       /\ UNCHANGED op /\ Engine

GetContained ==
    /\ Back("get", "contains")
    /\ IF call.answer = "yes" THEN Calling(Top, "get", Key) /\ UNCHANGED op
       ELSE call' = NoCall /\ op' = [op EXCEPT !.phase = "end"]
    /\ Engine

Got ==
    /\ Back("get", "get")
    /\ call' = NoCall
    /\ op' = IF call.answer \in {"none", "raised"} THEN [op EXCEPT !.phase = "end"]
             ELSE [op EXCEPT !.got = Append(@, call.answer), !.pos = @ + 1]
    /\ Engine

\* The pipeline of the remote backend: its results are taken as they come.
Batch ==
    /\ Ready("batch")
    /\ call' = [NoCall EXCEPT !.to = "remote", !.cmd = "batched_get", !.keys = op.prompt, !.answer = "pending"]
    /\ UNCHANGED op /\ Engine

GotBatch ==
    /\ Back("batch", "batched_get")
    /\ call' = NoCall
    /\ op' = [op EXCEPT !.got = result_list, !.phase = "end"]
    /\ Engine

\* LMCHybridBackend.batched_get: all chunks from host memory, ...
GetLocal ==
    /\ Ready("local") /\ ~AtEnd
    /\ Calling("local", "get", Key)
    /\ UNCHANGED op /\ Engine

GotLocal ==
    /\ Back("local", "get")
    /\ call' = NoCall
    /\ op' = [op EXCEPT !.got = Append(@, call.answer), !.pos = @ + 1,
              !.miss = IF call.answer = "none" THEN Append(@, op.pos) ELSE @]
    /\ Engine

\* ... then the missing ones from the server, in turn or by the pipeline ...
AskMissing ==
    /\ Ready("local") /\ AtEnd
    /\ op' = [op EXCEPT !.phase = IF setting.pipelined THEN "batch_missing" ELSE "fill", !.pos = 1]
    /\ call' = IF setting.pipelined
               THEN [NoCall EXCEPT !.to = "remote", !.cmd = "batched_get", !.answer = "pending",
                     !.keys = [n \in DOMAIN op.miss |-> op.prompt[op.miss[n]]]]
               ELSE NoCall
    /\ Engine

GotMissing ==
    /\ Back("batch_missing", "batched_get")
    /\ call' = NoCall
    /\ op' = [op EXCEPT !.phase = "fill"]
    /\ Engine

MissKey == op.prompt[op.miss[op.pos]]

\* The results are zipped with the missing positions; each is also put into
\* host memory.
Batched == setting.pipelined /\ op.kind = "retrieve"

Fill ==
    /\ Ready("fill") /\ op.pos <= Len(op.miss)
    /\ IF ~Batched THEN Calling("remote", "get", MissKey) /\ UNCHANGED op
       ELSE IF op.pos > Len(result_list) THEN op' = [op EXCEPT !.phase = "end"] /\ UNCHANGED call
       ELSE /\ Putting("local", MissKey, result_list[op.pos], TRUE)
            /\ op' = [op EXCEPT !.got[op.miss[op.pos]] = result_list[op.pos]]
    /\ Engine

FillGot ==
    /\ Back("fill", "get")
    /\ IF call.answer = "none"
       THEN call' = NoCall /\ op' = [op EXCEPT !.pos = @ + 1]
       ELSE /\ Putting("local", MissKey, call.answer, TRUE)
            /\ op' = [op EXCEPT !.got[op.miss[op.pos]] = call.answer]
    /\ Engine

FillPut ==
    /\ Back("fill", "put")
    /\ call' = NoCall
    /\ op' = IF call.answer = "raised" THEN [op EXCEPT !.phase = "end"] ELSE [op EXCEPT !.pos = @ + 1]
    /\ Engine

Filled ==
    /\ Ready("fill") /\ op.pos > Len(op.miss)
    /\ op' = [op EXCEPT !.phase = "end"]
    /\ UNCHANGED call /\ Engine

-----------------------------------------------------------------------------

EngineStep ==
    \/ \E p \in Prompts : Begin("lookup", p, TRUE) \/ Begin("retrieve", p, TRUE)
                          \/ \E skip \in BOOLEAN : Begin("store", p, skip)
    \/ End \/ Scan \/ ScanRemote \/ Scanned \/ Put \/ WroteLocally \/ Wrote
    \/ Get \/ GetContained \/ Got \/ Batch \/ GotBatch
    \/ GetLocal \/ GotLocal \/ AskMissing \/ GotMissing \/ Fill \/ FillGot \/ FillPut \/ Filled

engineVars == <<setting, op, ops>>
remoteUnchanged == UNCHANGED <<engineVars, server, remoteVars>>

LocalStep ==
    /\ \/ LocalContains \/ LocalGet \/ LocalPutBlocking \/ PutLater
       \/ setting.mode = "local" /\ (LocalWorkerBegin \/ LocalWorkerEnd)
    /\ UNCHANGED diskVars /\ remoteUnchanged

DiskStep ==
    /\ \/ DiskContains \/ DiskGet \/ DiskPutBlocking
       \/ setting.mode = "disk" /\ (DiskWorkerEvict \/ DiskWorkerSubmit \/ DiskWorkerPublish)
       \/ \E s \in saves : SaveBegins(s) \/ SaveEnds(s)
    /\ remoteUnchanged

HasServer == setting.mode \in {"remote", "hybrid"}

RemoteStep ==
    /\ HasServer
    /\ \/ RemoteAsk \/ PipelineAsk \/ NetworkAsk \/ ReadExist \/ ReadGet \/ Deserialize
       \/ PipelineAnswers \/ RemotePutBlocking \/ RemoteWorkerHeader \/ RemoteWorkerBody
       \/ ServerExist \/ ServerGet \/ ServerPut \/ ServerSkips \/ ServerSet
       \/ \E c \in Chunks : PeerPutEnds(c) \/ RedisEvicts(c) \/ (setting.peers /\ (PeerPuts(c) \/ PeerPutBegins(c)))
       \/ PeerDies
    /\ UNCHANGED engineVars

Next == EngineStep \/ LocalStep \/ DiskStep \/ RemoteStep

Spec == Init /\ [][Next]_vars

-----------------------------------------------------------------------------
(* Properties *)

Values == Chunks \union {"none", "part", "mixed"}

TypeOK ==
    /\ op.pos \in 1..(Len(op.prompt) + 1)
    /\ ToSet(op.got) \subseteq Values
    /\ stored \in [Chunks -> Values]
    /\ ToSet(mem) \subseteq Values
    /\ Len(reply) <= 1
    /\ Len(put_queue) <= MaxOps[setting] * 2

\* retrieve gives no chunk the KV of another one.
RetrievedIsOwnKV ==
    op.kind = "retrieve" =>
        \A i \in DOMAIN op.got : op.got[i] \in {op.prompt[i], "none", "part", "mixed"}

\* LMCLocalDiskBackend.get: "Output: the kv cache of the token chunk [...] None
\* if the key is not found". Does not hold: a get between the submission of a
\* chunk's second save and its entry in future_pool opens the file while it is
\* written, and the exception leaves update_lock locked (README, section 6).
DiskGetAnswers ==
    call.to = "disk" /\ call.cmd = "get" => call.answer \in {"pending", "none", call.key}

InStream(k) == \E i \in DOMAIN stream : stream[i].key = k /\ stream[i].m \in {"put", "body"}

\* LMCHybridBackend writes through: a chunk in host memory is on the server or
\* on its way to it.
LocalIsBackedUp ==
    setting.mode = "hybrid" =>
        \A k \in KeysOf(local.dict) :
            \/ stored[k] # "none" \/ k \in ToSet(put_queue) \/ put_worker.key = k \/ InStream(k)
            \/ op.kind = "store" /\ op.phase = "put" /\ ~AtEnd /\ Key = k
=============================================================================
