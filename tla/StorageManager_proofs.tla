------------------------ MODULE StorageManager_proofs ------------------------
(***************************************************************************)
(* Proofs about StorageManager: every task in the table is a load that has *)
(* yet to be answered, whether it ends before or after its callback is     *)
(* added; and whoever uses a memory object has a reference to it.  The     *)
(* last part is about PeerSharing: a get brings the chunk it asked for.    *)
(***************************************************************************)
EXTENDS MCStorageManager, CollectionLemmas, TLAPS

Labels == {"idle", "check", "submit", "register", "self_wait",
           "cb_pop", "cb_alloc", "cb_put", "wait", "search", "write_back", "use"}

\* The types of the variables the argument is about.
TaskTypes ==
  /\ prefetch_tasks \in [Keys -> Opt(Futures)]
  /\ future \in [Futures -> [st : {"unused", "running", "done", "failed"},
                             key : Opt(Keys), buf : Opt(Objs), cb : BOOLEAN]]
  /\ pc \in [Threads -> Labels]
  /\ key \in [Threads -> Opt(Keys)] /\ fut \in [Threads -> Opt(Futures)]

\* The engine that waits for itself has the lock.
SelfWaitHasLock == pc[Engine] = "self_wait" => manager_lock = Engine

\* Between the test for a task and its registration the key has no task: only
\* the engine adds one.
UnregisteredKey ==
  /\ pc[Engine] \in {"check", "submit", "register"} => key[Engine] \in Keys
  /\ pc[Engine] \in {"submit", "register"} => prefetch_tasks[key[Engine]] = None

\* The future that is to be registered is a load of the engine's key; it runs,
\* or has ended, without a callback.
UnregisteredLoad ==
  pc[Engine] = "register" =>
    /\ fut[Engine] \in Futures
    /\ future[fut[Engine]].st # "unused"
    /\ future[fut[Engine]].key = key[Engine]
    /\ ~future[fut[Engine]].cb

\* The callback finds its task in the table.
CallbackHasTask ==
  pc[Loop] = "cb_pop" =>
    /\ fut[Loop] \in Futures /\ key[Loop] \in Keys
    /\ future[fut[Loop]].key = key[Loop]
    /\ future[fut[Loop]].st \in {"done", "failed"}
    /\ prefetch_tasks[key[Loop]] = fut[Loop]

\* A load that runs is in the table, with its callback, or about to be
\* registered.
RunningIsKnown ==
  \A i \in Futures : future[i].st = "running" =>
    /\ future[i].key \in Keys
    /\ \/ prefetch_tasks[future[i].key] = i /\ future[i].cb
       \/ pc[Engine] = "register" /\ fut[Engine] = i

TaskInv == /\ SelfWaitHasLock /\ UnregisteredKey /\ UnregisteredLoad
           /\ CallbackHasTask /\ RunningIsKnown /\ TaskIsPending

IInv == TaskTypes /\ TaskInv

-----------------------------------------------------------------------------
\* What the assumption says of the names that occur below.
LEMMA Names ==
  /\ Engine \in Getters /\ Engine \in Threads /\ Loop \in Threads /\ Loop # Engine
  /\ None \notin Futures /\ None \notin Keys /\ Engine # None
  /\ \A t \in Getters : t \in Threads /\ t # Loop /\ Wanted[t] \subseteq Keys
BY ManagerAssumption DEF Threads

\* Every step of the model respects the types.
LEMMA TypesStep ==
  ASSUME TaskTypes, pc[Engine] = "register" => fut[Engine] \in Futures, [Next]_vars
  PROVE  TaskTypes'
<1> USE Names DEF Labels, Opt
<1>1. ASSUME NEW k \in Keys, PrefetchBegin(k) PROVE TaskTypes'
  BY <1>1 DEF PrefetchBegin, TaskTypes, Goto, tables
<1>2. ASSUME NEW t \in Getters, NEW k \in Wanted[t], GetBegin(t, k) PROVE TaskTypes'
  <2>1. k \in Keys
    OBVIOUS
  <2> QED
    BY <1>2, <2>1 DEF GetBegin, TaskTypes, Goto, tables
<1>3. CASE PrefetchCheck
  BY <1>3 DEF PrefetchCheck, TaskTypes, Goto, Return, tables
<1>4. CASE PrefetchSubmit
  <2> DEFINE i == CHOOSE i \in NewFutures : TRUE
  <2>1. i \in Futures
    BY <1>4 DEF PrefetchSubmit, NewFutures
  <2>2. key[Engine] \in Opt(Keys)
    BY DEF TaskTypes
  <2> QED
    BY <1>4, <2>1, <2>2 DEF PrefetchSubmit, TaskTypes, Goto, tables
<1>5. CASE PrefetchRegister
  <2>1. fut[Engine] \in Opt(Futures) /\ prefetch_tasks' \in [Keys -> Opt(Futures)]
    BY <1>5 DEF PrefetchRegister, TaskTypes
  <2>2. future' \in [Futures -> [st : {"unused", "running", "done", "failed"},
                      key : Opt(Keys), buf : Opt(Objs), cb : BOOLEAN]]
    <3>1. future' = [future EXCEPT ![fut[Engine]].cb = TRUE] \/ UNCHANGED future
      BY <1>5 DEF PrefetchRegister
    <3>2. ASSUME NEW i \in Futures
          PROVE  [future EXCEPT ![i].cb = TRUE]
                   \in [Futures -> [st : {"unused", "running", "done", "failed"},
                                   key : Opt(Keys), buf : Opt(Objs), cb : BOOLEAN]]
      BY ZenonT(30) DEF TaskTypes
    <3>3. fut[Engine] \in Futures
      BY <1>5 DEF PrefetchRegister
    <3> QED
      BY <3>1, <3>2, <3>3 DEF TaskTypes
  <2>3. Return(Engine) \/ (Goto(Engine, "self_wait") /\ key' = key /\ fut' = fut)
    BY <1>5 DEF PrefetchRegister
  <2>4. /\ pc' \in [Threads -> Labels]
        /\ key' \in [Threads -> Opt(Keys)] /\ fut' \in [Threads -> Opt(Futures)]
    BY <2>3 DEF TaskTypes, Goto, Return
  <2> QED
    BY <2>1, <2>2, <2>4 DEF TaskTypes
<1>6. CASE CallbackPop
  BY <1>6 DEF CallbackPop, TaskTypes, NoFuture, Goto, Return, tables
<1>7. CASE CallbackAllocate
  BY <1>7 DEF CallbackAllocate, TaskTypes, Goto, Return
<1>8. CASE CallbackPut
  BY <1>8 DEF CallbackPut, TaskTypes, Goto, Return
<1>9. ASSUME NEW i \in Futures, LoadStep(i) PROVE TaskTypes'
  <2>1. future' \in [Futures -> [st : {"unused", "running", "done", "failed"},
                      key : Opt(Keys), buf : Opt(Objs), cb : BOOLEAN]]
    BY <1>9 DEF LoadStep, LoadAllocates, LoadEnds, TaskTypes
  <2>2. future[i].key \in Opt(Keys)
    BY DEF TaskTypes
  <2>3. \/ /\ Goto(Loop, "cb_pop")
           /\ fut' = [fut EXCEPT ![Loop] = i]
           /\ key' = [key EXCEPT ![Loop] = future[i].key]
        \/ UNCHANGED <<pc, key, fut>>
    BY <1>9 DEF LoadStep, LoadAllocates, LoadEnds, Ended
  <2>4. /\ pc' \in [Threads -> Labels]
        /\ key' \in [Threads -> Opt(Keys)] /\ fut' \in [Threads -> Opt(Futures)]
    BY <2>2, <2>3 DEF TaskTypes, Goto
  <2>5. UNCHANGED prefetch_tasks
    BY <1>9 DEF LoadStep, LoadAllocates, LoadEnds, tables
  <2> QED
    BY <2>1, <2>4, <2>5 DEF TaskTypes
<1>10. ASSUME NEW t \in Getters, GetStep(t) PROVE TaskTypes'
  <2>1. CASE GetWait(t)
    BY <2>1 DEF GetWait, TaskTypes, Goto, Return, tables
  <2>2. CASE GetCached(t)
    BY <2>2 DEF GetCached, TaskTypes, Goto, tables
  <2>3. CASE GetFromDisk(t)
    BY <2>3 DEF GetFromDisk, TaskTypes, Goto, Return
  <2>4. CASE WriteBack(t)
    BY <2>4 DEF WriteBack, TaskTypes, Goto, locals
  <2>5. CASE Use(t)
    BY <2>5 DEF Use, TaskTypes, Goto, Return, tables
  <2> QED
    BY <1>10, <2>1, <2>2, <2>3, <2>4, <2>5 DEF GetStep
<1>11. CASE UNCHANGED vars
  BY <1>11 DEF TaskTypes, vars, tables, locals
<1> QED
  BY <1>1, <1>2, <1>3, <1>4, <1>5, <1>6, <1>7, <1>8, <1>9, <1>10, <1>11
     DEF Next, PrefetchStep, LoopStep

\* A step that touches neither the table nor a future, and that neither takes
\* the engine or the loop thread into or out of the labels the invariant is
\* about nor changes what they hold there.
LEMMA Frame ==
  ASSUME TaskInv, UNCHANGED <<prefetch_tasks, future, manager_lock>>,
         pc'[Engine] \in {"submit", "register", "self_wait"}
           \/ pc[Engine] \in {"register", "self_wait"} =>
           /\ pc'[Engine] = pc[Engine]
           /\ key'[Engine] = key[Engine] /\ fut'[Engine] = fut[Engine],
         pc'[Engine] = "check" =>
           \/ key'[Engine] \in Keys
           \/ pc[Engine] = "check" /\ key'[Engine] = key[Engine],
         pc'[Loop] = "cb_pop" \/ pc[Loop] = "cb_pop" =>
           /\ pc'[Loop] = pc[Loop]
           /\ key'[Loop] = key[Loop] /\ fut'[Loop] = fut[Loop]
  PROVE  TaskInv'
<1>1. SelfWaitHasLock' /\ UnregisteredKey' /\ UnregisteredLoad'
  BY DEF TaskInv, SelfWaitHasLock, UnregisteredKey, UnregisteredLoad
<1>2. CallbackHasTask'
  BY DEF TaskInv, CallbackHasTask
<1>3. RunningIsKnown'
  BY DEF TaskInv, RunningIsKnown
<1>4. TaskIsPending'
  BY DEF TaskInv, TaskIsPending
<1> QED
  BY <1>1, <1>2, <1>3, <1>4 DEF TaskInv

\* The steps that Frame covers.
LEMMA FrameSteps ==
  ASSUME TaskTypes, TaskInv,
         \/ \E k \in Keys : PrefetchBegin(k)
         \/ \E t \in Getters : \E k \in Wanted[t] : GetBegin(t, k)
         \/ \E t \in Getters : GetStep(t)
         \/ CallbackAllocate \/ CallbackPut
         \/ UNCHANGED vars
  PROVE  TaskInv'
<1> USE Names
<1>1. ASSUME NEW k \in Keys, PrefetchBegin(k) PROVE TaskInv'
  <2>1. UNCHANGED <<prefetch_tasks, future, manager_lock>>
    BY <1>1 DEF PrefetchBegin, tables
  <2>2. /\ pc[Engine] = "idle" /\ pc'[Engine] = "check" /\ key'[Engine] = k
        /\ pc'[Loop] = pc[Loop] /\ key'[Loop] = key[Loop] /\ fut'[Loop] = fut[Loop]
    BY <1>1 DEF PrefetchBegin, Goto, TaskTypes
  <2> QED
    BY <2>1, <2>2, Frame
<1>2. ASSUME NEW t \in Getters, NEW k \in Wanted[t], GetBegin(t, k) PROVE TaskInv'
  <2>1. UNCHANGED <<prefetch_tasks, future, manager_lock>>
    BY <1>2 DEF GetBegin, tables
  <2>2. /\ pc[t] = "idle" /\ pc'[t] \in {"search", "wait"}
        /\ \A u \in Threads \ {t} :
              pc'[u] = pc[u] /\ key'[u] = key[u] /\ fut'[u] = fut[u]
    BY <1>2 DEF GetBegin, Goto, TaskTypes
  <2> QED
    BY <2>1, <2>2, Frame
<1>3. ASSUME NEW t \in Getters, GetStep(t) PROVE TaskInv'
  <2>1. UNCHANGED <<prefetch_tasks, future, manager_lock>>
    BY <1>3 DEF GetStep, GetWait, GetCached, GetFromDisk, WriteBack, Use, tables
  <2>2. pc[t] \in {"wait", "search", "write_back", "use"}
    BY <1>3 DEF GetStep, GetWait, GetCached, GetFromDisk, WriteBack, Use
  <2>3. /\ pc'[t] \in {"idle", "search", "write_back", "use"}
        /\ \A u \in Threads \ {t} :
              pc'[u] = pc[u] /\ key'[u] = key[u] /\ fut'[u] = fut[u]
    <3>1. CASE GetWait(t)
      BY <3>1 DEF GetWait, Goto, Return, TaskTypes
    <3>2. CASE GetCached(t)
      BY <3>2 DEF GetCached, Goto, TaskTypes
    <3>3. CASE GetFromDisk(t)
      BY <3>3 DEF GetFromDisk, Goto, Return, TaskTypes
    <3>4. CASE WriteBack(t)
      BY <3>4 DEF WriteBack, Goto, locals, TaskTypes
    <3>5. CASE Use(t)
      BY <3>5 DEF Use, Goto, Return, TaskTypes
    <3> QED
      BY <1>3, <3>1, <3>2, <3>3, <3>4, <3>5 DEF GetStep
  <2> QED
    BY <2>1, <2>2, <2>3, Frame
<1>4. CASE CallbackAllocate \/ CallbackPut
  <2>1. UNCHANGED <<prefetch_tasks, future, manager_lock>>
    BY <1>4 DEF CallbackAllocate, CallbackPut
  <2>2. /\ pc[Loop] \in {"cb_alloc", "cb_put"} /\ pc'[Loop] \in {"cb_put", "idle"}
        /\ pc'[Engine] = pc[Engine] /\ key'[Engine] = key[Engine]
        /\ fut'[Engine] = fut[Engine]
    BY <1>4 DEF CallbackAllocate, CallbackPut, Goto, Return, TaskTypes
  <2> QED
    BY <2>1, <2>2, Frame
<1>5. CASE UNCHANGED vars
  BY <1>5, Frame DEF vars, tables, locals
<1> QED
  BY <1>1, <1>2, <1>3, <1>4, <1>5

LEMMA CheckStep == ASSUME TaskTypes, TaskInv, PrefetchCheck PROVE TaskInv'
<1> USE Names
<1>1. /\ UNCHANGED <<prefetch_tasks, future, manager_lock>> /\ pc[Engine] = "check"
      /\ pc'[Loop] = pc[Loop] /\ key'[Loop] = key[Loop] /\ fut'[Loop] = fut[Loop]
  BY DEF PrefetchCheck, Goto, Return, tables, TaskTypes
<1>2. /\ pc'[Engine] \in {"submit", "idle"}
      /\ pc'[Engine] = "submit" =>
           prefetch_tasks[key[Engine]] = None /\ key'[Engine] = key[Engine]
  BY DEF PrefetchCheck, Goto, Return, TaskTypes
<1>3. SelfWaitHasLock' /\ UnregisteredKey' /\ UnregisteredLoad'
  BY <1>1, <1>2 DEF SelfWaitHasLock, UnregisteredKey, UnregisteredLoad, TaskInv
<1>4. CallbackHasTask' /\ RunningIsKnown' /\ TaskIsPending'
  BY <1>1 DEF CallbackHasTask, RunningIsKnown, TaskIsPending, TaskInv
<1> QED
  BY <1>3, <1>4 DEF TaskInv

LEMMA SubmitStep == ASSUME TaskTypes, TaskInv, PrefetchSubmit PROVE TaskInv'
<1> USE Names
<1> DEFINE i == CHOOSE i \in NewFutures : TRUE
           k == key[Engine]
<1>1. /\ i \in Futures /\ future[i].st # "running"
      /\ \A j \in Keys : prefetch_tasks[j] # i
      /\ \A t \in Threads : fut[t] # i
  BY DEF PrefetchSubmit, NewFutures
<1>2. /\ pc[Engine] = "submit" /\ pc'[Engine] = "register"
      /\ UNCHANGED <<prefetch_tasks, key>>
      /\ fut'[Engine] = i /\ fut'[Loop] = fut[Loop] /\ pc'[Loop] = pc[Loop]
  BY <1>1 DEF PrefetchSubmit, Goto, tables, TaskTypes
<1>3. future' = [future EXCEPT ![i] = [st |-> "running", key |-> k,
                                       buf |-> None, cb |-> FALSE]]
  BY DEF PrefetchSubmit
<1> HIDE DEF i
<1>4. /\ future'[i].st = "running" /\ future'[i].key = k /\ future'[i].cb = FALSE
      /\ \A j \in Futures \ {i} : future'[j] = future[j]
  BY <1>1, <1>3 DEF TaskTypes
<1>5. k \in Keys /\ prefetch_tasks[k] = None
  BY <1>2 DEF TaskInv, UnregisteredKey
<1>6. SelfWaitHasLock' /\ UnregisteredKey' /\ UnregisteredLoad'
  BY <1>1, <1>2, <1>4, <1>5 DEF SelfWaitHasLock, UnregisteredKey, UnregisteredLoad
<1>7. CallbackHasTask'
  BY <1>1, <1>2, <1>4 DEF CallbackHasTask, TaskInv
<1>8. RunningIsKnown'
  BY <1>1, <1>2, <1>4, <1>5 DEF RunningIsKnown, TaskInv
<1>9. TaskIsPending'
  BY <1>1, <1>2, <1>4 DEF TaskIsPending, TaskInv, TaskTypes, Opt
<1> QED
  BY <1>6, <1>7, <1>8, <1>9 DEF TaskInv

\* The callback of a load that runs is added; that of a load that has ended
\* runs in the engine's thread, which has the lock.
LEMMA RegisterStep == ASSUME TaskTypes, TaskInv, PrefetchRegister PROVE TaskInv'
<1> USE Names
<1> DEFINE i == fut[Engine]
           k == key[Engine]
<1>1. /\ pc[Engine] = "register"
      /\ prefetch_tasks' = [prefetch_tasks EXCEPT ![k] = i]
  BY DEF PrefetchRegister
<1>2. /\ i \in Futures /\ future[i].key = k
      /\ k \in Keys /\ prefetch_tasks[k] = None
  BY <1>1 DEF TaskInv, UnregisteredKey, UnregisteredLoad
<1>3. /\ pc'[Loop] = pc[Loop] /\ key'[Loop] = key[Loop] /\ fut'[Loop] = fut[Loop]
      /\ pc'[Engine] \in {"idle", "self_wait"}
      /\ pc'[Engine] = "self_wait" => manager_lock' = Engine
      /\ IF future[i].st = "running"
         THEN future' = [future EXCEPT ![i].cb = TRUE]
         ELSE future' = future /\ pc'[Engine] = "self_wait" /\ fut'[Engine] = i
  BY DEF PrefetchRegister, Return, Goto, TaskTypes
<1> HIDE DEF i, k
<1>4. /\ \A j \in Futures : future'[j].st = future[j].st /\ future'[j].key = future[j].key
      /\ \A j \in Futures \ {i} : future'[j].cb = future[j].cb
      /\ future[i].st = "running" => future'[i].cb
  BY <1>2, <1>3 DEF TaskTypes
<1>5. prefetch_tasks'[k] = i /\ \A j \in Keys \ {k} : prefetch_tasks'[j] = prefetch_tasks[j]
  BY <1>1, <1>2 DEF TaskTypes
<1>6. SelfWaitHasLock' /\ UnregisteredKey' /\ UnregisteredLoad'
  BY <1>3 DEF SelfWaitHasLock, UnregisteredKey, UnregisteredLoad
<1>7. CallbackHasTask'
  BY <1>2, <1>3, <1>4, <1>5 DEF CallbackHasTask, TaskInv
<1>8. RunningIsKnown'
  <2>1. ASSUME NEW j \in Futures, future'[j].st = "running"
        PROVE  future'[j].key \in Keys /\ prefetch_tasks'[future'[j].key] = j /\ future'[j].cb
    <3>1. CASE j = i
      BY <1>2, <1>4, <1>5, <2>1, <3>1
    <3>2. CASE j # i
      <4>1. /\ future[j].st = "running" /\ future[j].key \in Keys
            /\ prefetch_tasks[future[j].key] = j /\ future[j].cb
        BY <1>4, <2>1, <3>2 DEF RunningIsKnown, TaskInv, i
      <4>2. future[j].key # k
        BY <1>2, <4>1
      <4> QED
        BY <1>4, <1>5, <3>2, <4>1, <4>2
    <3> QED
      BY <3>1, <3>2
  <2> QED
    BY <2>1 DEF RunningIsKnown
<1>9. TaskIsPending'
  <2> SUFFICES ASSUME NEW j \in Keys, prefetch_tasks'[j] # None
               PROVE  /\ future'[prefetch_tasks'[j]].key = j
                      /\ \/ future'[prefetch_tasks'[j]].st = "running"
                         \/ pc'[Loop] = "cb_pop" /\ fut'[Loop] = prefetch_tasks'[j]
                         \/ pc'[Engine] = "self_wait" /\ fut'[Engine] = prefetch_tasks'[j]
    BY DEF TaskIsPending
  <2>1. CASE j = k
    BY <1>2, <1>3, <1>4, <1>5, <2>1
  <2>2. CASE j # k
    <3>1. prefetch_tasks'[j] = prefetch_tasks[j] /\ prefetch_tasks[j] \in Futures
      BY <1>5, <2>2 DEF TaskTypes, Opt
    <3>2. /\ future[prefetch_tasks[j]].key = j
          /\ \/ future[prefetch_tasks[j]].st = "running"
             \/ pc[Loop] = "cb_pop" /\ fut[Loop] = prefetch_tasks[j]
      BY <1>1, <3>1 DEF TaskInv, TaskIsPending
    <3> QED
      BY <1>3, <1>4, <3>1, <3>2
  <2> QED
    BY <2>1, <2>2
<1> QED
  BY <1>6, <1>7, <1>8, <1>9 DEF TaskInv

LEMMA PopStep == ASSUME TaskTypes, TaskInv, CallbackPop PROVE TaskInv'
<1> USE Names
<1> DEFINE i == fut[Loop]
           k == key[Loop]
<1>1. /\ pc[Loop] = "cb_pop" /\ pc[Engine] # "self_wait"
      /\ prefetch_tasks' = [prefetch_tasks EXCEPT ![k] = None]
      /\ future' = [future EXCEPT ![i] = [NoFuture EXCEPT !.st = future[i].st]]
  BY DEF CallbackPop, LockFree, SelfWaitHasLock, TaskInv
<1>2. /\ i \in Futures /\ k \in Keys /\ future[i].key = k
      /\ future[i].st \in {"done", "failed"} /\ prefetch_tasks[k] = i
  BY <1>1 DEF TaskInv, CallbackHasTask
<1>3. /\ pc'[Loop] \in {"cb_alloc", "idle"} /\ pc'[Engine] = pc[Engine]
      /\ key'[Engine] = key[Engine] /\ fut'[Engine] = fut[Engine]
  BY DEF CallbackPop, Goto, Return, TaskTypes
<1> HIDE DEF i, k
<1>4. /\ future'[i].st = future[i].st
      /\ \A j \in Futures \ {i} : future'[j] = future[j]
  BY <1>1, <1>2 DEF TaskTypes, NoFuture
<1>5. /\ prefetch_tasks'[k] = None
      /\ \A j \in Keys \ {k} : prefetch_tasks'[j] = prefetch_tasks[j]
  BY <1>1, <1>2 DEF TaskTypes
\* The key the engine is about to register has no task: it is another one.
<1>6. pc[Engine] \in {"submit", "register"} => key[Engine] # k
  BY <1>2 DEF UnregisteredKey, TaskInv
<1>7. SelfWaitHasLock' /\ UnregisteredKey' /\ UnregisteredLoad'
  BY <1>1, <1>2, <1>3, <1>4, <1>5, <1>6
     DEF SelfWaitHasLock, UnregisteredKey, UnregisteredLoad, TaskInv
<1>8. CallbackHasTask'
  BY <1>3 DEF CallbackHasTask
<1>9. RunningIsKnown'
  BY <1>2, <1>3, <1>4, <1>5 DEF RunningIsKnown, TaskInv
<1>10. TaskIsPending'
  <2> SUFFICES ASSUME NEW j \in Keys, prefetch_tasks'[j] # None
               PROVE  /\ future'[prefetch_tasks'[j]].key = j
                      /\ future'[prefetch_tasks'[j]].st = "running"
    BY DEF TaskIsPending
  <2>1. j # k /\ prefetch_tasks'[j] = prefetch_tasks[j]
    BY <1>5
  <2>2. future[prefetch_tasks[j]].key = j /\ prefetch_tasks[j] \in Futures
    BY <2>1 DEF TaskInv, TaskIsPending, TaskTypes, Opt
  <2>3. prefetch_tasks[j] # i
    BY <1>2, <2>1, <2>2
  <2>4. future[prefetch_tasks[j]].st = "running"
    BY <1>1, <2>1, <2>3 DEF TaskInv, TaskIsPending, i
  <2> QED
    BY <1>4, <2>1, <2>2, <2>3, <2>4
<1> QED
  BY <1>7, <1>8, <1>9, <1>10 DEF TaskInv

\* What a step of a load leaves alone, and what it makes of its future: it goes
\* on, or it is over.
LEMMA LoadChanges ==
  ASSUME TaskTypes, NEW i \in Futures, LoadStep(i)
  PROVE  /\ pc[Loop] = "idle" /\ future[i].st = "running"
         /\ UNCHANGED <<prefetch_tasks, manager_lock>>
         /\ pc'[Engine] = pc[Engine] /\ key'[Engine] = key[Engine] /\ fut'[Engine] = fut[Engine]
         /\ future'[i].key = future[i].key /\ future'[i].cb = future[i].cb
         /\ \A j \in Futures \ {i} : future'[j] = future[j]
         /\ \/ future'[i].st = "running" /\ pc'[Loop] = "idle"
            \/ /\ future'[i].st \in {"done", "failed"}
               /\ IF future[i].cb
                  THEN pc'[Loop] = "cb_pop" /\ fut'[Loop] = i /\ key'[Loop] = future[i].key
                  ELSE pc'[Loop] = "idle"
<1> USE Names
<1>1. /\ pc[Loop] = "idle" /\ future[i].st = "running"
      /\ UNCHANGED <<prefetch_tasks, manager_lock>>
  BY DEF LoadStep, LoadAllocates, LoadEnds, tables
<1>2. /\ future'[i].key = future[i].key /\ future'[i].cb = future[i].cb
      /\ \A j \in Futures \ {i} : future'[j] = future[j]
  BY DEF LoadStep, LoadAllocates, LoadEnds, TaskTypes
<1>3. \/ future'[i].st = "running" /\ UNCHANGED <<pc, key, fut>>
      \/ future'[i].st \in {"done", "failed"} /\ Ended(i)
  BY DEF LoadStep, LoadAllocates, LoadEnds, TaskTypes
<1>4. Ended(i) =>
        /\ pc'[Engine] = pc[Engine] /\ key'[Engine] = key[Engine] /\ fut'[Engine] = fut[Engine]
        /\ IF future[i].cb
           THEN pc'[Loop] = "cb_pop" /\ fut'[Loop] = i /\ key'[Loop] = future[i].key
           ELSE pc'[Loop] = "idle"
  BY <1>1 DEF Ended, Goto, TaskTypes
<1> QED
  BY <1>1, <1>2, <1>3, <1>4

LEMMA LoadStepKeeps ==
  ASSUME TaskTypes, TaskInv, NEW i \in Futures, LoadStep(i)
  PROVE  TaskInv'
<1> USE Names, LoadChanges
\* With its callback added, the load is in the table; without, it is the one
\* the engine has yet to register.
<1>1. /\ future[i].key \in Keys
      /\ future[i].cb => prefetch_tasks[future[i].key] = i
      /\ ~future[i].cb => pc[Engine] = "register" /\ fut[Engine] = i
  BY DEF TaskInv, UnregisteredLoad, RunningIsKnown
<1>2. SelfWaitHasLock' /\ UnregisteredKey' /\ UnregisteredLoad'
  BY DEF SelfWaitHasLock, UnregisteredKey, UnregisteredLoad, TaskInv
<1>3. CallbackHasTask'
  BY <1>1 DEF CallbackHasTask
<1>4. RunningIsKnown'
  BY <1>1 DEF RunningIsKnown, TaskInv
<1>5. TaskIsPending'
  <2> SUFFICES ASSUME NEW j \in Keys, prefetch_tasks'[j] # None
               PROVE  /\ future'[prefetch_tasks'[j]].key = j
                      /\ \/ future'[prefetch_tasks'[j]].st = "running"
                         \/ pc'[Loop] = "cb_pop" /\ fut'[Loop] = prefetch_tasks'[j]
                         \/ pc'[Engine] = "self_wait" /\ fut'[Engine] = prefetch_tasks'[j]
    BY DEF TaskIsPending
  <2>1. prefetch_tasks'[j] = prefetch_tasks[j] /\ prefetch_tasks[j] \in Futures
    BY DEF TaskTypes, Opt
  <2>2. /\ future[prefetch_tasks[j]].key = j
        /\ \/ future[prefetch_tasks[j]].st = "running"
           \/ pc[Engine] = "self_wait" /\ fut[Engine] = prefetch_tasks[j]
    BY <2>1 DEF TaskInv, TaskIsPending
  <2>3. CASE prefetch_tasks[j] # i
    BY <2>1, <2>2, <2>3
  <2>4. CASE prefetch_tasks[j] = i
\* The load the engine has yet to register is not in the table.
    <3>1. future[i].cb
      BY <1>1, <2>1, <2>2, <2>4 DEF TaskInv, UnregisteredKey, UnregisteredLoad
    <3> QED
      BY <2>1, <2>2, <2>4, <3>1
  <2> QED
    BY <2>3, <2>4
<1> QED
  BY <1>2, <1>3, <1>4, <1>5 DEF TaskInv

-----------------------------------------------------------------------------
LEMMA InitIInv == Init => IInv
BY Names DEF Init, IInv, TaskTypes, TaskInv, SelfWaitHasLock, UnregisteredKey, UnregisteredLoad,
             CallbackHasTask, RunningIsKnown, TaskIsPending, NoFuture, Labels, Opt

LEMMA StepIInv == IInv /\ [Next]_vars => IInv'
<1> SUFFICES ASSUME IInv, [Next]_vars PROVE TaskInv'
  BY TypesStep DEF IInv, TaskInv, UnregisteredLoad
<1>1. TaskTypes /\ TaskInv
  BY DEF IInv
<1>2. CASE PrefetchStep
  BY <1>1, <1>2, CheckStep, SubmitStep, RegisterStep DEF PrefetchStep
<1>3. CASE CallbackPop
  BY <1>1, <1>3, PopStep
<1>4. CASE \E i \in Futures : LoadStep(i)
  BY <1>1, <1>4, LoadStepKeeps
<1>5. CASE \/ \E k \in Keys : PrefetchBegin(k)
           \/ \E t \in Getters : \E k \in Wanted[t] : GetBegin(t, k)
           \/ \E t \in Getters : GetStep(t)
           \/ CallbackAllocate \/ CallbackPut
           \/ UNCHANGED vars
  BY <1>1, <1>5, FrameSteps
<1> QED
  BY <1>2, <1>3, <1>4, <1>5 DEF Next, LoopStep

\* What prefetch, prefetch_callback and get keep between their steps.
THEOREM IInvInvariant == Spec => []IInv
BY InitIInv, StepIInv, PTL DEF Spec

\* prefetch_callback takes its task out of prefetch_tasks before the load can be
\* asked for again, so that get and prefetch never find a task in the table
\* whose load has been answered already.
THEOREM TaskIsPendingHolds == Spec => []TaskIsPending
<1>1. IInv => TaskIsPending
  BY DEF IInv, TaskInv
<1> QED
  BY <1>1, IInvInvariant, PTL

-----------------------------------------------------------------------------
(* The references.  That every user has one is kept by each step, once the *)
(* threads are known to have a key where they look one up; the tasks play  *)
(* no part in it, nor whether loads end early.                             *)
CacheTypes ==
  /\ hot_cache \in [Keys -> Opt(Objs)] /\ ref \in [Objs -> Nat]
  /\ obj \in [Threads -> Opt(Objs)] /\ buffer \in Opt(Objs)

HaveKeys ==
  /\ pc[Engine] \in {"check", "submit", "register"} => key[Engine] \in Keys
  /\ pc[Engine] = "register" => fut[Engine] \in Futures
  /\ \A t \in Getters : pc[t] \in {"wait", "search", "write_back"} => key[t] \in Keys
  /\ pc[Loop] \in {"cb_pop", "cb_alloc", "cb_put"} => key[Loop] \in Keys
  /\ pc[Loop] = "cb_pop" => fut[Loop] \in Futures /\ future[fut[Loop]].st # "running"
  /\ \A i \in Futures : future[i].st = "running" => future[i].key \in Keys

RefInv == TaskTypes /\ CacheTypes /\ HaveKeys /\ UsersHaveRefs

Held(o)   == Cardinality(Holders(o))
Cached(o) == Cardinality(Cachers(o))
Loaded(o) == Cardinality(Loads(o))

LEMMA MoreNames ==
  /\ IsFiniteSet(Keys) /\ IsFiniteSet(Objs) /\ IsFiniteSet(Futures) /\ IsFiniteSet(Threads)
  /\ None \notin Objs /\ Loop \notin Getters
  /\ Capacity \in Nat /\ Capacity <= Cardinality(Objs)
<1>1. IsFiniteSet(Getters \cup {Loop})
  <2>1. IsFiniteSet({Loop})
    BY FS_Singleton
  <2> QED
    BY <2>1, ManagerAssumption, FS_Union
<1>2. Cardinality(Objs) \in Nat
  BY ManagerAssumption, FS_CardinalityType
<1> QED
  BY <1>1, <1>2, ManagerAssumption DEF Threads

LEMMA CountsAreNumbers ==
  ASSUME NEW o
  PROVE  /\ Held(o) \in Nat /\ Cached(o) \in Nat /\ Loaded(o) \in Nat /\ Buffers(o) \in Nat
         /\ Held(o)' \in Nat /\ Cached(o)' \in Nat /\ Loaded(o)' \in Nat /\ Buffers(o)' \in Nat
<1>1. /\ Holders(o) \in SUBSET Threads /\ Cachers(o) \in SUBSET Keys
      /\ Loads(o) \in SUBSET Futures
      /\ Holders(o)' \in SUBSET Threads /\ Cachers(o)' \in SUBSET Keys
      /\ Loads(o)' \in SUBSET Futures
  BY DEF Holders, Cachers, Loads
<1>2. /\ IsFiniteSet(Holders(o)) /\ IsFiniteSet(Cachers(o)) /\ IsFiniteSet(Loads(o))
      /\ IsFiniteSet(Holders(o)') /\ IsFiniteSet(Cachers(o)') /\ IsFiniteSet(Loads(o)')
  BY <1>1, MoreNames, FS_Subset
<1>3. Buffers(o) \in Nat /\ Buffers(o)' \in Nat
  BY DEF Buffers
<1> QED
  BY <1>2, <1>3, FS_CardinalityType DEF Held, Cached, Loaded

\* One thread's memory_obj, one entry of the cache, or one future changes.
LEMMA HeldUpdate ==
  ASSUME NEW t \in Threads, NEW x, CacheTypes,
         obj'[t] = x, \A u \in Threads : u # t => obj'[u] = obj[u], NEW o
  PROVE  Held(o)' = Held(o) + Same(x, o) - Same(obj[t], o)
<1> PICK g : g = obj'
  OBVIOUS
<1>1. Holders(o) = Preimage(obj, Threads, o) /\ Holders(o)' = Preimage(g, Threads, o)
  BY DEF Holders, Preimage
<1>2. Cardinality(Preimage(g, Threads, o))
        = Cardinality(Preimage(obj, Threads, o)) + Same(x, o) - Same(obj[t], o)
  BY MoreNames, CountUpdate
<1> QED
  BY <1>1, <1>2 DEF Held

LEMMA CachedUpdate ==
  ASSUME NEW k \in Keys, NEW x, CacheTypes,
         hot_cache'[k] = x, \A j \in Keys : j # k => hot_cache'[j] = hot_cache[j], NEW o
  PROVE  Cached(o)' = Cached(o) + Same(x, o) - Same(hot_cache[k], o)
<1> PICK h : h = hot_cache'
  OBVIOUS
<1>1. Cachers(o) = Preimage(hot_cache, Keys, o) /\ Cachers(o)' = Preimage(h, Keys, o)
  BY DEF Cachers, Preimage
<1>2. Cardinality(Preimage(h, Keys, o))
        = Cardinality(Preimage(hot_cache, Keys, o)) + Same(x, o) - Same(hot_cache[k], o)
  BY MoreNames, CountUpdate
<1> QED
  BY <1>1, <1>2 DEF Cached

LEMMA LoadedUpdate ==
  ASSUME NEW i \in Futures, NEW x, future'[i].buf = x,
         \A j \in Futures : j # i => future'[j] = future[j], NEW o
  PROVE  Loaded(o)' = Loaded(o) + Same(x, o) - Same(future[i].buf, o)
<1> DEFINE f == [j \in Futures |-> future[j].buf]
<1>1. PICK g : g = [j \in Futures |-> future'[j].buf]
  OBVIOUS
<1>2. Loads(o) = Preimage(f, Futures, o) /\ Loads(o)' = Preimage(g, Futures, o)
  BY <1>1 DEF Loads, Preimage
<1>3. g[i] = x /\ f[i] = future[i].buf /\ \A j \in Futures : j # i => g[j] = f[j]
  BY <1>1
<1> HIDE DEF f
<1>4. Cardinality(Preimage(g, Futures, o))
        = Cardinality(Preimage(f, Futures, o)) + Same(x, o) - Same(f[i], o)
  BY <1>3, MoreNames, CountUpdate
<1> QED
  BY <1>2, <1>3, <1>4 DEF Loaded

LEMMA SameIs == \A x, y : Same(x, y) \in Nat /\ (x = y => Same(x, y) = 1) /\ (x # y => Same(x, y) = 0)
BY DEF Same

\* What an object in the cache counts.
LEMMA CachedCounts ==
  ASSUME NEW k \in Keys
  PROVE  Cached(hot_cache[k]) >= 1
<1> DEFINE S == Cachers(hot_cache[k])
<1>1. k \in S /\ S \in SUBSET Keys
  BY DEF Cachers
<1>2. IsFiniteSet(S)
  BY <1>1, MoreNames, FS_Subset
<1>3. Cardinality(S) \in Nat /\ Cardinality(S) # 0
  BY <1>1, <1>2, FS_CardinalityType, FS_EmptySet
<1> QED
  BY <1>3 DEF Cached

LEMMA HeldCounts ==
  ASSUME NEW t \in Threads
  PROVE  Held(obj[t]) >= 1
<1> DEFINE S == Holders(obj[t])
<1>1. t \in S /\ S \in SUBSET Threads
  BY DEF Holders
<1>2. IsFiniteSet(S)
  BY <1>1, MoreNames, FS_Subset
<1>3. Cardinality(S) \in Nat /\ Cardinality(S) # 0
  BY <1>1, <1>2, FS_CardinalityType, FS_EmptySet
<1> QED
  BY <1>3 DEF Held

\* allocate hands out an object that nobody refers to, and what it evicts only
\* the cache refers to.
LEMMA AllocateKeeps ==
  ASSUME CacheTypes, UsersHaveRefs, NEW o, Allocate(o)
  PROVE  /\ hot_cache' \in [Keys -> Opt(Objs)] /\ ref' \in [Objs -> Nat]
         /\ o \in Opt(Objs)
         /\ \A x \in Objs : ref'[x] >= Held(x) + Cached(x)' + Loaded(x) + Buffers(x) + Same(o, x)
<1> DEFINE Sum(x) == Held(x) + Cached(x) + Loaded(x) + Buffers(x)
<1>1. \A x \in Objs : ref[x] \in Nat /\ ref[x] >= Held(x) + Cached(x) + Loaded(x) + Buffers(x)
  BY DEF CacheTypes, UsersHaveRefs, Held, Cached, Loaded
<1>2. CASE o = None /\ UNCHANGED <<hot_cache, ref>>
  <2>1. \A x \in Objs : Cached(x)' = Cached(x) /\ Same(o, x) = 0
    BY <1>2, MoreNames DEF Cached, Cachers, Same
  <2>2. ASSUME NEW x \in Objs
        PROVE  ref'[x] >= Held(x) + Cached(x)' + Loaded(x) + Buffers(x) + Same(o, x)
    <3>1. /\ Held(x) \in Nat /\ Cached(x) \in Nat /\ Loaded(x) \in Nat /\ Buffers(x) \in Nat
          /\ ref[x] \in Nat /\ ref[x] >= Held(x) + Cached(x) + Loaded(x) + Buffers(x)
      BY <1>1, CountsAreNumbers
    <3>2. ref'[x] = ref[x] /\ Cached(x)' = Cached(x) /\ Same(o, x) = 0
      BY <1>2, <2>1
    <3> QED
      BY <3>1, <3>2
  <2> QED
    BY <1>2, <2>2 DEF CacheTypes, Opt
<1>3. ASSUME NEW K \in {{}} \cup {{k} : k \in Evictable},
             Cardinality(Used(Evicted(hot_cache, ref, K))) < Capacity,
             o = CHOOSE x \in Objs : Evicted(hot_cache, ref, K)[x] = 0,
             hot_cache' = [k \in Keys |-> IF k \in K THEN None ELSE hot_cache[k]],
             ref' = [Evicted(hot_cache, ref, K) EXCEPT ![o] = 1]
      PROVE  /\ hot_cache' \in [Keys -> Opt(Objs)] /\ ref' \in [Objs -> Nat]
             /\ o \in Objs
             /\ \A x \in Objs :
                  ref'[x] >= Held(x) + Cached(x)' + Loaded(x) + Buffers(x) + Same(o, x)
  <2>1. PICK r : r = Evicted(hot_cache, ref, K)
    OBVIOUS
\* After the eviction every user still has a reference.
  <2>2. /\ r \in [Objs -> Nat]
        /\ \A x \in Objs : r[x] >= Held(x) + Cached(x)' + Loaded(x) + Buffers(x)
        /\ \A x \in Objs : Cached(x)' \in Nat
    <3>1. CASE K = {}
      <4>1. hot_cache' = hot_cache
        BY <1>3, <3>1 DEF CacheTypes
      <4>2. \A x \in Objs : Cached(x)' = Cached(x)
        BY <4>1 DEF Cached, Cachers
      <4>3. r = ref
        BY <2>1, <3>1 DEF Evicted, CacheTypes
      <4> QED
        BY <1>1, <4>2, <4>3, CountsAreNumbers DEF CacheTypes
    <3>2. ASSUME NEW k \in Evictable, K = {k}
          PROVE  /\ r \in [Objs -> Nat]
                 /\ \A x \in Objs : r[x] >= Held(x) + Cached(x)' + Loaded(x) + Buffers(x)
                 /\ \A x \in Objs : Cached(x)' \in Nat
      <4>1. k \in Keys /\ hot_cache[k] \in Objs /\ ref[hot_cache[k]] = 1
        BY <3>2 DEF Evictable, CacheTypes, Opt
      <4>2. hot_cache'[k] = None /\ \A j \in Keys : j # k => hot_cache'[j] = hot_cache[j]
        BY <1>3, <3>2, <4>1
      <4>3. \A x \in Objs : Cached(x)' = Cached(x) + Same(None, x) - Same(hot_cache[k], x)
        BY <4>1, <4>2, CachedUpdate
      <4>4. \A x \in Objs : r[x] = IF hot_cache[k] = x THEN ref[x] - 1 ELSE ref[x]
        BY <2>1, <3>2 DEF Evicted
      <4>5. r = [x \in Objs |-> IF hot_cache[k] = x THEN ref[x] - 1 ELSE ref[x]]
        BY <2>1, <3>2 DEF Evicted
      <4>6. r \in [Objs -> Nat]
        BY <1>1, <4>1, <4>5
      <4>7. ASSUME NEW x \in Objs
            PROVE  /\ r[x] >= Held(x) + Cached(x)' + Loaded(x) + Buffers(x)
                   /\ Cached(x)' \in Nat
        <5>1. /\ Held(x) \in Nat /\ Cached(x) \in Nat /\ Loaded(x) \in Nat
              /\ Buffers(x) \in Nat
              /\ ref[x] \in Nat /\ ref[x] >= Held(x) + Cached(x) + Loaded(x) + Buffers(x)
          BY <1>1, CountsAreNumbers
        <5>2. Same(None, x) = 0
          BY MoreNames, SameIs
        <5>3. Cached(x)' = Cached(x) + 0 - Same(hot_cache[k], x)
          BY <4>3, <5>2
        <5>4. CASE hot_cache[k] = x
          <6>1. Same(hot_cache[k], x) = 1 /\ r[x] = ref[x] - 1 /\ Cached(x) >= 1
            BY <4>1, <4>4, <5>4, SameIs, CachedCounts
          <6> QED
            BY <5>1, <5>3, <6>1
        <5>5. CASE hot_cache[k] # x
          <6>1. Same(hot_cache[k], x) = 0 /\ r[x] = ref[x]
            BY <4>4, <5>5, SameIs
          <6> QED
            BY <5>1, <5>3, <6>1
        <5> QED
          BY <5>4, <5>5
      <4> QED
        BY <4>6, <4>7
    <3> QED
      BY <1>3, <3>1, <3>2
  <2>3. \E x \in Objs : r[x] = 0
    <3>1. SUFFICES ASSUME \A x \in Objs : r[x] # 0 PROVE FALSE
      OBVIOUS
    <3>2. Used(r) = Objs
      BY <2>2, <3>1 DEF Used
    <3>3. Cardinality(Objs) < Capacity
      BY <1>3, <2>1, <3>2
    <3>4. Cardinality(Objs) \in Nat
      BY MoreNames, FS_CardinalityType
    <3> QED
      BY <3>3, <3>4, MoreNames
  <2>4. o \in Objs /\ r[o] = 0
    BY <1>3, <2>1, <2>3
  <2>5. ref' = [r EXCEPT ![o] = 1]
    BY <1>3, <2>1
  <2>6. ASSUME NEW x \in Objs
        PROVE  ref'[x] >= Held(x) + Cached(x)' + Loaded(x) + Buffers(x) + Same(o, x)
    <3>1. /\ Held(x) \in Nat /\ Cached(x)' \in Nat /\ Loaded(x) \in Nat /\ Buffers(x) \in Nat
          /\ r[x] \in Nat /\ r[x] >= Held(x) + Cached(x)' + Loaded(x) + Buffers(x)
      BY <2>2, CountsAreNumbers
    <3>2. CASE x = o
      <4>1. Same(o, x) = 1 /\ ref'[x] = 1 /\ r[x] = 0
        BY <2>2, <2>4, <2>5, <3>2, SameIs
      <4> QED
        BY <3>1, <4>1
    <3>3. CASE x # o
      <4>1. Same(o, x) = 0 /\ ref'[x] = r[x]
        BY <2>2, <2>4, <2>5, <3>3, SameIs
      <4> QED
        BY <3>1, <4>1
    <3> QED
      BY <3>2, <3>3
  <2>7. hot_cache' \in [Keys -> Opt(Objs)]
    BY <1>3 DEF CacheTypes, Opt
  <2> QED
    BY <2>2, <2>4, <2>5, <2>6, <2>7
<1> QED
  BY <1>2, <1>3 DEF Allocate, Opt

\* What a thread holds when it is done: nothing.
LEMMA HeldReturn ==
  ASSUME CacheTypes, NEW t \in Threads, Return(t)
  PROVE  \A x \in Objs : Held(x)' = Held(x) - Same(obj[t], x)
<1>1. obj'[t] = None /\ \A u \in Threads : u # t => obj'[u] = obj[u]
  BY DEF Return, CacheTypes
<1> TAKE x \in Objs
<1>2. Held(x)' = Held(x) + Same(None, x) - Same(obj[t], x)
  BY <1>1, HeldUpdate
<1>3. Same(None, x) = 0
  BY MoreNames, SameIs
<1> QED
  BY <1>2, <1>3, CountsAreNumbers, SameIs

\* A step that keeps the cache and the references, and adds no user, keeps
\* UsersHaveRefs.
LEMMA FewerUsers ==
  ASSUME CacheTypes, UsersHaveRefs, UNCHANGED <<hot_cache, ref>>,
         \A x \in Objs : Held(x)' + Loaded(x)' + Buffers(x)'
                           <= Held(x) + Loaded(x) + Buffers(x)
  PROVE  UsersHaveRefs'
<1>1. ASSUME NEW x \in Objs
      PROVE  ref'[x] >= Held(x)' + Cached(x)' + Loaded(x)' + Buffers(x)'
  <2>1. /\ Held(x) \in Nat /\ Cached(x) \in Nat /\ Loaded(x) \in Nat /\ Buffers(x) \in Nat
        /\ Held(x)' \in Nat /\ Loaded(x)' \in Nat /\ Buffers(x)' \in Nat
    BY CountsAreNumbers
  <2>2. ref[x] \in Nat /\ ref[x] >= Held(x) + Cached(x) + Loaded(x) + Buffers(x)
    BY DEF CacheTypes, UsersHaveRefs, Held, Cached, Loaded
  <2>3. ref'[x] = ref[x] /\ Cached(x)' = Cached(x)
    BY DEF Cached, Cachers
  <2>4. Held(x)' + Loaded(x)' + Buffers(x)' <= Held(x) + Loaded(x) + Buffers(x)
    OBVIOUS
  <2> QED
    BY <2>1, <2>2, <2>3, <2>4
<1> QED
  BY <1>1 DEF UsersHaveRefs, Held, Cached, Loaded

\* What a step leaves alone counts as before.
LEMMA SameCounts ==
  /\ UNCHANGED obj => \A x \in Objs : Held(x)' = Held(x)
  /\ UNCHANGED hot_cache => \A x \in Objs : Cached(x)' = Cached(x)
  /\ UNCHANGED future => \A x \in Objs : Loaded(x)' = Loaded(x)
  /\ UNCHANGED buffer => \A x \in Objs : Buffers(x)' = Buffers(x)
BY DEF Held, Holders, Cached, Cachers, Loaded, Loads, Buffers

-----------------------------------------------------------------------------
\* Steps that add no user: those of prefetch, the waiting get, and a get that
\* begins.
LEMMA QuietSteps ==
  ASSUME TaskTypes, CacheTypes, UsersHaveRefs,
         \/ \E k \in Keys : PrefetchBegin(k)
         \/ \E t \in Getters : \E k \in Wanted[t] : GetBegin(t, k)
         \/ PrefetchCheck \/ PrefetchSubmit \/ PrefetchRegister
         \/ \E t \in Getters : GetWait(t)
         \/ UNCHANGED vars
  PROVE  CacheTypes' /\ UsersHaveRefs'
<1> USE Names, MoreNames
<1>1. UNCHANGED <<hot_cache, ref, buffer>>
  BY DEF PrefetchBegin, GetBegin, PrefetchCheck, PrefetchSubmit, PrefetchRegister, GetWait,
         vars, tables, locals
<1>2. UNCHANGED obj \/ \E t \in Threads : Return(t)
  BY DEF PrefetchBegin, GetBegin, PrefetchCheck, PrefetchSubmit, PrefetchRegister, GetWait,
         vars, locals
<1>3. CacheTypes'
  BY <1>1, <1>2 DEF CacheTypes, Return, Opt
<1>4. \A x \in Objs : Held(x)' <= Held(x)
  <2>1. CASE UNCHANGED obj
    BY <2>1, SameCounts, CountsAreNumbers
  <2>2. ASSUME NEW t \in Threads, Return(t) PROVE \A x \in Objs : Held(x)' <= Held(x)
    BY <2>2, HeldReturn, SameIs, CountsAreNumbers
  <2> QED
    BY <1>2, <2>1, <2>2
<1>5. \A x \in Objs : Loaded(x)' <= Loaded(x)
  <2>1. CASE UNCHANGED future
    BY <2>1, SameCounts, CountsAreNumbers
  <2>2. CASE PrefetchSubmit
    <3>1. PICK i \in Futures : future' = [future EXCEPT ![i] = [st |-> "running",
                                  key |-> key[Engine], buf |-> None, cb |-> FALSE]]
      BY <2>2 DEF PrefetchSubmit, NewFutures
    <3>2. future'[i].buf = None /\ \A j \in Futures : j # i => future'[j] = future[j]
      BY <3>1 DEF TaskTypes
    <3>3. ASSUME NEW x \in Objs
          PROVE  Loaded(x)' = Loaded(x) + Same(None, x) - Same(future[i].buf, x)
      BY ONLY <3>2, i \in Futures, LoadedUpdate
    <3>4. \A x \in Objs : Same(None, x) = 0 /\ Same(future[i].buf, x) \in Nat
      BY SameIs
    <3> QED
      BY <3>3, <3>4, CountsAreNumbers
  <2>3. CASE \E i : future' = [future EXCEPT ![i].cb = TRUE]
    <3>1. PICK i : future' = [future EXCEPT ![i].cb = TRUE]
      BY <2>3
    <3>2. \A j \in Futures : future'[j].buf = future[j].buf
      BY <3>1 DEF TaskTypes
    <3>3. \A x \in Objs : Loaded(x)' = Loaded(x)
      BY <3>2 DEF Loaded, Loads
    <3> QED
      BY <3>3, CountsAreNumbers
  <2> QED
    BY <2>1, <2>2, <2>3 DEF PrefetchBegin, GetBegin, PrefetchCheck, PrefetchRegister, GetWait, vars
<1>6. ASSUME NEW x \in Objs
      PROVE  Held(x)' + Loaded(x)' + Buffers(x)' <= Held(x) + Loaded(x) + Buffers(x)
  <2>1. Held(x)' <= Held(x) /\ Loaded(x)' <= Loaded(x) /\ Buffers(x)' = Buffers(x)
    BY <1>1, <1>4, <1>5, SameCounts
  <2> QED
    BY <2>1, CountsAreNumbers
<1> QED
  BY <1>1, <1>3, <1>6, FewerUsers

\* After an allocation the new object may be given to one more user.
LEMMA OneMoreUser ==
  ASSUME CacheTypes, UsersHaveRefs, NEW o, Allocate(o),
         \A x \in Objs : Held(x)' + Loaded(x)' + Buffers(x)'
                           <= Held(x) + Loaded(x) + Buffers(x) + Same(o, x)
  PROVE  UsersHaveRefs'
<1>1. \A x \in Objs : /\ ref'[x] \in Nat
                      /\ ref'[x] >= Held(x) + Cached(x)' + Loaded(x) + Buffers(x) + Same(o, x)
  BY AllocateKeeps
<1>2. ASSUME NEW x \in Objs
      PROVE  ref'[x] >= Held(x)' + Cached(x)' + Loaded(x)' + Buffers(x)'
  <2>1. /\ Held(x) \in Nat /\ Loaded(x) \in Nat /\ Buffers(x) \in Nat
        /\ Held(x)' \in Nat /\ Cached(x)' \in Nat /\ Loaded(x)' \in Nat /\ Buffers(x)' \in Nat
        /\ Same(o, x) \in Nat
    BY CountsAreNumbers, SameIs
  <2>2. /\ ref'[x] \in Nat
        /\ ref'[x] >= Held(x) + Cached(x)' + Loaded(x) + Buffers(x) + Same(o, x)
        /\ Held(x)' + Loaded(x)' + Buffers(x)' <= Held(x) + Loaded(x) + Buffers(x) + Same(o, x)
    BY <1>1
  <2> QED
    BY <2>1, <2>2
<1> QED
  BY <1>2 DEF UsersHaveRefs, Held, Cached, Loaded

\* A load takes an object for itself and keeps it until its callback, or gives
\* up without dropping the reference.
LEMMA LoadStepRefs ==
  ASSUME TaskTypes, CacheTypes, UsersHaveRefs, NEW i \in Futures, LoadStep(i)
  PROVE  CacheTypes' /\ UsersHaveRefs'
<1>1. UNCHANGED <<obj, buffer>>
  BY DEF LoadStep, LoadAllocates, LoadEnds
<1>2. ASSUME NEW o \in Objs, Allocate(o), future' = [future EXCEPT ![i].buf = o]
      PROVE  CacheTypes' /\ UsersHaveRefs'
  <2>1. CacheTypes'
    BY <1>1, <1>2, AllocateKeeps DEF CacheTypes
  <2>2. future'[i].buf = o /\ \A j \in Futures : j # i => future'[j] = future[j]
    BY <1>2 DEF TaskTypes
  <2>3. ASSUME NEW x \in Objs
        PROVE  Held(x)' + Loaded(x)' + Buffers(x)'
                 <= Held(x) + Loaded(x) + Buffers(x) + Same(o, x)
    <3>1. Loaded(x)' = Loaded(x) + Same(o, x) - Same(future[i].buf, x)
      BY ONLY <2>2, i \in Futures, LoadedUpdate
    <3>2. Held(x)' = Held(x) /\ Buffers(x)' = Buffers(x)
      BY <1>1, SameCounts
    <3> QED
      BY <3>1, <3>2, CountsAreNumbers, SameIs
  <2> QED
    BY <1>2, <2>1, <2>3, OneMoreUser
<1>3. CASE Allocate(None) /\ future' = [future EXCEPT ![i].st = "done"]
  <2>1. CacheTypes'
    BY <1>1, <1>3, AllocateKeeps DEF CacheTypes
  <2>2. \A j \in Futures : future'[j].buf = future[j].buf
    BY <1>3 DEF TaskTypes
  <2>3. \A x \in Objs : Held(x)' = Held(x) /\ Loaded(x)' = Loaded(x) /\ Buffers(x)' = Buffers(x)
    BY <1>1, <2>2, SameCounts DEF Loaded, Loads
  <2>4. ASSUME NEW x \in Objs
        PROVE  Held(x)' + Loaded(x)' + Buffers(x)'
                 <= Held(x) + Loaded(x) + Buffers(x) + Same(None, x)
    BY <2>3, CountsAreNumbers, SameIs
  <2> QED
    BY <1>3, <2>1, <2>4, OneMoreUser
<1>4. CASE /\ UNCHANGED <<hot_cache, ref>>
           /\ \/ future' = [future EXCEPT ![i].st = "done"]
              \/ future' = [future EXCEPT ![i].st = "failed", ![i].buf = None]
  <2>1. CacheTypes'
    BY <1>1, <1>4 DEF CacheTypes
  <2>2. /\ future'[i].buf = future[i].buf \/ future'[i].buf = None
        /\ \A j \in Futures : j # i => future'[j] = future[j]
    BY <1>4 DEF TaskTypes
  <2>3. ASSUME NEW x \in Objs PROVE Loaded(x)' <= Loaded(x)
    <3>1. PICK v : v = future'[i].buf
      OBVIOUS
    <3>2. Loaded(x)' = Loaded(x) + Same(v, x) - Same(future[i].buf, x)
      BY ONLY <2>2, <3>1, i \in Futures, LoadedUpdate
    <3>3. Same(v, x) <= Same(future[i].buf, x)
      BY <2>2, <3>1, MoreNames, SameIs
    <3> QED
      BY <3>2, <3>3, CountsAreNumbers, SameIs
  <2>4. \A x \in Objs : Held(x)' + Loaded(x)' + Buffers(x)' <= Held(x) + Loaded(x) + Buffers(x)
    BY <1>1, <2>3, SameCounts, CountsAreNumbers
  <2> QED
    BY <1>4, <2>1, <2>4, FewerUsers
<1> QED
  BY <1>2, <1>3, <1>4 DEF LoadStep, LoadAllocates, LoadEnds, tables

\* The result of the future goes from the future to the callback.
LEMMA CallbackPopRefs ==
  ASSUME TaskTypes, CacheTypes, HaveKeys, UsersHaveRefs, CallbackPop
  PROVE  CacheTypes' /\ UsersHaveRefs'
<1> PICK i : i = fut[Loop]
  OBVIOUS
<1>1. /\ i \in Futures /\ UNCHANGED <<hot_cache, ref>>
      /\ future' = [future EXCEPT ![i] = [NoFuture EXCEPT !.st = future[i].st]]
  BY DEF CallbackPop, HaveKeys
<1>2. \/ future[i].buf # None /\ buffer' = future[i].buf /\ UNCHANGED obj
      \/ future[i].buf = None /\ Return(Loop) /\ UNCHANGED buffer
  BY DEF CallbackPop
<1>3. future'[i].buf = None /\ \A j \in Futures : j # i => future'[j] = future[j]
  BY <1>1 DEF TaskTypes, NoFuture
<1>6. i \in Futures
  BY <1>1
<1>4. CacheTypes'
  BY <1>1, <1>2, Names DEF CacheTypes, TaskTypes, Return, Opt
<1>5. ASSUME NEW x \in Objs
      PROVE  Held(x)' + Loaded(x)' + Buffers(x)' <= Held(x) + Loaded(x) + Buffers(x)
  <2>1. Loaded(x)' = Loaded(x) + Same(None, x) - Same(future[i].buf, x)
    BY ONLY <1>3, <1>6, LoadedUpdate
  <2>2. Same(None, x) = 0
    BY SameIs, MoreNames
  <2>3. CASE future[i].buf # None /\ buffer' = future[i].buf /\ UNCHANGED obj
    <3>1. Held(x)' = Held(x)
      BY <2>3, SameCounts
    <3>2. Buffers(x)' = Same(future[i].buf, x)
      BY <2>3 DEF Buffers, Same
    <3> QED
      BY <2>1, <2>2, <3>1, <3>2, CountsAreNumbers, SameIs
  <2>4. CASE future[i].buf = None /\ Return(Loop) /\ UNCHANGED buffer
    <3>1. Held(x)' = Held(x) - Same(obj[Loop], x)
      BY <2>4, HeldReturn, Names
    <3>2. Buffers(x)' = Buffers(x)
      BY <2>4, SameCounts
    <3> QED
      BY <2>1, <2>2, <3>1, <3>2, CountsAreNumbers, SameIs
  <2> QED
    BY <1>2, <2>3, <2>4
<1> QED
  BY <1>1, <1>4, <1>5, FewerUsers

LEMMA CallbackAllocateRefs ==
  ASSUME TaskTypes, CacheTypes, UsersHaveRefs, CallbackAllocate
  PROVE  CacheTypes' /\ UsersHaveRefs'
<1>1. buffer' = None /\ UNCHANGED future
  BY DEF CallbackAllocate
<1>2. \A x \in Objs : Loaded(x)' = Loaded(x) /\ Buffers(x)' = 0
  BY <1>1, SameCounts, MoreNames DEF Buffers
<1>3. ASSUME NEW o \in Objs, Allocate(o), obj' = [obj EXCEPT ![Loop] = o]
      PROVE  CacheTypes' /\ UsersHaveRefs'
  <2>1. CacheTypes'
    BY <1>1, <1>3, AllocateKeeps DEF CacheTypes, Opt
  <2>2. obj'[Loop] = o /\ \A u \in Threads : u # Loop => obj'[u] = obj[u]
    BY <1>3, Names DEF CacheTypes
  <2>3. ASSUME NEW x \in Objs
        PROVE  Held(x)' + Loaded(x)' + Buffers(x)'
                 <= Held(x) + Loaded(x) + Buffers(x) + Same(o, x)
    <3>1. Held(x)' = Held(x) + Same(o, x) - Same(obj[Loop], x)
      BY <2>2, HeldUpdate, Names
    <3> QED
      BY <1>2, <3>1, CountsAreNumbers, SameIs
  <2> QED
    BY <1>3, <2>1, <2>3, OneMoreUser
<1>4. CASE Allocate(None) /\ Return(Loop)
  <2>1. CacheTypes'
    BY <1>1, <1>4, AllocateKeeps DEF CacheTypes, Opt, Return
  <2>2. ASSUME NEW x \in Objs
        PROVE  Held(x)' + Loaded(x)' + Buffers(x)'
                 <= Held(x) + Loaded(x) + Buffers(x) + Same(None, x)
    <3>1. Held(x)' = Held(x) - Same(obj[Loop], x)
      BY <1>4, HeldReturn, Names
    <3> QED
      BY <1>2, <3>1, CountsAreNumbers, SameIs
  <2> QED
    BY <1>4, <2>1, <2>2, OneMoreUser
<1> QED
  BY <1>3, <1>4 DEF CallbackAllocate

\* The cache's reference is new; the object that was cached loses one.
LEMMA CallbackPutRefs ==
  ASSUME TaskTypes, CacheTypes, HaveKeys, UsersHaveRefs, CallbackPut
  PROVE  CacheTypes' /\ UsersHaveRefs'
<1> PICK k, o, old : k = key[Loop] /\ o = obj[Loop] /\ old = hot_cache[k]
  OBVIOUS
<1>1. /\ k \in Keys /\ o \in Opt(Objs) /\ UNCHANGED <<future, buffer>> /\ Return(Loop)
      /\ hot_cache' = [hot_cache EXCEPT ![k] = o]
      /\ ref' = [x \in Objs |-> IF x = o THEN ref[x] + 1
                                ELSE IF x = old THEN ref[x] - 1 ELSE ref[x]]
  BY Names DEF CallbackPut, HaveKeys, CacheTypes
<1>2. hot_cache'[k] = o /\ \A j \in Keys : j # k => hot_cache'[j] = hot_cache[j]
  BY <1>1 DEF CacheTypes
<1>3. ASSUME NEW x \in Objs
      PROVE  ref'[x] \in Nat /\ ref'[x] >= Held(x)' + Cached(x)' + Loaded(x)' + Buffers(x)'
  <2>1. Cached(x)' = Cached(x) + Same(o, x) - Same(old, x)
    BY <1>1, <1>2, CachedUpdate
  <2>2. Held(x)' = Held(x) - Same(o, x)
    BY <1>1, HeldReturn, Names
  <2>3. Loaded(x)' = Loaded(x) /\ Buffers(x)' = Buffers(x)
    BY <1>1, SameCounts
  <2>4. ref[x] \in Nat /\ ref[x] >= Held(x) + Cached(x) + Loaded(x) + Buffers(x)
    BY DEF CacheTypes, UsersHaveRefs, Held, Cached, Loaded
  <2>5. /\ Held(x) \in Nat /\ Cached(x) \in Nat /\ Loaded(x) \in Nat /\ Buffers(x) \in Nat
        /\ Same(o, x) \in Nat /\ Same(old, x) \in Nat
    BY CountsAreNumbers, SameIs
  <2>6. CASE x = o
    <3>1. ref'[x] = ref[x] + 1 /\ Same(o, x) = 1
      BY <1>1, <2>6, SameIs
    <3> QED
      BY <2>1, <2>2, <2>3, <2>4, <2>5, <3>1
  <2>7. CASE x # o /\ x = old
    <3>1. ref'[x] = ref[x] - 1 /\ Same(o, x) = 0 /\ Same(old, x) = 1
      BY <1>1, <2>7, SameIs
    <3>2. Cached(x) >= 1
      BY <1>1, <2>7, CachedCounts
    <3> QED
      BY <2>1, <2>2, <2>3, <2>4, <2>5, <3>1, <3>2
  <2>8. CASE x # o /\ x # old
    <3>1. ref'[x] = ref[x] /\ Same(o, x) = 0 /\ Same(old, x) = 0
      BY <1>1, <2>8, SameIs
    <3> QED
      BY <2>1, <2>2, <2>3, <2>4, <2>5, <3>1
  <2> QED
    BY <2>6, <2>7, <2>8
<1>4. ref' \in [Objs -> Nat]
  BY <1>1, <1>3
<1>5. CacheTypes'
  BY <1>1, <1>4 DEF CacheTypes, Return, Opt
<1> QED
  BY <1>3, <1>5 DEF UsersHaveRefs, Held, Cached, Loaded

LEMMA GetCachedRefs ==
  ASSUME TaskTypes, CacheTypes, HaveKeys, UsersHaveRefs, NEW t \in Getters, GetCached(t)
  PROVE  CacheTypes' /\ UsersHaveRefs'
<1> PICK o : o = hot_cache[key[t]]
  OBVIOUS
<1>1. /\ t \in Threads /\ o \in Objs /\ UNCHANGED <<hot_cache, future, buffer>>
      /\ ref' = [ref EXCEPT ![o] = @ + 1] /\ obj' = [obj EXCEPT ![t] = o]
  BY Names DEF GetCached, HaveKeys, CacheTypes, Opt, tables
<1>2. CacheTypes'
  BY <1>1 DEF CacheTypes, Opt
<1>3. obj'[t] = o /\ \A u \in Threads : u # t => obj'[u] = obj[u]
  BY <1>1 DEF CacheTypes
<1>4. ASSUME NEW x \in Objs
      PROVE  ref'[x] >= Held(x)' + Cached(x)' + Loaded(x)' + Buffers(x)'
  <2>1. Held(x)' = Held(x) + Same(o, x) - Same(obj[t], x)
    BY <1>1, <1>3, HeldUpdate
  <2>2. Cached(x)' = Cached(x) /\ Loaded(x)' = Loaded(x) /\ Buffers(x)' = Buffers(x)
    BY <1>1, SameCounts
  <2>3. ref[x] \in Nat /\ ref[x] >= Held(x) + Cached(x) + Loaded(x) + Buffers(x)
    BY DEF CacheTypes, UsersHaveRefs, Held, Cached, Loaded
  <2>4. ref'[x] = ref[x] + Same(o, x)
    <3>1. CASE x = o
      BY <1>1, <2>3, <3>1, SameIs DEF CacheTypes
    <3>2. CASE x # o
      <4>1. ref'[x] = ref[x] /\ Same(o, x) = 0
        BY <1>1, <3>2, SameIs DEF CacheTypes
      <4> QED
        BY <2>3, <4>1
    <3> QED
      BY <3>1, <3>2
  <2> QED
    BY <2>1, <2>2, <2>3, <2>4, CountsAreNumbers, SameIs
<1> QED
  BY <1>2, <1>4 DEF UsersHaveRefs, Held, Cached, Loaded

LEMMA GetFromDiskRefs ==
  ASSUME TaskTypes, CacheTypes, UsersHaveRefs, NEW t \in Getters, GetFromDisk(t)
  PROVE  CacheTypes' /\ UsersHaveRefs'
<1>1. UNCHANGED <<future, buffer>> /\ t \in Threads
  BY Names DEF GetFromDisk
<1>2. \A x \in Objs : Loaded(x)' = Loaded(x) /\ Buffers(x)' = Buffers(x)
  BY <1>1, SameCounts
<1>3. ASSUME NEW o \in Objs, Allocate(o), obj' = [obj EXCEPT ![t] = o]
      PROVE  CacheTypes' /\ UsersHaveRefs'
  <2>1. CacheTypes'
    BY <1>1, <1>3, AllocateKeeps DEF CacheTypes, Opt
  <2>2. obj'[t] = o /\ \A u \in Threads : u # t => obj'[u] = obj[u]
    BY <1>1, <1>3 DEF CacheTypes
  <2>3. ASSUME NEW x \in Objs
        PROVE  Held(x)' + Loaded(x)' + Buffers(x)'
                 <= Held(x) + Loaded(x) + Buffers(x) + Same(o, x)
    <3>1. Held(x)' = Held(x) + Same(o, x) - Same(obj[t], x)
      BY <1>1, <2>2, HeldUpdate
    <3> QED
      BY <1>2, <3>1, CountsAreNumbers, SameIs
  <2> QED
    BY <1>3, <2>1, <2>3, OneMoreUser
<1>4. CASE Allocate(None) /\ Return(t)
  <2>1. CacheTypes'
    BY <1>1, <1>4, AllocateKeeps DEF CacheTypes, Opt, Return
  <2>2. ASSUME NEW x \in Objs
        PROVE  Held(x)' + Loaded(x)' + Buffers(x)'
                 <= Held(x) + Loaded(x) + Buffers(x) + Same(None, x)
    <3>1. Held(x)' = Held(x) - Same(obj[t], x)
      BY <1>1, <1>4, HeldReturn
    <3> QED
      BY <1>2, <3>1, CountsAreNumbers, SameIs
  <2> QED
    BY <1>4, <2>1, <2>2, OneMoreUser
<1> QED
  BY <1>3, <1>4 DEF GetFromDisk

\* The cache's entry for an empty key: one reference more.
LEMMA WriteBackRefs ==
  ASSUME TaskTypes, CacheTypes, HaveKeys, UsersHaveRefs, NEW t \in Getters, WriteBack(t)
  PROVE  CacheTypes' /\ UsersHaveRefs'
<1> PICK k, o : k = key[t] /\ o = obj[t]
  OBVIOUS
<1>1. k \in Keys /\ o \in Opt(Objs) /\ UNCHANGED <<future, buffer, obj>>
  BY Names DEF WriteBack, HaveKeys, CacheTypes, locals
<1>2. \A x \in Objs : Held(x)' = Held(x) /\ Loaded(x)' = Loaded(x) /\ Buffers(x)' = Buffers(x)
  BY <1>1, SameCounts
<1>3. CASE UNCHANGED <<hot_cache, ref>>
  <2>1. CacheTypes'
    BY <1>1, <1>3 DEF CacheTypes
  <2>2. \A x \in Objs : Held(x)' + Loaded(x)' + Buffers(x)' <= Held(x) + Loaded(x) + Buffers(x)
    BY <1>2, CountsAreNumbers
  <2> QED
    BY <1>3, <2>1, <2>2, FewerUsers
<1>4. CASE /\ hot_cache[k] = None
           /\ hot_cache' = [hot_cache EXCEPT ![k] = o]
           /\ ref' = [ref EXCEPT ![o] = @ + 1]
  <2>1. CacheTypes'
    <3>1. ref' \in [Objs -> Nat]
      <4>1. CASE o \in Objs
        BY <1>4, <4>1 DEF CacheTypes
      <4>2. CASE o \notin Objs
        <5>1. ref' = ref
          BY <1>4, <4>2 DEF CacheTypes
        <5> QED
          BY <5>1 DEF CacheTypes
      <4> QED
        BY <4>1, <4>2
    <3>2. hot_cache' \in [Keys -> Opt(Objs)]
      BY <1>1, <1>4 DEF CacheTypes
    <3> QED
      BY <1>1, <3>1, <3>2 DEF CacheTypes
  <2>2. hot_cache'[k] = o /\ \A j \in Keys : j # k => hot_cache'[j] = hot_cache[j]
    BY <1>1, <1>4 DEF CacheTypes
  <2>3. ASSUME NEW x \in Objs
        PROVE  ref'[x] >= Held(x)' + Cached(x)' + Loaded(x)' + Buffers(x)'
    <3>1. Cached(x)' = Cached(x) + Same(o, x) - Same(hot_cache[k], x)
      BY <1>1, <2>2, CachedUpdate
    <3>2. ref[x] \in Nat /\ ref[x] >= Held(x) + Cached(x) + Loaded(x) + Buffers(x)
      BY DEF CacheTypes, UsersHaveRefs, Held, Cached, Loaded
    <3>3. ref'[x] = ref[x] + Same(o, x)
      <4>1. CASE x = o
        BY <1>4, <3>2, <4>1, SameIs DEF CacheTypes
      <4>2. CASE x # o
        <5>1. ref'[x] = ref[x] /\ Same(o, x) = 0
          BY <1>4, <4>2, SameIs DEF CacheTypes
        <5> QED
          BY <3>2, <5>1
      <4> QED
        BY <4>1, <4>2
    <3> QED
      BY <1>2, <3>1, <3>2, <3>3, CountsAreNumbers, SameIs
  <2> QED
    BY <2>1, <2>3 DEF UsersHaveRefs, Held, Cached, Loaded
<1> QED
  BY <1>3, <1>4 DEF WriteBack

LEMMA UseRefs ==
  ASSUME TaskTypes, CacheTypes, UsersHaveRefs, NEW t \in Getters, Use(t)
  PROVE  CacheTypes' /\ UsersHaveRefs'
<1> PICK o : o = obj[t]
  OBVIOUS
<1>1. /\ t \in Threads /\ UNCHANGED <<hot_cache, future, buffer>> /\ Return(t)
      /\ ref' = [ref EXCEPT ![o] = @ - 1]
  BY Names DEF Use, tables
<1>2. ASSUME NEW x \in Objs
      PROVE  ref'[x] \in Nat /\ ref'[x] >= Held(x)' + Cached(x)' + Loaded(x)' + Buffers(x)'
  <2>1. Held(x)' = Held(x) - Same(o, x)
    BY <1>1, HeldReturn
  <2>2. Cached(x)' = Cached(x) /\ Loaded(x)' = Loaded(x) /\ Buffers(x)' = Buffers(x)
    BY <1>1, SameCounts
  <2>3. ref[x] \in Nat /\ ref[x] >= Held(x) + Cached(x) + Loaded(x) + Buffers(x)
    BY DEF CacheTypes, UsersHaveRefs, Held, Cached, Loaded
  <2>4. CASE x = o
    <3>1. ref'[x] = ref[x] - 1 /\ Same(o, x) = 1
      BY <1>1, <2>4, SameIs DEF CacheTypes
    <3>2. Held(x) >= 1
      BY <1>1, <2>4, HeldCounts
    <3> QED
      BY <2>1, <2>2, <2>3, <3>1, <3>2, CountsAreNumbers
  <2>5. CASE x # o
    <3>1. ref'[x] = ref[x] /\ Same(o, x) = 0
      BY <1>1, <2>5, SameIs DEF CacheTypes
    <3> QED
      BY <2>1, <2>2, <2>3, <3>1, CountsAreNumbers
  <2> QED
    BY <2>4, <2>5
<1>3. ref' \in [Objs -> Nat]
  <2>1. ref' = [x \in Objs |-> ref'[x]]
    BY <1>1 DEF CacheTypes
  <2> QED
    BY <1>2, <2>1
<1>4. CacheTypes'
  BY <1>1, <1>3 DEF CacheTypes, Return, Opt
<1> QED
  BY <1>2, <1>4 DEF UsersHaveRefs, Held, Cached, Loaded

-----------------------------------------------------------------------------
\* A load that runs has a key; it was running or nobody had its future.
KeyedLoads ==
  \A i \in Futures : future'[i].st = "running" =>
    /\ future'[i].key \in Keys
    /\ future[i].st = "running" \/ \A u \in Threads : fut[u] # i

\* A thread that is in the middle of a step of its own is not moved by another.
LEMMA HaveKeysFrame ==
  ASSUME HaveKeys, NEW t \in Threads, TaskTypes,
         pc' = [pc EXCEPT ![t] = pc'[t]],
         key' = [key EXCEPT ![t] = key'[t]], fut' = [fut EXCEPT ![t] = fut'[t]],
         KeyedLoads,
         t = Engine /\ pc'[t] \in {"check", "submit", "register"} => key'[t] \in Keys,
         t = Engine /\ pc'[t] = "register" => fut'[t] \in Futures,
         t \in Getters /\ pc'[t] \in {"wait", "search", "write_back"} => key'[t] \in Keys,
         t = Loop /\ pc'[t] \in {"cb_pop", "cb_alloc", "cb_put"} => key'[t] \in Keys,
         t = Loop /\ pc'[t] = "cb_pop" => fut'[t] \in Futures /\ future'[fut'[t]].st # "running"
  PROVE  HaveKeys'
<1>1. \A u \in Threads : u # t => pc'[u] = pc[u] /\ key'[u] = key[u] /\ fut'[u] = fut[u]
  BY DEF TaskTypes
<1> QED
  BY <1>1, Names DEF HaveKeys, KeyedLoads

\* The locals of a thread that is done.
LEMMA HaveKeysReturn ==
  ASSUME HaveKeys, NEW t \in Threads, TaskTypes, Return(t), KeyedLoads
  PROVE  HaveKeys'
<1>1. /\ pc'[t] = "idle" /\ pc' = [pc EXCEPT ![t] = pc'[t]]
      /\ key' = [key EXCEPT ![t] = key'[t]] /\ fut' = [fut EXCEPT ![t] = fut'[t]]
  BY DEF TaskTypes, Return, Goto
<1> QED
  BY <1>1, HaveKeysFrame

LEMMA HaveKeysStep ==
  ASSUME TaskTypes, HaveKeys, [Next]_vars
  PROVE  HaveKeys'
<1> USE Names
<1>0. UNCHANGED future => KeyedLoads
  BY DEF HaveKeys, KeyedLoads
<1>1. ASSUME NEW k \in Keys, PrefetchBegin(k) PROVE HaveKeys'
  <2>1. /\ pc'[Engine] = "check" /\ key'[Engine] = k /\ UNCHANGED <<fut, future>>
        /\ pc' = [pc EXCEPT ![Engine] = "check"] /\ key' = [key EXCEPT ![Engine] = k]
    BY <1>1 DEF PrefetchBegin, Goto, TaskTypes
  <2>2. fut' = [fut EXCEPT ![Engine] = fut'[Engine]]
    BY <2>1 DEF TaskTypes
  <2> QED
    BY <1>0, <2>1, <2>2, HaveKeysFrame
<1>2. ASSUME NEW t \in Getters, NEW k \in Wanted[t], GetBegin(t, k) PROVE HaveKeys'
  <2>1. /\ pc'[t] \in {"search", "wait"} /\ key'[t] = k /\ UNCHANGED future /\ k \in Keys
        /\ pc' = [pc EXCEPT ![t] = pc'[t]] /\ key' = [key EXCEPT ![t] = k]
        /\ fut' = [fut EXCEPT ![t] = fut'[t]]
    BY <1>2 DEF GetBegin, Goto, TaskTypes
  <2> QED
    BY <1>0, <2>1, HaveKeysFrame
<1>3. CASE PrefetchCheck
  <2>1. UNCHANGED future
    BY <1>3 DEF PrefetchCheck
  <2>2. CASE Return(Engine)
    BY <1>0, <2>1, <2>2, HaveKeysReturn
  <2>3. CASE pc[Engine] = "check" /\ Goto(Engine, "submit") /\ UNCHANGED <<key, fut>>
    <3>1. pc'[Engine] = "submit" /\ pc' = [pc EXCEPT ![Engine] = "submit"]
      BY <2>3 DEF Goto, TaskTypes
    <3>2. /\ key'[Engine] \in Keys /\ key' = [key EXCEPT ![Engine] = key'[Engine]]
          /\ fut' = [fut EXCEPT ![Engine] = fut'[Engine]]
      BY <2>3 DEF HaveKeys, TaskTypes
    <3> QED
      BY <1>0, <2>1, <3>1, <3>2, HaveKeysFrame
  <2> QED
    BY <1>3, <2>2, <2>3 DEF PrefetchCheck
<1>4. CASE PrefetchSubmit
  <2>1. PICK i \in NewFutures :
           /\ future' = [future EXCEPT ![i] = [st |-> "running", key |-> key[Engine],
                                               buf |-> None, cb |-> FALSE]]
           /\ fut' = [fut EXCEPT ![Engine] = i]
    BY <1>4 DEF PrefetchSubmit
  <2>0. i \in Futures /\ \A u \in Threads : fut[u] # i
    BY DEF NewFutures
  <2>2. /\ pc[Engine] = "submit" /\ pc'[Engine] = "register"
        /\ pc' = [pc EXCEPT ![Engine] = "register"] /\ UNCHANGED key
    BY <1>4 DEF PrefetchSubmit, Goto, TaskTypes
  <2>3. key[Engine] \in Keys /\ key' = [key EXCEPT ![Engine] = key'[Engine]]
    BY <2>2 DEF HaveKeys, TaskTypes
  <2>4. KeyedLoads
    BY <2>0, <2>1, <2>3 DEF HaveKeys, TaskTypes, KeyedLoads
  <2>5. fut'[Engine] = i
    BY <2>1 DEF TaskTypes
  <2> QED
    BY <2>0, <2>1, <2>2, <2>3, <2>4, <2>5, HaveKeysFrame
<1>5. CASE PrefetchRegister
  <2>1. KeyedLoads
    <3>1. CASE future' = [future EXCEPT ![fut[Engine]].cb = TRUE]
      <4>1. \A j \in Futures : future'[j].st = future[j].st /\ future'[j].key = future[j].key
        BY <3>1 DEF TaskTypes
      <4> QED
        BY <4>1 DEF HaveKeys, KeyedLoads
    <3> QED
      BY <1>0, <1>5, <3>1 DEF PrefetchRegister
  <2>2. CASE Return(Engine)
    BY <2>1, <2>2, HaveKeysReturn
  <2>3. CASE Goto(Engine, "self_wait") /\ UNCHANGED <<key, fut>>
    <3>1. /\ pc'[Engine] = "self_wait" /\ pc' = [pc EXCEPT ![Engine] = "self_wait"]
          /\ key' = [key EXCEPT ![Engine] = key'[Engine]]
          /\ fut' = [fut EXCEPT ![Engine] = fut'[Engine]]
      BY <2>3 DEF Goto, TaskTypes
    <3> QED
      BY <2>1, <3>1, HaveKeysFrame
  <2> QED
    BY <1>5, <2>2, <2>3 DEF PrefetchRegister
<1>6. CASE CallbackPop
  <2>1. KeyedLoads
    <3> PICK i : i = fut[Loop]
      OBVIOUS
    <3>1. /\ i \in Futures /\ pc[Loop] = "cb_pop"
          /\ future' = [future EXCEPT ![i] = [NoFuture EXCEPT !.st = future[i].st]]
      BY <1>6 DEF CallbackPop, HaveKeys
    <3>2. /\ future'[i].st = future[i].st /\ future[i].st # "running"
          /\ \A j \in Futures : j # i => future'[j] = future[j]
      BY <1>6, <3>1 DEF HaveKeys, TaskTypes, NoFuture
    <3> QED
      BY <3>2 DEF HaveKeys, KeyedLoads
  <2>2. CASE Return(Loop)
    BY <2>1, <2>2, HaveKeysReturn
  <2>3. CASE Goto(Loop, "cb_alloc") /\ UNCHANGED <<key, fut>>
    <3>1. /\ pc'[Loop] = "cb_alloc" /\ pc' = [pc EXCEPT ![Loop] = "cb_alloc"]
          /\ key' = [key EXCEPT ![Loop] = key'[Loop]]
          /\ fut' = [fut EXCEPT ![Loop] = fut'[Loop]]
      BY <2>3 DEF Goto, TaskTypes
    <3>2. key'[Loop] \in Keys
      BY <1>6, <2>3 DEF CallbackPop, HaveKeys
    <3> QED
      BY <2>1, <3>1, <3>2, HaveKeysFrame
  <2> QED
    BY <1>6, <2>2, <2>3 DEF CallbackPop
<1>7. CASE CallbackAllocate
  <2>1. UNCHANGED future
    BY <1>7 DEF CallbackAllocate
  <2>2. CASE Return(Loop)
    BY <1>0, <2>1, <2>2, HaveKeysReturn
  <2>3. CASE Goto(Loop, "cb_put") /\ UNCHANGED <<key, fut>>
    <3>1. /\ pc'[Loop] = "cb_put" /\ pc' = [pc EXCEPT ![Loop] = "cb_put"]
          /\ key' = [key EXCEPT ![Loop] = key'[Loop]]
          /\ fut' = [fut EXCEPT ![Loop] = fut'[Loop]]
      BY <2>3 DEF Goto, TaskTypes
    <3>2. key'[Loop] \in Keys
      BY <1>7, <2>3 DEF CallbackAllocate, HaveKeys
    <3> QED
      BY <1>0, <2>1, <3>1, <3>2, HaveKeysFrame
  <2> QED
    BY <1>7, <2>2, <2>3 DEF CallbackAllocate
<1>8. CASE CallbackPut
  BY <1>0, <1>8, HaveKeysReturn DEF CallbackPut
<1>9. ASSUME NEW i \in Futures, LoadStep(i) PROVE HaveKeys'
  <2>1. pc[Loop] = "idle" /\ future[i].st = "running" /\ future[i].key \in Keys
    BY <1>9 DEF LoadStep, LoadAllocates, LoadEnds, HaveKeys
  <2>2. \A j \in Futures : future'[j].key = future[j].key
                           /\ (future'[j].st = "running" => future[j].st = "running")
    BY <1>9 DEF LoadStep, LoadAllocates, LoadEnds, TaskTypes
  <2>3. KeyedLoads
    BY <2>2 DEF HaveKeys, KeyedLoads
  <2>4. CASE UNCHANGED <<pc, key, fut>>
    BY <2>1, <2>3, <2>4 DEF HaveKeys, KeyedLoads
  <2>5. CASE future'[i].st # "running" /\ Ended(i)
    <3>1. CASE UNCHANGED <<pc, key, fut>>
      BY <2>4, <3>1
    <3>2. CASE /\ Goto(Loop, "cb_pop")
               /\ fut' = [fut EXCEPT ![Loop] = i]
               /\ key' = [key EXCEPT ![Loop] = future[i].key]
      <4>1. /\ pc' = [pc EXCEPT ![Loop] = "cb_pop"] /\ pc'[Loop] = "cb_pop"
            /\ fut'[Loop] = i /\ key'[Loop] = future[i].key
        BY <3>2 DEF Goto, TaskTypes
      <4> QED
        BY <2>1, <2>3, <2>5, <3>2, <4>1, HaveKeysFrame
    <3> QED
      BY <2>5, <3>1, <3>2 DEF Ended
  <2>6. future'[i].st # "running" \/ UNCHANGED <<pc, key, fut>>
    BY <1>9 DEF LoadStep, LoadAllocates, LoadEnds, TaskTypes
  <2>7. Ended(i) \/ UNCHANGED <<pc, key, fut>>
    BY <1>9 DEF LoadStep, LoadAllocates, LoadEnds
  <2> QED
    BY <2>4, <2>5, <2>6, <2>7
<1>10. ASSUME NEW t \in Getters, GetStep(t) PROVE HaveKeys'
  <2>1. UNCHANGED future /\ t \in Threads
    BY <1>10 DEF GetStep, GetWait, GetCached, GetFromDisk, WriteBack, Use
  <2>2. CASE Return(t)
    BY <1>0, <2>1, <2>2, HaveKeysReturn
  <2>3. ASSUME pc[t] \in {"wait", "search", "write_back"},
               NEW label \in {"search", "write_back", "use"}, Goto(t, label),
               UNCHANGED <<key, fut>>
        PROVE  HaveKeys'
    <3>1. /\ pc'[t] = label /\ pc' = [pc EXCEPT ![t] = pc'[t]]
          /\ key' = [key EXCEPT ![t] = key'[t]]
          /\ fut' = [fut EXCEPT ![t] = fut'[t]]
      BY <2>1, <2>3 DEF Goto, TaskTypes
    <3>2. key'[t] \in Keys
      BY <2>3 DEF HaveKeys
    <3> QED
      BY <1>0, <2>1, <3>1, <3>2, HaveKeysFrame
  <2> QED
    BY <1>10, <2>2, <2>3 DEF GetStep, GetWait, GetCached, GetFromDisk, WriteBack, Use, locals
<1>11. CASE UNCHANGED vars
  BY <1>11 DEF HaveKeys, vars, tables, locals
<1> QED
  BY <1>1, <1>2, <1>3, <1>4, <1>5, <1>6, <1>7, <1>8, <1>9, <1>10, <1>11
     DEF Next, PrefetchStep, LoopStep

\* All of the steps.
LEMMA StepRefInv == ASSUME RefInv, [Next]_vars PROVE RefInv'
<1> USE DEF RefInv
<1>1. TaskTypes' /\ HaveKeys'
  BY TypesStep, HaveKeysStep DEF HaveKeys
<1>2. CacheTypes' /\ UsersHaveRefs'
  <2>1. ASSUME NEW t \in Getters, GetStep(t) PROVE CacheTypes' /\ UsersHaveRefs'
    BY <2>1, QuietSteps, GetCachedRefs, GetFromDiskRefs, WriteBackRefs, UseRefs DEF GetStep
  <2> QED
    BY <2>1, QuietSteps, LoadStepRefs, CallbackPopRefs, CallbackAllocateRefs, CallbackPutRefs
       DEF Next, PrefetchStep, LoopStep
<1> QED
  BY <1>1, <1>2

LEMMA InitRefInv == ASSUME Init PROVE RefInv
<1>1. TaskTypes /\ CacheTypes /\ HaveKeys
  BY Names DEF Init, TaskTypes, CacheTypes, HaveKeys, Labels, Opt, NoFuture
<1>2. ASSUME NEW x \in Objs
      PROVE  /\ Cardinality(Holders(x)) = 0 /\ Cardinality(Cachers(x)) = 0
             /\ Cardinality(Loads(x)) = 0 /\ Buffers(x) = 0
  <2>1. Holders(x) = {} /\ Cachers(x) = {} /\ Loads(x) = {} /\ Buffers(x) = 0
    BY MoreNames DEF Init, Holders, Cachers, Loads, Buffers, NoFuture
  <2> QED
    BY <2>1, FS_EmptySet
<1>3. UsersHaveRefs
  <2>1. ASSUME NEW x \in Objs
        PROVE  ref[x] >= Cardinality(Holders(x)) + Cardinality(Cachers(x))
                           + Cardinality(Loads(x)) + Buffers(x)
    <3>1. ref[x] = 0
      BY DEF Init
    <3> QED
      BY <1>2, <3>1
  <2> QED
    BY <2>1 DEF UsersHaveRefs
<1> QED
  BY <1>1, <1>3 DEF RefInv

\* Everybody who uses an object has a reference to it, also when loads end
\* before their callbacks are added: no object is handed out again while a
\* caller, the cache, a finished load or the callback has it.
THEOREM UsersHaveRefsHolds == Spec => []UsersHaveRefs
<1>1. Init => RefInv
  BY InitRefInv
<1>2. RefInv /\ [Next]_vars => RefInv'
  BY StepRefInv
<1>3. RefInv => UsersHaveRefs
  BY DEF RefInv
<1> QED
  BY <1>1, <1>2, <1>3, PTL DEF Spec

-----------------------------------------------------------------------------
(***************************************************************************)
(* Peers.  A get brings the bytes of the chunk it asked for, for any       *)
(* instances, buffers and pieces, and whoever fetches from whom, also in a *)
(* circle; peers may die at any moment.                                    *)
(***************************************************************************)
Pieces      == Keys \cup {None}
PeerBuffers == Peers!Buffers

MemoryObjects == [data : Pieces, refs : Nat]
EngineThreads == [pc : {"idle", "queued", "header", "body", "got"},
                  key : Pieces, buf : PeerBuffers \cup {None}, got : Nat]
Written       == [buf : PeerBuffers, data : Pieces]
Wires         == Pieces \cup {"success", "fail"}
Connections   == [to : Instances \cup {None}, req : Pieces, unsent : Seq(Written),
                  wire : Seq(Wires), serve : {"none", "accepted", "meta", "drain"},
                  buf : PeerBuffers \cup {None}, open : BOOLEAN]

PeerTypes ==
  /\ mem \in [Instances -> [PeerBuffers -> MemoryObjects]]
  /\ hot \in [Instances -> [Keys -> PeerBuffers \cup {None}]]
  /\ listed \in [Keys -> Instances \cup {None}]
  /\ thread \in [Instances -> EngineThreads]
  /\ conn \in [Instances -> Connections]

\* The users of a buffer: the cache, a get, and answers to peers.
InHot(j, b)      == \E k \in Keys : hot[j][k] = b
Gets(th, b)      == th.pc \in {"body", "got"} /\ th.buf = b
Serving(c)       == c.serve \in {"meta", "drain"}
ServedFrom(j, b) == {i \in Instances : Serving(conn[i]) /\ conn[i].to = j /\ conn[i].buf = b}
One(p)           == IF p THEN 1 ELSE 0

\* Each of them has a reference.  (A get or an answer that ends half way
\* leaves its reference behind.)
RefsSuffice ==
  \A j \in Instances, b \in PeerBuffers :
    mem[j][b].refs >= Cardinality(ServedFrom(j, b)) + One(InHot(j, b)) + One(Gets(thread[j], b))

\* The cache has each chunk in a buffer of its own, into which no get writes.
HotIsRight ==
  \A j \in Instances, k \in Keys : hot[j][k] # None =>
    /\ mem[j][hot[j][k]].data = k
    /\ ~Gets(thread[j], hot[j][k])
    /\ \A l \in Keys : hot[j][l] = hot[j][k] => l = k

\* What is served to a peer is in the cache meanwhile.
ServedIsHot ==
  \A i \in Instances : Serving(conn[i]) =>
    /\ conn[i].to \in Instances /\ conn[i].buf \in PeerBuffers
    /\ InHot(conn[i].to, conn[i].buf)

\* What the get of instance i has received so far.
Received(i, m, th) ==
  /\ th.pc # "idle" => i \in alive /\ th.key \in Keys
  /\ th.pc \in {"queued", "header"} => th.got = 0
  /\ th.pc \in {"body", "got"} => th.buf \in PeerBuffers
  /\ th.pc = "body" /\ th.got > 0 => m[th.buf].data = th.key
  /\ th.pc = "got" => m[th.buf].data = th.key

GetsReceive == \A i \in Instances : Received(i, mem[i], thread[i])

\* What is under way to it.  Of the answer the header comes first, and all the
\* rest is the chunk asked for.
Answer(h, c, th) ==
  /\ th.pc \in {"header", "body"}
  /\ c.req # None => /\ c.req = th.key /\ th.pc = "header"
                     /\ c.wire = <<>> /\ c.unsent = <<>> /\ ~Serving(c)
  /\ Serving(c) => h[c.to][th.key] = c.buf
  /\ \A n \in 1 .. Len(c.unsent) : c.unsent[n].data = th.key
  /\ th.pc = "header" /\ c.wire = <<>> => c.unsent = <<>> /\ ~Serving(c)
  /\ th.pc = "header" /\ c.wire # <<>> => Head(c.wire) \in {"success", "fail"}
  /\ \A n \in 1 .. Len(c.wire) : n > 1 \/ th.pc = "body" => c.wire[n] = th.key

\* Of client i.  It waits on an open connection, and nobody serves the dead.
Asks(i, h, c, th) ==
  /\ c.open /\ i \in alive => Answer(h, c, th)
  /\ c.open /\ i \notin alive => c.to \notin alive /\ ~Serving(c)
  /\ th.pc \in {"header", "body"} => c.open

Asking == \A i \in Instances : Asks(i, hot, conn[i], thread[i])

PeerInv == /\ PeerTypes /\ RefsSuffice /\ HotIsRight /\ ServedIsHot
           /\ GetsReceive /\ Asking

LEMMA PeerNames ==
  /\ IsFiniteSet(Instances) /\ Parts \in Nat /\ PeerBuffers \subseteq Nat
  /\ None \notin Instances /\ None \notin Keys /\ None \notin PeerBuffers
BY PeersAssumption DEF PeerBuffers, Peers!Buffers

LEMMA ServedIsFinite ==
  ASSUME NEW j, NEW b
  PROVE  IsFiniteSet(ServedFrom(j, b)) /\ Cardinality(ServedFrom(j, b)) \in Nat
<1>1. ServedFrom(j, b) \subseteq Instances
  BY DEF ServedFrom
<1> QED
  BY <1>1, PeerNames, FS_Subset, FS_CardinalityType

\* A buffer with no reference has no user, and one whose only reference is
\* the cache's is used by nobody else.
LEMMA FewUsers ==
  ASSUME PeerInv, NEW j \in Instances, NEW b \in PeerBuffers
  PROVE  /\ mem[j][b].refs = 0 =>
              ServedFrom(j, b) = {} /\ ~InHot(j, b) /\ ~Gets(thread[j], b)
         /\ mem[j][b].refs = 1 /\ InHot(j, b) =>
              ServedFrom(j, b) = {} /\ ~Gets(thread[j], b)
<1> DEFINE n == Cardinality(ServedFrom(j, b))
           r == mem[j][b].refs
<1>1. n \in Nat /\ (n = 0 => ServedFrom(j, b) = {})
  BY ServedIsFinite, FS_EmptySet
<1>2. r \in Nat
  BY DEF PeerInv, PeerTypes, MemoryObjects
<1>3. r >= n + One(InHot(j, b)) + One(Gets(thread[j], b))
  BY DEF PeerInv, RefsSuffice
<1> HIDE DEF n, r
<1>4. r = 0 => n = 0 /\ ~InHot(j, b) /\ ~Gets(thread[j], b)
  BY <1>1, <1>2, <1>3 DEF One
<1>5. r = 1 /\ InHot(j, b) => n = 0 /\ ~Gets(thread[j], b)
  BY <1>1, <1>2, <1>3 DEF One
<1> QED
  BY <1>1, <1>4, <1>5 DEF r

\* Steps of one client or of its server, which leave the cache alone.
LEMMA OneGetMoves ==
  ASSUME PeerInv, NEW i \in Instances, NEW c \in Connections, NEW th \in EngineThreads,
         conn' = [conn EXCEPT ![i] = c], thread' = [thread EXCEPT ![i] = th],
         hot' = hot, listed' = listed, alive' = alive,
         mem' \in [Instances -> [PeerBuffers -> MemoryObjects]],
         \A j \in Instances, b \in PeerBuffers :
           mem'[j][b].data = mem[j][b].data \/ (j = i /\ Gets(thread[i], b)),
         RefsSuffice',
         th.pc \in {"body", "got"} => thread[i].pc \in {"body", "got"} /\ th.buf = thread[i].buf,
         Serving(c) => c.to \in Instances /\ c.buf \in PeerBuffers /\ InHot(c.to, c.buf),
         Received(i, mem'[i], th),
         Asks(i, hot, c, th)
  PROVE  PeerInv'
<1>1. /\ conn' \in [Instances -> Connections] /\ conn'[i] = c
      /\ thread' \in [Instances -> EngineThreads] /\ thread'[i] = th
      /\ \A j \in Instances : j # i => conn'[j] = conn[j] /\ thread'[j] = thread[j]
  BY DEF PeerInv, PeerTypes
<1>2. PeerTypes'
  BY <1>1 DEF PeerInv, PeerTypes, PeerBuffers, Pieces, MemoryObjects, EngineThreads, Connections,
              Written, Wires
<1>3. ASSUME NEW j \in Instances, NEW k \in Keys, hot[j][k] # None
      PROVE  /\ mem'[j][hot[j][k]].data = k
             /\ ~Gets(thread'[j], hot[j][k])
             /\ \A l \in Keys : hot[j][l] = hot[j][k] => l = k
  <2>1. /\ mem[j][hot[j][k]].data = k /\ ~Gets(thread[j], hot[j][k])
        /\ \A l \in Keys : hot[j][l] = hot[j][k] => l = k
    BY <1>3 DEF PeerInv, HotIsRight
  <2>2. hot[j][k] \in PeerBuffers
    BY <1>3 DEF PeerInv, PeerTypes
  <2>3. mem'[j][hot[j][k]].data = mem[j][hot[j][k]].data
    BY <2>1, <2>2
  <2>4. ~Gets(thread'[j], hot[j][k])
    BY <1>1, <2>1 DEF Gets
  <2> QED
    BY <2>1, <2>3, <2>4
<1>4. HotIsRight'
  BY <1>3 DEF HotIsRight, Gets
<1>5. ServedIsHot'
  <2>1. ASSUME NEW j \in Instances, Serving(conn'[j])
        PROVE  /\ conn'[j].to \in Instances /\ conn'[j].buf \in PeerBuffers
               /\ InHot(conn'[j].to, conn'[j].buf)
    BY <1>1, <2>1 DEF PeerInv, ServedIsHot
  <2> QED
    BY <2>1 DEF ServedIsHot, InHot, Serving, PeerBuffers
<1>6. GetsReceive'
  <2>1. ASSUME NEW j \in Instances, j # i PROVE Received(j, mem'[j], thread'[j])
    <3>1. \A b \in PeerBuffers : mem'[j][b].data = mem[j][b].data
      BY <2>1
    <3>2. thread'[j] = thread[j] /\ Received(j, mem[j], thread[j])
      BY <1>1, <2>1 DEF PeerInv, GetsReceive
    <3> QED
      BY <3>1, <3>2 DEF Received
  <2> QED
    BY <1>1, <2>1 DEF GetsReceive, Received, PeerBuffers
<1>7. Asking'
  <2>1. \A j \in Instances : Asks(j, hot, conn'[j], thread'[j])
    BY <1>1 DEF PeerInv, Asking
  <2> QED
    BY <2>1 DEF Asking, Asks, Answer, Serving
<1> QED
  BY <1>2, <1>4, <1>5, <1>6, <1>7 DEF PeerInv

LEMMA ServedAfter ==
  ASSUME PeerTypes, NEW i \in Instances, NEW c, conn' = [conn EXCEPT ![i] = c], NEW j, NEW b
  PROVE  ServedFrom(j, b)' = (ServedFrom(j, b) \ {i})
                               \cup (IF Serving(c) /\ c.to = j /\ c.buf = b THEN {i} ELSE {})
<1>1. conn'[i] = c /\ \A l \in Instances : l # i => conn'[l] = conn[l]
  BY DEF PeerTypes
<1>2. ServedFrom(j, b)' = {l \in Instances : Serving(conn'[l]) /\ conn'[l].to = j /\ conn'[l].buf = b}
  BY DEF ServedFrom, Serving
<1> QED
  BY <1>1, <1>2 DEF ServedFrom

LEMMA FewerPeerUsers ==
  ASSUME PeerInv, NEW j \in Instances, NEW b \in PeerBuffers,
         ServedFrom(j, b)' \subseteq ServedFrom(j, b),
         InHot(j, b)' => InHot(j, b), Gets(thread'[j], b) => Gets(thread[j], b),
         mem'[j][b].refs = mem[j][b].refs
  PROVE  mem'[j][b].refs >= Cardinality(ServedFrom(j, b)') + One(InHot(j, b)') + One(Gets(thread'[j], b))
<1> DEFINE n == Cardinality(ServedFrom(j, b))
           S == ServedFrom(j, b)'
           m == Cardinality(S)
           r == mem[j][b].refs
<1>1. IsFiniteSet(ServedFrom(j, b)) /\ n \in Nat
  BY ServedIsFinite
<1>2. IsFiniteSet(S) /\ m <= n /\ m \in Nat
  BY <1>1, FS_Subset, FS_CardinalityType
<1>3. r \in Nat /\ r >= n + One(InHot(j, b)) + One(Gets(thread[j], b))
  BY DEF PeerInv, PeerTypes, MemoryObjects, RefsSuffice
<1> HIDE DEF n, m, r
<1>4. r >= m + One(InHot(j, b)') + One(Gets(thread'[j], b))
  BY <1>1, <1>2, <1>3 DEF One
<1> QED
  BY <1>4 DEF m, r, S

\* Steps that give no buffer a further user and keep the counts.
LEMMA RefsKept ==
  ASSUME PeerInv, NEW i \in Instances, NEW c, NEW th,
         conn' = [conn EXCEPT ![i] = c], thread' = [thread EXCEPT ![i] = th], hot' = hot,
         \A j \in Instances, b \in PeerBuffers : mem'[j][b].refs = mem[j][b].refs,
         th.pc \in {"body", "got"} => thread[i].pc \in {"body", "got"} /\ th.buf = thread[i].buf,
         Serving(c) => Serving(conn[i]) /\ c.to = conn[i].to /\ c.buf = conn[i].buf
  PROVE  RefsSuffice'
<1>1. ASSUME NEW j \in Instances, NEW b \in PeerBuffers
      PROVE  mem'[j][b].refs >= Cardinality(ServedFrom(j, b)') + One(InHot(j, b)')
                                  + One(Gets(thread'[j], b))
  <2>1. ServedFrom(j, b)' \subseteq ServedFrom(j, b)
    BY ServedAfter DEF PeerInv, ServedFrom
  <2>2. InHot(j, b)' => InHot(j, b)
    BY DEF InHot
  <2>3. Gets(thread'[j], b) => Gets(thread[j], b)
    BY DEF PeerInv, PeerTypes, Gets
  <2> QED
    BY <2>1, <2>2, <2>3, FewerPeerUsers
<1> QED
  BY <1>1 DEF RefsSuffice, PeerBuffers, Gets, One

\* A count goes up or down with a user.
LEMMA RefsFollow ==
  ASSUME PeerInv, NEW i \in Instances, NEW c, NEW th, NEW s \in Instances, NEW x \in PeerBuffers,
         NEW d \in {-1, 1},
         conn' = [conn EXCEPT ![i] = c], thread' = [thread EXCEPT ![i] = th], hot' = hot,
         mem' = [mem EXCEPT ![s] = [mem[s] EXCEPT ![x] = [mem[s][x] EXCEPT !.refs = @ + d]]],
         \/ /\ d = 1 /\ th = thread[i]
            /\ ~Serving(conn[i]) /\ Serving(c) /\ c.to = s /\ c.buf = x
         \/ /\ d = -1 /\ th = thread[i]
            /\ Serving(conn[i]) /\ conn[i].to = s /\ conn[i].buf = x /\ ~Serving(c)
         \/ /\ d = -1 /\ c = conn[i] /\ s = i
            /\ Gets(thread[i], x) /\ th.pc \notin {"body", "got"}
  PROVE  RefsSuffice' /\ mem' \in [Instances -> [PeerBuffers -> MemoryObjects]]
         /\ \A j \in Instances, b \in PeerBuffers : mem'[j][b].data = mem[j][b].data
<1> DEFINE n == Cardinality(ServedFrom(s, x))
           S == ServedFrom(s, x)'
           m == Cardinality(S)
           r == mem[s][x].refs
<1>0. /\ conn \in [Instances -> Connections] /\ thread \in [Instances -> EngineThreads]
      /\ mem \in [Instances -> [PeerBuffers -> MemoryObjects]]
  BY DEF PeerInv, PeerTypes
<1>1. IsFiniteSet(ServedFrom(s, x)) /\ n \in Nat
  BY ServedIsFinite
<1>2. S \subseteq Instances /\ ServedFrom(s, x) \subseteq Instances
      /\ \A l \in Instances : l \in S <=>
            IF l = i THEN Serving(c) /\ c.to = s /\ c.buf = x ELSE l \in ServedFrom(s, x)
  <2>1. conn'[i] = c /\ \A l \in Instances : l # i => conn'[l] = conn[l]
    BY <1>0
  <2> QED
    BY <2>1 DEF ServedFrom, Serving
<1>3. r \in Nat /\ r >= n + One(InHot(s, x)) + One(Gets(thread[s], x))
  BY <1>0 DEF PeerInv, MemoryObjects, RefsSuffice
<1>4. InHot(s, x)' = InHot(s, x)
  BY DEF InHot
<1>5. /\ thread'[i] = th /\ \A j \in Instances : j # i => thread'[j] = thread[j]
  BY <1>0
<1>6. \/ d = 1 /\ m = n + 1 /\ Gets(thread'[s], x) = Gets(thread[s], x)
      \/ d = -1 /\ n = m + 1 /\ m \in Nat /\ Gets(thread'[s], x) = Gets(thread[s], x)
      \/ d = -1 /\ m = n /\ Gets(thread[s], x) /\ ~Gets(thread'[s], x)
  <2>1. CASE /\ d = 1 /\ th = thread[i]
             /\ ~Serving(conn[i]) /\ Serving(c) /\ c.to = s /\ c.buf = x
    <3>1. i \notin ServedFrom(s, x) /\ S = ServedFrom(s, x) \cup {i}
      BY <1>2, <2>1 DEF ServedFrom
    <3>2. m = n + 1
      BY <1>1, <3>1, FS_AddElement
    <3> QED
      BY <1>5, <2>1, <3>2
  <2>2. CASE /\ d = -1 /\ th = thread[i]
             /\ Serving(conn[i]) /\ conn[i].to = s /\ conn[i].buf = x /\ ~Serving(c)
    <3>1. i \in ServedFrom(s, x) /\ S = ServedFrom(s, x) \ {i}
      BY <1>2, <2>2 DEF ServedFrom
    <3>2. m = n - 1 /\ n \in Nat /\ m \in Nat
      BY <1>1, <3>1, FS_RemoveElement, FS_CardinalityType
    <3> HIDE DEF m, n
    <3> QED
      BY <1>5, <2>2, <3>2
  <2>3. CASE /\ d = -1 /\ c = conn[i] /\ s = i
             /\ Gets(thread[i], x) /\ th.pc \notin {"body", "got"}
    <3>1. S = ServedFrom(s, x)
      BY <1>2, <2>3 DEF ServedFrom
    <3> QED
      BY <1>5, <2>3, <3>1 DEF Gets
  <2> QED
    BY <2>1, <2>2, <2>3
<1> HIDE DEF n, m, r
<1>7. r + d \in Nat /\ r + d >= m + One(InHot(s, x)') + One(Gets(thread'[s], x))
  BY <1>1, <1>3, <1>4, <1>6 DEF One
<1> USE DEF r
<1>8. /\ mem'[s][x] = [data |-> mem[s][x].data, refs |-> r + d]
      /\ \A j \in Instances, b \in PeerBuffers : <<j, b>> # <<s, x>> => mem'[j][b] = mem[j][b]
      /\ mem' \in [Instances -> [PeerBuffers -> MemoryObjects]]
  BY <1>0, <1>7 DEF MemoryObjects
<1>9. ASSUME NEW j \in Instances, NEW b \in PeerBuffers, <<j, b>> # <<s, x>>
      PROVE  mem'[j][b].refs >= Cardinality(ServedFrom(j, b)') + One(InHot(j, b)')
                                  + One(Gets(thread'[j], b))
  <2>1. ServedFrom(j, b)' \subseteq ServedFrom(j, b)
    BY <1>9, ServedAfter DEF PeerInv, ServedFrom
  <2>2. InHot(j, b)' => InHot(j, b)
    BY DEF InHot
  <2>3. Gets(thread'[j], b) => Gets(thread[j], b)
    BY <1>5 DEF Gets
  <2>4. mem'[j][b].refs = mem[j][b].refs
    BY <1>8, <1>9
  <2> QED
    BY <2>1, <2>2, <2>3, <2>4, FewerPeerUsers
<1>10. \A j \in Instances, b \in PeerBuffers :
         mem'[j][b].refs >= Cardinality(ServedFrom(j, b)') + One(InHot(j, b)') + One(Gets(thread'[j], b))
  BY <1>7, <1>8, <1>9 DEF m, S
<1>11. RefsSuffice'
  BY <1>10 DEF RefsSuffice, PeerBuffers, Gets, One
<1>12. ASSUME NEW j \in Instances, NEW b \in PeerBuffers PROVE mem'[j][b].data = mem[j][b].data
  BY <1>8
<1> QED
  BY <1>8, <1>11, <1>12

\* What is known of one instance in the middle of a get.
LEMMA OneGet ==
  ASSUME PeerInv, NEW i \in Instances
  PROVE  /\ conn \in [Instances -> Connections] /\ thread \in [Instances -> EngineThreads]
         /\ mem \in [Instances -> [PeerBuffers -> MemoryObjects]]
         /\ conn[i] \in Connections /\ thread[i] \in EngineThreads
         /\ Received(i, mem[i], thread[i]) /\ Asks(i, hot, conn[i], thread[i])
         /\ Serving(conn[i]) => /\ conn[i].to \in Instances /\ conn[i].buf \in PeerBuffers
                                /\ InHot(conn[i].to, conn[i].buf)
BY DEF PeerInv, PeerTypes, GetsReceive, Asking, ServedIsHot

\* A step of a get that leaves the memory alone and serves no more.
LEMMA GetMovesOn ==
  ASSUME PeerInv, NEW i \in Instances, NEW c \in Connections, NEW th \in EngineThreads,
         conn' = [conn EXCEPT ![i] = c], thread' = [thread EXCEPT ![i] = th],
         hot' = hot, listed' = listed, alive' = alive, mem' = mem,
         th.pc \in {"body", "got"} => thread[i].pc \in {"body", "got"} /\ th.buf = thread[i].buf,
         Serving(c) => Serving(conn[i]) /\ c.to = conn[i].to /\ c.buf = conn[i].buf,
         Received(i, mem[i], th), Asks(i, hot, c, th)
  PROVE  PeerInv'
<1>1. RefsSuffice'
  BY RefsKept
<1>2. mem' \in [Instances -> [PeerBuffers -> MemoryObjects]]
  BY OneGet
<1>3. Serving(c) => c.to \in Instances /\ c.buf \in PeerBuffers /\ InHot(c.to, c.buf)
  BY OneGet
<1> QED
  BY <1>1, <1>2, <1>3, OneGetMoves

LEMMA PeerRetrieveMisses ==
  ASSUME PeerInv, NEW i \in Instances, NEW k \in Keys, Peers!RetrieveMisses(i, k)
  PROVE  PeerInv'
<1> DEFINE th == [Peers!Idle EXCEPT !.pc = "queued", !.key = k]
<1>1. /\ i \in alive /\ thread[i].pc = "idle" /\ thread' = [thread EXCEPT ![i] = th]
      /\ hot' = hot /\ listed' = listed /\ alive' = alive /\ mem' = mem /\ conn' = conn
  BY DEF Peers!RetrieveMisses
<1>2. conn' = [conn EXCEPT ![i] = conn[i]]
  BY <1>1, OneGet
<1>3. th \in EngineThreads /\ th.pc = "queued" /\ th.key = k /\ th.got = 0
  <2>1. Peers!Idle \in EngineThreads /\ Peers!Idle.got = 0
    BY DEF EngineThreads, Pieces, Peers!Idle
  <2> QED
    BY <2>1 DEF EngineThreads, Pieces
<1> HIDE DEF th
<1>4. Received(i, mem[i], th)
  BY <1>1, <1>3 DEF Received
<1>5. Asks(i, hot, conn[i], th)
  BY <1>1, <1>3, OneGet DEF Asks, Answer
<1> QED
  BY <1>1, <1>2, <1>3, <1>4, <1>5, OneGet, GetMovesOn

\* The get ends in vain.
LEMMA PeerGivesUp ==
  ASSUME PeerInv, NEW i \in Instances, Peers!GivesUp(i),
         hot' = hot, listed' = listed, alive' = alive, mem' = mem
  PROVE  PeerInv'
<1> DEFINE c == [conn[i] EXCEPT !.open = FALSE]
           th == Peers!Idle
<1>1. conn' = [conn EXCEPT ![i] = c] /\ thread' = [thread EXCEPT ![i] = th]
  BY OneGet DEF Peers!GivesUp
<1>2. th \in EngineThreads /\ th.pc = "idle"
  BY DEF EngineThreads, Pieces, Peers!Idle
<1>3. c \in Connections /\ ~c.open /\ c.serve = conn[i].serve /\ c.to = conn[i].to
      /\ c.buf = conn[i].buf
  BY OneGet DEF Connections
<1> HIDE DEF c, th
<1>4. Received(i, mem[i], th) /\ Asks(i, hot, c, th)
  BY <1>2, <1>3 DEF Received, Asks
<1>5. Serving(c) => Serving(conn[i]) /\ c.to = conn[i].to /\ c.buf = conn[i].buf
  BY <1>3 DEF Serving
<1> QED
  BY <1>1, <1>2, <1>3, <1>4, <1>5, GetMovesOn

LEMMA NobodyConnects ==
  /\ Peers!NoConn \in Connections /\ Peers!NoConn.unsent = <<>> /\ Peers!NoConn.wire = <<>>
  /\ ~Peers!NoConn.open /\ Peers!NoConn.serve = "none"
<1>1. <<>> \in Seq(Written) /\ <<>> \in Seq(Wires)
  BY EmptySeq
<1> QED
  BY <1>1 DEF Connections, Pieces, Peers!NoConn

LEMMA PeerIssueGet ==
  ASSUME PeerInv, NEW i \in Instances, Peers!IssueGet(i)
  PROVE  PeerInv'
<1> DEFINE k == thread[i].key
           j == listed[k]
<1>1. /\ i \in alive /\ thread[i].pc = "queued" /\ conn[i].serve = "none"
      /\ hot' = hot /\ listed' = listed /\ alive' = alive /\ mem' = mem
  BY DEF Peers!IssueGet
<1>2. ~conn[i].open /\ k \in Keys
  BY <1>1, OneGet DEF Asks, Answer, Received
<1>3. CASE thread' = [thread EXCEPT ![i] = Peers!Idle] /\ conn' = conn
  <2>1. conn' = [conn EXCEPT ![i] = conn[i]]
    BY <1>3, OneGet
  <2>2. Peers!Idle \in EngineThreads /\ Peers!Idle.pc = "idle"
    BY DEF EngineThreads, Pieces, Peers!Idle
  <2>3. Received(i, mem[i], Peers!Idle) /\ Asks(i, hot, conn[i], Peers!Idle)
    BY <1>2, <2>2 DEF Received, Asks
  <2> QED
    BY <1>1, <1>3, <2>1, <2>2, <2>3, OneGet, GetMovesOn
<1>4. CASE /\ j # None /\ j \in alive /\ thread' = [thread EXCEPT ![i].pc = "header"]
           /\ conn' = [conn EXCEPT ![i] = [Peers!NoConn EXCEPT !.to = j, !.req = k,
                                              !.serve = "accepted", !.open = TRUE]]
  <2> DEFINE c  == [Peers!NoConn EXCEPT !.to = j, !.req = k, !.serve = "accepted",
                                        !.open = TRUE]
             th == [thread[i] EXCEPT !.pc = "header"]
  <2>1. conn' = [conn EXCEPT ![i] = c] /\ thread' = [thread EXCEPT ![i] = th]
    <3>1. thread \in [Instances -> EngineThreads]
      BY OneGet
    <3> QED
      BY <1>4, <3>1
  <2>2. th \in EngineThreads /\ th.pc = "header" /\ th.key = k /\ th.got = 0
    <3>1. thread[i] \in EngineThreads /\ thread[i].got = 0
      BY <1>1, OneGet DEF Received
    <3> QED
      BY <3>1 DEF EngineThreads
  <2>3. /\ c \in Connections /\ c.req = k /\ c.unsent = <<>> /\ c.wire = <<>>
        /\ c.serve = "accepted" /\ c.open
    <3>1. j \in Instances
      BY <1>2, <1>4 DEF PeerInv, PeerTypes
    <3>2. Peers!NoConn \in Connections /\ Peers!NoConn.unsent = <<>> /\ Peers!NoConn.wire = <<>>
      BY NobodyConnects
    <3> QED
      BY <1>2, <3>1, <3>2 DEF Connections, Pieces
  <2> HIDE DEF c, th, k
  <2>4. Len(c.unsent) = 0 /\ Len(c.wire) = 0
    BY <2>3
  <2>5. Received(i, mem[i], th) /\ Asks(i, hot, c, th)
    BY <1>1, <1>2, <2>2, <2>3, <2>4 DEF Received, Asks, Answer, Serving
  <2>6. ~Serving(c)
    BY <2>3 DEF Serving
  <2> QED
    BY <1>1, <2>1, <2>2, <2>3, <2>5, <2>6, GetMovesOn
<1> QED
  BY <1>3, <1>4 DEF Peers!IssueGet, Peers!Lookup

LEMMA PeerUseObject ==
  ASSUME PeerInv, NEW i \in Instances, Peers!UseObject(i)
  PROVE  PeerInv'
<1> DEFINE th == Peers!Idle
           x  == thread[i].buf
<1>1. /\ i \in alive /\ thread[i].pc = "got" /\ thread' = [thread EXCEPT ![i] = th]
      /\ hot' = hot /\ listed' = listed /\ alive' = alive /\ conn' = conn
      /\ mem' = [mem EXCEPT ![i][x].refs = @ - 1]
  BY DEF Peers!UseObject, Peers!Drop
<1>2. Gets(thread[i], x) /\ x \in PeerBuffers
  BY <1>1, OneGet DEF Gets, Received
<1>3. conn' = [conn EXCEPT ![i] = conn[i]]
  BY <1>1, OneGet
<1>4. th \in EngineThreads /\ th.pc = "idle"
  BY DEF EngineThreads, Pieces, Peers!Idle
<1> HIDE DEF th, x
<1> DEFINE d == -1
<1>5. /\ mem' = [mem EXCEPT ![i] = [mem[i] EXCEPT ![x] = [mem[i][x] EXCEPT !.refs = @ + d]]]
      /\ d = -1 /\ d \in {-1, 1}
  <2>1. mem[i][x].refs - 1 = mem[i][x].refs + d
    BY <1>2, OneGet DEF MemoryObjects
  <2> QED
    BY <1>1, <2>1
<1> HIDE DEF d
<1>6. /\ RefsSuffice' /\ mem' \in [Instances -> [PeerBuffers -> MemoryObjects]]
      /\ \A j \in Instances, b \in PeerBuffers : mem'[j][b].data = mem[j][b].data
  <2>1. d = -1 /\ conn[i] = conn[i] /\ i = i /\ Gets(thread[i], x) /\ th.pc \notin {"body", "got"}
    BY <1>2, <1>4, <1>5
  <2>2. d \in {-1, 1} /\ x \in PeerBuffers /\ i \in Instances
    BY <1>2, <1>5
  <2>3. hot' = hot /\ thread' = [thread EXCEPT ![i] = th]
    BY <1>1
  <2>4. mem' = [mem EXCEPT ![i] = [mem[i] EXCEPT ![x] = [mem[i][x] EXCEPT !.refs = @ + d]]]
    BY <1>5
  <2> QED
    BY ONLY PeerInv, <1>3, <2>1, <2>2, <2>3, <2>4, RefsFollow
<1>7. ~conn[i].open
  BY <1>1, OneGet DEF Asks, Answer
<1>8. Received(i, mem'[i], th) /\ Asks(i, hot, conn[i], th)
  BY <1>4, <1>7 DEF Received, Asks
<1> QED
  BY <1>1, <1>3, <1>4, <1>6, <1>8, OneGet, OneGetMoves

\* The server's steps.
LEMMA PeerHandleGet ==
  ASSUME PeerInv, NEW i \in Instances, Peers!HandleGet(i)
  PROVE  PeerInv'
<1> DEFINE j == conn[i].to
           r == conn[i].req
           b == hot[j][r]
           th == thread[i]
<1>1. /\ conn[i].serve = "accepted" /\ j # None /\ j \in alive /\ r # None
      /\ hot' = hot /\ listed' = listed /\ alive' = alive /\ thread' = thread
  BY DEF Peers!HandleGet, Peers!Serves, Peers!Server, Peers!LoopFree
<1>2. j \in Instances /\ r \in Keys /\ b \in PeerBuffers \cup {None} /\ conn[i] \in Connections
  <2>1. j \in Instances /\ r \in Keys
    BY <1>1, OneGet DEF Connections, Pieces
  <2> QED
    BY <2>1, OneGet DEF PeerInv, PeerTypes
<1>3. thread' = [thread EXCEPT ![i] = th] /\ th \in EngineThreads
  BY <1>1, OneGet
<1>4. ~Serving(conn[i])
  BY <1>1 DEF Serving
<1>5. conn[i].wire \in Seq(Wires)
  BY <1>2 DEF Connections
<1>6. Append(conn[i].wire, "fail") \in Seq(Wires) /\ Append(conn[i].wire, "success") \in Seq(Wires)
  BY <1>5, AppendProperties DEF Wires
<1>7. conn[i].open => i \in alive
  BY <1>1, OneGet DEF Asks
<1>8. conn[i].open =>
        /\ r = th.key /\ th.pc = "header" /\ conn[i].wire = <<>> /\ conn[i].unsent = <<>>
  BY <1>1, <1>7, OneGet DEF Asks, Answer
<1>9. ASSUME NEW h \in {"success", "fail"}, conn[i].wire = <<>>
      PROVE  /\ Append(conn[i].wire, h) # <<>> /\ Head(Append(conn[i].wire, h)) = h
             /\ Len(Append(conn[i].wire, h)) = 1
  BY <1>9
<1>10. CASE /\ b = None /\ mem' = mem
            /\ conn' = [conn EXCEPT ![i].req = None, ![i].wire = Append(@, "fail")]
  <2> DEFINE c == [conn[i] EXCEPT !.req = None, !.wire = Append(@, "fail")]
  <2>1. conn' = [conn EXCEPT ![i] = c]
    BY <1>10, OneGet
  <2>2. /\ c \in Connections /\ c.req = None /\ c.wire = Append(conn[i].wire, "fail")
        /\ c.serve = conn[i].serve /\ c.open = conn[i].open /\ c.to = j
        /\ c.unsent = conn[i].unsent /\ c.buf = conn[i].buf
    BY <1>2, <1>6 DEF Connections, Pieces
  <2> HIDE DEF c, j, b, r, th
  <2>3. ~Serving(c)
    BY <1>4, <2>2 DEF Serving
  <2>4. c.open => Answer(hot, c, th)
    <3> SUFFICES ASSUME c.open PROVE Answer(hot, c, th)
      OBVIOUS
    <3>1. c.wire # <<>> /\ Head(c.wire) = "fail" /\ Len(c.wire) = 1 /\ Len(c.unsent) = 0
      BY <1>8, <1>9, <2>2
    <3> QED
      BY <1>8, <2>2, <2>3, <3>1 DEF Answer
  <2>5. Asks(i, hot, c, th)
    BY <1>7, <2>2, <2>4, OneGet DEF Asks, th
  <2> QED
    <3>1. Received(i, mem[i], th)
      BY OneGet DEF th
    <3>2. th.pc \in {"body", "got"} => thread[i].pc \in {"body", "got"} /\ th.buf = thread[i].buf
      BY DEF th
    <3> QED
      BY <1>1, <1>3, <1>10, <2>1, <2>2, <2>3, <2>5, <3>1, <3>2, GetMovesOn
<1>11. CASE /\ b # None /\ mem' = [mem EXCEPT ![j][b].refs = @ + 1]
            /\ conn' = [conn EXCEPT ![i].req = None, ![i].wire = Append(@, "success"),
                                    ![i].serve = "meta", ![i].buf = b]
  <2> DEFINE c == [conn[i] EXCEPT !.req = None, !.wire = Append(@, "success"),
                                  !.serve = "meta", !.buf = b]
  <2>1. conn' = [conn EXCEPT ![i] = c]
    BY <1>11, OneGet
  <2>2. /\ c \in Connections /\ c.req = None /\ c.wire = Append(conn[i].wire, "success")
        /\ c.serve = "meta" /\ c.open = conn[i].open /\ c.to = j
        /\ c.unsent = conn[i].unsent /\ c.buf = b
    BY <1>2, <1>6, <1>11 DEF Connections, Pieces
  <2>3. mem' = [mem EXCEPT ![j] = [mem[j] EXCEPT ![b] = [mem[j][b] EXCEPT !.refs = @ + 1]]]
    BY <1>11
  <2>4. b \in PeerBuffers
    BY <1>2, <1>11
  <2>5. b = hot[j][r]
    OBVIOUS
  <2> HIDE DEF c, j, b, r, th
  <2>6. Serving(c)
    BY <2>2 DEF Serving
  <2>7. /\ RefsSuffice' /\ mem' \in [Instances -> [PeerBuffers -> MemoryObjects]]
        /\ \A jj \in Instances, x \in PeerBuffers : mem'[jj][x].data = mem[jj][x].data
    BY <1>1, <1>2, <1>3, <1>4, <2>1, <2>2, <2>3, <2>4, <2>6, RefsFollow DEF th
  <2>8. c.open => Answer(hot, c, th)
    <3> SUFFICES ASSUME c.open PROVE Answer(hot, c, th)
      OBVIOUS
    <3>1. c.wire # <<>> /\ Head(c.wire) = "success" /\ Len(c.wire) = 1 /\ Len(c.unsent) = 0
      BY <1>8, <1>9, <2>2
    <3> QED
      BY <1>8, <2>2, <2>5, <3>1 DEF Answer
  <2>9. Asks(i, hot, c, th)
    BY <1>7, <2>2, <2>8, OneGet DEF Asks, th
  <2>10. InHot(c.to, c.buf)
    BY <1>2, <2>2, <2>5 DEF InHot
  <2>11. Received(i, mem'[i], th)
    BY <2>7, OneGet DEF Received, th
  <2> QED
    BY <1>1, <1>2, <1>3, <2>1, <2>2, <2>4, <2>7, <2>9, <2>10, <2>11, OneGetMoves DEF th
<1> QED
  BY <1>10, <1>11 DEF Peers!HandleGet, Peers!HoldBuffer, Peers!Server

LEMMA PeerServerEnds ==
  ASSUME PeerInv, NEW i \in Instances, Peers!ServerEnds(i)
  PROVE  PeerInv'
<1> DEFINE c  == Peers!NoConn
           th == thread[i]
<1>1. /\ ~conn[i].open /\ conn' = [conn EXCEPT ![i] = c]
      /\ hot' = hot /\ listed' = listed /\ alive' = alive /\ mem' = mem /\ thread' = thread
  BY DEF Peers!ServerEnds
<1>2. thread' = [thread EXCEPT ![i] = th] /\ th \in EngineThreads /\ Received(i, mem[i], th)
  BY <1>1, OneGet
<1>3. c \in Connections /\ ~c.open /\ ~Serving(c)
  BY NobodyConnects DEF Serving
<1>4. Asks(i, hot, c, th)
  BY <1>1, <1>3, OneGet DEF Asks
<1>5. th.pc \in {"body", "got"} => thread[i].pc \in {"body", "got"} /\ th.buf = thread[i].buf
  OBVIOUS
<1> HIDE DEF c, th
<1> QED
  BY <1>1, <1>2, <1>3, <1>4, <1>5, GetMovesOn

LEMMA PeerWriteBody ==
  ASSUME PeerInv, NEW i \in Instances, Peers!WriteBody(i)
  PROVE  PeerInv'
<1> DEFINE j  == conn[i].to
           b  == conn[i].buf
           p  == [buf |-> b, data |-> mem[j][b].data]
           u  == [n \in 1 .. Parts |-> p]
           c  == [conn[i] EXCEPT !.serve = "drain", !.unsent = u]
           th == thread[i]
<1>1. /\ conn[i].serve = "meta" /\ conn[i].open
      /\ hot' = hot /\ listed' = listed /\ alive' = alive /\ mem' = mem /\ thread' = thread
  BY DEF Peers!WriteBody, Peers!Serves
<1>2. conn' = [conn EXCEPT ![i] = c]
  BY OneGet DEF Peers!WriteBody, Peers!Server
<1>3. Serving(conn[i]) /\ j \in Instances /\ b \in PeerBuffers
  BY <1>1, OneGet DEF Serving
<1>4. i \in alive /\ Answer(hot, conn[i], th) /\ th.key \in Keys
  BY <1>1, <1>3, OneGet DEF Asks, Answer, Received
<1>5. hot[j][th.key] = b /\ mem[j][b].data = th.key
  BY <1>3, <1>4, PeerNames DEF PeerInv, HotIsRight, Answer
<1>6. u \in Seq(Written) /\ Len(u) = Parts /\ \A n \in 1 .. Len(u) : u[n].data = th.key
  <2>1. p \in Written
    BY <1>3, <1>4, <1>5 DEF Written, Pieces
  <2> QED
    BY <1>5, <2>1, PeerNames
<1> HIDE DEF u
<1>7. /\ c \in Connections /\ c.req = conn[i].req /\ c.wire = conn[i].wire /\ c.serve = "drain"
      /\ c.open = conn[i].open /\ c.to = conn[i].to /\ c.buf = conn[i].buf /\ c.unsent = u
  <2>1. conn[i] \in Connections /\ u \in Seq(Written)
    BY <1>6, OneGet
  <2> QED
    BY ONLY <2>1 DEF Connections
<1>8. thread' = [thread EXCEPT ![i] = th] /\ th \in EngineThreads /\ Received(i, mem[i], th)
  BY <1>1, OneGet
<1>9. Serving(c)
  BY <1>7 DEF Serving
<1>10. th.pc \in {"body", "got"} => thread[i].pc \in {"body", "got"} /\ th.buf = thread[i].buf
  OBVIOUS
<1> HIDE DEF c, th
<1>11. Answer(hot, c, th)
  BY <1>3, <1>4, <1>6, <1>7, <1>9 DEF Answer
<1>12. Asks(i, hot, c, th)
  BY <1>1, <1>4, <1>7, <1>11 DEF Asks
<1> QED
  BY <1>1, <1>2, <1>3, <1>7, <1>8, <1>10, <1>12, GetMovesOn

LEMMA PeerFlush ==
  ASSUME PeerInv, CopiesOnWrite, NEW i \in Instances, Peers!Flush(i)
  PROVE  PeerInv'
<1> DEFINE p  == Head(conn[i].unsent)
           c  == [conn[i] EXCEPT !.unsent = Tail(@), !.wire = Append(@, p.data)]
           th == thread[i]
           w  == conn[i].wire
           u  == conn[i].unsent
<1>1. /\ conn[i].to \in alive /\ conn[i].open /\ u # <<>>
      /\ hot' = hot /\ listed' = listed /\ alive' = alive /\ mem' = mem /\ thread' = thread
  BY DEF Peers!Flush, Peers!Server, Peers!LoopFree
<1>2. conn' = [conn EXCEPT ![i] = c]
  BY OneGet DEF Peers!Flush
<1>3. i \in alive /\ Answer(hot, conn[i], th) /\ th.key \in Keys
  BY <1>1, OneGet DEF Asks, Answer, Received
<1>4. w \in Seq(Wires) /\ u \in Seq(Written)
  BY OneGet DEF Connections
<1>5. p.data = th.key
  <2>1. 1 \in 1 .. Len(u) /\ p = u[1]
    BY <1>1, <1>4
  <2> QED
    BY <1>3, <2>1 DEF Answer
<1>6. /\ Tail(u) \in Seq(Written)
      /\ \A n \in 1 .. Len(Tail(u)) : n + 1 \in 1 .. Len(u) /\ Tail(u)[n] = u[n + 1]
  BY <1>1, <1>4
<1>7. /\ Append(w, th.key) \in Seq(Wires) /\ Append(w, th.key) # <<>>
      /\ w # <<>> => Head(Append(w, th.key)) = Head(w)
      /\ \A n \in 1 .. Len(Append(w, th.key)) :
           Append(w, th.key)[n] = th.key \/ (n \in 1 .. Len(w) /\ Append(w, th.key)[n] = w[n])
  <2>1. th.key \in Wires
    BY <1>3 DEF Wires, Pieces
  <2> QED
    BY <1>4, <2>1
<1>8. /\ c \in Connections /\ c.req = conn[i].req /\ c.wire = Append(w, th.key)
      /\ c.serve = conn[i].serve /\ c.open = conn[i].open /\ c.to = conn[i].to
      /\ c.buf = conn[i].buf /\ c.unsent = Tail(u)
  <2> HIDE DEF p
  <2>1. conn[i] \in Connections
    BY OneGet
  <2> QED
    BY <1>5, <1>6, <1>7, <2>1 DEF Connections
<1>9. thread' = [thread EXCEPT ![i] = th] /\ th \in EngineThreads /\ Received(i, mem[i], th)
  BY <1>1, OneGet
<1>10. Serving(c) <=> Serving(conn[i])
  BY <1>8 DEF Serving
<1>11. th.pc \in {"body", "got"} => thread[i].pc \in {"body", "got"} /\ th.buf = thread[i].buf
  OBVIOUS
<1> HIDE DEF c, th, p
<1>12. Answer(hot, c, th)
  <2>1. th.pc \in {"header", "body"} /\ c.req = None
    BY <1>1, <1>3, <1>8 DEF Answer
  <2>2. Serving(c) => hot[c.to][th.key] = c.buf
    BY <1>3, <1>8, <1>10 DEF Answer
  <2>3. \A n \in 1 .. Len(c.unsent) : c.unsent[n].data = th.key
    BY <1>3, <1>6, <1>8 DEF Answer
  <2>4. c.wire # <<>>
    BY <1>7, <1>8
  <2>5. th.pc = "header" => w # <<>>
    BY <1>1, <1>3 DEF Answer
  <2>6. th.pc = "header" => Head(c.wire) \in {"success", "fail"}
    BY <1>3, <1>7, <1>8, <2>5 DEF Answer
  <2>7. \A n \in 1 .. Len(c.wire) : n > 1 \/ th.pc = "body" => c.wire[n] = th.key
    BY <1>3, <1>7, <1>8 DEF Answer
  <2> QED
    BY <2>1, <2>2, <2>3, <2>4, <2>6, <2>7 DEF Answer
<1>13. Asks(i, hot, c, th)
  BY <1>1, <1>3, <1>8, <1>12 DEF Asks
<1> QED
  BY <1>1, <1>2, <1>8, <1>9, <1>10, <1>11, <1>13, GetMovesOn


LEMMA PeerBodyDrained ==
  ASSUME PeerInv, NEW i \in Instances, Peers!BodyDrained(i)
  PROVE  PeerInv'
<1> DEFINE j  == conn[i].to
           b  == conn[i].buf
           c  == [conn[i] EXCEPT !.serve = "accepted", !.buf = None]
           th == thread[i]
<1>1. /\ conn[i].serve = "drain" /\ j \in alive
      /\ hot' = hot /\ listed' = listed /\ alive' = alive /\ thread' = thread
      /\ mem' = [mem EXCEPT ![j][b].refs = @ - 1]
  BY DEF Peers!BodyDrained, Peers!Serves, Peers!Server, Peers!LoopFree, Peers!Drop
<1>2. conn' = [conn EXCEPT ![i] = c]
  BY OneGet DEF Peers!BodyDrained
<1>3. Serving(conn[i]) /\ j \in Instances /\ b \in PeerBuffers
  BY <1>1, OneGet DEF Serving
<1>4. c \in Connections
  BY OneGet DEF Connections
<1>5. /\ c.req = conn[i].req /\ c.wire = conn[i].wire /\ c.serve = "accepted"
      /\ c.open = conn[i].open /\ c.to = conn[i].to /\ c.unsent = conn[i].unsent
  BY OneGet DEF Connections
<1>6. ~Serving(c)
  BY <1>5 DEF Serving
<1>7. thread' = [thread EXCEPT ![i] = th] /\ th \in EngineThreads /\ th = thread[i]
  BY <1>1, OneGet
<1>8. mem[j][b].refs \in Nat
  BY <1>3, OneGet DEF MemoryObjects
<1>9. conn[i].to = j /\ conn[i].buf = b
  OBVIOUS
<1> HIDE DEF c, th, j, b
<1> DEFINE d == -1
<1>10. /\ mem' = [mem EXCEPT ![j] = [mem[j] EXCEPT ![b] = [mem[j][b] EXCEPT !.refs = @ + d]]]
       /\ d = -1 /\ d \in {-1, 1}
  BY <1>1, <1>8
<1> HIDE DEF d
<1>11. /\ RefsSuffice' /\ mem' \in [Instances -> [PeerBuffers -> MemoryObjects]]
       /\ \A l \in Instances, x \in PeerBuffers : mem'[l][x].data = mem[l][x].data
  <2>1. /\ d = -1 /\ th = thread[i]
        /\ Serving(conn[i]) /\ conn[i].to = j /\ conn[i].buf = b /\ ~Serving(c)
    BY <1>3, <1>6, <1>7, <1>9, <1>10
  <2>2. d \in {-1, 1} /\ b \in PeerBuffers /\ j \in Instances /\ i \in Instances /\ hot' = hot
    BY <1>1, <1>3, <1>10
  <2> QED
    BY ONLY PeerInv, <1>2, <1>7, <1>10, <2>1, <2>2, RefsFollow
<1>12. Received(i, mem'[i], th)
  BY <1>7, <1>11, OneGet DEF Received
<1>13. Asks(i, hot, c, th)
  <2>1. Asks(i, hot, conn[i], th)
    BY <1>7, OneGet
  <2>2. Answer(hot, conn[i], th) => Answer(hot, c, th)
    BY <1>3, <1>5, <1>6 DEF Answer
  <2> QED
    BY <1>5, <1>6, <2>1, <2>2 DEF Asks
<1> QED
  BY <1>1, <1>2, <1>4, <1>6, <1>7, <1>11, <1>12, <1>13, OneGetMoves

LEMMA PeerRecvBody ==
  ASSUME PeerInv, NEW i \in Instances, Peers!RecvBody(i)
  PROVE  PeerInv'
<1> DEFINE x   == thread[i].buf
           k   == thread[i].key
           w   == conn[i].wire
           old == mem[i][x].data
           new == Peers!Merged(old, Head(w), thread[i].got)
<1>1. /\ i \in alive /\ thread[i].pc = "body" /\ w # <<>>
      /\ hot' = hot /\ listed' = listed /\ alive' = alive
      /\ mem' = [mem EXCEPT ![i][x].data = new]
  BY DEF Peers!RecvBody
<1>2. /\ x \in PeerBuffers /\ k \in Keys /\ Gets(thread[i], x)
      /\ thread[i].got > 0 => old = k
  BY <1>1, OneGet DEF Received, Gets
<1>3. conn[i].open /\ Answer(hot, conn[i], thread[i])
  BY <1>1, OneGet DEF Asks
<1>4. w \in Seq(Wires) /\ thread[i].got \in Nat
  BY OneGet DEF Connections, EngineThreads
<1>5. Head(w) = k
  <2>1. 1 \in 1 .. Len(w) /\ Head(w) = w[1]
    BY <1>1, <1>4
  <2> QED
    BY <1>1, <1>3, <2>1 DEF Answer
<1>6. new = k
  BY <1>2, <1>4, <1>5 DEF Peers!Merged
<1> HIDE DEF new
<1>7. /\ mem' \in [Instances -> [PeerBuffers -> MemoryObjects]] /\ mem'[i][x].data = k
      /\ \A j \in Instances, b \in PeerBuffers :
            /\ mem'[j][b].refs = mem[j][b].refs
            /\ mem'[j][b].data = mem[j][b].data \/ (j = i /\ b = x)
  <2>1. mem \in [Instances -> [PeerBuffers -> MemoryObjects]]
    BY OneGet
  <2>2. mem[i][x] \in MemoryObjects
    BY <1>2, <2>1
  <2>3. mem' = [mem EXCEPT ![i] = [mem[i] EXCEPT ![x] = [mem[i][x] EXCEPT !.data = k]]]
    BY <1>1, <1>6
  <2>4. [mem[i][x] EXCEPT !.data = k] \in MemoryObjects
        /\ [mem[i][x] EXCEPT !.data = k].refs = mem[i][x].refs
        /\ [mem[i][x] EXCEPT !.data = k].data = k
    BY <1>2, <2>2 DEF MemoryObjects, Pieces
  <2> QED
    BY <1>2, <2>1, <2>3, <2>4
<1>8. ASSUME NEW c \in Connections, NEW th \in EngineThreads,
             conn' = [conn EXCEPT ![i] = c], thread' = [thread EXCEPT ![i] = th],
             th.pc \in {"body", "got"}, th.buf = x, th.key = k,
             Serving(c) => Serving(conn[i]) /\ c.to = conn[i].to /\ c.buf = conn[i].buf,
             Asks(i, hot, c, th)
      PROVE  PeerInv'
  <2>1. th.pc \in {"body", "got"} => thread[i].pc \in {"body", "got"} /\ th.buf = thread[i].buf
    BY <1>1, <1>8
  <2>2. RefsSuffice'
    BY <1>1, <1>7, <1>8, <2>1, RefsKept
  <2>3. Received(i, mem'[i], th)
    BY <1>1, <1>2, <1>7, <1>8 DEF Received
  <2>4. Serving(c) => c.to \in Instances /\ c.buf \in PeerBuffers /\ InHot(c.to, c.buf)
    BY <1>8, OneGet
  <2>5. \A j \in Instances, b \in PeerBuffers :
           mem'[j][b].data = mem[j][b].data \/ (j = i /\ Gets(thread[i], b))
    BY <1>2, <1>7
  <2> QED
    BY <1>1, <1>7, <1>8, <2>1, <2>2, <2>3, <2>4, <2>5, OneGetMoves
<1>9. CASE /\ thread' = [thread EXCEPT ![i].pc = "got", ![i].got = Parts]
           /\ conn' = [conn EXCEPT ![i].wire = <<>>, ![i].open = FALSE]
  <2> DEFINE c  == [conn[i] EXCEPT !.wire = <<>>, !.open = FALSE]
             th == [thread[i] EXCEPT !.pc = "got", !.got = Parts]
  <2>1. conn' = [conn EXCEPT ![i] = c] /\ thread' = [thread EXCEPT ![i] = th]
    <3>1. conn \in [Instances -> Connections] /\ thread \in [Instances -> EngineThreads]
      BY OneGet
    <3> QED
      BY <1>9, <3>1
  <2>2. /\ c \in Connections /\ ~c.open /\ c.serve = conn[i].serve
        /\ c.to = conn[i].to /\ c.buf = conn[i].buf
    <3>1. conn[i] \in Connections /\ <<>> \in Seq(Wires)
      BY OneGet, EmptySeq
    <3> QED
      BY <3>1 DEF Connections
  <2>3. th \in EngineThreads /\ th.pc = "got" /\ th.buf = x /\ th.key = k
    <3>1. thread[i] \in EngineThreads /\ Parts \in Nat
      BY OneGet, PeerNames
    <3> QED
      BY <3>1 DEF EngineThreads
  <2> HIDE DEF c, th
  <2>4. Asks(i, hot, c, th)
    BY <2>2, <2>3 DEF Asks
  <2>5. Serving(c) => Serving(conn[i]) /\ c.to = conn[i].to /\ c.buf = conn[i].buf
    BY <2>2 DEF Serving
  <2> QED
    BY <1>8, <2>1, <2>2, <2>3, <2>4, <2>5
<1>10. CASE /\ thread' = [thread EXCEPT ![i].got = @ + 1]
            /\ conn' = [conn EXCEPT ![i].wire = Tail(@)]
  <2> DEFINE c  == [conn[i] EXCEPT !.wire = Tail(@)]
             th == [thread[i] EXCEPT !.got = @ + 1]
  <2>1. conn' = [conn EXCEPT ![i] = c] /\ thread' = [thread EXCEPT ![i] = th]
    <3>1. conn \in [Instances -> Connections] /\ thread \in [Instances -> EngineThreads]
      BY OneGet
    <3> QED
      BY <1>10, <3>1
  <2>2. Tail(w) \in Seq(Wires) /\ \A n \in 1 .. Len(Tail(w)) : n + 1 \in 1 .. Len(w) /\ Tail(w)[n] = w[n + 1]
    BY <1>1, <1>4
  <2>3. /\ c \in Connections /\ c.open = conn[i].open /\ c.serve = conn[i].serve
        /\ c.to = conn[i].to /\ c.buf = conn[i].buf /\ c.wire = Tail(w) /\ c.req = conn[i].req
        /\ c.unsent = conn[i].unsent
    <3>1. conn[i] \in Connections /\ Tail(w) \in Seq(Wires)
      BY <2>2, OneGet
    <3> QED
      BY <3>1 DEF Connections
  <2>4. th \in EngineThreads /\ th.pc = "body" /\ th.buf = x /\ th.key = k
    <3>1. thread[i] \in EngineThreads
      BY OneGet
    <3> QED
      BY <1>1, <3>1 DEF EngineThreads
  <2>5. Serving(c) <=> Serving(conn[i])
    BY <2>3 DEF Serving
  <2> HIDE DEF c, th
  <2>6. Answer(hot, c, th)
    BY <1>1, <1>3, <2>2, <2>3, <2>4, <2>5 DEF Answer
  <2>7. Asks(i, hot, c, th)
    BY <1>1, <1>3, <2>3, <2>6 DEF Asks
  <2> QED
    BY <1>8, <2>1, <2>3, <2>4, <2>5, <2>7
<1> QED
  BY <1>9, <1>10 DEF Peers!RecvBody, Peers!Take

\* The ends of a get that leave nothing behind but a reference.
LEMMA PeerEndsInVain ==
  ASSUME PeerInv, NEW i \in Instances, Peers!HeaderInVain(i) \/ Peers!RecvEof(i)
  PROVE  PeerInv'
<1>1. Peers!GivesUp(i) /\ hot' = hot /\ listed' = listed /\ alive' = alive /\ mem' = mem
  BY DEF Peers!HeaderInVain, Peers!RecvEof, Peers!OnEof
<1> QED
  BY <1>1, PeerGivesUp

\* A buffer that is free, or whose chunk can be evicted, has no user but that
\* chunk, and the cache forgets it.
LEMMA BufferGivenUp ==
  ASSUME PeerInv, NEW i \in Instances, NEW b \in PeerBuffers, NEW h,
         \/ mem[i][b].refs = 0 /\ h = hot
         \/ \E v \in Keys : /\ hot[i][v] = b /\ mem[i][b].refs = 1
                            /\ h = [hot EXCEPT ![i][v] = None]
  PROVE  /\ ServedFrom(i, b) = {} /\ ~Gets(thread[i], b)
         /\ h \in [Instances -> [Keys -> PeerBuffers \cup {None}]]
         /\ \A j \in Instances, l \in Keys :
              h[j][l] = IF j = i /\ hot[j][l] = b THEN None ELSE hot[j][l]
<1>1. hot \in [Instances -> [Keys -> PeerBuffers \cup {None}]] /\ b # None
  BY PeerNames DEF PeerInv, PeerTypes
<1>2. CASE mem[i][b].refs = 0 /\ h = hot
  <2>1. ServedFrom(i, b) = {} /\ ~InHot(i, b) /\ ~Gets(thread[i], b)
    BY <1>2, FewUsers
  <2> QED
    BY <1>1, <1>2, <2>1 DEF InHot
<1>3. ASSUME NEW v \in Keys, hot[i][v] = b, mem[i][b].refs = 1, h = [hot EXCEPT ![i][v] = None]
      PROVE  /\ ServedFrom(i, b) = {} /\ ~Gets(thread[i], b)
             /\ h \in [Instances -> [Keys -> PeerBuffers \cup {None}]]
             /\ \A j \in Instances, l \in Keys :
                  h[j][l] = IF j = i /\ hot[j][l] = b THEN None ELSE hot[j][l]
  <2>1. ServedFrom(i, b) = {} /\ ~Gets(thread[i], b)
    BY <1>3, FewUsers DEF InHot
  <2>2. \A l \in Keys : hot[i][l] = b => l = v
    BY <1>1, <1>3 DEF PeerInv, HotIsRight
  <2>3. h = [hot EXCEPT ![i] = [hot[i] EXCEPT ![v] = None]]
    BY <1>3
  <2> QED
    BY <1>1, <1>3, <2>1, <2>2, <2>3
<1> QED
  BY <1>2, <1>3

\* The buffer is used anew, by the cache or by a get.
LEMMA BufferUsedAnew ==
  ASSUME PeerInv, NEW i \in Instances, NEW b \in PeerBuffers,
         ServedFrom(i, b) = {}, ~Gets(thread[i], b),
         PeerTypes', alive' = alive,
         \A j \in Instances : j # i => conn'[j] = conn[j] /\ thread'[j] = thread[j],
         \A j \in Instances, x \in PeerBuffers : <<j, x>> # <<i, b>> => mem'[j][x] = mem[j][x],
         \A j \in Instances, l \in Keys, x \in PeerBuffers :
           <<j, x>> # <<i, b>> => (hot'[j][l] = x <=> hot[j][l] = x),
         mem'[i][b].refs = 1,
         \A l \in Keys : hot'[i][l] = b => mem'[i][b].data = l /\ ~Gets(thread'[i], b),
         \A l, k \in Keys : hot'[i][l] = b /\ hot'[i][k] = b => k = l,
         \A x \in PeerBuffers : Gets(thread'[i], x) => x = b \/ Gets(thread[i], x),
         conn'[i].serve = conn[i].serve, conn'[i].to = conn[i].to, conn'[i].buf = conn[i].buf,
         Received(i, mem'[i], thread'[i]), Asks(i, hot, conn'[i], thread'[i])
  PROVE  PeerInv'
<1>0. hot \in [Instances -> [Keys -> PeerBuffers \cup {None}]] /\ None \notin PeerBuffers
  BY PeerNames DEF PeerInv, PeerTypes
<1>1. Serving(conn'[i]) <=> Serving(conn[i])
  BY DEF Serving
<1>2. hot' \in [Instances -> [Keys -> PeerBuffers \cup {None}]]
  BY DEF PeerTypes, PeerBuffers
<1>4. \A j \in Instances, x \in PeerBuffers : ServedFrom(j, x)' = ServedFrom(j, x)
  <2>1. ASSUME NEW j \in Instances, NEW x \in PeerBuffers PROVE ServedFrom(j, x)' = ServedFrom(j, x)
    <3>1. ServedFrom(j, x)' =
            {l \in Instances : Serving(conn'[l]) /\ conn'[l].to = j /\ conn'[l].buf = x}
      BY DEF ServedFrom, Serving
    <3>2. \A l \in Instances : /\ Serving(conn'[l]) <=> Serving(conn[l])
                               /\ conn'[l].to = conn[l].to /\ conn'[l].buf = conn[l].buf
      BY <1>1
    <3> QED
      BY <3>1, <3>2 DEF ServedFrom
  <2> QED
    BY <2>1
<1>5. \A j \in Instances, x \in PeerBuffers : <<j, x>> # <<i, b>> =>
         (Gets(thread'[j], x) => Gets(thread[j], x))
  BY <1>1
<1>6. RefsSuffice'
  <2>1. ASSUME NEW j \in Instances, NEW x \in PeerBuffers, <<j, x>> # <<i, b>>
        PROVE  mem'[j][x].refs >= Cardinality(ServedFrom(j, x)') + One(InHot(j, x)')
                                    + One(Gets(thread'[j], x))
    <3>1. ServedFrom(j, x)' \subseteq ServedFrom(j, x)
      BY <1>4
    <3>2. InHot(j, x)' => InHot(j, x)
      BY <2>1 DEF InHot
    <3>3. mem'[j][x].refs = mem[j][x].refs
      BY <1>2, <2>1
    <3> QED
      BY <1>5, <2>1, <3>1, <3>2, <3>3, FewerPeerUsers
  <2>2. mem'[i][b].refs >= Cardinality(ServedFrom(i, b)') + One(InHot(i, b)')
                             + One(Gets(thread'[i], b))
    <3>1. Cardinality(ServedFrom(i, b)') = 0
      BY <1>4, FS_EmptySet
    <3>2. ~(InHot(i, b)' /\ Gets(thread'[i], b))
      BY <1>1 DEF InHot
    <3> QED
      BY <1>2, <3>1, <3>2 DEF One
  <2>3. \A j \in Instances, x \in PeerBuffers :
          mem'[j][x].refs >= Cardinality(ServedFrom(j, x)') + One(InHot(j, x)')
                               + One(Gets(thread'[j], x))
    BY <2>1, <2>2
  <2> QED
    BY <2>3 DEF RefsSuffice, PeerBuffers, Gets, One
<1>7. HotIsRight'
  <2>1. ASSUME NEW j \in Instances, NEW k \in Keys, hot'[j][k] # None
        PROVE  /\ mem'[j][hot'[j][k]].data = k
               /\ ~Gets(thread'[j], hot'[j][k])
               /\ \A l \in Keys : hot'[j][l] = hot'[j][k] => l = k
    <3>1. hot'[j][k] \in PeerBuffers
      BY <1>2, <2>1
    <3>2. CASE <<j, hot'[j][k]>> = <<i, b>>
      BY <1>1, <1>2, <3>2
    <3>3. CASE <<j, hot'[j][k]>> # <<i, b>>
      <4>1. hot'[j][k] = hot[j][k] /\ \A l \in Keys : hot'[j][l] = hot'[j][k] <=> hot[j][l] = hot[j][k]
        BY <3>1, <3>3
      <4>2. /\ mem[j][hot[j][k]].data = k /\ ~Gets(thread[j], hot[j][k])
            /\ \A l \in Keys : hot[j][l] = hot[j][k] => l = k
        BY <2>1, <4>1 DEF PeerInv, HotIsRight
      <4>3. mem'[j][hot'[j][k]] = mem[j][hot[j][k]]
        BY <1>2, <3>1, <3>3, <4>1
      <4>4. ~Gets(thread'[j], hot'[j][k])
        BY <1>5, <3>1, <3>3, <4>1, <4>2
      <4> QED
        BY <4>1, <4>2, <4>3, <4>4
    <3> QED
      BY <3>2, <3>3
  <2> QED
    BY <2>1 DEF HotIsRight, Gets
<1>8. \A l \in Instances : Serving(conn[l]) =>
        /\ conn[l].to \in Instances /\ conn[l].buf \in PeerBuffers
        /\ <<conn[l].to, conn[l].buf>> # <<i, b>>
  BY OneGet DEF ServedFrom
<1>9. ServedIsHot'
  <2>1. ASSUME NEW l \in Instances, Serving(conn'[l])
        PROVE  /\ conn'[l].to \in Instances /\ conn'[l].buf \in PeerBuffers
               /\ \E k \in Keys : hot'[conn'[l].to][k] = conn'[l].buf
    <3>1. Serving(conn[l]) /\ conn'[l].to = conn[l].to /\ conn'[l].buf = conn[l].buf
      BY <1>1, <2>1
    <3>2. PICK k \in Keys : hot[conn[l].to][k] = conn[l].buf
      BY <3>1, OneGet DEF InHot
    <3>3. hot'[conn[l].to][k] = conn[l].buf
      BY <1>8, <3>1, <3>2
    <3> QED
      BY <1>8, <3>1, <3>3
  <2> QED
    BY <2>1 DEF ServedIsHot, InHot, Serving, PeerBuffers
<1>10. GetsReceive'
  <2>1. ASSUME NEW j \in Instances, j # i PROVE Received(j, mem'[j], thread'[j])
    <3>1. \A x \in PeerBuffers : mem'[j][x] = mem[j][x]
      BY <1>2, <2>1
    <3>2. thread'[j] = thread[j] /\ Received(j, mem[j], thread[j])
      BY <1>1, <2>1, OneGet
    <3> QED
      BY <3>1, <3>2 DEF Received
  <2> QED
    BY <1>1, <2>1 DEF GetsReceive, Received, PeerBuffers
<1>11. Asking'
  <2>1. ASSUME NEW l \in Instances PROVE Asks(l, hot', conn'[l], thread'[l])
    <3>1. Asks(l, hot, conn'[l], thread'[l])
      BY <1>1, OneGet
    <3>2. ASSUME Serving(conn'[l]), thread'[l].pc # "idle",
                 hot[conn'[l].to][thread'[l].key] = conn'[l].buf
          PROVE  hot'[conn'[l].to][thread'[l].key] = conn'[l].buf
      <4>1. Serving(conn[l]) /\ conn'[l].to = conn[l].to /\ conn'[l].buf = conn[l].buf
        BY <1>1, <3>2
      <4>2. thread'[l].key \in Keys
        BY <1>1, <3>2, OneGet DEF Received
      <4> QED
        BY <1>8, <3>2, <4>1, <4>2
    <3> QED
      BY <3>1, <3>2 DEF Asks, Answer
  <2> QED
    BY <2>1 DEF Asking, Asks, Answer, Serving
<1> QED
  BY <1>6, <1>7, <1>9, <1>10, <1>11 DEF PeerInv

LEMMA TypesAfter ==
  ASSUME mem' \in [Instances -> [PeerBuffers -> MemoryObjects]],
         hot' \in [Instances -> [Keys -> PeerBuffers \cup {None}]],
         listed' \in [Keys -> Instances \cup {None}],
         thread' \in [Instances -> EngineThreads], conn' \in [Instances -> Connections]
  PROVE  PeerTypes'
BY ZenonT(30) DEF PeerTypes, PeerBuffers, Pieces, MemoryObjects, EngineThreads, Connections, Written, Wires

LEMMA PeerStore ==
  ASSUME PeerInv, NEW i \in Instances, NEW k \in Keys, Peers!Store(i, k)
  PROVE  PeerInv'
<1>1. /\ i \in alive /\ thread[i].pc = "idle" /\ hot[i][k] = None
      /\ thread' = thread /\ conn' = conn /\ alive' = alive
  BY DEF Peers!Store
<1>2. PICK b \in PeerBuffers :
        /\ \/ /\ mem[i][b].refs = 0 /\ hot' = [hot EXCEPT ![i][k] = b]
              /\ listed' = [listed EXCEPT ![k] = i]
           \/ \E v \in Keys :
                /\ hot[i][v] = b /\ mem[i][b].refs = 1
                /\ hot' = [hot EXCEPT ![i][v] = None, ![i][k] = b]
                /\ listed' = [listed EXCEPT ![v] = None, ![k] = i]
        /\ mem' = [mem EXCEPT ![i][b] = [data |-> k, refs |-> 1]]
  <2>1. PICK b \in PeerBuffers :
          /\ \/ /\ b \in Peers!Free(i) /\ hot' = [hot EXCEPT ![i][k] = b]
                /\ listed' = [listed EXCEPT ![k] = i]
             \/ /\ Peers!Free(i) = {}
                /\ \E v \in Peers!Evictable(i) :
                     /\ hot[i][v] = b
                     /\ hot' = [hot EXCEPT ![i][v] = None, ![i][k] = b]
                     /\ listed' = [listed EXCEPT ![v] = None, ![k] = i]
          /\ mem' = [mem EXCEPT ![i][b] = [data |-> k, refs |-> 1]]
    BY Zenon DEF Peers!Store, PeerBuffers
  <2>2. b \in Peers!Free(i) => mem[i][b].refs = 0
    BY DEF Peers!Free
  <2>3. ASSUME NEW v \in Peers!Evictable(i), hot[i][v] = b
        PROVE  v \in Keys /\ mem[i][b].refs = 1
    BY <2>3 DEF Peers!Evictable
  <2> QED
    BY <2>1, <2>2, <2>3, Zenon
<1>3. /\ hot \in [Instances -> [Keys -> PeerBuffers \cup {None}]] /\ b # None
      /\ listed \in [Keys -> Instances \cup {None}]
  BY PeerNames DEF PeerInv, PeerTypes
<1>4. listed' \in [Keys -> Instances \cup {None}]
  BY <1>2, <1>3
<1>5. PICK h : /\ \/ mem[i][b].refs = 0 /\ h = hot
                  \/ \E v \in Keys : /\ hot[i][v] = b /\ mem[i][b].refs = 1
                                     /\ h = [hot EXCEPT ![i][v] = None]
               /\ hot' = [h EXCEPT ![i][k] = b]
  BY <1>2
<1>6. /\ ServedFrom(i, b) = {} /\ ~Gets(thread[i], b)
      /\ h \in [Instances -> [Keys -> PeerBuffers \cup {None}]]
      /\ \A j \in Instances, l \in Keys :
           h[j][l] = IF j = i /\ hot[j][l] = b THEN None ELSE hot[j][l]
  BY <1>5, BufferGivenUp
<1>7. /\ hot' \in [Instances -> [Keys -> PeerBuffers \cup {None}]]
      /\ \A j \in Instances, l \in Keys :
           hot'[j][l] = IF j = i /\ l = k THEN b
                        ELSE IF j = i /\ hot[j][l] = b THEN None ELSE hot[j][l]
  <2>1. hot' = [h EXCEPT ![i] = [h[i] EXCEPT ![k] = b]]
    BY <1>5
  <2> QED
    BY <1>6, <2>1
<1>8. \A j \in Instances, l \in Keys, x \in PeerBuffers :
        <<j, x>> # <<i, b>> => (hot'[j][l] = x <=> hot[j][l] = x)
  BY <1>1, <1>7, PeerNames
<1>9. Asks(i, hot, conn[i], thread[i])
  BY <1>1, OneGet
<1>10. /\ mem' \in [Instances -> [PeerBuffers -> MemoryObjects]]
       /\ mem'[i][b].data = k /\ mem'[i][b].refs = 1
       /\ \A j \in Instances, x \in PeerBuffers : <<j, x>> # <<i, b>> => mem'[j][x] = mem[j][x]
  <2>1. [data |-> k, refs |-> 1] \in MemoryObjects
    BY DEF MemoryObjects, Pieces
  <2>2. mem' = [mem EXCEPT ![i] = [mem[i] EXCEPT ![b] = [data |-> k, refs |-> 1]]]
    BY <1>2
  <2> QED
    BY <2>1, <2>2, OneGet
<1>11. PeerTypes'
  <2>1. conn' \in [Instances -> Connections] /\ thread' \in [Instances -> EngineThreads]
    BY <1>1, OneGet
  <2> QED
    BY ONLY <1>4, <1>7, <1>10, <2>1, TypesAfter
<1>12. /\ \A l \in Keys : hot'[i][l] = b => mem'[i][b].data = l /\ ~Gets(thread'[i], b)
       /\ \A l, m \in Keys : hot'[i][l] = b /\ hot'[i][m] = b => m = l
  <2>1. \A l \in Keys : hot'[i][l] = b => l = k
    BY ONLY <1>3, <1>7, i \in Instances
  <2>2. ~Gets(thread'[i], b) /\ mem'[i][b].data = k
    BY <1>1, <1>6, <1>10
  <2> QED
    BY ONLY <2>1, <2>2
<1>13. Received(i, mem'[i], thread'[i])
  BY <1>1 DEF Received
<1>14. /\ \A x \in PeerBuffers : Gets(thread'[i], x) => x = b \/ Gets(thread[i], x)
       /\ \A j \in Instances : j # i => conn'[j] = conn[j] /\ thread'[j] = thread[j]
       /\ conn'[i].serve = conn[i].serve /\ conn'[i].to = conn[i].to /\ conn'[i].buf = conn[i].buf
       /\ alive' = alive /\ Asks(i, hot, conn'[i], thread'[i])
  BY <1>1, <1>9
<1> QED
  BY ONLY PeerInv, <1>6, <1>8, <1>10, <1>11, <1>12, <1>13, <1>14, i \in Instances, b \in PeerBuffers,
     BufferUsedAnew

LEMMA PeerRecvHeader ==
  ASSUME PeerInv, NEW i \in Instances, Peers!RecvHeader(i)
  PROVE  PeerInv'
<1> DEFINE w == conn[i].wire
           c == [conn[i] EXCEPT !.wire = Tail(@)]
<1>1. i \in alive /\ thread[i].pc = "header" /\ w # <<>> /\ alive' = alive
  BY DEF Peers!RecvHeader
<1>2. PICK b \in PeerBuffers :
        /\ Peers!Allocate(i, b)
        /\ mem' = [mem EXCEPT ![i][b] = [data |-> None, refs |-> 1]]
        /\ thread' = [thread EXCEPT ![i].pc = "body", ![i].buf = b]
  BY DEF Peers!RecvHeader, PeerBuffers
<1>3. /\ \/ mem[i][b].refs = 0 /\ hot' = hot
         \/ \E v \in Keys : /\ hot[i][v] = b /\ mem[i][b].refs = 1
                            /\ hot' = [hot EXCEPT ![i][v] = None]
      /\ listed' \in [Keys -> Instances \cup {None}]
  <2>1. listed \in [Keys -> Instances \cup {None}]
    BY DEF PeerInv, PeerTypes
  <2> QED
    BY <1>2, <2>1 DEF Peers!Allocate, Peers!Free, Peers!Evictable
<1>4. /\ ServedFrom(i, b) = {} /\ ~Gets(thread[i], b)
      /\ hot' \in [Instances -> [Keys -> PeerBuffers \cup {None}]]
      /\ \A j \in Instances, l \in Keys :
           hot'[j][l] = IF j = i /\ hot[j][l] = b THEN None ELSE hot[j][l]
  BY <1>3, BufferGivenUp
<1>5. b # None /\ None \in Pieces
  BY PeerNames DEF Pieces
<1>6. /\ \A j \in Instances, l \in Keys, x \in PeerBuffers :
           <<j, x>> # <<i, b>> => (hot'[j][l] = x <=> hot[j][l] = x)
      /\ \A l \in Keys : hot'[i][l] # b
  BY <1>4, <1>5, PeerNames
<1> DEFINE th == [thread[i] EXCEPT !.pc = "body", !.buf = b]
<1>7. conn' = [conn EXCEPT ![i] = c] /\ thread' = [thread EXCEPT ![i] = th]
  <2>1. conn \in [Instances -> Connections] /\ thread \in [Instances -> EngineThreads]
    BY OneGet
  <2> QED
    BY <1>2, <2>1 DEF Peers!RecvHeader, Peers!Take
<1>8. conn[i].open /\ Answer(hot, conn[i], thread[i]) /\ thread[i].got = 0
  BY <1>1, OneGet DEF Asks, Received
<1>9. w \in Seq(Wires)
  BY OneGet DEF Connections
<1>10. Tail(w) \in Seq(Wires) /\ \A n \in 1 .. Len(Tail(w)) : n + 1 \in 1 .. Len(w) /\ Tail(w)[n] = w[n + 1]
                                                              /\ n + 1 > 1
  BY <1>1, <1>9
<1>11. /\ c \in Connections /\ c.open = conn[i].open /\ c.serve = conn[i].serve
       /\ c.to = conn[i].to /\ c.buf = conn[i].buf /\ c.wire = Tail(w) /\ c.req = conn[i].req
       /\ c.unsent = conn[i].unsent
  <2>1. conn[i] \in Connections /\ Tail(w) \in Seq(Wires)
    BY <1>10, OneGet
  <2> QED
    BY <2>1 DEF Connections
<1>12. th \in EngineThreads /\ th.pc = "body" /\ th.buf = b /\ th.key = thread[i].key /\ th.got = 0
  <2>1. thread[i] \in EngineThreads
    BY OneGet
  <2> QED
    BY <1>8, <2>1 DEF EngineThreads
<1>13. Serving(c) <=> Serving(conn[i])
  BY <1>11 DEF Serving
<1> HIDE DEF c, th
<1>14. Answer(hot, c, th)
  BY <1>1, <1>8, <1>10, <1>11, <1>12, <1>13 DEF Answer
<1>15. Asks(i, hot, c, th)
  BY <1>1, <1>8, <1>11, <1>14 DEF Asks
<1>16. /\ conn' \in [Instances -> Connections] /\ conn'[i] = c
       /\ thread' \in [Instances -> EngineThreads] /\ thread'[i] = th
       /\ \A j \in Instances : j # i => conn'[j] = conn[j] /\ thread'[j] = thread[j]
  BY <1>7, <1>11, <1>12, OneGet
<1>17. /\ mem' \in [Instances -> [PeerBuffers -> MemoryObjects]] /\ mem'[i][b].refs = 1
       /\ \A j \in Instances, x \in PeerBuffers : <<j, x>> # <<i, b>> => mem'[j][x] = mem[j][x]
  <2>1. [data |-> None, refs |-> 1] \in MemoryObjects
    BY <1>5 DEF MemoryObjects
  <2>2. mem' = [mem EXCEPT ![i] = [mem[i] EXCEPT ![b] = [data |-> None, refs |-> 1]]]
    BY <1>2
  <2> QED
    BY <2>1, <2>2, OneGet
<1>18. PeerTypes'
  BY ONLY <1>3, <1>4, <1>16, <1>17, TypesAfter
<1>19. /\ \A l \in Keys : hot'[i][l] = b => mem'[i][b].data = l /\ ~Gets(thread'[i], b)
       /\ \A l, k \in Keys : hot'[i][l] = b /\ hot'[i][k] = b => k = l
  BY <1>6
<1>20. Received(i, mem'[i], thread'[i]) /\ Asks(i, hot, conn'[i], thread'[i])
  BY <1>1, <1>12, <1>15, <1>16, OneGet DEF Received
<1>21. /\ \A x \in PeerBuffers : Gets(thread'[i], x) => x = b \/ Gets(thread[i], x)
       /\ conn'[i].serve = conn[i].serve /\ conn'[i].to = conn[i].to /\ conn'[i].buf = conn[i].buf
       /\ alive' = alive
  BY <1>1, <1>11, <1>12, <1>16 DEF Gets
<1>22. /\ ServedFrom(i, b) = {} /\ ~Gets(thread[i], b) /\ mem'[i][b].refs = 1
       /\ \A j \in Instances : j # i => conn'[j] = conn[j] /\ thread'[j] = thread[j]
       /\ \A j \in Instances, x \in PeerBuffers : <<j, x>> # <<i, b>> => mem'[j][x] = mem[j][x]
       /\ \A j \in Instances, l \in Keys, x \in PeerBuffers :
            <<j, x>> # <<i, b>> => (hot'[j][l] = x <=> hot[j][l] = x)
  BY <1>4, <1>6, <1>16, <1>17
<1> QED
  BY ONLY PeerInv, <1>18, <1>19, <1>20, <1>21, <1>22, i \in Instances, b \in PeerBuffers, BufferUsedAnew

LEMMA PeerCrash ==
  ASSUME PeerInv, NEW i \in Instances, Peers!Crash(i)
  PROVE  PeerInv'
<1>1. /\ alive' = alive \ {i} /\ hot' = hot /\ listed' = listed /\ mem' = mem
      /\ thread' = [thread EXCEPT ![i] = Peers!Idle]
      /\ conn' = [c \in Instances |->
                     IF conn[c].to = i THEN [conn[c] EXCEPT !.serve = "none", !.unsent = <<>>]
                     ELSE IF c = i THEN [conn[c] EXCEPT !.open = FALSE] ELSE conn[c]]
  BY DEF Peers!Crash
<1>2. Peers!Idle \in EngineThreads /\ Peers!Idle.pc = "idle"
  BY DEF EngineThreads, Pieces, Peers!Idle
<1>3. /\ thread' \in [Instances -> EngineThreads] /\ thread'[i].pc = "idle"
      /\ \A j \in Instances : j # i => thread'[j] = thread[j]
  BY <1>1, <1>2, OneGet
<1>4. ASSUME NEW j \in Instances
      PROVE  LET c == conn[j] n == conn'[j] IN
             /\ n \in Connections /\ n.to = c.to /\ n.req = c.req /\ n.wire = c.wire /\ n.buf = c.buf
             /\ Serving(n) => Serving(c) /\ n.to # i
             /\ \/ n.unsent = c.unsent
                \/ n.unsent = <<>> /\ Len(n.unsent) = 0
             /\ n.open => c.open
             /\ c.open /\ j # i => n.open
             /\ n.open /\ j = i => c.to = i
  <2>1. conn[j] \in Connections /\ <<>> \in Seq(Written) /\ Len(<<>>) = 0
    BY OneGet, EmptySeq
  <2>2. conn'[j] = IF conn[j].to = i THEN [conn[j] EXCEPT !.serve = "none", !.unsent = <<>>]
                   ELSE IF j = i THEN [conn[j] EXCEPT !.open = FALSE] ELSE conn[j]
    BY <1>1
  <2>3. CASE conn[j].to = i
    <3> DEFINE s == [conn[j] EXCEPT !.serve = "none", !.unsent = <<>>]
    <3>1. /\ s \in Connections /\ s.to = conn[j].to /\ s.req = conn[j].req
          /\ s.wire = conn[j].wire /\ s.buf = conn[j].buf /\ s.serve = "none"
          /\ s.unsent = <<>> /\ s.open = conn[j].open
      BY ONLY <2>1 DEF Connections
    <3>2. conn'[j] = s
      BY <2>2, <2>3
    <3> HIDE DEF s
    <3> QED
      BY <2>1, <2>3, <3>1, <3>2 DEF Serving
  <2>4. CASE conn[j].to # i /\ j = i
    <3> DEFINE s == [conn[j] EXCEPT !.open = FALSE]
    <3>1. /\ s \in Connections /\ s.to = conn[j].to /\ s.req = conn[j].req
          /\ s.wire = conn[j].wire /\ s.buf = conn[j].buf /\ s.serve = conn[j].serve
          /\ s.unsent = conn[j].unsent /\ s.open = FALSE
      BY ONLY <2>1 DEF Connections
    <3>2. conn'[j] = s
      BY <2>2, <2>4
    <3> HIDE DEF s
    <3> QED
      BY <2>1, <2>4, <3>1, <3>2 DEF Serving
  <2>5. CASE conn[j].to # i /\ j # i
    BY <2>1, <2>2, <2>5
  <2> QED
    BY <2>3, <2>4, <2>5
<1>5. conn' \in [Instances -> Connections]
  <2>1. \A j \in Instances : conn'[j] \in Connections
    BY <1>4
  <2> QED
    BY <1>1, <2>1
<1>6. PeerTypes'
  BY <1>1, <1>3, <1>5 DEF PeerInv, PeerTypes, PeerBuffers, Pieces, MemoryObjects, EngineThreads,
                         Connections, Written, Wires
<1>7. RefsSuffice'
  <2>1. ASSUME NEW j \in Instances, NEW b \in PeerBuffers
        PROVE  mem'[j][b].refs >= Cardinality(ServedFrom(j, b)') + One(InHot(j, b)')
                                    + One(Gets(thread'[j], b))
    <3>1. ServedFrom(j, b)' \subseteq ServedFrom(j, b)
      <4>1. ServedFrom(j, b)' =
              {l \in Instances : Serving(conn'[l]) /\ conn'[l].to = j /\ conn'[l].buf = b}
        BY DEF ServedFrom, Serving
      <4> QED
        BY <1>4, <4>1 DEF ServedFrom
    <3>2. InHot(j, b)' => InHot(j, b)
      BY <1>1 DEF InHot
    <3>3. Gets(thread'[j], b) => Gets(thread[j], b)
      BY <1>3 DEF Gets
    <3> QED
      BY <1>1, <3>1, <3>2, <3>3, FewerPeerUsers
  <2> QED
    BY <2>1 DEF RefsSuffice, PeerBuffers, Gets, One
<1>8. HotIsRight'
  <2>0. hot' = hot
    BY <1>1
  <2>1. \A j \in Instances, b \in PeerBuffers : Gets(thread'[j], b) => Gets(thread[j], b)
    BY <1>3 DEF Gets
  <2>2. \A j \in Instances, k \in Keys : hot[j][k] # None => hot[j][k] \in PeerBuffers
    BY DEF PeerInv, PeerTypes
  <2>3. \A j \in Instances, k \in Keys : hot[j][k] # None =>
          /\ mem'[j][hot[j][k]].data = k
          /\ ~Gets(thread'[j], hot[j][k])
          /\ \A l \in Keys : hot[j][l] = hot[j][k] => l = k
    BY <1>1, <2>1, <2>2 DEF PeerInv, HotIsRight
  <2> QED
    BY ONLY <2>0, <2>3 DEF HotIsRight, Gets
<1>9. ServedIsHot'
  <2>1. ASSUME NEW l \in Instances, Serving(conn'[l])
        PROVE  /\ conn'[l].to \in Instances /\ conn'[l].buf \in PeerBuffers
               /\ \E k \in Keys : hot'[conn'[l].to][k] = conn'[l].buf
    <3>1. Serving(conn[l]) /\ conn'[l].to = conn[l].to /\ conn'[l].buf = conn[l].buf
      BY <1>4, <2>1
    <3> QED
      BY <1>1, <3>1, OneGet DEF InHot
  <2> QED
    BY <2>1 DEF ServedIsHot, InHot, Serving, PeerBuffers
<1>10. GetsReceive'
  <2>1. ASSUME NEW j \in Instances
        PROVE  /\ thread'[j].pc # "idle" => j \in alive' /\ thread'[j].key \in Keys
               /\ thread'[j].pc \in {"queued", "header"} => thread'[j].got = 0
               /\ thread'[j].pc \in {"body", "got"} => thread'[j].buf \in PeerBuffers
               /\ thread'[j].pc = "body" /\ thread'[j].got > 0 =>
                    mem'[j][thread'[j].buf].data = thread'[j].key
               /\ thread'[j].pc = "got" => mem'[j][thread'[j].buf].data = thread'[j].key
    <3>1. CASE j = i
      BY <1>3, <3>1
    <3>2. CASE j # i
      BY <1>1, <1>3, <3>2, OneGet DEF Received
    <3> QED
      BY <3>1, <3>2
  <2> QED
    BY <2>1 DEF GetsReceive, Received, PeerBuffers
<1>11. ASSUME NEW j \in Instances
       PROVE  /\ conn'[j].open /\ j \in alive' => Answer(hot, conn'[j], thread'[j])
              /\ conn'[j].open /\ j \notin alive' => conn'[j].to \notin alive' /\ ~Serving(conn'[j])
              /\ thread'[j].pc \in {"header", "body"} => conn'[j].open
  <2>1. CASE j = i
    <3>1. conn'[j].open => conn'[j].to = i /\ ~Serving(conn'[j])
      BY <1>4, <2>1
    <3>2. i \notin alive' /\ thread'[j].pc = "idle"
      BY <1>1, <1>3, <2>1
    <3> QED
      BY ONLY <2>1, <3>1, <3>2
  <2>2. CASE j # i
    <3>1. Asks(j, hot, conn[j], thread[j]) /\ thread'[j] = thread[j] /\ (j \in alive' <=> j \in alive)
      BY <1>1, <1>3, <2>2, OneGet
    <3>2. Answer(hot, conn[j], thread[j]) => Answer(hot, conn'[j], thread'[j])
      BY <1>4, <3>1 DEF Answer
    <3>3. /\ conn'[j].open <=> conn[j].open
          /\ conn'[j].to = conn[j].to /\ (Serving(conn'[j]) => Serving(conn[j]))
      BY <1>4, <2>2
    <3> QED
      <4>1. conn[j].to \notin alive => conn[j].to \notin alive'
        BY <1>1
      <4> QED
        BY ONLY <3>1, <3>2, <3>3, <4>1, SMTT(30) DEF Asks
  <2> QED
    BY <2>1, <2>2
<1>12. Asking'
  <2>1. hot' = hot
    BY <1>1
  <2> QED
    BY ONLY <1>11, <2>1, SMTT(30) DEF Asking, Asks, Answer, Serving
<1> QED
  BY <1>6, <1>7, <1>8, <1>9, <1>10, <1>12 DEF PeerInv

LEMMA PeerInit == Peers!Init => PeerInv
<1> SUFFICES ASSUME Peers!Init PROVE PeerInv
  OBVIOUS
<1>1. Peers!NoConn \in Connections /\ ~Peers!NoConn.open /\ ~Serving(Peers!NoConn)
  BY NobodyConnects DEF Serving
<1>2. Peers!Idle \in EngineThreads /\ Peers!Idle.pc = "idle"
  BY DEF EngineThreads, Pieces, Peers!Idle
<1>3. /\ \A i \in Instances : conn[i] = Peers!NoConn /\ thread[i] = Peers!Idle
      /\ \A i \in Instances, k \in Keys : hot[i][k] = None
      /\ \A i \in Instances, b \in PeerBuffers : mem[i][b] = [data |-> None, refs |-> 0]
  BY DEF Peers!Init, PeerBuffers
<1>4. PeerTypes
  <2>1. [data |-> None, refs |-> 0] \in MemoryObjects
    BY DEF MemoryObjects, Pieces
  <2> QED
    BY <1>1, <1>2, <2>1 DEF PeerTypes, Peers!Init, PeerBuffers
<1>5. RefsSuffice
  <2>1. ASSUME NEW j \in Instances, NEW b \in PeerBuffers
        PROVE  mem[j][b].refs >= Cardinality(ServedFrom(j, b)) + One(InHot(j, b)) + One(Gets(thread[j], b))
    <3>1. ServedFrom(j, b) = {}
      BY <1>1, <1>3 DEF ServedFrom
    <3>2. ~InHot(j, b) /\ ~Gets(thread[j], b)
      BY <1>2, <1>3, PeerNames DEF InHot, Gets
    <3>3. Cardinality(ServedFrom(j, b)) = 0 /\ mem[j][b].refs = 0
      BY <1>3, <3>1, FS_EmptySet
    <3> QED
      BY <3>2, <3>3 DEF One
  <2> QED
    BY <2>1 DEF RefsSuffice
<1>6. HotIsRight
  BY <1>3 DEF HotIsRight
<1>7. ServedIsHot
  BY <1>1, <1>3 DEF ServedIsHot
<1>8. GetsReceive
  BY <1>2, <1>3 DEF GetsReceive, Received
<1>9. Asking
  BY <1>1, <1>2, <1>3 DEF Asking, Asks
<1> QED
  BY <1>4, <1>5, <1>6, <1>7, <1>8, <1>9 DEF PeerInv

LEMMA PeerStutter == ASSUME PeerInv, UNCHANGED pvars PROVE PeerInv'
<1> USE DEF pvars
<1>1. PeerTypes'
  BY DEF PeerInv, PeerTypes, PeerBuffers, Pieces, MemoryObjects, EngineThreads, Connections,
         Written, Wires
<1>2. RefsSuffice'
  BY DEF PeerInv, RefsSuffice, ServedFrom, InHot, Gets, Serving, One, PeerBuffers
<1>3. HotIsRight' /\ ServedIsHot'
  BY DEF PeerInv, HotIsRight, ServedIsHot, InHot, Gets, Serving, PeerBuffers
<1>4. GetsReceive'
  BY DEF PeerInv, GetsReceive, Received, PeerBuffers
<1>5. Asking'
  BY DEF PeerInv, Asking, Asks, Answer, Serving
<1> QED
  BY <1>1, <1>2, <1>3, <1>4, <1>5 DEF PeerInv

LEMMA PeerStep == ASSUME CopiesOnWrite, PeerInv, [Peers!Next]_(Peers!vars) PROVE PeerInv'
<1>1. ASSUME NEW i \in Instances, NEW k \in Keys, Peers!Store(i, k) \/ Peers!RetrieveMisses(i, k)
      PROVE  PeerInv'
  BY <1>1, PeerStore, PeerRetrieveMisses
<1>2. ASSUME NEW i \in Instances, Peers!Client(i) PROVE PeerInv'
  BY <1>2, PeerIssueGet, PeerEndsInVain, PeerRecvHeader, PeerRecvBody, PeerUseObject
     DEF Peers!Client
<1>3. ASSUME NEW i \in Instances, Peers!Serve(i) PROVE PeerInv'
  BY <1>3, PeerHandleGet, PeerWriteBody, PeerFlush, PeerBodyDrained, PeerServerEnds
     DEF Peers!Serve
<1>4. ASSUME NEW i \in Instances, Peers!Crash(i) PROVE PeerInv'
  BY <1>4, PeerCrash
<1>5. CASE UNCHANGED Peers!vars
  BY <1>5, PeerStutter DEF Peers!vars, pvars
<1> QED
  BY <1>1, <1>2, <1>3, <1>4, <1>5 DEF Peers!Next

\* What issue_get hands to the engine are the bytes of the chunk it asked for,
\* however the peer stores, evicts and serves meanwhile, and whoever dies.
\* (With a transport that copies what it holds back; TLC shows that one which
\* does not may send another chunk's bytes.)
THEOREM PeerGivesOwnChunkHolds ==
  ASSUME CopiesOnWrite PROVE Peers!Spec => []PeerGivesOwnChunk
<1>1. PeerInv => PeerGivesOwnChunk
  BY DEF PeerInv, GetsReceive, Received, PeerGivesOwnChunk, Peers!PeerGivesOwnChunk
<1>2. PeerInv /\ [Peers!Next]_(Peers!vars) => PeerInv'
  BY PeerStep
<1> QED
  BY <1>1, <1>2, PeerInit, PTL DEF Peers!Spec
=============================================================================
