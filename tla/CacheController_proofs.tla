------------------------ MODULE CacheController_proofs ------------------------
(***************************************************************************)
(* Proofs about CacheController.tla, for any number of workers, keys and   *)
(* restarts and for queues and batches of any size:                        *)
(*                                                                         *)
(*   EntryIsCachedOrEvicting  what lookup says a worker has, it has, or    *)
(*                            the news that it has not is on its way, or   *)
(*                            was overtaken by the report that it came;    *)
(*   DeregisteredIsListed     list.remove never raises.                    *)
(*                                                                         *)
(* The argument is about Stream(c), what a process has reported and the    *)
(* controller has not handled.  Batches do not matter to it: Push leaves   *)
(* it as it is, a worker appends to it, the controller takes its head, and *)
(* a process that ends keeps a prefix of it.                               *)
(***************************************************************************)
EXTENDS CacheController, CollectionLemmas, SequenceTheorems, FiniteSetTheorems, TLAPS

Has(s, m) == \E i \in DOMAIN s : s[i] = m

\* Every report that k came is followed by one that it left.
Settled(s, w, k) ==
  \A i \in DOMAIN s : s[i] = KVAdmitMsg(w, k) =>
    \E j \in DOMAIN s : i < j /\ s[j] = KVEvictMsg(w, k)

\* A process reports about itself.
OwnMessages ==
  \A c \in Connections : \A i \in DOMAIN Stream(c) : Stream(c)[i].worker = c[1]

\* Nothing comes from a process before its start, and it leaves no queue behind.
Lives ==
  /\ \A c \in Connections : c[2] > starts[c[1]] => Stream(c) = <<>>
  /\ \A w \in Workers :
       /\ running[w] = "off" => msg_queue[w] = <<>>
       /\ running[w] # "off" => starts[w] > 0
       /\ starts[w] = 0 => \A k \in Keys : ~Known(w, k)

\* The keys of which a report that they came may be the last word.
Held(w) == cached[w] \cup overtaken[w]

\* What a write-back has yet to report is one of them.
WritesHeld == \A w \in Workers : \A p \in unreported[w] : p[2] \in Held(w)

\* Any other key: no report that it came is the last word, and if the controller
\* knows it, the word that it left is on its way.
PoolFollows ==
  \A w \in Workers, k \in Keys : FirstLife(w) /\ k \notin Held(w) =>
    /\ Settled(Stream(<<w, 1>>), w, k)
    /\ Known(w, k) => Has(Stream(<<w, 1>>), KVEvictMsg(w, k))

\* A process registers before anything else, and deregisters after everything.
RegisterFirst ==
  \A c \in Connections : \A i \in DOMAIN Stream(c) :
    Stream(c)[i] = RegisterMsg(c[1]) => i = 1
DeregisterLast ==
  \A c \in Connections : \A i \in DOMAIN Stream(c) :
    Stream(c)[i] = DeRegisterMsg(c[1]) =>
      /\ i = Len(Stream(c))
      /\ c[2] = starts[c[1]] => running[c[1]] # "up"

\* The processes of w that are registered, and may yet be deregistered.
Registered(w) ==
  {n \in 1 .. starts[w] :
     /\ ~Has(Stream(<<w, n>>), RegisterMsg(w))
     /\ \/ Has(Stream(<<w, n>>), DeRegisterMsg(w))
        \/ n = starts[w] /\ running[w] = "up"}

\* Each of them is one entry of the instance's list.
Counted ==
  \A w \in Workers : Cardinality(Registered(w)) <= controller.worker_mapping[w]

IInv == /\ TypeOK /\ OwnMessages /\ Lives /\ WritesHeld /\ PoolFollows
        /\ RegisterFirst /\ DeregisterLast /\ Counted

-----------------------------------------------------------------------------
(* Sequences.                                                              *)

\* The parts of a batch; only what they carry matters to the controller.
Parts      == [msg : Messages, more : BOOLEAN]
Msgs(p)    == [n \in DOMAIN p |-> p[n].msg]
InBatch(b) == [n \in DOMAIN b |-> [msg |-> b[n], more |-> n < Len(b)]]

\* A worker's queue, if c is the connection of its last process.
Queued(c) == IF c[2] = starts[c[1]] THEN msg_queue[c[1]] ELSE <<>>

LEMMA StreamIs ==
  \A c : /\ Stream(c) = Msgs(pipe[c]) \o Queued(c)
         /\ Stream(c)' = Msgs(pipe'[c]) \o Queued(c)'
BY DEF Stream, Msgs, Queued

LEMMA MsgsAre ==
  ASSUME NEW p \in Seq(Parts)
  PROVE  /\ Msgs(p) \in Seq(Messages) /\ Len(Msgs(p)) = Len(p)
         /\ \A i \in 1 .. Len(p) : Msgs(p)[i] = p[i].msg
<1>1. Len(p) \in Nat /\ DOMAIN p = 1 .. Len(p)
  BY LenProperties
<1>2. \A i \in 1 .. Len(p) : p[i] \in Parts
  BY ElementOfSeq
<1>3. \A i \in 1 .. Len(p) : p[i].msg \in Messages
  BY <1>2 DEF Parts
<1>4. Msgs(p) = [n \in 1 .. Len(p) |-> p[n].msg]
  BY <1>1 DEF Msgs
<1> QED
  BY <1>1, <1>3, <1>4

LEMMA TailOfConcat ==
  ASSUME NEW S, NEW s \in Seq(S), s # <<>>, NEW t \in Seq(S)
  PROVE  Head(s \o t) = Head(s) /\ Tail(s \o t) = Tail(s) \o t /\ s \o t # <<>>
<1>1. Len(s) \in Nat \ {0} /\ Len(t) \in Nat
  BY EmptySeq, LenProperties
<1>2. /\ s \o t \in Seq(S) /\ Len(s \o t) = Len(s) + Len(t)
      /\ \A i \in 1 .. Len(s) + Len(t) :
           (s \o t)[i] = IF i <= Len(s) THEN s[i] ELSE t[i - Len(s)]
  BY ConcatProperties
<1>3. s \o t # <<>>
  BY <1>1, <1>2, EmptySeq
<1>4. /\ Tail(s \o t) \in Seq(S) /\ Len(Tail(s \o t)) = Len(s \o t) - 1
      /\ \A i \in 1 .. Len(Tail(s \o t)) : Tail(s \o t)[i] = (s \o t)[i + 1]
  BY <1>2, <1>3, HeadTailProperties
<1>5. /\ Tail(s) \in Seq(S) /\ Len(Tail(s)) = Len(s) - 1
      /\ \A i \in 1 .. Len(Tail(s)) : Tail(s)[i] = s[i + 1]
  BY HeadTailProperties
<1>6. /\ Tail(s) \o t \in Seq(S) /\ Len(Tail(s) \o t) = Len(Tail(s)) + Len(t)
      /\ \A i \in 1 .. Len(Tail(s)) + Len(t) :
           (Tail(s) \o t)[i] = IF i <= Len(Tail(s)) THEN Tail(s)[i] ELSE t[i - Len(Tail(s))]
  BY <1>5, ConcatProperties
<1>7. Len(Tail(s \o t)) = Len(Tail(s) \o t)
  BY <1>1, <1>2, <1>4, <1>5, <1>6
<1>8. ASSUME NEW i \in 1 .. Len(Tail(s \o t)) PROVE Tail(s \o t)[i] = (Tail(s) \o t)[i]
  <2>1. i \in Nat /\ i >= 1 /\ i <= Len(s) + Len(t) - 1
    BY <1>1, <1>2, <1>4
  <2>2. Tail(s \o t)[i] = IF i + 1 <= Len(s) THEN s[i + 1] ELSE t[i + 1 - Len(s)]
    BY <2>1, <1>1, <1>2, <1>4
  <2>3. (Tail(s) \o t)[i] = IF i <= Len(s) - 1 THEN s[i + 1] ELSE t[i - (Len(s) - 1)]
    BY <2>1, <1>1, <1>5, <1>6
  <2> QED
    BY <2>1, <2>2, <2>3, <1>1
<1>9. Tail(s \o t) = Tail(s) \o t
  BY <1>4, <1>6, <1>7, <1>8, SeqEqual
<1>10. Head(s \o t) = Head(s)
  BY <1>1, <1>2, <1>3
<1> QED
  BY <1>3, <1>9, <1>10

LEMMA MsgsTail ==
  ASSUME NEW p \in Seq(Parts), p # <<>>
  PROVE  Msgs(p) # <<>> /\ Head(Msgs(p)) = Head(p).msg /\ Msgs(Tail(p)) = Tail(Msgs(p))
<1>1. Len(p) \in Nat \ {0}
  BY EmptySeq
<1>2. /\ Tail(p) \in Seq(Parts) /\ Len(Tail(p)) = Len(p) - 1
      /\ \A i \in 1 .. Len(Tail(p)) : Tail(p)[i] = p[i + 1]
  BY HeadTailProperties
<1>3. /\ Msgs(p) \in Seq(Messages) /\ Len(Msgs(p)) = Len(p)
      /\ \A i \in 1 .. Len(p) : Msgs(p)[i] = p[i].msg
  BY MsgsAre
<1>4. Msgs(p) # <<>>
  BY <1>1, <1>3, EmptySeq
<1>5. /\ Msgs(Tail(p)) \in Seq(Messages) /\ Len(Msgs(Tail(p))) = Len(p) - 1
      /\ \A i \in 1 .. Len(p) - 1 : Msgs(Tail(p))[i] = Tail(p)[i].msg
  BY <1>2, MsgsAre
<1>6. /\ Tail(Msgs(p)) \in Seq(Messages) /\ Len(Tail(Msgs(p))) = Len(p) - 1
      /\ \A i \in 1 .. Len(p) - 1 : Tail(Msgs(p))[i] = Msgs(p)[i + 1]
  BY <1>3, <1>4, HeadTailProperties
<1>7. ASSUME NEW i \in 1 .. Len(p) - 1 PROVE Msgs(Tail(p))[i] = Tail(Msgs(p))[i]
  <2>1. i + 1 \in 1 .. Len(p)
    BY <1>1
  <2> QED
    BY <2>1, <1>2, <1>3, <1>5, <1>6
<1>8. Msgs(Tail(p)) = Tail(Msgs(p))
  BY <1>5, <1>6, <1>7, SeqEqual
<1>9. Head(Msgs(p)) = Msgs(p)[1] /\ Head(p) = p[1]
  BY <1>4
<1> QED
  BY <1>1, <1>3, <1>4, <1>8, <1>9

LEMMA Prefix ==
  ASSUME NEW S, NEW s \in Seq(S), NEW n \in 0 .. Len(s)
  PROVE  /\ SubSeq(s, 1, n) \in Seq(S) /\ Len(SubSeq(s, 1, n)) = n
         /\ \A i \in 1 .. n : SubSeq(s, 1, n)[i] = s[i]
<1>1. Len(s) \in Nat
  BY LenProperties
<1>2. n \in Int /\ n >= 0 /\ \A i \in 1 .. n : s[i] \in S
  BY <1>1, ElementOfSeq
<1> QED
  BY <1>1, <1>2, SubSeqProperties

LEMMA MsgsPrefix ==
  ASSUME NEW p \in Seq(Parts), NEW t \in Seq(Messages), NEW n \in 0 .. Len(p)
  PROVE  /\ n \in 0 .. Len(Msgs(p) \o t)
         /\ Msgs(SubSeq(p, 1, n)) = SubSeq(Msgs(p) \o t, 1, n)
<1>1. Len(p) \in Nat /\ Len(t) \in Nat
  BY LenProperties
<1>2. /\ Msgs(p) \in Seq(Messages) /\ Len(Msgs(p)) = Len(p)
      /\ \A i \in 1 .. Len(p) : Msgs(p)[i] = p[i].msg
  BY MsgsAre
<1>3. /\ Msgs(p) \o t \in Seq(Messages)
      /\ Len(Msgs(p) \o t) = Len(Msgs(p)) + Len(t)
      /\ \A i \in 1 .. Len(Msgs(p)) + Len(t) :
           (Msgs(p) \o t)[i] = IF i <= Len(Msgs(p)) THEN Msgs(p)[i] ELSE t[i - Len(Msgs(p))]
  BY <1>2, ConcatProperties
<1>4. /\ SubSeq(p, 1, n) \in Seq(Parts) /\ Len(SubSeq(p, 1, n)) = n
      /\ \A i \in 1 .. n : SubSeq(p, 1, n)[i] = p[i]
  BY Prefix
<1>5. /\ Msgs(SubSeq(p, 1, n)) \in Seq(Messages) /\ Len(Msgs(SubSeq(p, 1, n))) = n
      /\ \A i \in 1 .. n : Msgs(SubSeq(p, 1, n))[i] = SubSeq(p, 1, n)[i].msg
  BY <1>4, MsgsAre
<1>6. n \in 0 .. Len(Msgs(p) \o t)
  BY <1>1, <1>2, <1>3
<1>7. /\ SubSeq(Msgs(p) \o t, 1, n) \in Seq(Messages) /\ Len(SubSeq(Msgs(p) \o t, 1, n)) = n
      /\ \A i \in 1 .. n : SubSeq(Msgs(p) \o t, 1, n)[i] = (Msgs(p) \o t)[i]
  BY <1>3, <1>6, Prefix
<1>8. ASSUME NEW i \in 1 .. n
      PROVE  Msgs(SubSeq(p, 1, n))[i] = SubSeq(Msgs(p) \o t, 1, n)[i]
  <2>1. i \in 1 .. Len(p) /\ i \in 1 .. Len(p) + Len(t) /\ i <= Len(p)
    BY <1>1
  <2> QED
    BY <2>1, <1>2, <1>3, <1>4, <1>5, <1>7
<1> QED
  BY <1>5, <1>6, <1>7, <1>8, SeqEqual

LEMMA MsgsOfBatch ==
  ASSUME NEW p \in Seq(Parts), NEW b \in Seq(Messages)
  PROVE  InBatch(b) \in Seq(Parts) /\ Msgs(p \o InBatch(b)) = Msgs(p) \o b
<1>1. Len(p) \in Nat /\ Len(b) \in Nat /\ DOMAIN b = 1 .. Len(b)
  BY LenProperties
<1>2. \A i \in 1 .. Len(b) : b[i] \in Messages
  BY ElementOfSeq
<1>3. \A i \in 1 .. Len(b) : [msg |-> b[i], more |-> i < Len(b)] \in Parts
  BY <1>2 DEF Parts
<1>4. InBatch(b) = [n \in 1 .. Len(b) |-> [msg |-> b[n], more |-> n < Len(b)]]
  BY <1>1 DEF InBatch
<1>5. InBatch(b) \in [1 .. Len(b) -> Parts]
  BY <1>3, <1>4
<1>6. InBatch(b) \in Seq(Parts) /\ Len(InBatch(b)) = Len(b)
  BY <1>1, <1>5
<1>7. \A i \in 1 .. Len(b) : InBatch(b)[i].msg = b[i]
  BY <1>4
<1>8. /\ p \o InBatch(b) \in Seq(Parts)
      /\ Len(p \o InBatch(b)) = Len(p) + Len(InBatch(b))
      /\ \A i \in 1 .. Len(p) + Len(InBatch(b)) :
           (p \o InBatch(b))[i] = IF i <= Len(p) THEN p[i] ELSE InBatch(b)[i - Len(p)]
  BY <1>6, ConcatProperties
<1>9. /\ Msgs(p \o InBatch(b)) \in Seq(Messages)
      /\ Len(Msgs(p \o InBatch(b))) = Len(p) + Len(b)
      /\ \A i \in 1 .. Len(p) + Len(b) : Msgs(p \o InBatch(b))[i] = (p \o InBatch(b))[i].msg
  BY <1>6, <1>8, MsgsAre
<1>10. /\ Msgs(p) \in Seq(Messages) /\ Len(Msgs(p)) = Len(p)
       /\ \A i \in 1 .. Len(p) : Msgs(p)[i] = p[i].msg
  BY MsgsAre
<1>11. /\ Msgs(p) \o b \in Seq(Messages)
       /\ Len(Msgs(p) \o b) = Len(Msgs(p)) + Len(b)
       /\ \A i \in 1 .. Len(Msgs(p)) + Len(b) :
            (Msgs(p) \o b)[i] = IF i <= Len(Msgs(p)) THEN Msgs(p)[i] ELSE b[i - Len(Msgs(p))]
  BY <1>10, ConcatProperties
<1>12. ASSUME NEW i \in 1 .. Len(p) + Len(b)
       PROVE  Msgs(p \o InBatch(b))[i] = (Msgs(p) \o b)[i]
  <2>1. CASE i <= Len(p)
    <3>1. i \in 1 .. Len(p)
      BY <1>1, <2>1
    <3> QED
      BY <3>1, <2>1, <1>6, <1>8, <1>9, <1>10, <1>11
  <2>2. CASE ~(i <= Len(p))
    <3>1. i - Len(p) \in 1 .. Len(b)
      BY <1>1, <2>2
    <3> QED
      BY <3>1, <2>2, <1>6, <1>7, <1>8, <1>9, <1>10, <1>11
  <2> QED
    BY <2>1, <2>2
<1> QED
  BY <1>6, <1>9, <1>10, <1>11, <1>12, SeqEqual

-----------------------------------------------------------------------------
(* The handlers.                                                           *)

Tables == [kv_pool          : [Keys -> SUBSET Workers],
           worker_mapping   : [Workers -> Nat],
           socket_mapping   : [Workers -> {"none", "ready", "sent", "replied", "lost"}],
           instance_mapping : [Ips -> Instances \cup {NoInstance}]]

\* What a handler makes of the pool and of the lists of workers.
Follows(d, c, m) ==
  /\ d \in Tables
  /\ \A w \in Workers, k \in Keys : w \in d.kv_pool[k] =>
       m = KVAdmitMsg(w, k) \/ (w \in c.kv_pool[k] /\ m # KVEvictMsg(w, k))
  /\ \A w \in Workers :
       d.worker_mapping[w] =
         IF m = RegisterMsg(w) THEN c.worker_mapping[w] + 1
         ELSE IF m = DeRegisterMsg(w) /\ c.worker_mapping[w] > 0
              THEN c.worker_mapping[w] - 1
              ELSE c.worker_mapping[w]

LEMMA HandlerFollows ==
  ASSUME ControllerAssumption, NEW c \in Tables, NEW m \in Messages
  PROVE  Follows(HandleWorkerMessage(c, m), c, m)
<1> DEFINE d == HandleWorkerMessage(c, m)
<1>1. /\ c.kv_pool \in [Keys -> SUBSET Workers] /\ c.worker_mapping \in [Workers -> Nat]
      /\ c.socket_mapping \in [Workers -> {"none", "ready", "sent", "replied", "lost"}]
      /\ c.instance_mapping \in [Ips -> Instances \cup {NoInstance}]
  BY DEF Tables
<1>2. ASSUME NEW w \in Workers, m = RegisterMsg(w) PROVE Follows(d, c, m)
  <2>1. m.type = "register" /\ m.worker = w /\ IpOf[w] \in Ips /\ InstanceOf[w] \in Instances
    BY <1>2 DEF RegisterMsg, ControllerAssumption
  <2>2. d = Register(c, w)
    BY <2>1 DEF HandleWorkerMessage
  <2>3. d \in Tables
    <3>1. [c.instance_mapping EXCEPT ![IpOf[w]] = InstanceOf[w]]
            \in [Ips -> Instances \cup {NoInstance}]
      BY <1>1, <2>1
    <3>2. [c.worker_mapping EXCEPT ![w] = @ + 1] \in [Workers -> Nat]
      BY <1>1
    <3>3. [c.socket_mapping EXCEPT ![w] = "ready"]
            \in [Workers -> {"none", "ready", "sent", "replied", "lost"}]
      BY <1>1
    <3> QED
      BY <1>1, <3>1, <3>2, <3>3, <2>2 DEF Tables, Register
  <2>4. d.kv_pool = c.kv_pool
    BY <2>2 DEF Register, Tables
  <2>5. d.worker_mapping = [c.worker_mapping EXCEPT ![w] = @ + 1]
    BY <2>2 DEF Register, Tables
  <2>6. \A v \in Workers : d.worker_mapping[v] =
                             IF v = w THEN c.worker_mapping[v] + 1 ELSE c.worker_mapping[v]
    BY <1>1, <2>5
  <2>7. \A v \in Workers : /\ m = RegisterMsg(v) <=> v = w
                           /\ m # DeRegisterMsg(v)
                           /\ \A k \in Keys : m # KVEvictMsg(v, k)
    BY <1>2 DEF RegisterMsg, DeRegisterMsg, KVEvictMsg
  <2> QED
    BY <2>3, <2>4, <2>6, <2>7 DEF Follows
<1>3. ASSUME NEW w \in Workers, m = DeRegisterMsg(w) PROVE Follows(d, c, m)
  <2>1. m.type = "deregister" /\ m.worker = w /\ IpOf[w] \in Ips
    BY <1>3 DEF DeRegisterMsg, ControllerAssumption
  <2>2. d = Deregister(c, w)
    BY <2>1 DEF HandleWorkerMessage
  <2>3. d \in Tables
    <3>1. [c.instance_mapping EXCEPT ![IpOf[w]] = NoInstance]
            \in [Ips -> Instances \cup {NoInstance}]
      BY <1>1, <2>1
    <3>2. [c.worker_mapping EXCEPT ![w] = IF @ = 0 THEN 0 ELSE @ - 1] \in [Workers -> Nat]
      BY <1>1
    <3>3. [c.socket_mapping EXCEPT ![w] = "none"]
            \in [Workers -> {"none", "ready", "sent", "replied", "lost"}]
      BY <1>1
    <3> QED
      BY <1>1, <3>1, <3>2, <3>3, <2>2 DEF Tables, Deregister
  <2>4. d.kv_pool = c.kv_pool
    BY <2>2 DEF Deregister, Tables
  <2>5. d.worker_mapping = [c.worker_mapping EXCEPT ![w] = IF @ = 0 THEN 0 ELSE @ - 1]
    BY <2>2 DEF Deregister, Tables
  <2>6. \A v \in Workers : d.worker_mapping[v] =
                             IF v = w /\ c.worker_mapping[v] > 0
                             THEN c.worker_mapping[v] - 1 ELSE c.worker_mapping[v]
    BY <1>1, <2>5
  <2>7. \A v \in Workers : /\ m = DeRegisterMsg(v) <=> v = w
                           /\ m # RegisterMsg(v)
                           /\ \A k \in Keys : m # KVEvictMsg(v, k)
    BY <1>3 DEF RegisterMsg, DeRegisterMsg, KVEvictMsg
  <2> QED
    BY <2>3, <2>4, <2>6, <2>7 DEF Follows
<1>4. ASSUME NEW w \in Workers, NEW k \in Keys, m = KVAdmitMsg(w, k) PROVE Follows(d, c, m)
  <2>1. m.type = "admit" /\ m.worker = w /\ m.key = k
    BY <1>4 DEF KVAdmitMsg
  <2>2. d = Admit(c, w, k)
    BY <2>1 DEF HandleWorkerMessage
  <2>3. d \in Tables
    BY <1>1, <2>2 DEF Tables, Admit
  <2>4. d.kv_pool = [c.kv_pool EXCEPT ![k] = {w}] /\ d.worker_mapping = c.worker_mapping
    BY <2>2 DEF Admit, Tables
  <2>5. \A v \in Workers, l \in Keys :
          v \in d.kv_pool[l] => (v = w /\ l = k) \/ (l # k /\ v \in c.kv_pool[l])
    BY <1>1, <2>4
  <2>6. \A v \in Workers, l \in Keys : m # KVEvictMsg(v, l)
    BY <1>4 DEF KVAdmitMsg, KVEvictMsg
  <2>7. \A v \in Workers : m # RegisterMsg(v) /\ m # DeRegisterMsg(v)
    BY <1>4 DEF KVAdmitMsg, RegisterMsg, DeRegisterMsg
  <2> QED
    BY <1>4, <2>3, <2>4, <2>5, <2>6, <2>7 DEF Follows
<1>5. ASSUME NEW w \in Workers, NEW k \in Keys, m = KVEvictMsg(w, k) PROVE Follows(d, c, m)
  <2>1. m.type = "evict" /\ m.worker = w /\ m.key = k
    BY <1>5 DEF KVEvictMsg
  <2>2. d = Evict(c, w, k)
    BY <2>1 DEF HandleWorkerMessage
  <2>3. d \in Tables
    BY <1>1, <2>2 DEF Tables, Evict
  <2>4. d.kv_pool = [c.kv_pool EXCEPT ![k] = @ \ {w}] /\ d.worker_mapping = c.worker_mapping
    BY <2>2 DEF Evict, Tables
  <2>5. \A v \in Workers, l \in Keys :
          v \in d.kv_pool[l] => v \in c.kv_pool[l] /\ ~(v = w /\ l = k)
    BY <1>1, <2>4
  <2>6. \A v \in Workers, l \in Keys : m = KVEvictMsg(v, l) => v = w /\ l = k
    BY <1>5 DEF KVEvictMsg
  <2>7. \A v \in Workers : m # RegisterMsg(v) /\ m # DeRegisterMsg(v)
    BY <1>5 DEF KVEvictMsg, RegisterMsg, DeRegisterMsg
  <2> QED
    BY <2>3, <2>4, <2>5, <2>6, <2>7 DEF Follows
<1> QED
  BY <1>2, <1>3, <1>4, <1>5 DEF Messages, DeRegisterMsgs

-----------------------------------------------------------------------------
(* Types.                                                                  *)

LEMMA MessageKinds ==
  \A w \in Workers :
    /\ {RegisterMsg(w), DeRegisterMsg(w)} \subseteq Messages
    /\ \A k \in Keys : {KVAdmitMsg(w, k), KVEvictMsg(w, k)} \subseteq Messages
BY DEF Messages, DeRegisterMsgs

\* The reports about the keys a clear removes.
ClearMsgs(w, S) == [n \in DOMAIN SetToSeq(S) |-> KVEvictMsg(w, SetToSeq(S)[n])]

LEMMA ClearMsgsAre ==
  ASSUME NEW w \in Workers, NEW S \in SUBSET Keys, IsFiniteSet(S)
  PROVE  /\ ClearMsgs(w, S) \in Seq(Messages)
         /\ \A n \in DOMAIN ClearMsgs(w, S) : \E k \in S : ClearMsgs(w, S)[n] = KVEvictMsg(w, k)
         /\ \A k \in S : Has(ClearMsgs(w, S), KVEvictMsg(w, k))
<1> DEFINE gone == SetToSeq(S)
<1>1. gone \in Seq(S) /\ Range(gone) = S
  BY SomeEnumeration, EnumerationIsAll
<1> HIDE DEF gone
<1>2. DOMAIN gone = 1 .. Len(gone) /\ Len(gone) \in Nat /\ \A n \in DOMAIN gone : gone[n] \in S
  BY <1>1, LenProperties, ElementOfSeq
<1>3. \A n \in DOMAIN gone : KVEvictMsg(w, gone[n]) \in Messages
  BY <1>2, MessageKinds
<1>4. ClearMsgs(w, S) = [n \in 1 .. Len(gone) |-> KVEvictMsg(w, gone[n])]
  BY <1>2 DEF ClearMsgs, gone
<1>5. ClearMsgs(w, S) \in [1 .. Len(gone) -> Messages]
  BY <1>2, <1>3, <1>4
<1>6. ClearMsgs(w, S) \in Seq(Messages)
  BY <1>2, <1>5
<1>7. \A k \in S : \E n \in DOMAIN gone : gone[n] = k
  BY <1>1 DEF Range
<1>8. \A n \in 1 .. Len(gone) : ClearMsgs(w, S)[n] = KVEvictMsg(w, gone[n])
  BY <1>4
<1>9. DOMAIN ClearMsgs(w, S) = 1 .. Len(gone)
  BY <1>4
<1> QED
  BY <1>2, <1>6, <1>7, <1>8, <1>9 DEF Has

WriteBacks == (UNION {Writers[w] : w \in Workers}) \X Keys

LEMMA TypesOf ==
  TypeOK <=> /\ running \in [Workers -> {"off", "up", "closing"}]
             /\ starts \in [Workers -> 0 .. MaxStarts]
             /\ cached \in [Workers -> SUBSET Keys] /\ overtaken \in [Workers -> SUBSET Keys]
             /\ unreported \in [Workers -> SUBSET WriteBacks]
             /\ msg_queue \in [Workers -> Seq(Messages)]
             /\ pipe \in [Connections -> Seq(Parts)]
             /\ handling \in SUBSET Connections
             /\ controller \in Tables
BY DEF TypeOK, Parts, Tables, WriteBacks

LEMMA TypesAfter ==
  TypeOK' <=> /\ running' \in [Workers -> {"off", "up", "closing"}]
              /\ starts' \in [Workers -> 0 .. MaxStarts]
              /\ cached' \in [Workers -> SUBSET Keys] /\ overtaken' \in [Workers -> SUBSET Keys]
              /\ unreported' \in [Workers -> SUBSET WriteBacks]
              /\ msg_queue' \in [Workers -> Seq(Messages)]
              /\ pipe' \in [Connections -> Seq(Parts)]
              /\ handling' \in SUBSET Connections
              /\ controller' \in Tables
BY DEF TypeOK, Parts, Tables, WriteBacks

LEMMA InitTypes == ControllerAssumption /\ Init => TypeOK
<1> SUFFICES ASSUME ControllerAssumption, Init PROVE TypeOK
  OBVIOUS
<1>1. controller \in Tables
  BY DEF Init, Tables
<1>2. MaxStarts \in Nat
  BY DEF ControllerAssumption
<1>3. <<>> \in Seq(Messages) /\ <<>> \in Seq(Parts)
  BY EmptySeq
<1> QED
  BY <1>1, <1>2, <1>3, TypesOf DEF Init

LEMMA PutTypes ==
  ASSUME TypeOK, NEW w \in Workers, NEW msgs \in Seq(Messages), PutMsgs(w, msgs)
  PROVE  msg_queue' \in [Workers -> Seq(Messages)]
<1>1. msg_queue[w] \o msgs \in Seq(Messages)
  BY ConcatProperties DEF TypeOK
<1> QED
  BY <1>1 DEF TypeOK, PutMsgs

LEMMA SingleMsg ==
  ASSUME NEW m \in Messages
  PROVE  <<m>> \in Seq(Messages) /\ Len(<<m>>) = 1 /\ <<m>>[1] = m /\ DOMAIN <<m>> = {1}
OBVIOUS

LEMMA SocketTypes ==
  ASSUME TypeOK, NEW w \in Workers, NEW s \in {"none", "ready", "sent", "replied", "lost"},
         controller' = [controller EXCEPT !.socket_mapping[w] = s]
  PROVE  /\ controller' \in Tables
         /\ controller'.kv_pool = controller.kv_pool
         /\ controller'.worker_mapping = controller.worker_mapping
<1>1. controller \in Tables
  BY TypesOf
<1>2. [controller.socket_mapping EXCEPT ![w] = s]
        \in [Workers -> {"none", "ready", "sent", "replied", "lost"}]
  BY <1>1 DEF Tables
<1> QED
  BY <1>1, <1>2 DEF Tables

LEMMA TypeStep == ControllerAssumption /\ TypeOK /\ [Next]_vars => TypeOK'
<1> SUFFICES ASSUME ControllerAssumption, TypeOK, [Next]_vars PROVE TypeOK'
  OBVIOUS
<1> USE TypesOf, TypesAfter
<1>a. MaxStarts \in Nat /\ MaxBatch \in Nat \ {0}
  BY DEF ControllerAssumption
<1>1. ASSUME NEW w \in Workers, Start(w) PROVE TypeOK'
  <2>1. <<RegisterMsg(w)>> \in Seq(Messages)
    BY SingleMsg, MessageKinds
  <2>2. starts' \in [Workers -> 0 .. MaxStarts]
    BY <1>1, <1>a DEF Start
  <2> QED
    BY <1>1, <2>1, <2>2 DEF Start
<1>b. ASSUME NEW w \in Workers, NEW K \in SUBSET Keys, Leave(w, K)
      PROVE  cached' \in [Workers -> SUBSET Keys] /\ overtaken' \in [Workers -> SUBSET Keys]
  BY <1>b DEF Leave
<1>12. ASSUME NEW w \in Workers, NEW t \in Writers[w], NEW k \in Keys, WriteBack(w, t, k)
       PROVE  TypeOK'
  <2>1. <<t, k>> \in WriteBacks
    BY Zenon DEF WriteBacks
  <2> QED
    BY <1>12, <2>1 DEF WriteBack
<1>13. ASSUME NEW w \in Workers, NEW t \in Writers[w], NEW k \in Keys, ReportWriteBack(w, t, k)
       PROVE  TypeOK'
  <2>1. <<KVAdmitMsg(w, k)>> \in Seq(Messages)
    BY SingleMsg, MessageKinds
  <2>2. msg_queue' \in [Workers -> Seq(Messages)]
    BY <1>13, <2>1, PutTypes DEF ReportWriteBack
  <2> QED
    BY <1>13, <2>2 DEF ReportWriteBack
<1>2. ASSUME NEW w \in Workers, NEW k \in Keys, Put(w, k) PROVE TypeOK'
  <2>1. <<KVAdmitMsg(w, k)>> \in Seq(Messages)
    BY SingleMsg, MessageKinds
  <2> QED
    BY <1>2, <2>1, PutTypes DEF Put
<1>3. ASSUME NEW w \in Workers, NEW k \in Keys, RemoveKey(w, k) PROVE TypeOK'
  <2>1. <<KVEvictMsg(w, k)>> \in Seq(Messages)
    BY SingleMsg, MessageKinds
  <2> QED
    BY <1>3, <1>b, <2>1, PutTypes DEF RemoveKey
<1>4. ASSUME NEW w \in Workers, Close(w) PROVE TypeOK'
  <2>1. <<DeRegisterMsg(w)>> \in Seq(Messages)
    BY SingleMsg, MessageKinds
  <2> QED
    BY <1>4, <2>1, PutTypes DEF Close
<1>5. ASSUME NEW w \in Workers, Stop(w) PROVE TypeOK'
  <2>1. PICK n \in 0 .. Len(pipe[<<w, starts[w]>>]) :
          pipe' = [pipe EXCEPT ![<<w, starts[w]>>] = SubSeq(@, 1, n)]
    BY <1>5 DEF Stop
  <2>2. pipe' \in [Connections -> Seq(Parts)]
    <3>1. CASE <<w, starts[w]>> \in Connections
      <4>1. SubSeq(pipe[<<w, starts[w]>>], 1, n) \in Seq(Parts)
        BY <3>1, Prefix
      <4> QED
        BY <2>1, <4>1
    <3>2. CASE <<w, starts[w]>> \notin Connections
      BY <2>1, <3>2
    <3> QED
      BY <3>1, <3>2
  <2>3. PICK s : /\ s \in {"none", "ready", "sent", "replied", "lost"}
                 /\ controller' = [controller EXCEPT !.socket_mapping[w] = s]
    <3>1. controller.socket_mapping[w] \in {"none", "ready", "sent", "replied", "lost"}
      BY DEF Tables
    <3> QED
      BY <1>5, <3>1 DEF Stop
  <2>4. controller' \in Tables
    BY <2>3, SocketTypes
  <2>5. <<>> \in Seq(Messages)
    BY EmptySeq
  <2> QED
    BY <1>5, <2>2, <2>4, <2>5 DEF Stop
<1>6. ASSUME NEW w \in Workers, Push(w) PROVE TypeOK'
  <2> DEFINE q == msg_queue[w]
             n == IF Len(q) < MaxBatch THEN Len(q) ELSE MaxBatch
             c == <<w, starts[w]>>
  <2>1. q \in Seq(Messages) /\ Len(q) \in Nat
    BY LenProperties
  <2>2. n \in 0 .. Len(q)
    BY <1>a, <2>1
  <2>3. SubSeq(q, 1, n) \in Seq(Messages)
    BY <2>1, <2>2, Prefix
  <2>4. SubSeq(q, n + 1, Len(q)) \in Seq(Messages)
    <3>1. \A i \in n + 1 .. Len(q) : q[i] \in Messages
      BY <2>1, <2>2, ElementOfSeq
    <3> QED
      BY <2>1, <2>2, <3>1, SubSeqProperties
  <2>5. pipe' = [pipe EXCEPT ![c] = @ \o InBatch(SubSeq(q, 1, n))]
    BY <1>6 DEF Push, Send, InBatch
  <2>6. pipe' \in [Connections -> Seq(Parts)]
    <3> HIDE DEF n
    <3>1. CASE c \in Connections
      <4>1. pipe[c] \in Seq(Parts) /\ InBatch(SubSeq(q, 1, n)) \in Seq(Parts)
        BY <3>1, <2>3, MsgsOfBatch
      <4>2. pipe[c] \o InBatch(SubSeq(q, 1, n)) \in Seq(Parts)
        BY <4>1, ConcatProperties
      <4> QED
        BY <2>5, <4>2
    <3>2. CASE c \notin Connections
      BY <2>5, <3>2
    <3> QED
      BY <3>1, <3>2
  <2>7. msg_queue' = [msg_queue EXCEPT ![w] = SubSeq(q, n + 1, Len(q))]
    BY <1>6 DEF Push
  <2>8. msg_queue' \in [Workers -> Seq(Messages)]
    BY <2>4, <2>7
  <2> QED
    BY <1>6, <2>6, <2>8 DEF Push
<1>7. ASSUME NEW w \in Workers, ReplyRead(w) PROVE TypeOK'
  <2>1. controller' \in Tables
    BY <1>7, SocketTypes DEF ReplyRead, SetSocket
  <2> QED
    BY <1>7, <2>1 DEF ReplyRead, worker
<1>8. ASSUME NEW w \in Workers, NEW K \in SUBSET Keys, WorkerClear(w, K) PROVE TypeOK'
  <2>1. IsFiniteSet(cached[w] \cap K) /\ cached[w] \cap K \in SUBSET Keys
    BY FS_Subset DEF ControllerAssumption
  <2>2. ClearMsgs(w, cached[w] \cap K) \in Seq(Messages)
    BY <2>1, ClearMsgsAre
  <2>3. PutMsgs(w, ClearMsgs(w, cached[w] \cap K))
    BY <1>8 DEF WorkerClear, ClearMsgs
  <2>4. msg_queue' \in [Workers -> Seq(Messages)]
    BY <2>2, <2>3, PutTypes
  <2>5. controller' \in Tables
    BY <1>8, SocketTypes DEF WorkerClear, SetSocket
  <2> QED
    BY <1>8, <1>b, <2>1, <2>4, <2>5 DEF WorkerClear
<1>9. ASSUME NEW c \in Connections, Receive(c) PROVE TypeOK'
  <2>1. pipe[c] \in Seq(Parts) /\ pipe[c] # <<>>
    BY <1>9 DEF Receive
  <2>2. Head(pipe[c]) \in Parts /\ Tail(pipe[c]) \in Seq(Parts)
    BY <2>1, HeadTailProperties
  <2>3. Head(pipe[c]).msg \in Messages /\ controller \in Tables
    BY <2>2 DEF Parts
  <2>4. controller' = HandleWorkerMessage(controller, Head(pipe[c]).msg)
    BY <1>9 DEF Receive
  <2>5. controller' \in Tables
    BY <2>3, <2>4, HandlerFollows DEF Follows
  <2>6. handling' \in SUBSET Connections
    BY <1>9 DEF Receive
  <2>7. pipe' \in [Connections -> Seq(Parts)]
    BY <1>9, <2>2 DEF Receive
  <2> QED
    BY <1>9, <2>5, <2>6, <2>7 DEF Receive, worker
<1>10. ASSUME NEW i \in Cleared, ClearBegin(i) PROVE TypeOK'
  <2>1. controller' \in Tables
    BY <1>10 DEF ClearBegin, Tables
  <2> QED
    BY <1>10, <2>1 DEF ClearBegin, worker
<1>11. CASE UNCHANGED vars
  BY <1>11 DEF vars, worker
<1> QED
  BY <1>1, <1>2, <1>3, <1>4, <1>5, <1>6, <1>7, <1>8, <1>9, <1>10, <1>11, <1>12, <1>13 DEF Next

-----------------------------------------------------------------------------
(* What the actions make of the streams.                                   *)

LEMMA ConnectionsAre ==
  /\ \A c \in Connections : c = <<c[1], c[2]>> /\ c[1] \in Workers /\ c[2] \in 1 .. MaxStarts
  /\ \A w \in Workers, n \in 1 .. MaxStarts : <<w, n>> \in Connections
BY DEF Connections

LEMMA PartsOfStream ==
  ASSUME TypeOK, NEW c \in Connections
  PROVE  /\ pipe[c] \in Seq(Parts) /\ Msgs(pipe[c]) \in Seq(Messages)
         /\ Queued(c) \in Seq(Messages) /\ Stream(c) \in Seq(Messages)
<1>1. pipe[c] \in Seq(Parts)
  BY TypesOf
<1>2. Msgs(pipe[c]) \in Seq(Messages)
  BY <1>1, MsgsAre
<1>3. Queued(c) \in Seq(Messages)
  BY TypesOf, ConnectionsAre, EmptySeq DEF Queued
<1> QED
  BY <1>1, <1>2, <1>3, StreamIs, ConcatProperties

Kept == \A c \in Connections : Stream(c)' = Stream(c)

Grows(w, msgs) ==
  \A c \in Connections :
    Stream(c)' = IF c = <<w, starts[w]>> THEN Stream(c) \o msgs ELSE Stream(c)

LEMMA PutGrows ==
  ASSUME TypeOK, NEW w \in Workers, NEW msgs \in Seq(Messages),
         PutMsgs(w, msgs), starts' = starts, pipe' = pipe
  PROVE  Grows(w, msgs)
<1> SUFFICES ASSUME NEW c \in Connections
             PROVE  Stream(c)' = IF c = <<w, starts[w]>> THEN Stream(c) \o msgs ELSE Stream(c)
  BY DEF Grows
<1>1. /\ Msgs(pipe[c]) \in Seq(Messages) /\ Queued(c) \in Seq(Messages)
      /\ c = <<c[1], c[2]>> /\ c[1] \in Workers
  BY PartsOfStream, ConnectionsAre
<1>2. msg_queue' = [msg_queue EXCEPT ![w] = @ \o msgs] /\ msg_queue \in [Workers -> Seq(Messages)]
  BY TypesOf DEF PutMsgs
<1>3. CASE c = <<w, starts[w]>>
  <2>1. c[1] = w /\ c[2] = starts[w]
    BY <1>3
  <2>2. Queued(c) = msg_queue[w] /\ Queued(c)' = msg_queue[w] \o msgs
    BY <1>2, <2>1 DEF Queued
  <2>3. Msgs(pipe[c]) \o (Queued(c) \o msgs) = (Msgs(pipe[c]) \o Queued(c)) \o msgs
    BY <1>1, ConcatAssociative
  <2> QED
    BY <1>3, <2>2, <2>3, StreamIs
<1>4. CASE c # <<w, starts[w]>>
  <2>1. ~(c[1] = w /\ c[2] = starts[w])
    BY <1>1, <1>4
  <2>2. Queued(c)' = Queued(c)
    BY <1>1, <1>2, <2>1 DEF Queued
  <2> QED
    BY <1>4, <2>2, StreamIs
<1> QED
  BY <1>3, <1>4

LEMMA PushKeeps ==
  ASSUME ControllerAssumption, TypeOK, Lives, NEW w \in Workers, Push(w)
  PROVE  Kept
<1> DEFINE q == msg_queue[w]
           n == IF Len(q) < MaxBatch THEN Len(q) ELSE MaxBatch
           d == <<w, starts[w]>>
           batch == SubSeq(q, 1, n)
           rest == SubSeq(q, n + 1, Len(q))
<1>1. q \in Seq(Messages) /\ Len(q) \in Nat /\ MaxBatch \in Nat \ {0}
  BY TypesOf, LenProperties DEF ControllerAssumption
<1>2. n \in 0 .. Len(q)
  BY <1>1
<1>3. /\ pipe' = [pipe EXCEPT ![d] = @ \o InBatch(batch)]
      /\ msg_queue' = [msg_queue EXCEPT ![w] = rest] /\ starts' = starts
  BY DEF Push, Send, InBatch
<1> HIDE DEF n
<1>4. batch \in Seq(Messages) /\ rest \in Seq(Messages)
  <2>1. \A i \in n + 1 .. Len(q) : q[i] \in Messages
    BY <1>1, <1>2, ElementOfSeq
  <2> QED
    BY <1>1, <1>2, <2>1, Prefix, SubSeqProperties
<1>5. batch \o rest = q
  <2>2. 1 \in 1 .. Len(q) + 1 /\ n \in 1 - 1 .. Len(q) /\ Len(q) \in n .. Len(q)
    BY <1>1, <1>2
  <2>1. SubSeq(q, 1, n) \o SubSeq(q, n + 1, Len(q)) = SubSeq(q, 1, Len(q))
    BY <1>1, <2>2, ConcatAdjacentSubSeq, Zenon
  <2> QED
    BY <1>1, <2>1, SubSeqFull
<1> HIDE DEF q, batch, rest
<1>6. SUFFICES ASSUME NEW c \in Connections PROVE Stream(c)' = Stream(c)
  BY DEF Kept
<1>7. /\ pipe[c] \in Seq(Parts) /\ Msgs(pipe[c]) \in Seq(Messages)
      /\ c = <<c[1], c[2]>> /\ c[1] \in Workers
  BY PartsOfStream, ConnectionsAre
<1>8. CASE c = d
  <2>1. c[1] = w /\ c[2] = starts[w]
    BY <1>8
  <2>2. Queued(c) = q /\ Queued(c)' = rest
    BY <1>3, <2>1, TypesOf DEF Queued, q
  <2>3. pipe'[c] = pipe[c] \o InBatch(batch)
    BY <1>3, <1>8, TypesOf
  <2>4. Msgs(pipe'[c]) = Msgs(pipe[c]) \o batch
    BY <1>4, <1>7, <2>3, MsgsOfBatch
  <2>5. (Msgs(pipe[c]) \o batch) \o rest = Msgs(pipe[c]) \o (batch \o rest)
    <3>1. Msgs(pipe[c]) \in Seq(Messages) /\ batch \in Seq(Messages) /\ rest \in Seq(Messages)
      BY <1>4, <1>7
    <3> QED
      BY ONLY <3>1, ConcatAssociative
  <2> QED
    BY <1>5, <2>2, <2>4, <2>5, StreamIs
<1>9. CASE c # d
  <2>1. ~(c[1] = w /\ c[2] = starts[w])
    BY <1>7, <1>9
  <2>2. Queued(c)' = Queued(c)
    BY <1>3, <1>7, <2>1, TypesOf DEF Queued
  <2>3. pipe'[c] = pipe[c]
    BY <1>3, <1>9, TypesOf
  <2> QED
    BY <2>2, <2>3, StreamIs
<1> QED
  BY <1>8, <1>9

\* A process that ends keeps a prefix of what it reported.
LEMMA StopCuts ==
  ASSUME ControllerAssumption, TypeOK, NEW w \in Workers, <<w, starts[w]>> \in Connections, Stop(w)
  PROVE  \A c \in Connections :
           IF c = <<w, starts[w]>>
           THEN \E n \in 0 .. Len(Stream(c)) : Stream(c)' = SubSeq(Stream(c), 1, n)
           ELSE Stream(c)' = Stream(c)
<1>d. PICK d \in Connections : d = <<w, starts[w]>>
  OBVIOUS
<1>1. PICK n \in 0 .. Len(pipe[d]) : pipe' = [pipe EXCEPT ![d] = SubSeq(@, 1, n)]
  BY <1>d DEF Stop
<1>2. msg_queue' = [msg_queue EXCEPT ![w] = <<>>] /\ starts' = starts
  BY DEF Stop
<1>3. d[1] = w /\ d[2] = starts[w]
  BY <1>d
<1>4. /\ pipe[d] \in Seq(Parts) /\ Msgs(pipe[d]) \in Seq(Messages)
      /\ Queued(d) \in Seq(Messages)
  BY PartsOfStream
<1>5. Queued(d)' = <<>>
  BY <1>2, <1>3, TypesOf DEF Queued
<1>6. pipe'[d] = SubSeq(pipe[d], 1, n)
  BY <1>1, TypesOf
<1>7. /\ n \in 0 .. Len(Msgs(pipe[d]) \o Queued(d))
      /\ Msgs(pipe'[d]) = SubSeq(Msgs(pipe[d]) \o Queued(d), 1, n)
  BY <1>1, <1>4, <1>6, MsgsPrefix
<1>8. SubSeq(pipe[d], 1, n) \in Seq(Parts)
  BY <1>1, <1>4, Prefix
<1>9. Msgs(pipe'[d]) \in Seq(Messages)
  BY <1>6, <1>8, MsgsAre
<1>10. Stream(d)' = SubSeq(Stream(d), 1, n) /\ n \in 0 .. Len(Stream(d))
  <2>1. Stream(d)' = Msgs(pipe'[d]) \o Queued(d)'
    BY StreamIs, Zenon
  <2>2. Msgs(pipe'[d]) \o <<>> = Msgs(pipe'[d])
    BY <1>9, ConcatEmptySeq
  <2>3. Stream(d)' = Msgs(pipe'[d])
    BY <1>5, <2>1, <2>2, Zenon
  <2>4. Stream(d) = Msgs(pipe[d]) \o Queued(d)
    BY StreamIs, Zenon
  <2> QED
    BY <1>7, <2>3, <2>4, Zenon
<1>11. ASSUME NEW c \in Connections, c # d PROVE Stream(c)' = Stream(c)
  <2>1. c = <<c[1], c[2]>> /\ c[1] \in Workers
    BY ConnectionsAre
  <2>2. ~(c[1] = w /\ c[2] = starts[w])
    BY <1>d, <1>11, <2>1
  <2>3. Queued(c)' = Queued(c)
    BY <1>2, <2>1, <2>2, TypesOf DEF Queued
  <2>4. pipe'[c] = pipe[c]
    BY <1>1, <1>11, TypesOf
  <2> QED
    BY <2>3, <2>4, StreamIs
<1> QED
  BY <1>d, <1>10, <1>11

LEMMA ReceiveTakes ==
  ASSUME TypeOK, NEW c \in Connections, Receive(c)
  PROVE  /\ Stream(c) # <<>> /\ Head(Stream(c)) = Head(pipe[c]).msg
         /\ Stream(c)' = Tail(Stream(c))
         /\ \A e \in Connections : e # c => Stream(e)' = Stream(e)
<1>1. /\ pipe[c] # <<>> /\ pipe' = [pipe EXCEPT ![c] = Tail(@)]
      /\ starts' = starts /\ msg_queue' = msg_queue
  BY DEF Receive, worker
<1>2. /\ pipe[c] \in Seq(Parts) /\ Msgs(pipe[c]) \in Seq(Messages)
      /\ Queued(c) \in Seq(Messages)
  BY PartsOfStream
<1>3. Msgs(pipe[c]) # <<>> /\ Head(Msgs(pipe[c])) = Head(pipe[c]).msg
      /\ Msgs(Tail(pipe[c])) = Tail(Msgs(pipe[c]))
  BY <1>1, <1>2, MsgsTail
<1>4. pipe'[c] = Tail(pipe[c]) /\ \A e \in Connections : e # c => pipe'[e] = pipe[e]
  BY <1>1, TypesOf
<1>5. \A e \in Connections : Queued(e)' = Queued(e)
  BY <1>1 DEF Queued
<1>6. /\ Head(Stream(c)) = Head(pipe[c]).msg /\ Stream(c) # <<>>
      /\ Tail(Stream(c)) = Tail(Msgs(pipe[c])) \o Queued(c)
  BY <1>2, <1>3, StreamIs, TailOfConcat
<1> QED
  BY <1>3, <1>4, <1>5, <1>6, StreamIs

LEMMA StartOpens ==
  ASSUME ControllerAssumption, TypeOK, Lives, NEW w \in Workers, Start(w)
  PROVE  /\ <<w, starts[w] + 1>> \in Connections
         /\ \A c \in Connections :
              Stream(c)' = IF c = <<w, starts[w] + 1>> THEN <<RegisterMsg(w)>> ELSE Stream(c)
<1>1. /\ starts[w] \in Nat /\ MaxStarts \in Nat /\ starts[w] < MaxStarts
      /\ running[w] = "off"
  BY TypesOf DEF Start, ControllerAssumption
<1>2. <<w, starts[w] + 1>> \in Connections
  BY <1>1, ConnectionsAre
<1>3. /\ starts' = [starts EXCEPT ![w] = @ + 1] /\ pipe' = pipe
      /\ msg_queue' = [msg_queue EXCEPT ![w] = <<RegisterMsg(w)>>]
  BY DEF Start
<1>4. msg_queue[w] = <<>>
  BY <1>1 DEF Lives
<1>5. ASSUME NEW c \in Connections
      PROVE  Stream(c)' = IF c = <<w, starts[w] + 1>> THEN <<RegisterMsg(w)>> ELSE Stream(c)
  <2>1. c = <<c[1], c[2]>> /\ c[1] \in Workers /\ c[2] \in 1 .. MaxStarts
    BY ConnectionsAre
  <2>2. /\ Msgs(pipe[c]) \in Seq(Messages) /\ Queued(c) \in Seq(Messages)
    BY PartsOfStream
  <2>3. CASE c = <<w, starts[w] + 1>>
    <3>1. c[1] = w /\ c[2] = starts[w] + 1
      BY <2>3
    <3>2. Stream(c) = <<>>
      BY <1>1, <3>1 DEF Lives
    <3>3. Msgs(pipe[c]) = <<>>
      BY <2>2, <3>2, StreamIs, ConcatEqualIffEmpty
    <3>4. Queued(c)' = <<RegisterMsg(w)>>
      BY <1>1, <1>3, <3>1, TypesOf DEF Queued
    <3>5. <<RegisterMsg(w)>> \in Seq(Messages)
      BY SingleMsg, MessageKinds
    <3>6. <<>> \o <<RegisterMsg(w)>> = <<RegisterMsg(w)>>
      BY <3>5, ConcatEmptySeq
    <3> QED
      BY <1>3, <2>3, <3>3, <3>4, <3>6, StreamIs
  <2>4. CASE c # <<w, starts[w] + 1>>
    <3>1. ~(c[1] = w /\ c[2] = starts[w] + 1)
      BY <2>1, <2>4
    <3>2. Queued(c)' = Queued(c)
      <4>1. CASE c[1] = w
        <5>1. c[2] # starts'[w]
          BY <1>1, <1>3, <3>1, <4>1, TypesOf
        <5>2. Queued(c)' = <<>>
          BY <4>1, <5>1 DEF Queued
        <5>3. Queued(c) = <<>>
          BY <1>4, <4>1 DEF Queued
        <5> QED
          BY <5>2, <5>3
      <4>2. CASE c[1] # w
        BY <1>3, <2>1, <4>2, TypesOf DEF Queued
      <4> QED
        BY <4>1, <4>2
    <3> QED
      BY <1>3, <2>4, <3>2, StreamIs
  <2> QED
    BY <2>3, <2>4
<1> QED
  BY <1>2, <1>5

-----------------------------------------------------------------------------
(* What a growing or shrinking sequence has.                               *)

LEMMA GrownSeq ==
  ASSUME NEW S, NEW s \in Seq(S), NEW m \in Seq(S)
  PROVE  /\ s \o m \in Seq(S) /\ Len(s \o m) = Len(s) + Len(m)
         /\ \A i \in DOMAIN (s \o m) :
              \/ i \in DOMAIN s /\ (s \o m)[i] = s[i]
              \/ \E n \in DOMAIN m : i = Len(s) + n /\ (s \o m)[i] = m[n]
         /\ \A i \in DOMAIN s : i \in DOMAIN (s \o m) /\ (s \o m)[i] = s[i]
         /\ \A n \in DOMAIN m : Len(s) + n \in DOMAIN (s \o m) /\ (s \o m)[Len(s) + n] = m[n]
<1>1. /\ s \o m \in Seq(S) /\ Len(s \o m) = Len(s) + Len(m)
      /\ \A i \in 1 .. Len(s) + Len(m) :
           (s \o m)[i] = IF i <= Len(s) THEN s[i] ELSE m[i - Len(s)]
  BY ConcatProperties
<1>2. /\ Len(s) \in Nat /\ DOMAIN s = 1 .. Len(s)
      /\ Len(m) \in Nat /\ DOMAIN m = 1 .. Len(m)
      /\ DOMAIN (s \o m) = 1 .. Len(s) + Len(m)
  BY <1>1, LenProperties
<1>3. ASSUME NEW i \in DOMAIN (s \o m)
      PROVE  \/ i \in DOMAIN s /\ (s \o m)[i] = s[i]
             \/ \E n \in DOMAIN m : i = Len(s) + n /\ (s \o m)[i] = m[n]
  <2>1. CASE i <= Len(s)
    BY <1>1, <1>2, <2>1
  <2>2. CASE ~(i <= Len(s))
    <3>1. i - Len(s) \in DOMAIN m /\ i = Len(s) + (i - Len(s))
      BY <1>2, <2>2
    <3> QED
      BY <1>1, <1>2, <2>2, <3>1
  <2> QED
    BY <2>1, <2>2
<1>4. ASSUME NEW i \in DOMAIN s PROVE i \in DOMAIN (s \o m) /\ (s \o m)[i] = s[i]
  BY <1>1, <1>2
<1>5. ASSUME NEW n \in DOMAIN m
      PROVE  Len(s) + n \in DOMAIN (s \o m) /\ (s \o m)[Len(s) + n] = m[n]
  <2>1. Len(s) + n \in 1 .. Len(s) + Len(m) /\ ~(Len(s) + n <= Len(s)) /\ (Len(s) + n) - Len(s) = n
    BY <1>2
  <2> QED
    BY <1>1, <1>2, <2>1
<1> QED
  BY <1>1, <1>3, <1>4, <1>5

LEMMA TakenSeq ==
  ASSUME NEW S, NEW s \in Seq(S), s # <<>>
  PROVE  /\ Tail(s) \in Seq(S) /\ Len(Tail(s)) = Len(s) - 1
         /\ Head(s) = s[1] /\ 1 \in DOMAIN s /\ Len(s) \in Nat \ {0}
         /\ \A i \in DOMAIN Tail(s) : i \in Nat \ {0} /\ i + 1 \in DOMAIN s /\ Tail(s)[i] = s[i + 1]
         /\ \A i \in DOMAIN s :
              /\ i \in Nat \ {0}
              /\ i # 1 => i - 1 \in DOMAIN Tail(s) /\ Tail(s)[i - 1] = s[i]
<1>1. Len(s) \in Nat \ {0} /\ DOMAIN s = 1 .. Len(s)
  BY EmptySeq, LenProperties
<1>2. /\ Tail(s) \in Seq(S) /\ Len(Tail(s)) = Len(s) - 1
      /\ \A i \in 1 .. Len(Tail(s)) : Tail(s)[i] = s[i + 1]
  BY HeadTailProperties
<1>3. DOMAIN Tail(s) = 1 .. Len(s) - 1
  BY <1>2, LenProperties
<1>4. ASSUME NEW i \in DOMAIN s, i # 1
      PROVE  i - 1 \in DOMAIN Tail(s) /\ Tail(s)[i - 1] = s[i]
  <2>1. i - 1 \in 1 .. Len(s) - 1 /\ (i - 1) + 1 = i
    BY <1>1, <1>4
  <2> QED
    BY <1>2, <1>3, <2>1
<1> QED
  BY <1>1, <1>2, <1>3, <1>4

LEMMA HasGrown ==
  ASSUME NEW S, NEW s \in Seq(S), NEW m \in Seq(S), NEW x
  PROVE  Has(s \o m, x) <=> Has(s, x) \/ Has(m, x)
<1> DEFINE r == s \o m
<1>1. /\ \A i \in DOMAIN r : \/ i \in DOMAIN s /\ r[i] = s[i]
                            \/ \E n \in DOMAIN m : i = Len(s) + n /\ r[i] = m[n]
      /\ \A i \in DOMAIN s : i \in DOMAIN r /\ r[i] = s[i]
      /\ \A n \in DOMAIN m : Len(s) + n \in DOMAIN r /\ r[Len(s) + n] = m[n]
  BY GrownSeq
<1> HIDE DEF r
<1>2. Has(r, x) <=> Has(s, x) \/ Has(m, x)
  BY <1>1 DEF Has
<1> QED
  BY <1>2 DEF r

LEMMA HasTaken ==
  ASSUME NEW S, NEW s \in Seq(S), s # <<>>, NEW x
  PROVE  /\ Has(Tail(s), x) => Has(s, x)
         /\ Has(s, x) => Head(s) = x \/ Has(Tail(s), x)
         /\ Has(s, Head(s))
<1> DEFINE r == Tail(s)
<1>1. /\ Head(s) = s[1] /\ 1 \in DOMAIN s
      /\ \A i \in DOMAIN r : i + 1 \in DOMAIN s /\ r[i] = s[i + 1]
      /\ \A i \in DOMAIN s : i # 1 => i - 1 \in DOMAIN r /\ r[i - 1] = s[i]
  BY TakenSeq
<1> HIDE DEF r
<1>2. Has(r, x) => Has(s, x)
  BY <1>1 DEF Has
<1>3. Has(s, x) => Head(s) = x \/ Has(r, x)
  BY <1>1 DEF Has
<1>4. Has(s, Head(s))
  BY <1>1 DEF Has
<1> QED
  BY <1>2, <1>3, <1>4 DEF r

LEMMA SettledGrown ==
  ASSUME NEW S, NEW s \in Seq(S), NEW m \in Seq(S), NEW w, NEW k,
         ~Has(m, KVAdmitMsg(w, k)), Settled(s, w, k) \/ Has(m, KVEvictMsg(w, k))
  PROVE  Settled(s \o m, w, k)
<1> DEFINE a == KVAdmitMsg(w, k)
           e == KVEvictMsg(w, k)
<1>1. SUFFICES ASSUME NEW i \in DOMAIN (s \o m), (s \o m)[i] = a
               PROVE  \E j \in DOMAIN (s \o m) : i < j /\ (s \o m)[j] = e
  BY DEF Settled
<1>2. i \in DOMAIN s /\ s[i] = a
  BY <1>1, GrownSeq DEF Has
<1>3. CASE Settled(s, w, k)
  <2>1. PICK j \in DOMAIN s : i < j /\ s[j] = e
    BY <1>2, <1>3 DEF Settled
  <2> QED
    BY <2>1, GrownSeq
<1>4. CASE Has(m, e)
  <2>1. PICK n \in DOMAIN m : m[n] = e
    BY <1>4 DEF Has
  <2>2. Len(s) + n \in DOMAIN (s \o m) /\ (s \o m)[Len(s) + n] = e
    BY <2>1, GrownSeq
  <2>3. i < Len(s) + n
    BY <1>2, LenProperties
  <2> QED
    BY <2>2, <2>3
<1> QED
  BY <1>3, <1>4

LEMMA SettledTaken ==
  ASSUME NEW S, NEW s \in Seq(S), s # <<>>, NEW w, NEW k, Settled(s, w, k)
  PROVE  /\ Settled(Tail(s), w, k)
         /\ Head(s) = KVAdmitMsg(w, k) => Has(Tail(s), KVEvictMsg(w, k))
<1> DEFINE a == KVAdmitMsg(w, k)
           e == KVEvictMsg(w, k)
<1>1. ASSUME NEW i \in DOMAIN s, s[i] = a
      PROVE  \E j \in DOMAIN Tail(s) : i - 1 < j /\ Tail(s)[j] = e
  <2>1. PICK j \in DOMAIN s : i < j /\ s[j] = e
    BY <1>1 DEF Settled
  <2>2. i \in Nat \ {0} /\ j \in Nat \ {0}
    BY TakenSeq
  <2>3. j # 1 /\ i - 1 < j - 1
    BY <2>1, <2>2
  <2> QED
    BY <2>1, <2>3, TakenSeq
<1>2. ASSUME NEW i \in DOMAIN Tail(s), Tail(s)[i] = a
      PROVE  \E j \in DOMAIN Tail(s) : i < j /\ Tail(s)[j] = e
  <2>1. i \in Nat \ {0} /\ i + 1 \in DOMAIN s /\ s[i + 1] = a
    BY <1>2, TakenSeq
  <2>2. PICK j \in DOMAIN Tail(s) : (i + 1) - 1 < j /\ Tail(s)[j] = e
    BY <1>1, <2>1
  <2> QED
    BY <2>1, <2>2
<1>3. Settled(Tail(s), w, k)
  BY <1>2 DEF Settled
<1>4. Head(s) = a => Has(Tail(s), e)
  BY <1>1, TakenSeq DEF Has
<1> QED
  BY <1>3, <1>4

-----------------------------------------------------------------------------
(* The kinds of steps.                                                     *)

SamePool == /\ controller'.kv_pool = controller.kv_pool
            /\ controller'.worker_mapping = controller.worker_mapping

\* Neither a process, nor a cache, nor a stream, nor the tables change.
Quiet ==
  /\ Kept /\ SamePool
  /\ running' = running /\ starts' = starts /\ \A w \in Workers : Held(w) \subseteq Held(w)'
  /\ \A w \in Workers : running[w] = "off" => msg_queue'[w] = msg_queue[w]

\* A process reports what enters and leaves its cache.
Reports(w, msgs) ==
  /\ running[w] = "up" /\ Grows(w, msgs) /\ SamePool
  /\ running' = running /\ starts' = starts
  /\ \A v \in Workers : v # w => Held(v)' = Held(v) /\ msg_queue'[v] = msg_queue[v]
  /\ \A n \in DOMAIN msgs : \E k \in Keys :
       \/ msgs[n] = KVAdmitMsg(w, k) /\ k \in Held(w)'
       \/ msgs[n] = KVEvictMsg(w, k)
  /\ \A k \in Held(w) \ Held(w)' : Has(msgs, KVEvictMsg(w, k))

\* Keys that leave the cache are still held if a write-back has yet to report them.
LEMMA LeaveKeeps ==
  ASSUME TypeOK, NEW w \in Workers, NEW K \in SUBSET Keys, Leave(w, K)
  PROVE  /\ \A v \in Workers : v # w => Held(v)' = Held(v)
         /\ Held(w) \ Held(w)' \subseteq K
         /\ \A p \in unreported[w] : p[2] \in Held(w) => p[2] \in Held(w)'
<1>1. /\ cached \in [Workers -> SUBSET Keys] /\ overtaken \in [Workers -> SUBSET Keys]
      /\ unreported \in [Workers -> SUBSET WriteBacks]
  BY TypesOf
<1>2. /\ cached' = [cached EXCEPT ![w] = @ \ K]
      /\ overtaken' = [overtaken EXCEPT ![w] =
           (@ \ K) \cup {k \in K : \E p \in unreported[w] : p[2] = k}]
  BY DEF Leave
<1> QED
  BY <1>1, <1>2 DEF Held

LEMMA StepKinds ==
  ASSUME ControllerAssumption, TypeOK, Lives, WritesHeld, [Next]_vars
  PROVE  \/ Quiet
         \/ \E w \in Workers : Start(w) \/ Close(w) \/ Stop(w)
         \/ \E w \in Workers, msgs \in Seq(Messages) : Reports(w, msgs)
         \/ \E c \in Connections : Receive(c)
<1>a. cached' = cached /\ overtaken' = overtaken => \A w \in Workers : Held(w)' = Held(w)
  BY DEF Held
<1>1. ASSUME NEW w \in Workers, Push(w) PROVE Quiet
  <2>1. \A v \in Workers : running[v] = "off" => msg_queue'[v] = msg_queue[v]
    BY <1>1, TypesOf DEF Push
  <2> QED
    BY <1>1, <1>a, <2>1, PushKeeps DEF Quiet, Push, SamePool
<1>2. starts' = starts /\ msg_queue' = msg_queue /\ pipe' = pipe => Kept
  BY DEF Kept, Stream
<1>3. ASSUME NEW w \in Workers, ReplyRead(w) PROVE Quiet
  <2>1. SamePool
    BY <1>3, SocketTypes DEF ReplyRead, SetSocket, SamePool
  <2> QED
    BY <1>2, <1>3, <1>a, <2>1 DEF Quiet, ReplyRead, worker
<1>4. ASSUME NEW i \in Cleared, ClearBegin(i) PROVE Quiet
  <2>1. SamePool
    BY <1>4, TypesOf DEF ClearBegin, SamePool, Tables
  <2> QED
    BY <1>2, <1>4, <1>a, <2>1 DEF Quiet, ClearBegin, worker
<1>5. CASE UNCHANGED vars
  BY <1>2, <1>5, <1>a DEF vars, worker, Quiet, SamePool
<1>9. ASSUME NEW w \in Workers, NEW t \in Writers[w], NEW k \in Keys, WriteBack(w, t, k) PROVE Quiet
  <2>1. /\ cached' = [cached EXCEPT ![w] = @ \cup {k}] /\ overtaken' = overtaken
        /\ running' = running /\ starts' = starts /\ msg_queue' = msg_queue
        /\ pipe' = pipe /\ controller' = controller
    BY <1>9 DEF WriteBack
  <2>2. \A v \in Workers : Held(v) \subseteq Held(v)'
    BY <2>1, TypesOf DEF Held
  <2> QED
    BY <1>2, <2>1, <2>2 DEF Quiet, SamePool
<1>10. ASSUME NEW w \in Workers, NEW t \in Writers[w], NEW k \in Keys, ReportWriteBack(w, t, k)
       PROVE  \E msgs \in Seq(Messages) : Reports(w, msgs)
  <2> DEFINE m == KVAdmitMsg(w, k)
  <2>1. <<m>> \in Seq(Messages) /\ DOMAIN <<m>> = {1} /\ <<m>>[1] = m
    BY SingleMsg, MessageKinds
  <2>2. Grows(w, <<m>>)
    BY <1>10, <2>1, PutGrows DEF ReportWriteBack
  <2>3. /\ cached' = cached /\ overtaken' = overtaken
        /\ msg_queue' = [msg_queue EXCEPT ![w] = @ \o <<m>>]
        /\ running[w] = "up" /\ running' = running /\ starts' = starts /\ controller' = controller
    BY <1>10 DEF ReportWriteBack, PutMsgs
  <2>4. k \in Held(w)' /\ Held(w) \ Held(w)' = {}
    <3>1. k \in Held(w)
      BY <1>10 DEF ReportWriteBack, WritesHeld
    <3> QED
      BY <1>a, <2>3, <3>1
  <2>5. \A v \in Workers : v # w => Held(v)' = Held(v) /\ msg_queue'[v] = msg_queue[v]
    BY <1>a, <2>3, TypesOf
  <2> QED
    BY <2>1, <2>2, <2>3, <2>4, <2>5 DEF Reports, SamePool
<1>6. ASSUME NEW w \in Workers, NEW k \in Keys, Put(w, k)
      PROVE  \E msgs \in Seq(Messages) : Reports(w, msgs)
  <2> DEFINE m == KVAdmitMsg(w, k)
  <2>1. <<m>> \in Seq(Messages) /\ DOMAIN <<m>> = {1} /\ <<m>>[1] = m
    BY SingleMsg, MessageKinds
  <2>2. Grows(w, <<m>>)
    BY <1>6, <2>1, PutGrows DEF Put
  <2>3. /\ cached' = [cached EXCEPT ![w] = @ \cup {k}] /\ overtaken' = overtaken
        /\ msg_queue' = [msg_queue EXCEPT ![w] = @ \o <<m>>]
        /\ running[w] = "up" /\ running' = running /\ starts' = starts /\ controller' = controller
    BY <1>6 DEF Put, PutMsgs
  <2>4. k \in Held(w)' /\ Held(w) \ Held(w)' = {}
    BY <2>3, TypesOf DEF Held
  <2>5. \A v \in Workers : v # w => Held(v)' = Held(v) /\ msg_queue'[v] = msg_queue[v]
    BY <2>3, TypesOf DEF Held
  <2> QED
    BY <2>1, <2>2, <2>3, <2>4, <2>5 DEF Reports, SamePool
<1>7. ASSUME NEW w \in Workers, NEW k \in Keys, RemoveKey(w, k)
      PROVE  \E msgs \in Seq(Messages) : Reports(w, msgs)
  <2> DEFINE m == KVEvictMsg(w, k)
  <2>1. <<m>> \in Seq(Messages) /\ DOMAIN <<m>> = {1} /\ <<m>>[1] = m
    BY SingleMsg, MessageKinds
  <2>2. Grows(w, <<m>>)
    BY <1>7, <2>1, PutGrows DEF RemoveKey
  <2>3. /\ Leave(w, {k})
        /\ msg_queue' = [msg_queue EXCEPT ![w] = @ \o <<m>>]
        /\ running[w] = "up" /\ running' = running /\ starts' = starts /\ controller' = controller
    BY <1>7 DEF RemoveKey, PutMsgs
  <2>4. \A l \in Held(w) \ Held(w)' : l = k
    BY <2>3, LeaveKeeps
  <2>5. \A v \in Workers : v # w => Held(v)' = Held(v) /\ msg_queue'[v] = msg_queue[v]
    <3>1. \A v \in Workers : v # w => Held(v)' = Held(v)
      BY <2>3, LeaveKeeps
    <3>2. msg_queue \in [Workers -> Seq(Messages)]
      BY TypesOf
    <3>3. \A v \in Workers : v # w => msg_queue'[v] = msg_queue[v]
      BY <2>3, <3>2
    <3> QED
      BY <3>1, <3>3
  <2>6. Has(<<m>>, m)
    BY <2>1 DEF Has
  <2> QED
    BY <2>1, <2>2, <2>3, <2>4, <2>5, <2>6 DEF Reports, SamePool
<1>8. ASSUME NEW w \in Workers, NEW K \in SUBSET Keys, WorkerClear(w, K)
      PROVE  \E msgs \in Seq(Messages) : Reports(w, msgs)
  <2> DEFINE msgs == ClearMsgs(w, cached[w] \cap K)
  <2>1. IsFiniteSet(cached[w] \cap K) /\ cached[w] \cap K \in SUBSET Keys
    BY FS_Subset, TypesOf DEF ControllerAssumption
  <2>2. /\ msgs \in Seq(Messages)
        /\ \A n \in DOMAIN msgs : \E k \in cached[w] \cap K : msgs[n] = KVEvictMsg(w, k)
        /\ \A k \in cached[w] \cap K : Has(msgs, KVEvictMsg(w, k))
    BY <2>1, ClearMsgsAre
  <2>3. PutMsgs(w, msgs)
    BY <1>8 DEF WorkerClear, ClearMsgs
  <2> HIDE DEF msgs
  <2>4. Grows(w, msgs)
    BY <1>8, <2>2, <2>3, PutGrows DEF WorkerClear
  <2>5. SamePool
    BY <1>8, SocketTypes DEF WorkerClear, SetSocket, SamePool
  <2>6. /\ Leave(w, cached[w] \cap K)
        /\ msg_queue' = [msg_queue EXCEPT ![w] = @ \o msgs]
        /\ running[w] = "up" /\ running' = running /\ starts' = starts
    BY <1>8, <2>3 DEF WorkerClear, PutMsgs
  <2>7. \A k \in Held(w) \ Held(w)' : k \in cached[w] \cap K
    BY <2>1, <2>6, LeaveKeeps
  <2>8. \A v \in Workers : v # w => Held(v)' = Held(v) /\ msg_queue'[v] = msg_queue[v]
    BY <2>1, <2>6, LeaveKeeps, TypesOf
  <2>9. \A n \in DOMAIN msgs : \E k \in Keys : msgs[n] = KVEvictMsg(w, k)
    BY <2>1, <2>2
  <2>10. Reports(w, msgs)
    BY <2>2, <2>4, <2>5, <2>6, <2>7, <2>8, <2>9 DEF Reports
  <2> QED
    BY <2>2, <2>10
<1> QED
  BY <1>1, <1>3, <1>4, <1>5, <1>6, <1>7, <1>8, <1>9, <1>10 DEF Next

-----------------------------------------------------------------------------
(* The invariant, part by part.                                            *)

LEMMA Kinds ==
  \A w, v, k, l :
    /\ RegisterMsg(w).worker = w /\ DeRegisterMsg(w).worker = w
    /\ KVAdmitMsg(w, k).worker = w /\ KVEvictMsg(w, k).worker = w
    /\ RegisterMsg(w) \notin {DeRegisterMsg(v), KVAdmitMsg(v, l), KVEvictMsg(v, l)}
    /\ DeRegisterMsg(w) \notin {KVAdmitMsg(v, l), KVEvictMsg(v, l)}
    /\ KVAdmitMsg(w, k) # KVEvictMsg(v, l)
    /\ KVAdmitMsg(w, k) = KVAdmitMsg(v, l) => w = v /\ k = l
    /\ KVEvictMsg(w, k) = KVEvictMsg(v, l) => w = v /\ k = l
BY DEF RegisterMsg, DeRegisterMsg, KVAdmitMsg, KVEvictMsg

\* The connection of a process that runs.
LEMMA OwnConnection ==
  ASSUME ControllerAssumption, TypeOK, Lives, NEW w \in Workers, running[w] # "off"
  PROVE  <<w, starts[w]>> \in Connections
<1>1. starts[w] > 0 /\ starts[w] \in 0 .. MaxStarts /\ MaxStarts \in Nat
  BY TypesOf DEF Lives, ControllerAssumption
<1>2. starts[w] \in 1 .. MaxStarts
  BY <1>1
<1> QED
  BY <1>2, ConnectionsAre

LEMMA CloseReports ==
  ASSUME TypeOK, NEW w \in Workers, Close(w)
  PROVE  /\ <<DeRegisterMsg(w)>> \in Seq(Messages) /\ Grows(w, <<DeRegisterMsg(w)>>)
         /\ running[w] = "up" /\ running' = [running EXCEPT ![w] = "closing"]
         /\ msg_queue' = [msg_queue EXCEPT ![w] = @ \o <<DeRegisterMsg(w)>>]
         /\ starts' = starts /\ (\A v \in Workers : Held(v)' = Held(v)) /\ SamePool
<1>1. <<DeRegisterMsg(w)>> \in Seq(Messages)
  BY SingleMsg, MessageKinds
<1>2. PutMsgs(w, <<DeRegisterMsg(w)>>)
  BY DEF Close
<1> QED
  BY <1>1, <1>2, PutGrows DEF Close, PutMsgs, SamePool, Held

LEMMA StopEnds ==
  ASSUME TypeOK, NEW w \in Workers, Stop(w)
  PROVE  /\ running[w] # "off" /\ running' = [running EXCEPT ![w] = "off"]
         /\ msg_queue' = [msg_queue EXCEPT ![w] = <<>>]
         /\ \A v \in Workers : v # w => Held(v)' = Held(v)
         /\ starts' = starts /\ SamePool
<1>1. PICK s : /\ s \in {"none", "ready", "sent", "replied", "lost"}
               /\ controller' = [controller EXCEPT !.socket_mapping[w] = s]
  <2>1. controller.socket_mapping[w] \in {"none", "ready", "sent", "replied", "lost"}
    BY TypesOf DEF Tables
  <2> QED
    BY <2>1 DEF Stop
<1>2. SamePool
  BY <1>1, SocketTypes DEF SamePool
<1>3. \A v \in Workers : v # w => Held(v)' = Held(v)
  BY TypesOf DEF Stop, Held
<1> QED
  BY <1>2, <1>3 DEF Stop

LEMMA ReceiveHandles ==
  ASSUME ControllerAssumption, TypeOK, NEW c \in Connections, Receive(c)
  PROVE  /\ Stream(c) \in Seq(Messages) /\ Stream(c) # <<>> /\ Stream(c)' = Tail(Stream(c))
         /\ \A e \in Connections : e # c => Stream(e)' = Stream(e)
         /\ Follows(controller', controller, Head(Stream(c)))
         /\ running' = running /\ starts' = starts /\ msg_queue' = msg_queue
         /\ \A v \in Workers : Held(v)' = Held(v)
<1>1. pipe[c] \in Seq(Parts) /\ pipe[c] # <<>>
  BY TypesOf DEF Receive
<1>2. Head(pipe[c]).msg \in Messages
  <2>1. Head(pipe[c]) \in Parts
    BY <1>1, HeadTailProperties
  <2> QED
    BY <2>1 DEF Parts
<1>3. controller' = HandleWorkerMessage(controller, Head(pipe[c]).msg)
  BY DEF Receive
<1>4. Follows(controller', controller, Head(pipe[c]).msg)
  BY <1>2, <1>3, HandlerFollows, TypesOf
<1> QED
  BY <1>4, ReceiveTakes, PartsOfStream DEF Receive, worker, Held

LEMMA OwnMessagesStep ==
  ASSUME ControllerAssumption, TypeOK, OwnMessages, Lives, WritesHeld, [Next]_vars
  PROVE  OwnMessages'
<1>1. SUFFICES ASSUME NEW c \in Connections, NEW i \in DOMAIN (Stream(c)')
               PROVE  (Stream(c)')[i].worker = c[1]
  BY DEF OwnMessages
<1>2. Stream(c) \in Seq(Messages) /\ \A n \in DOMAIN Stream(c) : Stream(c)[n].worker = c[1]
  BY PartsOfStream DEF OwnMessages
<1>3. ASSUME Stream(c)' = Stream(c) PROVE (Stream(c)')[i].worker = c[1]
  BY <1>2, <1>3
<1>4. ASSUME NEW w, NEW msgs \in Seq(Messages), Grows(w, msgs),
             \A n \in DOMAIN msgs : msgs[n].worker = w
      PROVE  (Stream(c)')[i].worker = c[1]
  <2>1. CASE c = <<w, starts[w]>>
    <3>1. Stream(c)' = Stream(c) \o msgs /\ c[1] = w
      BY <1>4, <2>1 DEF Grows
    <3>2. i \in DOMAIN (Stream(c) \o msgs)
      BY <1>1, <3>1
    <3>3. \/ i \in DOMAIN Stream(c) /\ (Stream(c) \o msgs)[i] = Stream(c)[i]
          \/ \E n \in DOMAIN msgs : (Stream(c) \o msgs)[i] = msgs[n]
      BY <1>2, <3>2, GrownSeq
    <3> QED
      BY <1>2, <1>4, <3>1, <3>3
  <2>2. CASE c # <<w, starts[w]>>
    BY <1>3, <1>4, <2>2 DEF Grows
  <2> QED
    BY <2>1, <2>2
<1>5. CASE Quiet
  BY <1>3, <1>5 DEF Quiet, Kept
<1>6. ASSUME NEW w \in Workers, Start(w) PROVE (Stream(c)')[i].worker = c[1]
  <2>1. Stream(c)' = IF c = <<w, starts[w] + 1>> THEN <<RegisterMsg(w)>> ELSE Stream(c)
    BY <1>6, StartOpens
  <2>2. CASE c = <<w, starts[w] + 1>>
    <3>1. Stream(c)' = <<RegisterMsg(w)>> /\ c[1] = w
      BY <2>1, <2>2
    <3>2. i = 1 /\ (Stream(c)')[i] = RegisterMsg(w)
      BY <1>1, <3>1
    <3> QED
      BY <3>1, <3>2, Kinds
  <2> QED
    BY <1>3, <2>1, <2>2
<1>7. ASSUME NEW w \in Workers, Close(w) PROVE (Stream(c)')[i].worker = c[1]
  <2> DEFINE msgs == <<DeRegisterMsg(w)>>
  <2>1. msgs \in Seq(Messages) /\ Grows(w, msgs)
    BY <1>7, CloseReports
  <2>2. \A n \in DOMAIN msgs : msgs[n].worker = w
    BY Kinds
  <2> HIDE DEF msgs
  <2> QED
    BY <1>4, <2>1, <2>2
<1>8. ASSUME NEW w \in Workers, Stop(w) PROVE (Stream(c)')[i].worker = c[1]
  <2>1. <<w, starts[w]>> \in Connections
    BY <1>8, StopEnds, OwnConnection
  <2>2. \/ Stream(c)' = Stream(c)
        \/ \E n \in 0 .. Len(Stream(c)) : Stream(c)' = SubSeq(Stream(c), 1, n)
    BY <1>8, <2>1, StopCuts
  <2>3. ASSUME NEW n \in 0 .. Len(Stream(c)), Stream(c)' = SubSeq(Stream(c), 1, n)
        PROVE  (Stream(c)')[i].worker = c[1]
    <3>1. /\ SubSeq(Stream(c), 1, n) \in Seq(Messages) /\ Len(SubSeq(Stream(c), 1, n)) = n
          /\ \A m \in 1 .. n : SubSeq(Stream(c), 1, n)[m] = Stream(c)[m]
      BY <1>2, Prefix
    <3>2. Len(Stream(c)) \in Nat /\ DOMAIN Stream(c) = 1 .. Len(Stream(c))
      BY <1>2, LenProperties
    <3>3. i \in 1 .. n
      BY <1>1, <2>3, <3>1, LenProperties
    <3>4. i \in DOMAIN Stream(c)
      BY <3>2, <3>3
    <3> QED
      BY <1>2, <2>3, <3>1, <3>3, <3>4
  <2> QED
    BY <1>3, <2>2, <2>3
<1>9. ASSUME NEW w \in Workers, NEW msgs \in Seq(Messages), Reports(w, msgs)
      PROVE  (Stream(c)')[i].worker = c[1]
  <2>1. Grows(w, msgs) /\ \A n \in DOMAIN msgs : msgs[n].worker = w
    BY <1>9, Kinds DEF Reports
  <2> QED
    BY <1>4, <2>1
<1>10. ASSUME NEW e \in Connections, Receive(e) PROVE (Stream(c)')[i].worker = c[1]
  <2>1. CASE c = e
    <3>1. Stream(c) # <<>> /\ Stream(c)' = Tail(Stream(c))
      BY <1>10, <2>1, ReceiveHandles
    <3>2. i \in DOMAIN Tail(Stream(c))
      BY <1>1, <3>1
    <3>3. i + 1 \in DOMAIN Stream(c) /\ Tail(Stream(c))[i] = Stream(c)[i + 1]
      BY <1>2, <3>1, <3>2, TakenSeq
    <3> QED
      BY <1>2, <3>1, <3>3
  <2>2. CASE c # e
    BY <1>3, <1>10, <2>2, ReceiveHandles
  <2> QED
    BY <2>1, <2>2
<1> QED
  BY <1>5, <1>6, <1>7, <1>8, <1>9, <1>10, StepKinds

\* What is handled concerns the process of the connection.
LEMMA HandlesOwn ==
  ASSUME ControllerAssumption, TypeOK, OwnMessages, Lives, NEW c \in Connections, Receive(c)
  PROVE  /\ Head(Stream(c)).worker = c[1] /\ c[2] <= starts[c[1]]
         /\ \A w \in Workers, k \in Keys : w \in controller'.kv_pool[k] =>
              \/ w \in controller.kv_pool[k] /\ Head(Stream(c)) # KVEvictMsg(w, k)
              \/ c[1] = w /\ Head(Stream(c)) = KVAdmitMsg(w, k)
<1>1. Stream(c) \in Seq(Messages) /\ Stream(c) # <<>>
  BY ReceiveHandles
<1>2. Head(Stream(c)) = Stream(c)[1] /\ 1 \in DOMAIN Stream(c)
  BY <1>1, TakenSeq
<1>3. Head(Stream(c)).worker = c[1]
  BY <1>2 DEF OwnMessages
<1>4. c[2] <= starts[c[1]]
  <2>1. ~(c[2] > starts[c[1]])
    BY <1>1 DEF Lives
  <2>2. c[2] \in 1 .. MaxStarts /\ starts[c[1]] \in 0 .. MaxStarts
    BY ConnectionsAre, TypesOf
  <2> QED
    BY <2>1, <2>2
<1>5. \A w \in Workers, k \in Keys : w \in controller'.kv_pool[k] =>
        \/ w \in controller.kv_pool[k] /\ Head(Stream(c)) # KVEvictMsg(w, k)
        \/ Head(Stream(c)) = KVAdmitMsg(w, k)
  BY ReceiveHandles DEF Follows
<1> QED
  BY <1>3, <1>4, <1>5, Kinds

LEMMA LivesStep ==
  ASSUME ControllerAssumption, TypeOK, TypeOK', OwnMessages, Lives, WritesHeld, [Next]_vars
  PROVE  Lives'
<1> DEFINE Silent(c)  == c[2] > starts'[c[1]] => Stream(c)' = <<>>
           Process(w) == /\ running'[w] = "off" => msg_queue'[w] = <<>>
                         /\ running'[w] # "off" => starts'[w] > 0
                         /\ starts'[w] = 0 => \A k \in Keys : w \notin controller'.kv_pool[k]
<1>1. SUFFICES (\A c \in Connections : Silent(c)) /\ (\A w \in Workers : Process(w))
  BY DEF Lives, Known
<1>2. /\ \A c \in Connections : c[2] > starts[c[1]] => Stream(c) = <<>>
      /\ \A w \in Workers :
           /\ running[w] = "off" => msg_queue[w] = <<>>
           /\ running[w] # "off" => starts[w] > 0
           /\ starts[w] = 0 => \A k \in Keys : w \notin controller.kv_pool[k]
  BY DEF Lives, Known
<1>3. ASSUME NEW w, NEW msgs, Grows(w, msgs), starts' = starts,
             NEW c \in Connections
      PROVE  Silent(c)
  <2>1. SUFFICES ASSUME c[2] > starts[c[1]] PROVE Stream(c)' = <<>>
    BY <1>3
  <2>2. c[2] \in 1 .. MaxStarts /\ starts[c[1]] \in 0 .. MaxStarts
    BY ConnectionsAre, TypesOf
  <2>3. c[2] # starts[c[1]]
    BY <2>1, <2>2
  <2>4. c # <<w, starts[w]>>
    BY <2>3
  <2> QED
    BY <1>2, <1>3, <2>1, <2>4 DEF Grows
<1>4. CASE Quiet
  BY <1>2, <1>4 DEF Quiet, Kept, SamePool
<1>5. ASSUME NEW w \in Workers, Start(w)
      PROVE  (\A c \in Connections : Silent(c)) /\ (\A v \in Workers : Process(v))
  <2>1. /\ running' = [running EXCEPT ![w] = "up"]
        /\ starts' = [starts EXCEPT ![w] = @ + 1]
        /\ msg_queue' = [msg_queue EXCEPT ![w] = <<RegisterMsg(w)>>]
        /\ controller' = controller
    BY <1>5 DEF Start
  <2>2. starts[w] \in Nat /\ \A v \in Workers : starts[v] \in Int
    BY TypesOf
  <2>3. /\ running'[w] = "up" /\ starts'[w] = starts[w] + 1
        /\ \A v \in Workers : v # w => /\ running'[v] = running[v] /\ starts'[v] = starts[v]
                                       /\ msg_queue'[v] = msg_queue[v]
    BY <2>1, TypesOf
  <2>4. ASSUME NEW c \in Connections PROVE Silent(c)
    <3>1. SUFFICES ASSUME c[2] > starts'[c[1]] PROVE Stream(c)' = <<>>
      OBVIOUS
    <3>2. c[1] \in Workers /\ c[2] \in Int
      BY ConnectionsAre
    <3>3. c # <<w, starts[w] + 1>>
      BY <2>2, <2>3, <3>1, <3>2
    <3>4. c[2] > starts[c[1]]
      BY <2>2, <2>3, <3>1, <3>2
    <3> QED
      BY <1>2, <1>5, <3>3, <3>4, StartOpens
  <2>5. ASSUME NEW v \in Workers PROVE Process(v)
    BY <1>2, <2>1, <2>2, <2>3
  <2> QED
    BY <2>4, <2>5
<1>6. ASSUME NEW w \in Workers, Close(w)
      PROVE  (\A c \in Connections : Silent(c)) /\ (\A v \in Workers : Process(v))
  <2>1. /\ Grows(w, <<DeRegisterMsg(w)>>) /\ running[w] = "up"
        /\ running' = [running EXCEPT ![w] = "closing"]
        /\ msg_queue' = [msg_queue EXCEPT ![w] = @ \o <<DeRegisterMsg(w)>>]
        /\ starts' = starts /\ controller'.kv_pool = controller.kv_pool
    BY <1>6, CloseReports DEF SamePool
  <2>2. /\ running'[w] = "closing"
        /\ \A v \in Workers : v # w => running'[v] = running[v] /\ msg_queue'[v] = msg_queue[v]
    BY <2>1, TypesOf
  <2> QED
    BY <1>2, <1>3, <2>1, <2>2
<1>7. ASSUME NEW w \in Workers, Stop(w)
      PROVE  (\A c \in Connections : Silent(c)) /\ (\A v \in Workers : Process(v))
  <2>1. /\ running[w] # "off" /\ running' = [running EXCEPT ![w] = "off"]
        /\ msg_queue' = [msg_queue EXCEPT ![w] = <<>>]
        /\ starts' = starts /\ controller'.kv_pool = controller.kv_pool
    BY <1>7, StopEnds DEF SamePool
  <2>2. /\ running'[w] = "off" /\ msg_queue'[w] = <<>>
        /\ \A v \in Workers : v # w => running'[v] = running[v] /\ msg_queue'[v] = msg_queue[v]
    BY <2>1, TypesOf
  <2>3. ASSUME NEW c \in Connections PROVE Silent(c)
    <3>1. SUFFICES ASSUME c[2] > starts[c[1]] PROVE Stream(c)' = <<>>
      BY <2>1
    <3>2. c[2] \in 1 .. MaxStarts /\ starts[c[1]] \in 0 .. MaxStarts
      BY ConnectionsAre, TypesOf
    <3>3. c # <<w, starts[w]>>
      BY <3>1, <3>2
    <3>4. <<w, starts[w]>> \in Connections
      BY <2>1, OwnConnection
    <3> QED
      BY <1>2, <1>7, <3>1, <3>3, <3>4, StopCuts
  <2> QED
    BY <1>2, <2>1, <2>2, <2>3
<1>8. ASSUME NEW w \in Workers, NEW msgs \in Seq(Messages), Reports(w, msgs)
      PROVE  (\A c \in Connections : Silent(c)) /\ (\A v \in Workers : Process(v))
  BY <1>2, <1>3, <1>8 DEF Reports, SamePool
<1>9. ASSUME NEW e \in Connections, Receive(e)
      PROVE  (\A c \in Connections : Silent(c)) /\ (\A v \in Workers : Process(v))
  <2>1. /\ Stream(e) # <<>> /\ \A c \in Connections : c # e => Stream(c)' = Stream(c)
        /\ running' = running /\ starts' = starts /\ msg_queue' = msg_queue
    BY <1>9, ReceiveHandles
  <2>2. ASSUME NEW c \in Connections PROVE Silent(c)
    BY <1>2, <2>1
  <2>3. ASSUME NEW v \in Workers, starts[v] = 0, NEW k \in Keys
        PROVE  v \notin controller'.kv_pool[k]
    <3>1. v \notin controller.kv_pool[k]
      BY <1>2, <2>3
    <3>2. e[2] <= starts[e[1]] /\ e[2] \in 1 .. MaxStarts
      BY <1>9, HandlesOwn, ConnectionsAre
    <3>3. e[1] # v
      BY <2>3, <3>2
    <3> QED
      BY <1>9, <3>1, <3>3, HandlesOwn
  <2> QED
    BY <1>2, <2>1, <2>2, <2>3
<1> QED
  BY <1>4, <1>5, <1>6, <1>7, <1>8, <1>9, StepKinds

LEMMA WritesHeldStep ==
  ASSUME TypeOK, WritesHeld, [Next]_vars
  PROVE  WritesHeld'
<1>1. /\ cached \in [Workers -> SUBSET Keys] /\ overtaken \in [Workers -> SUBSET Keys]
      /\ unreported \in [Workers -> SUBSET WriteBacks]
  BY TypesOf
<1>2. \A v \in Workers : \A p \in unreported[v] : p[2] \in Held(v)
  BY DEF WritesHeld
<1>3. ASSUME cached' = cached, overtaken' = overtaken, unreported' = unreported PROVE WritesHeld'
  BY <1>2, <1>3 DEF WritesHeld, Held
<1>4. ASSUME NEW w \in Workers, NEW K \in SUBSET Keys, Leave(w, K), unreported' = unreported
      PROVE  WritesHeld'
  <2>1. SUFFICES ASSUME NEW v \in Workers, NEW p \in unreported[v] PROVE p[2] \in Held(v)'
    BY <1>4 DEF WritesHeld
  <2> QED
    BY <1>2, <1>4, LeaveKeeps
<1>5. ASSUME NEW w \in Workers,
             Start(w) \/ Close(w) \/ Push(w) \/ ReplyRead(w)
      PROVE  WritesHeld'
  BY <1>3, <1>5 DEF Start, Close, Push, ReplyRead, worker
<1>6. ASSUME NEW w \in Workers, Stop(w) PROVE WritesHeld'
  <2>1. /\ cached' = [cached EXCEPT ![w] = {}] /\ overtaken' = [overtaken EXCEPT ![w] = {}]
        /\ unreported' = [unreported EXCEPT ![w] = {}]
    BY <1>6 DEF Stop
  <2> QED
    BY <1>1, <1>2, <2>1 DEF WritesHeld, Held
<1>7. ASSUME NEW w \in Workers, NEW k \in Keys, Put(w, k) PROVE WritesHeld'
  <2>1. /\ cached' = [cached EXCEPT ![w] = @ \cup {k}] /\ overtaken' = overtaken
        /\ unreported' = unreported
    BY <1>7 DEF Put
  <2> QED
    BY <1>1, <1>2, <2>1 DEF WritesHeld, Held
<1>8. ASSUME NEW w \in Workers, NEW k \in Keys, RemoveKey(w, k) PROVE WritesHeld'
  BY <1>4, <1>8 DEF RemoveKey
<1>9. ASSUME NEW w \in Workers, NEW K \in SUBSET Keys, WorkerClear(w, K) PROVE WritesHeld'
  <2>1. cached[w] \cap K \in SUBSET Keys
    BY <1>1
  <2> QED
    BY <1>4, <1>9, <2>1 DEF WorkerClear
<1>10. ASSUME NEW w \in Workers, NEW t \in Writers[w], NEW k \in Keys, WriteBack(w, t, k)
       PROVE  WritesHeld'
  <2>1. /\ cached' = [cached EXCEPT ![w] = @ \cup {k}] /\ overtaken' = overtaken
        /\ unreported' = [unreported EXCEPT ![w] = @ \cup {<<t, k>>}]
    BY <1>10 DEF WriteBack
  <2>2. SUFFICES ASSUME NEW v \in Workers, NEW p \in unreported'[v] PROVE p[2] \in Held(v)'
    BY DEF WritesHeld
  <2>3. p \in unreported[v] \/ (v = w /\ p = <<t, k>>)
    BY <1>1, <2>1
  <2>4. Held(v) \subseteq Held(v)' /\ k \in Held(w)'
    BY <1>1, <2>1 DEF Held
  <2> QED
    BY <1>2, <2>3, <2>4
<1>11. ASSUME NEW w \in Workers, NEW t \in Writers[w], NEW k \in Keys, ReportWriteBack(w, t, k)
       PROVE  WritesHeld'
  <2>1. /\ cached' = cached /\ overtaken' = overtaken
        /\ unreported' = [unreported EXCEPT ![w] = @ \ {<<t, k>>}]
    BY <1>11 DEF ReportWriteBack
  <2> QED
    BY <1>1, <1>2, <2>1 DEF WritesHeld, Held
<1>12. CASE UNCHANGED vars
  BY <1>3, <1>12 DEF vars, worker
<1>13. ASSUME NEW c \in Connections, Receive(c) PROVE WritesHeld'
  BY <1>3, <1>13 DEF Receive, worker
<1>14. ASSUME NEW i \in Cleared, ClearBegin(i) PROVE WritesHeld'
  BY <1>3, <1>14 DEF ClearBegin, worker
<1> QED
  BY <1>5, <1>6, <1>7, <1>8, <1>9, <1>10, <1>11, <1>12, <1>13, <1>14 DEF Next

LEMMA PoolFollowsStep ==
  ASSUME ControllerAssumption, TypeOK, OwnMessages, Lives, WritesHeld, PoolFollows, [Next]_vars
  PROVE  PoolFollows'
<1> DEFINE Fine(v, k, s, known) == /\ Settled(s, v, k)
                                   /\ known => Has(s, KVEvictMsg(v, k))
<1>1. SUFFICES ASSUME NEW v \in Workers, NEW k \in Keys,
                      starts'[v] = 1, running'[v] = "up", k \notin Held(v)'
               PROVE  Fine(v, k, Stream(<<v, 1>>)', v \in controller'.kv_pool[k])
  BY DEF PoolFollows, FirstLife, Known
<1> DEFINE d == <<v, 1>>
           known == v \in controller.kv_pool[k]
<1>2. /\ starts[v] = 1 /\ running[v] = "up" /\ k \notin Held(v)
        => Fine(v, k, Stream(d), known)
  BY DEF PoolFollows, FirstLife, Known
<1>3. d \in Connections
  <2>1. MaxStarts \in Nat \ {0}
    BY DEF ControllerAssumption
  <2> QED
    BY <2>1, ConnectionsAre
<1>4. Stream(d) \in Seq(Messages)
  BY <1>3, PartsOfStream
<1>5. ASSUME Stream(d)' = Stream(d), starts[v] = 1, running[v] = "up", k \notin Held(v),
             v \in controller'.kv_pool[k] => known
      PROVE  Fine(v, k, Stream(d)', v \in controller'.kv_pool[k])
  BY <1>2, <1>5
<1>6. CASE Quiet
  BY <1>1, <1>3, <1>5, <1>6 DEF Quiet, Kept, SamePool
<1>7. ASSUME NEW w \in Workers, Start(w)
      PROVE  Fine(v, k, Stream(d)', v \in controller'.kv_pool[k])
  <2>1. /\ running' = [running EXCEPT ![w] = "up"] /\ starts' = [starts EXCEPT ![w] = @ + 1]
        /\ (\A x \in Workers : Held(x)' = Held(x)) /\ controller' = controller
    BY <1>7 DEF Start, Held
  <2>2. Stream(d)' = IF d = <<w, starts[w] + 1>> THEN <<RegisterMsg(w)>> ELSE Stream(d)
    BY <1>3, <1>7, StartOpens
  <2>3. CASE v = w
    <3>1. starts[v] \in Nat /\ starts[v] + 1 = 1
      BY <1>1, <2>1, <2>3, TypesOf
    <3>2. starts[v] = 0
      BY <3>1
    <3>3. ~known
      BY <3>2 DEF Lives, Known
    <3>4. Stream(d)' = <<RegisterMsg(v)>>
      BY <2>2, <2>3, <3>1
    <3>5. Settled(<<RegisterMsg(v)>>, v, k)
      BY Kinds DEF Settled
    <3> QED
      BY <2>1, <3>3, <3>4, <3>5
  <2>4. CASE v # w
    <3>1. d # <<w, starts[w] + 1>>
      BY <2>4
    <3>2. starts[v] = 1 /\ running[v] = "up"
      BY <1>1, <2>1, <2>4, TypesOf
    <3> QED
      BY <1>1, <1>5, <2>1, <2>2, <3>1, <3>2
  <2> QED
    BY <2>3, <2>4
<1>8. ASSUME NEW w \in Workers, Close(w)
      PROVE  Fine(v, k, Stream(d)', v \in controller'.kv_pool[k])
  <2>1. /\ running' = [running EXCEPT ![w] = "closing"] /\ Grows(w, <<DeRegisterMsg(w)>>)
        /\ starts' = starts /\ Held(v)' = Held(v) /\ SamePool
    BY <1>8, CloseReports
  <2>2. v # w /\ running[v] = "up"
    BY <1>1, <2>1, TypesOf
  <2>3. d # <<w, starts[w]>>
    BY <2>2
  <2>4. Stream(d)' = Stream(d)
    BY <1>3, <2>1, <2>3 DEF Grows
  <2> QED
    BY <1>1, <1>5, <2>1, <2>2, <2>4 DEF SamePool
<1>9. ASSUME NEW w \in Workers, Stop(w)
      PROVE  Fine(v, k, Stream(d)', v \in controller'.kv_pool[k])
  <2>1. /\ running[w] # "off" /\ running' = [running EXCEPT ![w] = "off"]
        /\ starts' = starts /\ SamePool
    BY <1>9, StopEnds
  <2>2. v # w /\ running[v] = "up"
    BY <1>1, <2>1, TypesOf
  <2>3. d # <<w, starts[w]>> /\ <<w, starts[w]>> \in Connections /\ Held(v)' = Held(v)
    BY <1>9, <2>1, <2>2, OwnConnection, StopEnds
  <2>4. Stream(d)' = Stream(d)
    BY <1>3, <1>9, <2>3, StopCuts
  <2> QED
    BY <1>1, <1>5, <2>1, <2>2, <2>3, <2>4 DEF SamePool
<1>10. ASSUME NEW w \in Workers, NEW msgs \in Seq(Messages), Reports(w, msgs)
       PROVE  Fine(v, k, Stream(d)', v \in controller'.kv_pool[k])
  <2>1. starts[v] = 1 /\ running[v] = "up" /\ (v \in controller'.kv_pool[k] => known)
    BY <1>1, <1>10 DEF Reports, SamePool
  <2>2. CASE v = w
    <3>1. Stream(d)' = Stream(d) \o msgs
      BY <1>3, <1>10, <2>1, <2>2 DEF Reports, Grows
    <3>2. ~Has(msgs, KVAdmitMsg(v, k))
      <4>1. SUFFICES ASSUME NEW n \in DOMAIN msgs, msgs[n] = KVAdmitMsg(v, k) PROVE FALSE
        BY DEF Has
      <4>2. PICK l \in Keys : \/ msgs[n] = KVAdmitMsg(w, l) /\ l \in Held(w)'
                              \/ msgs[n] = KVEvictMsg(w, l)
        BY <1>10, <4>1 DEF Reports
      <4> QED
        BY <1>1, <2>2, <4>1, <4>2, Kinds
    <3>3. CASE k \in Held(v)
      <4>1. Has(msgs, KVEvictMsg(v, k))
        BY <1>1, <1>10, <2>2, <3>3 DEF Reports
      <4>2. Settled(Stream(d) \o msgs, v, k)
        BY <1>4, <3>2, <4>1, SettledGrown
      <4>3. Has(Stream(d) \o msgs, KVEvictMsg(v, k))
        BY <1>4, <4>1, HasGrown
      <4> QED
        BY <3>1, <4>2, <4>3
    <3>4. CASE k \notin Held(v)
      <4>1. Fine(v, k, Stream(d), known)
        BY <1>2, <2>1, <3>4
      <4>2. Settled(Stream(d) \o msgs, v, k)
        BY <1>4, <3>2, <4>1, SettledGrown
      <4>3. known => Has(Stream(d) \o msgs, KVEvictMsg(v, k))
        BY <1>4, <4>1, HasGrown
      <4> QED
        BY <2>1, <3>1, <4>2, <4>3
    <3> QED
      BY <3>3, <3>4
  <2>3. CASE v # w
    <3>1. d # <<w, starts[w]>> /\ Held(v)' = Held(v)
      BY <1>10, <2>3 DEF Reports
    <3>2. Stream(d)' = Stream(d)
      BY <1>3, <1>10, <3>1 DEF Reports, Grows
    <3> QED
      BY <1>1, <1>5, <2>1, <3>1, <3>2
  <2> QED
    BY <2>2, <2>3
<1>11. ASSUME NEW e \in Connections, Receive(e)
       PROVE  Fine(v, k, Stream(d)', v \in controller'.kv_pool[k])
  <2>1. starts[v] = 1 /\ running[v] = "up" /\ k \notin Held(v)
    BY <1>1, <1>11, ReceiveHandles
  <2>2. Fine(v, k, Stream(d), known)
    BY <1>2, <2>1
  <2>3. CASE e = d
    <3>1. Stream(d) # <<>> /\ Stream(d)' = Tail(Stream(d))
      BY <1>11, <2>3, ReceiveHandles
    <3>2. /\ Settled(Tail(Stream(d)), v, k)
          /\ Head(Stream(d)) = KVAdmitMsg(v, k) => Has(Tail(Stream(d)), KVEvictMsg(v, k))
      BY <1>4, <2>2, <3>1, SettledTaken
    <3>3. Has(Stream(d), KVEvictMsg(v, k)) =>
            Head(Stream(d)) = KVEvictMsg(v, k) \/ Has(Tail(Stream(d)), KVEvictMsg(v, k))
      BY <1>4, <3>1, HasTaken
    <3>4. v \in controller'.kv_pool[k] =>
            \/ known /\ Head(Stream(d)) # KVEvictMsg(v, k)
            \/ Head(Stream(d)) = KVAdmitMsg(v, k)
      BY <1>11, <2>3, HandlesOwn
    <3> QED
      BY <2>2, <3>1, <3>2, <3>3, <3>4
  <2>4. CASE e # d
    <3>1. Stream(d)' = Stream(d)
      BY <1>3, <1>11, <2>4, ReceiveHandles
    <3>2. e[1] # v
      <4>1. e[2] <= starts[e[1]] /\ e[2] \in 1 .. MaxStarts /\ e = <<e[1], e[2]>>
        BY <1>11, HandlesOwn, ConnectionsAre
      <4> QED
        BY <2>1, <2>4, <4>1
    <3>3. v \in controller'.kv_pool[k] => known
      BY <1>11, <3>2, HandlesOwn
    <3> QED
      BY <1>5, <2>1, <3>1, <3>3
  <2> QED
    BY <2>3, <2>4
<1> QED
  BY <1>6, <1>7, <1>8, <1>9, <1>10, <1>11, StepKinds

LEMMA OrderStep ==
  ASSUME ControllerAssumption, TypeOK, TypeOK', Lives, WritesHeld, RegisterFirst,
         DeregisterLast, [Next]_vars
  PROVE  RegisterFirst' /\ DeregisterLast'
<1> DEFINE Fine(c, s, up) ==
             /\ \A i \in DOMAIN s : s[i] = RegisterMsg(c[1]) => i = 1
             /\ \A i \in DOMAIN s : s[i] = DeRegisterMsg(c[1]) => i = Len(s) /\ ~up
           Up(c) == c[2] = starts[c[1]] /\ running[c[1]] = "up"
           UpAfter(c) == c[2] = starts'[c[1]] /\ running'[c[1]] = "up"
<1>1. SUFFICES ASSUME NEW c \in Connections PROVE Fine(c, Stream(c)', UpAfter(c))
  BY DEF RegisterFirst, DeregisterLast
<1>2. Fine(c, Stream(c), Up(c))
  BY DEF RegisterFirst, DeregisterLast
<1>3. Stream(c) \in Seq(Messages) /\ c = <<c[1], c[2]>> /\ c[1] \in Workers
  BY PartsOfStream, ConnectionsAre
<1>4. ASSUME Stream(c)' = Stream(c), UpAfter(c) => Up(c)
      PROVE  Fine(c, Stream(c)', UpAfter(c))
  BY <1>2, <1>4
<1>5. ASSUME NEW w \in Workers, NEW msgs \in Seq(Messages), Grows(w, msgs), starts' = starts,
             running[w] = "up", \A v \in Workers : v # w => running'[v] = running[v],
             \A n \in DOMAIN msgs : /\ msgs[n] # RegisterMsg(w)
                                    /\ msgs[n] = DeRegisterMsg(w) =>
                                         n = Len(msgs) /\ running'[w] # "up"
      PROVE  Fine(c, Stream(c)', UpAfter(c))
  <2>1. CASE c = <<w, starts[w]>>
    <3>1. Stream(c)' = Stream(c) \o msgs /\ c[1] = w /\ c[2] = starts[w]
      BY <1>5, <2>1 DEF Grows
    <3>2. Up(c)
      BY <1>5, <3>1
    <3>3. \A i \in DOMAIN Stream(c) : Stream(c)[i] # DeRegisterMsg(w)
      BY <1>2, <3>1, <3>2
    <3>4. \A i \in DOMAIN Stream(c) : Stream(c)[i] = RegisterMsg(w) => i = 1
      BY <1>2, <3>1
    <3> DEFINE r == Stream(c) \o msgs
    <3>5. /\ Len(r) = Len(Stream(c)) + Len(msgs)
          /\ \A i \in DOMAIN r :
               \/ i \in DOMAIN Stream(c) /\ r[i] = Stream(c)[i]
               \/ \E n \in DOMAIN msgs : i = Len(Stream(c)) + n /\ r[i] = msgs[n]
      BY <1>3, GrownSeq
    <3> HIDE DEF r
    <3>6. \A i \in DOMAIN r : r[i] = RegisterMsg(w) => i = 1
      BY <1>5, <3>4, <3>5
    <3>7. \A i \in DOMAIN r : r[i] = DeRegisterMsg(w) => i = Len(r) /\ running'[w] # "up"
      BY <1>5, <3>3, <3>5
    <3> QED
      BY <3>1, <3>6, <3>7 DEF r
  <2>2. CASE c # <<w, starts[w]>>
    <3>1. Stream(c)' = Stream(c)
      BY <1>5, <2>2 DEF Grows
    <3>2. UpAfter(c) => Up(c)
      BY <1>3, <1>5, <2>2
    <3> QED
      BY <1>4, <3>1, <3>2
  <2> QED
    BY <2>1, <2>2
<1>6. CASE Quiet
  BY <1>4, <1>6 DEF Quiet, Kept
<1>7. ASSUME NEW w \in Workers, Start(w) PROVE Fine(c, Stream(c)', UpAfter(c))
  <2>1. Stream(c)' = IF c = <<w, starts[w] + 1>> THEN <<RegisterMsg(w)>> ELSE Stream(c)
    BY <1>7, StartOpens
  <2>2. CASE c = <<w, starts[w] + 1>>
    <3>1. Stream(c)' = <<RegisterMsg(w)>>
      BY <2>1, <2>2
    <3>2. Fine(c, <<RegisterMsg(w)>>, UpAfter(c))
      BY Kinds
    <3> QED
      BY <3>1, <3>2
  <2>3. CASE c # <<w, starts[w] + 1>>
    <3>1. starts' = [starts EXCEPT ![w] = @ + 1] /\ running' = [running EXCEPT ![w] = "up"]
      BY <1>7 DEF Start
    <3>2. UpAfter(c) => Up(c)
      BY <1>3, <2>3, <3>1, TypesOf
    <3> QED
      BY <1>4, <2>1, <2>3, <3>2
  <2> QED
    BY <2>2, <2>3
<1>8. ASSUME NEW w \in Workers, Close(w) PROVE Fine(c, Stream(c)', UpAfter(c))
  <2> DEFINE msgs == <<DeRegisterMsg(w)>>
  <2>1. /\ msgs \in Seq(Messages) /\ Grows(w, msgs) /\ starts' = starts /\ running[w] = "up"
        /\ running' = [running EXCEPT ![w] = "closing"]
    BY <1>8, CloseReports
  <2>2. running'[w] # "up" /\ \A v \in Workers : v # w => running'[v] = running[v]
    BY <2>1, TypesOf
  <2>3. \A n \in DOMAIN msgs : msgs[n] # RegisterMsg(w) /\ n = Len(msgs)
    BY Kinds
  <2> HIDE DEF msgs
  <2> QED
    BY <1>5, <2>1, <2>2, <2>3
<1>9. ASSUME NEW w \in Workers, Stop(w) PROVE Fine(c, Stream(c)', UpAfter(c))
  <2>1. /\ running[w] # "off" /\ running' = [running EXCEPT ![w] = "off"] /\ starts' = starts
    BY <1>9, StopEnds
  <2>2. UpAfter(c) => Up(c)
    BY <1>3, <2>1, TypesOf
  <2>3. \/ Stream(c)' = Stream(c)
        \/ \E n \in 0 .. Len(Stream(c)) :
             Stream(c)' = SubSeq(Stream(c), 1, n) /\ c = <<w, starts[w]>>
    BY <1>9, <2>1, OwnConnection, StopCuts
  <2>4. ASSUME NEW n \in 0 .. Len(Stream(c)), Stream(c)' = SubSeq(Stream(c), 1, n),
               c = <<w, starts[w]>>
        PROVE  Fine(c, Stream(c)', UpAfter(c))
    <3> DEFINE s == Stream(c)
               r == SubSeq(s, 1, n)
    <3>1. /\ r \in Seq(Messages) /\ Len(r) = n /\ \A i \in 1 .. n : r[i] = s[i]
      BY <1>3, Prefix
    <3>2. Len(s) \in Nat /\ DOMAIN s = 1 .. Len(s) /\ DOMAIN r = 1 .. n
      BY <1>3, <3>1, LenProperties
    <3>3. ~UpAfter(c)
      BY <2>1, <2>4, TypesOf
    <3>4. \A i \in DOMAIN r : i \in DOMAIN s /\ r[i] = s[i] /\ (i = Len(s) => i = Len(r))
      BY <3>1, <3>2
    <3> HIDE DEF r
    <3>5. Fine(c, r, UpAfter(c))
      BY <1>2, <3>3, <3>4
    <3> QED
      BY <2>4, <3>5 DEF r
  <2> QED
    BY <1>4, <2>2, <2>3, <2>4
<1>10. ASSUME NEW w \in Workers, NEW msgs \in Seq(Messages), Reports(w, msgs)
       PROVE  Fine(c, Stream(c)', UpAfter(c))
  <2>1. /\ Grows(w, msgs) /\ starts' = starts /\ running[w] = "up" /\ running' = running
    BY <1>10 DEF Reports
  <2>2. \A n \in DOMAIN msgs : msgs[n] # RegisterMsg(w) /\ msgs[n] # DeRegisterMsg(w)
    <3>1. \A n \in DOMAIN msgs : \E k \in Keys : msgs[n] \in {KVAdmitMsg(w, k), KVEvictMsg(w, k)}
      BY <1>10 DEF Reports
    <3> QED
      BY <3>1, Kinds
  <2> QED
    BY <1>5, <2>1, <2>2
<1>11. ASSUME NEW e \in Connections, Receive(e) PROVE Fine(c, Stream(c)', UpAfter(c))
  <2>1. running' = running /\ starts' = starts
    BY <1>11, ReceiveHandles
  <2>2. CASE c = e
    <3> DEFINE s == Stream(c)
               r == Tail(s)
    <3>1. s # <<>> /\ Stream(c)' = r
      BY <1>11, <2>2, ReceiveHandles
    <3>2. /\ Len(r) = Len(s) - 1
          /\ \A i \in DOMAIN r : i \in Nat \ {0} /\ i + 1 \in DOMAIN s /\ r[i] = s[i + 1]
          /\ Len(s) \in Nat \ {0}
      BY <1>3, <3>1, TakenSeq
    <3> HIDE DEF r
    <3>3. ASSUME NEW i \in DOMAIN r
          PROVE  /\ r[i] # RegisterMsg(c[1])
                 /\ r[i] = DeRegisterMsg(c[1]) => i = Len(r) /\ ~Up(c)
      <4>1. i \in Nat \ {0} /\ i + 1 \in DOMAIN s /\ r[i] = s[i + 1]
        BY <3>2
      <4>2. /\ s[i + 1] = RegisterMsg(c[1]) => i + 1 = 1
            /\ s[i + 1] = DeRegisterMsg(c[1]) => i + 1 = Len(s) /\ ~Up(c)
        BY <1>2, <4>1
      <4> HIDE DEF s
      <4> QED
        BY <3>2, <4>1, <4>2
    <3> QED
      BY <2>1, <3>1, <3>3
  <2>3. CASE c # e
    BY <1>4, <1>11, <2>1, <2>3, ReceiveHandles
  <2> QED
    BY <2>2, <2>3
<1> QED
  BY <1>6, <1>7, <1>8, <1>9, <1>10, <1>11, StepKinds

LEMMA RegisteredFinite ==
  ASSUME TypeOK, NEW w \in Workers
  PROVE  IsFiniteSet(Registered(w)) /\ Cardinality(Registered(w)) \in Nat
<1>1. IsFiniteSet(1 .. starts[w])
  BY FS_Interval, TypesOf
<1>2. Registered(w) \subseteq 1 .. starts[w]
  BY DEF Registered
<1> QED
  BY <1>1, <1>2, FS_Subset, FS_CardinalityType

\* The deregistration of a process is alone in its stream when it is handled, and
\* counted until then.
LEMMA DeregisteredIsCounted ==
  ASSUME TypeOK, Lives, DeregisterLast, NEW c \in Connections, Stream(c) # <<>>,
         Head(Stream(c)) = DeRegisterMsg(c[1])
  PROVE  /\ c[2] \in Registered(c[1]) /\ Len(Stream(c)) = 1
         /\ c[2] = starts[c[1]] => running[c[1]] # "up"
<1>1. Stream(c) \in Seq(Messages) /\ c = <<c[1], c[2]>> /\ c[1] \in Workers
      /\ c[2] \in 1 .. MaxStarts
  BY PartsOfStream, ConnectionsAre
<1>2. 1 \in DOMAIN Stream(c) /\ Stream(c)[1] = DeRegisterMsg(c[1])
  BY <1>1, TakenSeq
<1>3. Len(Stream(c)) = 1 /\ (c[2] = starts[c[1]] => running[c[1]] # "up")
  BY <1>2 DEF DeregisterLast
<1>4. DOMAIN Stream(c) = {1}
  BY <1>1, <1>3, LenProperties
<1>5. Has(Stream(c), DeRegisterMsg(c[1])) /\ ~Has(Stream(c), RegisterMsg(c[1]))
  BY <1>2, <1>4, Kinds DEF Has
<1>6. c[2] \in 1 .. starts[c[1]]
  <2>1. ~(c[2] > starts[c[1]])
    BY DEF Lives
  <2>2. starts[c[1]] \in 0 .. MaxStarts
    BY <1>1, TypesOf
  <2> QED
    BY <1>1, <2>1, <2>2
<1> QED
  BY <1>1, <1>3, <1>5, <1>6 DEF Registered

LEMMA CountedStep ==
  ASSUME ControllerAssumption, TypeOK, TypeOK', OwnMessages, Lives, WritesHeld, DeregisterLast, Counted,
         [Next]_vars
  PROVE  Counted'
<1> DEFINE In(v, n, s, up) == /\ ~Has(s, RegisterMsg(v))
                              /\ Has(s, DeRegisterMsg(v)) \/ up
           Up(v, n) == n = starts[v] /\ running[v] = "up"
           UpAfter(v, n) == n = starts'[v] /\ running'[v] = "up"
           RegisteredAfter(v) == {n \in 1 .. starts'[v] : In(v, n, Stream(<<v, n>>)', UpAfter(v, n))}
<1>1. SUFFICES ASSUME NEW v \in Workers
               PROVE  Cardinality(RegisteredAfter(v)) <= controller'.worker_mapping[v]
  BY DEF Counted, Registered
<1>2. Cardinality(Registered(v)) <= controller.worker_mapping[v]
  BY DEF Counted
<1>3. IsFiniteSet(Registered(v)) /\ Cardinality(Registered(v)) \in Nat
  BY RegisteredFinite
<1>4. controller.worker_mapping[v] \in Nat /\ controller'.worker_mapping[v] \in Nat
  BY TypesOf, TypesAfter DEF Tables
<1>5. \A n : n \in Registered(v) <=> n \in 1 .. starts[v] /\ In(v, n, Stream(<<v, n>>), Up(v, n))
  BY DEF Registered
<1>6. starts[v] \in 0 .. MaxStarts /\ starts'[v] \in 0 .. MaxStarts /\ MaxStarts \in Nat
  BY TypesOf, TypesAfter DEF ControllerAssumption
<1>7. ASSUME RegisteredAfter(v) \subseteq Registered(v),
             controller'.worker_mapping[v] = controller.worker_mapping[v]
      PROVE  Cardinality(RegisteredAfter(v)) <= controller'.worker_mapping[v]
  <2> HIDE DEF RegisteredAfter
  <2>1. /\ Cardinality(RegisteredAfter(v)) \in Nat
        /\ Cardinality(RegisteredAfter(v)) <= Cardinality(Registered(v))
    BY <1>3, <1>7, FS_Subset, FS_CardinalityType
  <2> QED
    BY <1>2, <1>3, <1>4, <1>7, <2>1
\* No process of v becomes registered.
<1>8. ASSUME \A n \in 1 .. starts'[v] :
               In(v, n, Stream(<<v, n>>)', UpAfter(v, n)) =>
                 n \in 1 .. starts[v] /\ In(v, n, Stream(<<v, n>>), Up(v, n)),
             controller'.worker_mapping[v] = controller.worker_mapping[v]
      PROVE  Cardinality(RegisteredAfter(v)) <= controller'.worker_mapping[v]
  <2>1. RegisteredAfter(v) \subseteq Registered(v)
    BY <1>5, <1>8
  <2> QED
    BY <1>7, <1>8, <2>1
<1>9. \A n \in 1 .. MaxStarts : <<v, n>> \in Connections
  BY ConnectionsAre
<1>10. CASE Quiet
  BY <1>6, <1>8, <1>9, <1>10 DEF Quiet, Kept, SamePool
<1>11. ASSUME NEW w \in Workers, Start(w)
       PROVE  Cardinality(RegisteredAfter(v)) <= controller'.worker_mapping[v]
  <2>1. /\ starts' = [starts EXCEPT ![w] = @ + 1] /\ running' = [running EXCEPT ![w] = "up"]
        /\ controller' = controller
    BY <1>11 DEF Start
  <2>2. ASSUME NEW n \in 1 .. starts'[v], In(v, n, Stream(<<v, n>>)', UpAfter(v, n))
        PROVE  n \in 1 .. starts[v] /\ In(v, n, Stream(<<v, n>>), Up(v, n))
    <3>1. <<v, n>> \in Connections
      BY <1>6, <1>9
    <3>2. CASE v = w /\ n = starts[w] + 1
      <4>1. Stream(<<v, n>>)' = <<RegisterMsg(v)>>
        BY <1>11, <3>1, <3>2, StartOpens
      <4>2. Has(<<RegisterMsg(v)>>, RegisterMsg(v))
        BY DEF Has
      <4> QED
        BY <2>2, <4>1, <4>2
    <3>3. CASE ~(v = w /\ n = starts[w] + 1)
      <4>1. <<v, n>> # <<w, starts[w] + 1>>
        BY <3>3
      <4>2. Stream(<<v, n>>)' = Stream(<<v, n>>)
        BY <1>11, <3>1, <4>1, StartOpens
      <4>3. n \in 1 .. starts[v] /\ (UpAfter(v, n) => Up(v, n))
        BY <1>6, <2>1, <3>3, TypesOf
      <4> QED
        BY <2>2, <4>2, <4>3
    <3> QED
      BY <3>2, <3>3
  <2> QED
    BY <1>8, <2>1, <2>2
\* A process reports something else than its registration.
<1>12. ASSUME NEW w \in Workers, NEW msgs \in Seq(Messages), Grows(w, msgs), SamePool,
              starts' = starts, running[w] = "up",
              \A u \in Workers : u # w => running'[u] = running[u]
       PROVE  Cardinality(RegisteredAfter(v)) <= controller'.worker_mapping[v]
  <2>1. ASSUME NEW n \in 1 .. starts'[v], In(v, n, Stream(<<v, n>>)', UpAfter(v, n))
        PROVE  n \in 1 .. starts[v] /\ In(v, n, Stream(<<v, n>>), Up(v, n))
    <3>1. <<v, n>> \in Connections
      BY <1>6, <1>9
    <3>2. CASE v = w /\ n = starts[w]
      <4>1. Stream(<<v, n>>)' = Stream(<<v, n>>) \o msgs /\ Up(v, n)
        BY <1>12, <3>1, <3>2 DEF Grows
      <4>2. Stream(<<v, n>>) \in Seq(Messages)
        BY <3>1, PartsOfStream
      <4>3. ~Has(Stream(<<v, n>>) \o msgs, RegisterMsg(v))
        BY <2>1, <4>1
      <4>4. ~Has(Stream(<<v, n>>), RegisterMsg(v))
        BY <4>2, <4>3, HasGrown
      <4> QED
        BY <1>12, <2>1, <4>1, <4>4
    <3>3. CASE ~(v = w /\ n = starts[w])
      <4>1. <<v, n>> # <<w, starts[w]>>
        BY <3>3
      <4>2. Stream(<<v, n>>)' = Stream(<<v, n>>)
        BY <1>12, <3>1, <4>1 DEF Grows
      <4>3. UpAfter(v, n) => Up(v, n)
        BY <1>12, <3>3
      <4> QED
        BY <1>12, <2>1, <4>2, <4>3
    <3> QED
      BY <3>2, <3>3
  <2> QED
    BY <1>8, <1>12, <2>1 DEF SamePool
<1>13. ASSUME NEW w \in Workers, Close(w)
       PROVE  Cardinality(RegisteredAfter(v)) <= controller'.worker_mapping[v]
  <2>1. /\ <<DeRegisterMsg(w)>> \in Seq(Messages) /\ Grows(w, <<DeRegisterMsg(w)>>) /\ SamePool
        /\ starts' = starts /\ running[w] = "up"
        /\ running' = [running EXCEPT ![w] = "closing"]
    BY <1>13, CloseReports
  <2>2. \A u \in Workers : u # w => running'[u] = running[u]
    BY <2>1, TypesOf
  <2> QED
    BY <1>12, <2>1, <2>2
<1>14. ASSUME NEW w \in Workers, NEW msgs \in Seq(Messages), Reports(w, msgs)
       PROVE  Cardinality(RegisteredAfter(v)) <= controller'.worker_mapping[v]
  BY <1>12, <1>14 DEF Reports
<1>15. ASSUME NEW w \in Workers, Stop(w)
       PROVE  Cardinality(RegisteredAfter(v)) <= controller'.worker_mapping[v]
  <2>1. /\ running[w] # "off" /\ running' = [running EXCEPT ![w] = "off"] /\ starts' = starts
        /\ SamePool
    BY <1>15, StopEnds
  <2>2. ASSUME NEW n \in 1 .. starts'[v], In(v, n, Stream(<<v, n>>)', UpAfter(v, n))
        PROVE  n \in 1 .. starts[v] /\ In(v, n, Stream(<<v, n>>), Up(v, n))
    <3>1. <<v, n>> \in Connections
      BY <1>6, <1>9
    <3>2. UpAfter(v, n) => Up(v, n)
      BY <2>1, TypesOf
    <3>3. \/ Stream(<<v, n>>)' = Stream(<<v, n>>)
          \/ /\ <<v, n>> = <<w, starts[w]>>
             /\ \E m \in 0 .. Len(Stream(<<v, n>>)) :
                  Stream(<<v, n>>)' = SubSeq(Stream(<<v, n>>), 1, m)
      BY <1>15, <2>1, <3>1, OwnConnection, StopCuts
    <3>4. ASSUME <<v, n>> = <<w, starts[w]>>, NEW m \in 0 .. Len(Stream(<<v, n>>)),
                 Stream(<<v, n>>)' = SubSeq(Stream(<<v, n>>), 1, m)
          PROVE  Stream(<<v, n>>)' = Stream(<<v, n>>)
      <4> DEFINE s == Stream(<<v, n>>)
                 r == SubSeq(s, 1, m)
      <4>1. s \in Seq(Messages)
        BY <3>1, PartsOfStream
      <4>2. /\ r \in Seq(Messages) /\ Len(r) = m /\ \A i \in 1 .. m : r[i] = s[i]
        BY <4>1, Prefix
      <4>3. Len(s) \in Nat /\ DOMAIN s = 1 .. Len(s) /\ DOMAIN r = 1 .. m
        BY <4>1, <4>2, LenProperties
      <4>4. ~UpAfter(v, n)
        BY <2>1, <3>4, TypesOf
      <4>5. Has(r, DeRegisterMsg(v))
        BY <2>2, <3>4, <4>4
      <4>6. PICK i \in 1 .. m : s[i] = DeRegisterMsg(v)
        BY <4>2, <4>3, <4>5 DEF Has
      <4>7. i = Len(s)
        <5>1. i \in DOMAIN s
          BY <4>3
        <5> QED
          BY <3>1, <4>6, <5>1 DEF DeregisterLast
      <4>8. m = Len(s)
        <5> DEFINE l == Len(s)
        <5>1. l \in Nat /\ m \in 0 .. l /\ i \in 1 .. m /\ i = l
          BY <4>3, <4>7
        <5> HIDE DEF l
        <5>2. m = l
          BY ONLY <5>1
        <5> QED
          BY <5>2 DEF l
      <4>9. r = s
        BY <4>1, <4>8, SubSeqFull
      <4> QED
        BY <3>4, <4>9
    <3>5. Stream(<<v, n>>)' = Stream(<<v, n>>)
      BY <3>3, <3>4
    <3> QED
      BY <2>1, <2>2, <3>2, <3>5
  <2> QED
    BY <1>8, <2>1, <2>2 DEF SamePool
<1>16. ASSUME NEW e \in Connections, Receive(e)
       PROVE  Cardinality(RegisteredAfter(v)) <= controller'.worker_mapping[v]
  <2> DEFINE s == Stream(e)
             m == Head(s)
  <2>1. /\ s \in Seq(Messages) /\ s # <<>> /\ Stream(e)' = Tail(s)
        /\ running' = running /\ starts' = starts
        /\ \A d \in Connections : d # e => Stream(d)' = Stream(d)
    BY <1>16, ReceiveHandles
  <2>2. m.worker = e[1] /\ e = <<e[1], e[2]>>
    BY <1>16, HandlesOwn, ConnectionsAre
  <2>3. controller'.worker_mapping[v] =
          IF m = RegisterMsg(v) THEN controller.worker_mapping[v] + 1
          ELSE IF m = DeRegisterMsg(v) /\ controller.worker_mapping[v] > 0
               THEN controller.worker_mapping[v] - 1
               ELSE controller.worker_mapping[v]
    BY <1>16, ReceiveHandles DEF Follows
  <2>4. ASSUME NEW n \in 1 .. starts'[v], ~(v = e[1] /\ n = e[2])
        PROVE  /\ n \in 1 .. starts[v]
               /\ In(v, n, Stream(<<v, n>>)', UpAfter(v, n)) <=> In(v, n, Stream(<<v, n>>), Up(v, n))
    <3>1. <<v, n>> \in Connections /\ <<v, n>> # e
      BY <1>6, <1>9, <2>2, <2>4
    <3>2. Stream(<<v, n>>)' = Stream(<<v, n>>)
      BY <2>1, <3>1
    <3> QED
      BY <2>1, <3>2
  <2>5. CASE v # e[1]
    <3>1. m # RegisterMsg(v) /\ m # DeRegisterMsg(v)
      BY <2>2, <2>5, Kinds
    <3>2. controller'.worker_mapping[v] = controller.worker_mapping[v]
      BY <2>3, <3>1
    <3> QED
      BY <1>8, <2>4, <2>5, <3>2
  <2>6. CASE v = e[1] /\ m = RegisterMsg(v)
    <3>1. controller'.worker_mapping[v] = controller.worker_mapping[v] + 1
      BY <2>3, <2>6
    <3>2. RegisteredAfter(v) \subseteq Registered(v) \cup {e[2]}
      BY <1>5, <2>4
    <3> HIDE DEF RegisteredAfter
    <3>3. /\ IsFiniteSet(Registered(v) \cup {e[2]})
          /\ Cardinality(Registered(v) \cup {e[2]}) \in Nat
          /\ Cardinality(Registered(v) \cup {e[2]}) <= Cardinality(Registered(v)) + 1
      <4>1. /\ IsFiniteSet(Registered(v) \cup {e[2]})
            /\ Cardinality(Registered(v) \cup {e[2]}) =
                 IF e[2] \in Registered(v) THEN Cardinality(Registered(v))
                                          ELSE Cardinality(Registered(v)) + 1
        BY <1>3, FS_AddElement
      <4> QED
        BY <1>3, <4>1
    <3>4. /\ Cardinality(RegisteredAfter(v)) \in Nat
          /\ Cardinality(RegisteredAfter(v)) <= Cardinality(Registered(v) \cup {e[2]})
      BY <3>2, <3>3, FS_Subset, FS_CardinalityType
    <3> QED
      BY <1>2, <1>3, <1>4, <3>1, <3>3, <3>4
  <2>7. CASE v = e[1] /\ m = DeRegisterMsg(v)
    <3>1. /\ e[2] \in Registered(v) /\ Len(s) = 1
          /\ e[2] = starts[v] => running[v] # "up"
      BY <2>1, <2>7, DeregisteredIsCounted
    <3>2. Tail(s) = <<>>
      <4>1. Tail(s) \in Seq(Messages) /\ Len(Tail(s)) = 0
        BY <2>1, <3>1, TakenSeq
      <4> QED
        BY <4>1, EmptySeq
    <3>3. e[2] \notin RegisteredAfter(v)
      <4>1. ~Has(<<>>, DeRegisterMsg(v))
        BY DEF Has
      <4>2. Stream(<<v, e[2]>>)' = <<>>
        BY <2>1, <2>2, <2>7, <3>2
      <4> QED
        BY <2>1, <3>1, <4>1, <4>2
    <3>4. RegisteredAfter(v) \subseteq Registered(v) \ {e[2]}
      BY <1>5, <2>4, <3>3
    <3> HIDE DEF RegisteredAfter
    <3>5. /\ IsFiniteSet(Registered(v) \ {e[2]})
          /\ Cardinality(Registered(v) \ {e[2]}) = Cardinality(Registered(v)) - 1
      BY <1>3, <3>1, FS_RemoveElement
    <3>6. /\ Cardinality(RegisteredAfter(v)) \in Nat
          /\ Cardinality(RegisteredAfter(v)) <= Cardinality(Registered(v)) - 1
      BY <3>4, <3>5, FS_Subset, FS_CardinalityType
    <3>7. controller.worker_mapping[v] > 0
      BY <1>2, <1>3, <1>4, <3>6
    <3>8. m # RegisterMsg(v)
      BY <2>7, Kinds
    <3>9. controller'.worker_mapping[v] = controller.worker_mapping[v] - 1
      BY <2>3, <2>7, <3>7, <3>8
    <3> QED
      BY <1>2, <1>3, <1>4, <3>6, <3>9
  <2>8. CASE v = e[1] /\ m # RegisterMsg(v) /\ m # DeRegisterMsg(v)
    <3>1. controller'.worker_mapping[v] = controller.worker_mapping[v]
      BY <2>3, <2>8
    <3>2. ASSUME NEW n \in 1 .. starts'[v], n = e[2],
                 In(v, n, Stream(<<v, n>>)', UpAfter(v, n))
          PROVE  n \in 1 .. starts[v] /\ In(v, n, Stream(<<v, n>>), Up(v, n))
      <4>1. <<v, n>> = e
        BY <2>2, <2>8, <3>2
      <4>2. In(v, n, Tail(s), Up(v, n))
        BY <2>1, <3>2, <4>1
      <4>3. In(v, n, s, Up(v, n))
        BY <2>1, <2>8, <4>2, HasTaken
      <4> QED
        BY <2>1, <4>1, <4>3
    <3> QED
      BY <1>8, <2>4, <2>8, <3>1, <3>2
  <2> QED
    BY <2>5, <2>6, <2>7, <2>8
<1> QED
  BY <1>10, <1>11, <1>13, <1>14, <1>15, <1>16, StepKinds

-----------------------------------------------------------------------------
(* The theorems.                                                           *)

LEMMA InitIInv == ControllerAssumption /\ Init => IInv
<1> SUFFICES ASSUME ControllerAssumption, Init PROVE IInv
  OBVIOUS
<1>1. TypeOK
  BY InitTypes
<1>2. \A c \in Connections : Stream(c) = <<>>
  <2>1. SUFFICES ASSUME NEW c \in Connections PROVE Stream(c) = <<>>
    OBVIOUS
  <2>2. /\ pipe[c] = <<>> /\ Queued(c) = <<>>
    BY ConnectionsAre DEF Init, Queued
  <2>3. Msgs(<<>>) = <<>>
    <3>1. <<>> \in Seq(Parts) /\ Len(<<>>) = 0
      BY EmptySeq
    <3>2. Msgs(<<>>) \in Seq(Messages) /\ Len(Msgs(<<>>)) = 0
      BY <3>1, MsgsAre
    <3> QED
      BY <3>2, EmptySeq
  <2>4. <<>> \in Seq(Messages) /\ <<>> \o <<>> = <<>>
    BY EmptySeq, ConcatEmptySeq
  <2> QED
    BY <2>2, <2>3, <2>4, StreamIs
<1>3. OwnMessages
  BY <1>2 DEF OwnMessages
<1>4. Lives
  BY <1>2 DEF Lives, Init, Known
<1>5. PoolFollows /\ WritesHeld
  BY DEF PoolFollows, WritesHeld, FirstLife, Init
<1>6. RegisterFirst /\ DeregisterLast
  BY <1>2 DEF RegisterFirst, DeregisterLast
<1>7. Counted
  <2>1. SUFFICES ASSUME NEW w \in Workers
                 PROVE  Cardinality(Registered(w)) <= controller.worker_mapping[w]
    BY DEF Counted
  <2>2. starts[w] = 0 /\ controller.worker_mapping[w] = 0
    BY DEF Init
  <2>3. Registered(w) = {}
    BY <2>2 DEF Registered
  <2> QED
    BY <2>2, <2>3, FS_EmptySet
<1> QED
  BY <1>1, <1>3, <1>4, <1>5, <1>6, <1>7 DEF IInv

LEMMA StepIInv == ControllerAssumption /\ IInv /\ [Next]_vars => IInv'
<1> SUFFICES ASSUME ControllerAssumption, IInv, [Next]_vars PROVE IInv'
  OBVIOUS
<1>1. /\ TypeOK /\ OwnMessages /\ Lives /\ WritesHeld /\ PoolFollows
      /\ RegisterFirst /\ DeregisterLast /\ Counted
  BY DEF IInv
<1>2. TypeOK'
  BY <1>1, TypeStep
<1> QED
  BY <1>1, <1>2, OwnMessagesStep, LivesStep, WritesHeldStep, PoolFollowsStep, OrderStep, CountedStep
  DEF IInv

\* The inductive invariant: the order in which a process reports, on whatever
\* connection, and what follows for the tables that trail behind.
THEOREM InductiveInvariant == ASSUME ControllerAssumption PROVE Spec => []IInv
<1>1. Init => IInv
  BY InitIInv
<1>2. IInv /\ [Next]_vars => IInv'
  BY StepIInv
<1> QED
  BY <1>1, <1>2, PTL DEF Spec

\* Every table and queue has its type.
THEOREM TypeOKHolds == ASSUME ControllerAssumption PROVE Spec => []TypeOK
<1>1. IInv => TypeOK
  BY DEF IInv
<1> QED
  BY <1>1, InductiveInvariant, PTL

\* What lookup says a worker has, it has, or the news that it has not is on its
\* way, unless its removal overtook the report of a write-back
\* (local_cpu_backend.py:361-364, 372-383): submit_put_task and remove report in
\* the order of their changes, and push, recv_multipart and the handlers keep it.
THEOREM EntryIsCachedOrEvictingHolds ==
  ASSUME ControllerAssumption PROVE Spec => []EntryIsCachedOrEvicting
<1>1. ControllerAssumption /\ IInv => EntryIsCachedOrEvicting
  <2> SUFFICES ASSUME ControllerAssumption, IInv, NEW w \in Workers, NEW k \in Keys,
                      FirstLife(w), Known(w, k), k \notin Held(w)
               PROVE  KVEvictMsg(w, k) \in InFlight(<<w, 1>>)
    BY DEF EntryIsCachedOrEvicting, Held
  <2>1. Has(Stream(<<w, 1>>), KVEvictMsg(w, k))
    BY DEF IInv, PoolFollows
  <2> QED
    BY <2>1 DEF Has, InFlight
<1> QED
  BY <1>1, InductiveInvariant, PTL

\* list.remove never raises (registration_controller.py), however often workers
\* die, come back and are outlived by their messages.
THEOREM DeregisteredIsListedHolds ==
  ASSUME ControllerAssumption PROVE Spec => []DeregisteredIsListed
<1>1. ControllerAssumption /\ IInv => DeregisteredIsListed
  <2> SUFFICES ASSUME ControllerAssumption, IInv, NEW c \in Connections,
                      pipe[c] # <<>>, Head(pipe[c]).msg = DeRegisterMsg(c[1])
               PROVE  Listed(c[1])
    BY DEF DeregisteredIsListed
  <2>1. TypeOK /\ Lives /\ DeregisterLast /\ Counted /\ c[1] \in Workers
    BY ConnectionsAre DEF IInv
  <2>2. Stream(c) # <<>> /\ Head(Stream(c)) = Head(pipe[c]).msg
    <3>1. /\ pipe[c] \in Seq(Parts) /\ Msgs(pipe[c]) \in Seq(Messages)
          /\ Queued(c) \in Seq(Messages)
      BY <2>1, PartsOfStream
    <3>2. Msgs(pipe[c]) # <<>> /\ Head(Msgs(pipe[c])) = Head(pipe[c]).msg
      BY <3>1, MsgsTail
    <3> QED
      BY <3>1, <3>2, StreamIs, TailOfConcat
  <2>3. c[2] \in Registered(c[1])
    BY <2>1, <2>2, DeregisteredIsCounted
  <2>4. IsFiniteSet(Registered(c[1])) /\ Cardinality(Registered(c[1])) \in Nat
    BY <2>1, RegisteredFinite
  <2>5. Cardinality(Registered(c[1])) # 0
    BY <2>3, <2>4, FS_EmptySet
  <2>6. /\ Cardinality(Registered(c[1])) <= controller.worker_mapping[c[1]]
        /\ controller.worker_mapping[c[1]] \in Nat
    BY <2>1, TypesOf DEF Counted, Tables
  <2> QED
    BY <2>4, <2>5, <2>6 DEF Listed
<1> QED
  BY <1>1, InductiveInvariant, PTL
=============================================================================
