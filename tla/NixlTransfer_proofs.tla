------------------------- MODULE NixlTransfer_proofs -------------------------
(***************************************************************************)
(* Proofs about NixlTransfer: a sender never writes to the receiver's      *)
(* buffer while it is read, and the receiver is handed each stream as      *)
(* ObjectStream says, for all numbers of senders, stores, sizes of chunks  *)
(* and of the buffer, and failures.                                        *)
(*                                                                         *)
(* The permission to write is a token of each sender, which is in one      *)
(* place at a time: an acknowledgement, the write, its notification, the   *)
(* reading.  A failure loses it, and then nothing more is delivered.       *)
(* While it is there, all that the two sides know of a stream is about one *)
(* sequence, sent[s], and two positions in it: what was delivered, and     *)
(* what was written.                                                       *)
(***************************************************************************)
EXTENDS NixlTransfer, CollectionLemmas, TLAPS

SenderLabels   == {"new", "handshake", "idle", "fill", "spin", "write", "notify"}
ReceiverLabels == {"poll", "wait", "observe"}
Contents       == [Bytes -> Keys \cup {None}]
Objects        == [key : Keys, bytes : SUBSET (Keys \cup {None})]

SenderTypes ==
  /\ job \in [Senders -> Seq(Keys)] /\ placed \in [Senders -> Nat]
  /\ buffer \in [Senders -> Contents] /\ allocated \in [Senders -> Nat]
  /\ uuid \in [Senders -> Nat] /\ stores \in [Senders -> Nat]
  /\ sent \in [Senders -> Seq(Keys)] /\ written \in [Senders -> Nat]

ReceiverTypes ==
  /\ side \in [Senders -> Seq(Seq(Keys))] /\ acks \in [Senders -> Seq(Nat)]
  /\ pipes \in [Senders -> [buffer : Contents, uuid : Nat]]
  /\ notifs \in [Senders -> SUBSET Nat]
  /\ trans \in [from : Senders \cup {None}, keys : Seq(Keys),
                got : Nat, read : Nat, seen : Nat]
  /\ delivered \in [Senders -> Seq(Objects)]

Types ==
  /\ pc \in [Senders \cup {Receiver} -> SenderLabels \cup ReceiverLabels]
  /\ pc[Receiver] \in ReceiverLabels
  /\ SenderTypes /\ ReceiverTypes

-----------------------------------------------------------------------------
(* The token.                                                              *)
Connecting(s) == pipes[s].uuid = 0
Acked(s)      == acks[s] # <<>>
Writing(s)    == pc[s] \in {"write", "notify"}
Notified(s)   == notifs[s] # {}
Reading(s)    == trans.from = s /\ pc[Receiver] = "observe"
HasToken(s)   == Acked(s) \/ Writing(s) \/ Notified(s) \/ Reading(s)

OneToken(s) ==
  /\ \A u, v \in notifs[s] : u = v
  /\ Acked(s) => ~Writing(s) /\ ~Notified(s) /\ ~Reading(s)
  /\ Writing(s) => ~Notified(s) /\ ~Reading(s)
  /\ Notified(s) => ~Reading(s)

\* Before it has a pipe a sender has sent its metadata at most.
Handshake(s) ==
  /\ pipes[s] = NoPipe
  /\ pc[s] \in {"new", "handshake"}
  /\ side[s] = IF pc[s] = "new" THEN <<>> ELSE <<<<>>>>
  /\ trans.from # s /\ ~HasToken(s)
  /\ sent[s] = <<>> /\ delivered[s] = <<>>

\* The receiver's thread has a transaction exactly when it does not poll.
ReceiverBusy ==
  IF pc[Receiver] = "poll" THEN trans = NoTrans ELSE trans.from \in Senders

-----------------------------------------------------------------------------
(* The sender's position in its stream: the stream up to Base belongs to   *)
(* earlier stores, up to written[s] it was written and notified, and up to *)
(* Placed it is in the buffer.                                             *)
Base(s)   == Len(sent[s]) - Len(job[s])
Placed(s) == Base(s) + placed[s]

\* The bytes of the chunks from i + 1 to j of the stream.
Span(s, i, j) == Offset(sent[s])[j] - Offset(sent[s])[i]

\* A buffer has the chunks from i + 1 to j, each at its place.
Has(buf, s, i, j) ==
  \A n \in (i + 1) .. j : \A b \in Bytes :
    Span(s, i, n - 1) <= b /\ b < Span(s, i, n) => buf[b] = sent[s][n]

\* Chunks i + 1 to j are one write: they fit in a buffer, and one more does
\* not, or belongs to a later store.
OneWrite(s, i, j, end) ==
  /\ i < j /\ Span(s, i, j) <= Capacity
  /\ j = end \/ Span(s, i, j + 1) > Capacity

StreamOfJob(s) ==
  /\ Len(job[s]) <= Len(sent[s]) /\ placed[s] <= Len(job[s])
  /\ \A i \in 1 .. Len(job[s]) : sent[s][Base(s) + i] = job[s][i]
  /\ Base(s) <= written[s] /\ written[s] <= Placed(s)
  /\ job[s] # <<>> => written[s] < Len(sent[s])
  /\ pc[s] \in {"fill", "spin", "write", "notify"} => job[s] # <<>>

BufferOfJob(s) ==
  /\ allocated[s] = Span(s, written[s], Placed(s)) /\ allocated[s] <= Capacity
  /\ Has(buffer[s], s, written[s], Placed(s))
  /\ pc[s] \in {"spin", "write", "notify"} =>
       OneWrite(s, written[s], Placed(s), Len(sent[s]))

-----------------------------------------------------------------------------
(* The receiver's position: the current request, the one it has taken or   *)
(* will take next, begins at Begin and ends at End.  There is at most one  *)
(* later request, that of a store whose first write must wait.             *)
Done(s)    == Len(delivered[s])
Current(s) == IF trans.from = s THEN trans.keys
              ELSE IF side[s] = <<>> THEN <<>> ELSE Head(side[s])
Later(s)   == IF trans.from = s \/ side[s] = <<>> THEN side[s] ELSE Tail(side[s])
Begin(s)   == Done(s) - (IF trans.from = s THEN trans.got + trans.seen ELSE 0)
End(s)     == Begin(s) + Len(Current(s))

Requests(s) ==
  /\ Begin(s) >= 0 /\ End(s) <= Len(sent[s])
  /\ \A i \in 1 .. Len(Current(s)) : sent[s][Begin(s) + i] = Current(s)[i]
  /\ trans.from # s /\ side[s] # <<>> => Current(s) # <<>>
  /\ \/ Later(s) = <<>> /\ End(s) = Len(sent[s])
        /\ (job[s] = <<>> \/ Base(s) = Begin(s))
     \/ Later(s) = <<job[s]>> /\ job[s] # <<>>
        /\ End(s) = Base(s) /\ written[s] = Base(s)

Transaction(s) ==
  trans.from = s =>
    /\ trans.got + trans.read <= Len(trans.keys) /\ trans.seen <= trans.read
    /\ pc[Receiver] = "wait" =>
         trans.read = 0 /\ trans.seen = 0 /\ trans.got < Len(trans.keys)

\* What the token carries.
WhileWriting(s) ==
  /\ Acked(s) \/ Writing(s) => Done(s) = written[s]
  /\ pc[s] = "notify" => Has(pipes[s].buffer, s, written[s], Placed(s))

WhileReading(s) ==
  /\ Notified(s) => /\ OneWrite(s, Done(s), written[s], End(s))
                    /\ Has(pipes[s].buffer, s, Done(s), written[s])
                    /\ written[s] <= End(s)
  /\ Reading(s) =>
       LET first == Done(s) - trans.seen IN
       /\ written[s] = first + trans.read
       /\ Span(s, first, written[s]) <= Capacity
       /\ Has(pipes[s].buffer, s, first, written[s])

InStep(s) == Requests(s) /\ Transaction(s) /\ WhileWriting(s) /\ WhileReading(s)

Inv(s) ==
  /\ OneToken(s)
  /\ Connecting(s) => Handshake(s)
  /\ ~Connecting(s) => pc[s] # "new"
  /\ pc[s] \in SenderLabels
  /\ StreamOfJob(s) /\ BufferOfJob(s)
  /\ ~Connecting(s) /\ HasToken(s) => InStep(s)

IInv == Types /\ ReceiverBusy /\ \A s \in Senders : Inv(s)

-----------------------------------------------------------------------------
\* What the assumptions say of the names that occur below.
LEMMA Names ==
  /\ Capacity \in Nat /\ TransferUnit \in Nat \ {0}
  /\ \A k \in Keys : Size[k] \in Nat /\ Size[k] >= 1 /\ Size[k] < Capacity
  /\ Receiver \notin Senders /\ None \notin Senders /\ None \notin Keys
  /\ \A s \in Senders : \A keys \in Stores[s] : keys \in Seq(Keys) /\ keys # <<>>
BY NixlAssumption DEF Receiver

(* Offset adds up the sizes: there is a function that does, by the least   *)
(* length for which there were none.                                       *)
IsOffset(f, keys) ==
  f = [i \in 0 .. Len(keys) |-> IF i = 0 THEN 0 ELSE f[i - 1] + Size[keys[i]]]

LEMMA OffsetExists ==
  ASSUME NEW keys \in Seq(Keys)
  PROVE  \E f \in [0 .. Len(keys) -> Nat] : IsOffset(f, keys)
<1> DEFINE F(n) == {f \in [0 .. n -> Nat] :
                      /\ f[0] = 0
                      /\ \A i \in 1 .. n : f[i] = f[i - 1] + Size[keys[i]]}
           Bad == {n \in 0 .. Len(keys) : F(n) = {}}
<1>1. Len(keys) \in Nat
  BY LenProperties
<1>2. F(0) # {}
  <2>1. [i \in 0 .. 0 |-> 0] \in F(0)
    OBVIOUS
  <2> QED
    BY <2>1
<1>3. ASSUME NEW n \in 1 .. Len(keys), F(n - 1) # {} PROVE F(n) # {}
  <2>1. PICK f : f \in F(n - 1)
    BY <1>3
  <2>2. n \in Nat /\ n - 1 \in Nat
    BY <1>1
  <2>3. keys[n] \in Keys
    BY <1>1, ElementOfSeq
  <2>4. Size[keys[n]] \in Nat
    BY <2>3, Names
  <2> DEFINE g == [i \in 0 .. n |-> IF i = n THEN f[n - 1] + Size[keys[n]] ELSE f[i]]
  <2>5. g \in [0 .. n -> Nat]
    BY <2>1, <2>2, <2>4
  <2>6. g[0] = 0
    BY <2>1, <2>2
  <2>7. ASSUME NEW i \in 1 .. n PROVE g[i] = g[i - 1] + Size[keys[i]]
    <3>1. CASE i = n
      BY <2>1, <2>2, <3>1
    <3>2. CASE i # n
      BY <2>1, <2>2, <3>2
    <3> QED
      BY <3>1, <3>2
  <2>8. g \in F(n)
    BY <2>5, <2>6, <2>7
  <2> QED
    BY <2>8
<1>4. Bad = {}
  <2> HIDE DEF F
  <2>1. SUFFICES ASSUME Bad # {} PROVE FALSE
    OBVIOUS
  <2>2. Bad \in SUBSET Nat
    BY <1>1
  <2>3. PICK n \in Bad : \A m \in Bad : n <= m
    BY <2>1, <2>2, LeastElement
  <2>4. n \in 1 .. Len(keys)
    BY <1>1, <1>2, <2>3
  <2>5. n - 1 \notin Bad
    BY <1>1, <2>3, <2>4
  <2> QED
    BY <1>1, <1>3, <2>3, <2>4, <2>5
<1>5. PICK f : f \in F(Len(keys))
  BY <1>1, <1>4
<1>6. f = [i \in 0 .. Len(keys) |-> IF i = 0 THEN 0 ELSE f[i - 1] + Size[keys[i]]]
  BY <1>1, <1>5
<1> QED
  BY <1>5, <1>6 DEF IsOffset

LEMMA OffsetIs ==
  ASSUME NEW keys \in Seq(Keys)
  PROVE  /\ Offset(keys)[0] = 0
         /\ \A i \in 1 .. Len(keys) : Offset(keys)[i] = Offset(keys)[i - 1] + Size[keys[i]]
         /\ \A i \in 0 .. Len(keys) : Offset(keys)[i] \in Nat
<1>1. Len(keys) \in Nat
  BY LenProperties
<1>2. IsOffset(Offset(keys), keys)
  <2>1. PICK f : IsOffset(f, keys)
    BY OffsetExists
  <2> QED
    BY <2>1 DEF Offset, IsOffset
<1>3. \A i \in 0 .. Len(keys) :
        Offset(keys)[i] = IF i = 0 THEN 0 ELSE Offset(keys)[i - 1] + Size[keys[i]]
  BY <1>2 DEF IsOffset
<1>4. \A i \in 1 .. Len(keys) : Offset(keys)[i] = Offset(keys)[i - 1] + Size[keys[i]]
  BY <1>1, <1>3
<1>5. Offset(keys)[0] = 0
  BY <1>1, <1>3
<1> DEFINE Bad == {i \in 0 .. Len(keys) : Offset(keys)[i] \notin Nat}
<1>6. Bad = {}
  <2>1. SUFFICES ASSUME Bad # {} PROVE FALSE
    OBVIOUS
  <2>2. PICK n \in Bad : \A m \in Bad : n <= m
    <3>1. Bad \in SUBSET Nat
      BY <1>1
    <3> QED
      BY <2>1, <3>1, LeastElement
  <2>3. n \in 1 .. Len(keys) /\ n - 1 \in 0 .. Len(keys) /\ n - 1 \notin Bad
    BY <1>1, <1>5, <2>2
  <2>4. keys[n] \in Keys
    BY <1>1, <2>3, ElementOfSeq
  <2>5. Size[keys[n]] \in Nat
    BY <2>4, Names
  <2> QED
    BY <1>4, <2>2, <2>3, <2>5
<1> QED
  BY <1>4, <1>5, <1>6

\* Every chunk has a byte.
LEMMA OffsetGrows ==
  ASSUME NEW keys \in Seq(Keys), NEW i \in 0 .. Len(keys), NEW j \in i .. Len(keys)
  PROVE  Offset(keys)[i] + (j - i) <= Offset(keys)[j]
<1>1. Len(keys) \in Nat
  BY LenProperties
<1> DEFINE f == Offset(keys)
           Bad == {n \in i .. Len(keys) : ~(f[i] + (n - i) <= f[n])}
<1>2. \A n \in 0 .. Len(keys) : f[n] \in Nat
  BY OffsetIs
<1>3. \A n \in 1 .. Len(keys) : f[n - 1] + 1 <= f[n]
  <2>1. SUFFICES ASSUME NEW n \in 1 .. Len(keys) PROVE f[n - 1] + 1 <= f[n]
    OBVIOUS
  <2>2. keys[n] \in Keys
    BY <1>1, ElementOfSeq
  <2>3. Size[keys[n]] \in Nat /\ Size[keys[n]] >= 1
    BY <2>2, Names
  <2>4. f[n] = f[n - 1] + Size[keys[n]]
    BY OffsetIs
  <2>5. f[n - 1] \in Nat
    BY <1>1, <1>2
  <2> HIDE DEF f
  <2> QED
    BY <2>3, <2>4, <2>5
<1> HIDE DEF f
<1>4. Bad = {}
  <2>1. SUFFICES ASSUME Bad # {} PROVE FALSE
    OBVIOUS
  <2>2. PICK n \in Bad : \A m \in Bad : n <= m
    <3>1. Bad \in SUBSET Nat
      BY <1>1
    <3> QED
      BY <2>1, <3>1, LeastElement
  <2>3. n # i
    BY <1>1, <1>2, <2>2
  <2>4. n - 1 \in i .. Len(keys) /\ n - 1 \notin Bad /\ n \in 1 .. Len(keys)
    BY <1>1, <2>2, <2>3
  <2>5. f[n - 1] + 1 <= f[n] /\ f[i] + ((n - 1) - i) <= f[n - 1]
    BY <1>3, <2>4
  <2>6. n \in Nat /\ i \in Nat /\ f[i] \in Nat /\ f[n] \in Nat /\ f[n - 1] \in Nat
    BY <1>1, <1>2, <2>4
  <2>7. ~(f[i] + (n - i) <= f[n])
    BY <2>2
  <2> HIDE DEF Bad
  <2> QED
    BY ONLY SMTT(20), <2>5, <2>6, <2>7
<1> QED
  BY <1>4 DEF f

\* A sequence that is a part of another has the same offsets, from where it
\* begins.
LEMMA OffsetOfPart ==
  ASSUME NEW whole \in Seq(Keys), NEW part \in Seq(Keys), NEW at \in Nat,
         at + Len(part) <= Len(whole),
         \A i \in 1 .. Len(part) : whole[at + i] = part[i]
  PROVE  \A i \in 0 .. Len(part) :
           Offset(whole)[at + i] = Offset(whole)[at] + Offset(part)[i]
<1>1. Len(whole) \in Nat /\ Len(part) \in Nat
  BY LenProperties
<1> DEFINE f == Offset(whole)
           g == Offset(part)
           Bad == {n \in 0 .. Len(part) : f[at + n] # f[at] + g[n]}
<1>2. /\ \A n \in 0 .. Len(whole) : f[n] \in Nat
      /\ \A n \in 0 .. Len(part) : g[n] \in Nat
      /\ \A n \in 1 .. Len(whole) : f[n] = f[n - 1] + Size[whole[n]]
      /\ \A n \in 1 .. Len(part) : g[n] = g[n - 1] + Size[part[n]]
      /\ g[0] = 0
  BY OffsetIs
<1> HIDE DEF f, g
<1>3. Bad = {}
  <2>1. SUFFICES ASSUME Bad # {} PROVE FALSE
    OBVIOUS
  <2>2. PICK n \in Bad : \A m \in Bad : n <= m
    <3>1. Bad \in SUBSET Nat
      BY <1>1
    <3> QED
      BY <2>1, <3>1, LeastElement
  <2>3. n # 0
    BY <1>1, <1>2, <2>2
  <2>4. n - 1 \in 0 .. Len(part) /\ n - 1 \notin Bad /\ n \in 1 .. Len(part)
    BY <1>1, <2>2, <2>3
  <2>5. part[n] \in Keys /\ whole[at + n] = part[n]
    BY <1>1, <2>4, ElementOfSeq
  <2>6. Size[part[n]] \in Nat
    BY <2>5, Names
  <2>7. at + n \in 1 .. Len(whole) /\ (at + n) - 1 = at + (n - 1)
    BY <1>1, <2>4
  <2>8. f[at + n] = f[at + (n - 1)] + Size[part[n]]
    BY <1>2, <2>5, <2>7
  <2>9. f[at + (n - 1)] = f[at] + g[n - 1]
    BY <2>4
  <2>10. g[n] = g[n - 1] + Size[part[n]]
    BY <1>2, <2>4
  <2>11. f[at] \in Nat /\ g[n - 1] \in Nat
    BY <1>1, <1>2, <2>4
  <2>12. f[at + n] = f[at] + g[n]
    BY SMTT(20), <2>6, <2>8, <2>9, <2>10, <2>11
  <2> QED
    BY <2>2, <2>12
<1> QED
  BY <1>3 DEF f, g

\* The receiver cuts where a chunk ends that still fits and the next does not.
LEMMA ReadBufferIs ==
  ASSUME NEW keys \in Seq(Keys), NEW got \in 0 .. Len(keys), NEW n \in 0 .. Len(keys) - got,
         Offset(keys)[got + n] - Offset(keys)[got] <= Capacity,
         \/ got + n = Len(keys)
         \/ Offset(keys)[got + n + 1] - Offset(keys)[got] > Capacity
  PROVE  ReadBuffer(keys, got) = n
<1>1. Len(keys) \in Nat
  BY LenProperties
<1> DEFINE f == Offset(keys)
           Fits == {m \in 0 .. Len(keys) - got : f[got + m] - f[got] <= Capacity}
<1>2. \A m \in 0 .. Len(keys) : f[m] \in Nat
  BY OffsetIs
<1>3. n \in Fits
  OBVIOUS
<1>4. ASSUME NEW m \in Fits PROVE n >= m
  <2>1. SUFFICES ASSUME m > n PROVE FALSE
    BY <1>1
  <2>2. got + n + 1 \in 0 .. Len(keys) /\ got + m \in (got + n + 1) .. Len(keys)
    BY <1>1, <2>1
  <2>3. f[got + n + 1] + ((got + m) - (got + n + 1)) <= f[got + m]
    BY <2>2, OffsetGrows
  <2>4. f[got] \in Nat /\ f[got + m] \in Nat /\ f[got + n + 1] \in Nat
    BY <1>1, <1>2, <2>2
  <2>5. f[got + n + 1] - f[got] > Capacity /\ f[got + m] - f[got] <= Capacity
    BY <1>1, <2>1
  <2> HIDE DEF f
  <2> QED
    BY <1>1, <2>1, <2>3, <2>4, <2>5, Names
<1>5. \A m \in Fits : (\A x \in Fits : m >= x) => m = n
  BY <1>1, <1>3, <1>4
<1>6. ReadBuffer(keys, got) = CHOOSE m \in Fits : \A x \in Fits : m >= x
  BY DEF ReadBuffer, Max
<1> HIDE DEF Fits
<1> QED
  BY <1>3, <1>4, <1>5, <1>6

-----------------------------------------------------------------------------
LEMMA SpanIs ==
  ASSUME NEW s \in Senders, sent[s] \in Seq(Keys)
  PROVE  /\ Len(sent[s]) \in Nat
         /\ \A i, j \in 0 .. Len(sent[s]) : Span(s, i, j) \in Int
         /\ \A i, j \in 0 .. Len(sent[s]) : i <= j => j - i <= Span(s, i, j)
         /\ \A i \in 0 .. Len(sent[s]) : Span(s, i, i) = 0
         /\ \A i, j, k \in 0 .. Len(sent[s]) : Span(s, i, k) = Span(s, i, j) + Span(s, j, k)
         /\ \A i \in 0 .. Len(sent[s]) : \A j \in 1 .. Len(sent[s]) :
              Span(s, i, j) = Span(s, i, j - 1) + Size[sent[s][j]]
<1>1. Len(sent[s]) \in Nat
  BY LenProperties
<1> DEFINE f == Offset(sent[s])
<1>2. /\ \A i \in 0 .. Len(sent[s]) : f[i] \in Nat
      /\ \A i \in 1 .. Len(sent[s]) : f[i] = f[i - 1] + Size[sent[s][i]]
  BY OffsetIs
<1>3. \A i, j \in 0 .. Len(sent[s]) : i <= j => f[i] + (j - i) <= f[j]
  BY <1>1, OffsetGrows
<1>4. \A j \in 1 .. Len(sent[s]) : sent[s][j] \in Keys /\ Size[sent[s][j]] \in Nat
  BY <1>1, ElementOfSeq, Names
<1>5. \A i, j : Span(s, i, j) = f[j] - f[i]
  BY DEF Span
<1> HIDE DEF f
<1>6. \A i, j \in 0 .. Len(sent[s]) : Span(s, i, j) \in Int
  BY <1>2, <1>5
<1>7. \A i, j \in 0 .. Len(sent[s]) : i <= j => j - i <= Span(s, i, j)
  BY <1>1, <1>2, <1>3, <1>5
<1>8. \A i, j, k \in 0 .. Len(sent[s]) : Span(s, i, k) = Span(s, i, j) + Span(s, j, k)
  BY SMTT(20), <1>2, <1>5
<1>10. \A i \in 0 .. Len(sent[s]) : Span(s, i, i) = 0
  BY <1>2, <1>5
<1>9. ASSUME NEW i \in 0 .. Len(sent[s]), NEW j \in 1 .. Len(sent[s])
      PROVE  Span(s, i, j) = Span(s, i, j - 1) + Size[sent[s][j]]
  <2>1. f[j] = f[j - 1] + Size[sent[s][j]] /\ f[i] \in Nat /\ f[j - 1] \in Nat
    BY <1>1, <1>2
  <2> QED
    BY <1>4, <1>5, <2>1
<1> QED
  BY <1>1, <1>6, <1>7, <1>8, <1>9, <1>10

-----------------------------------------------------------------------------
(* A step that leaves alone what concerns a sender keeps its invariant.    *)
SamePosition(s) ==
  /\ job'[s] = job[s] /\ placed'[s] = placed[s]
  /\ sent'[s] = sent[s] /\ written'[s] = written[s]

SameSender(s) ==
  /\ SamePosition(s)
  /\ buffer'[s] = buffer[s] /\ allocated'[s] = allocated[s]

SameReceiver(s) ==
  \/ trans' = trans /\ pc'[Receiver] = pc[Receiver]
  \/ trans.from # s /\ trans'.from # s

SameChannels(s) ==
  /\ side'[s] = side[s] /\ acks'[s] = acks[s]
  /\ pipes'[s] = pipes[s] /\ notifs'[s] = notifs[s]

Untouched(s) ==
  /\ pc'[s] = pc[s] /\ SameSender(s) /\ SameReceiver(s) /\ SameChannels(s)
  /\ delivered'[s] = delivered[s]

LEMMA SameSenderKeeps ==
  ASSUME NEW s \in Senders, SameSender(s), StreamOfJob(s), BufferOfJob(s), pc'[s] = pc[s]
  PROVE  StreamOfJob(s)' /\ BufferOfJob(s)'
BY ZenonT(30) DEF SameSender, SamePosition, StreamOfJob, BufferOfJob, Base, Placed, Has, OneWrite, Span

LEMMA UntouchedKeeps ==
  ASSUME NEW s \in Senders, Inv(s), Untouched(s)
  PROVE  Inv(s)'
<1> USE DEF Untouched
<1>1. StreamOfJob(s)' /\ BufferOfJob(s)'
  BY SameSenderKeeps DEF Inv
<1>2. OneToken(s)' /\ (Connecting(s)' => Handshake(s)')
  BY DEF Inv, OneToken, Acked, Writing, Notified, Reading, HasToken, Connecting,
         Handshake, SameReceiver, SameChannels, SameSender, SamePosition
<1>3. (~Connecting(s) => pc[s] # "new")' /\ (pc[s] \in SenderLabels)'
  BY DEF Inv, Connecting, SameChannels, SenderLabels
<1>4. ASSUME ~Connecting(s)', HasToken(s)' PROVE InStep(s)'
  <2>1. InStep(s) /\ (Reading(s)' <=> Reading(s))
    BY <1>4 DEF Inv, Connecting, HasToken, Acked, Writing, Notified, Reading,
                SameReceiver, SameChannels
  <2>2. /\ Begin(s)' = Begin(s) /\ Current(s)' = Current(s) /\ Later(s)' = Later(s)
        /\ Base(s)' = Base(s) /\ Placed(s)' = Placed(s) /\ Done(s)' = Done(s)
    BY DEF Begin, Current, Later, Base, Placed, Done, SameReceiver, SameChannels,
           SameSender, SamePosition
  <2>3. End(s)' = End(s)
    BY <2>2 DEF End
  <2>4. Requests(s)'
    BY <2>1, <2>2, <2>3
       DEF InStep, Requests, SameSender, SamePosition, SameChannels, SameReceiver
  <2>5. Transaction(s)'
    BY <2>1 DEF InStep, Transaction, SameReceiver
  <2>6. WhileWriting(s)'
    BY <2>1, <2>2 DEF InStep, WhileWriting, Acked, Writing, Has, Span,
                      SameSender, SamePosition, SameChannels
  <2>7. WhileReading(s)'
    BY <2>1, <2>2, <2>3 DEF InStep, WhileReading, Notified, Reading, Has, OneWrite, Span,
                      SameSender, SamePosition, SameChannels, SameReceiver
  <2> QED
    BY <2>4, <2>5, <2>6, <2>7 DEF InStep
<1> QED
  BY <1>1, <1>2, <1>3, <1>4 DEF Inv

-----------------------------------------------------------------------------
(* Every step respects the types.                                          *)
LEMMA SequenceTypes ==
  ASSUME NEW S, NEW u \in Seq(S)
  PROVE  /\ Len(u) \in Nat /\ <<>> \in Seq(S)
         /\ \A e \in S : Append(u, e) \in Seq(S)
         /\ \A v \in Seq(S) : u \o v \in Seq(S) /\ Len(u \o v) = Len(u) + Len(v)
         /\ u # <<>> => Head(u) \in S /\ Tail(u) \in Seq(S) /\ Len(u) >= 1
<1>1. \A v \in Seq(S) : u \o v \in Seq(S) /\ Len(u \o v) = Len(u) + Len(v)
  BY ConcatProperties
<1>2. u # <<>> => Head(u) \in S /\ Tail(u) \in Seq(S) /\ Len(u) >= 1
  BY HeadTailProperties, EmptySeq, LenProperties
<1> QED
  BY <1>1, <1>2, LenProperties, EmptySeq, AppendProperties

LEMMA InitTypes == Init => Types
<1> SUFFICES ASSUME Init PROVE Types
  OBVIOUS
<1> USE Names DEF Init, InitSenders, InitReceiver, InitPool
<1>1. pc \in [Senders \cup {Receiver} -> SenderLabels \cup ReceiverLabels]
      /\ pc[Receiver] \in ReceiverLabels
  BY DEF SenderLabels, ReceiverLabels
<1>2. Empty \in Contents
  BY DEF Empty, Contents
<1>3. SenderTypes
  BY <1>2, EmptySeq DEF SenderTypes
<1>4. NoPipe \in [buffer : Contents, uuid : Nat]
  BY <1>2 DEF NoPipe
<1>5. NoTrans \in [from : Senders \cup {None}, keys : Seq(Keys),
                   got : Nat, read : Nat, seen : Nat]
  BY EmptySeq DEF NoTrans
<1>6. ReceiverTypes
  BY <1>4, <1>5, EmptySeq DEF ReceiverTypes
<1> QED
  BY <1>1, <1>3, <1>6 DEF Types

LEMMA PcTypes ==
  ASSUME Types, NEW t \in Senders \cup {Receiver}, NEW l,
         l \in IF t = Receiver THEN ReceiverLabels ELSE SenderLabels, Goto(t, l)
  PROVE  /\ pc' \in [Senders \cup {Receiver} -> SenderLabels \cup ReceiverLabels]
         /\ pc'[Receiver] \in ReceiverLabels
BY Names DEF Types, Goto

LEMMA SenderTypesStep ==
  ASSUME Types, NEW s \in Senders, StreamOfJob(s),
         SenderStep(s) \/ \E keys \in Stores[s] : PreparePut(s, keys)
  PROVE  Types'
<1> USE DEF Types
<1> DEFINE PcOK == /\ pc' \in [Senders \cup {Receiver} -> SenderLabels \cup ReceiverLabels]
                   /\ pc'[Receiver] \in ReceiverLabels
<1>0. s # Receiver /\ s \in Senders \cup {Receiver}
  BY Names
<1>1. ASSUME NEW l \in SenderLabels, Goto(s, l) PROVE PcOK
  BY <1>0, <1>1, PcTypes
<1>l. {"new", "handshake", "idle", "fill", "spin", "write", "notify"} = SenderLabels
  BY DEF SenderLabels
<1> HIDE DEF PcOK
<1>p. PcOK => /\ pc' \in [Senders \cup {Receiver} -> SenderLabels \cup ReceiverLabels]
              /\ pc'[Receiver] \in ReceiverLabels
  BY DEF PcOK
<1>u. pc' = pc => PcOK
  BY DEF PcOK
<1>2. CASE Connect(s)
  <2>1. <<>> \in Seq(Keys) /\ side[s] \in Seq(Seq(Keys))
    BY EmptySeq DEF ReceiverTypes
  <2>2. Append(side[s], <<>>) \in Seq(Seq(Keys))
    BY <2>1, SequenceTypes
  <2>3. PcOK
    BY <1>1, <1>2, <1>l DEF Connect
  <2> QED
    BY <1>2, <1>p, <2>2, <2>3 DEF Connect, SenderTypes, ReceiverTypes, sender
<1>3. CASE Connected(s)
  <2>1. PcOK
    BY <1>1, <1>3, <1>l DEF Connected
  <2> QED
    BY <1>3, <1>p, <2>1 DEF Connected, SenderTypes, ReceiverTypes, sender
<1>4. ASSUME NEW keys \in Stores[s], PreparePut(s, keys) PROVE Types'
  <2>1. keys \in Seq(Keys) /\ side[s] \in Seq(Seq(Keys)) /\ sent[s] \in Seq(Keys)
    BY Names DEF ReceiverTypes, SenderTypes
  <2>2. Append(side[s], keys) \in Seq(Seq(Keys)) /\ sent[s] \o keys \in Seq(Keys)
    BY <2>1, SequenceTypes
  <2>3. PcOK
    BY <1>1, <1>4, <1>l DEF PreparePut
  <2> QED
    <3>1. SenderTypes'
      BY SMTT(20), <1>4, <2>1, <2>2 DEF PreparePut, RegisterPutTasks, SenderTypes
    <3>2. ReceiverTypes'
      BY <1>4, <2>2 DEF PreparePut, RegisterPutTasks, PrepareSend, ReceiverTypes
    <3> QED
      BY <1>p, <2>3, <3>1, <3>2
<1>5. CASE Allocate(s)
  <2> DEFINE k == job[s][placed[s] + 1]
  <2>1. placed[s] \in Nat /\ job[s] \in Seq(Keys) /\ Len(job[s]) \in Nat
    BY LenProperties DEF SenderTypes
  <2>2. k \in Keys
    BY <1>5, <2>1, ElementOfSeq DEF Allocate, NextFits
  <2>3. Size[k] \in Nat
    BY <2>2, Names
  <2>4. BufferAllocate(s, k) /\ pc' = pc
    BY <1>5 DEF Allocate, AllocateZeroCopyWriteObject
  <2> HIDE DEF k
  <2>5. buffer' \in [Senders -> Contents]
    BY <2>2, <2>4 DEF BufferAllocate, SenderTypes, Contents
  <2>6. allocated' \in [Senders -> Nat]
    BY <2>3, <2>4 DEF BufferAllocate, SenderTypes
  <2>7. placed' \in [Senders -> Nat]
    BY <1>5 DEF Allocate, AllocateZeroCopyWriteObject, SenderTypes
  <2> QED
    BY <1>5, <1>p, <1>u, <2>4, <2>5, <2>6, <2>7 DEF Allocate, SenderTypes, ReceiverTypes
<1>6. CASE Flush(s)
  <2>1. PcOK
    BY <1>1, <1>6, <1>l DEF Flush
  <2> QED
    BY <1>6, <1>p, <2>1 DEF Flush, SenderTypes, ReceiverTypes, sender
<1>7. CASE SpinCheckForAck(s)
  <2>1. PcOK
    BY <1>1, <1>7, <1>l DEF SpinCheckForAck
  <2>2. Head(acks[s]) \in Nat /\ <<>> \in Seq(Nat)
    BY <1>7, SequenceTypes DEF SpinCheckForAck, ReceiverTypes
  <2> QED
    BY <1>7, <1>p, <2>1, <2>2 DEF SpinCheckForAck, SenderTypes, ReceiverTypes
<1>8. CASE CommitWrite(s)
  <2>1. PcOK
    BY <1>1, <1>8, <1>l DEF CommitWrite
  <2>2. pipes' \in [Senders -> [buffer : Contents, uuid : Nat]]
    <3>1. pipes \in [Senders -> [buffer : Contents, uuid : Nat]]
      BY DEF ReceiverTypes
    <3> DEFINE new == [b \in Bytes |-> IF b \in Written(allocated[s])
                                      THEN buffer[s][b] ELSE pipes[s].buffer[b]]
    <3>2. new \in Contents
      BY <3>1 DEF SenderTypes, Contents
    <3>3. CASE pipes' = pipes
      BY <3>1, <3>3
    <3>4. CASE pipes' = [pipes EXCEPT ![s].buffer = new]
      <4> HIDE DEF new
      <4> QED
        BY <3>1, <3>2, <3>4
    <3> QED
      BY <1>8, <3>3, <3>4 DEF CommitWrite
  <2> QED
    BY <1>8, <1>p, <2>1, <2>2 DEF CommitWrite, SenderTypes, ReceiverTypes, sender
<1>9. CASE SendNotif(s)
  <2>1. PcOK
    BY <1>1, <1>9, <1>l DEF SendNotif, FinishSend
  <2>2. job' \in [Senders -> Seq(Keys)] /\ placed' \in [Senders -> Nat]
    <3>1. CASE FinishSend(s)
      BY <3>1, EmptySeq DEF FinishSend, SenderTypes
    <3>2. CASE UNCHANGED <<job, placed>>
      BY <3>2 DEF SenderTypes
    <3> QED
      BY <1>9, <3>1, <3>2 DEF SendNotif
  <2>3. written' \in [Senders -> Nat]
    <3>1. SUFFICES Len(sent[s]) - Len(job[s]) + placed[s] \in Nat
      BY <1>9 DEF SendNotif, SenderTypes
    <3>2. /\ Len(sent[s]) \in Nat /\ Len(job[s]) \in Nat /\ placed[s] \in Nat
      BY LenProperties DEF SenderTypes
    <3>3. Len(job[s]) <= Len(sent[s])
      BY DEF StreamOfJob
    <3>4. \A l, m, n \in Nat : m <= l => l - m + n \in Nat
      OBVIOUS
    <3> QED
      BY <3>2, <3>3, <3>4
  <2>4. SenderTypes'
    BY <1>9, <2>2, <2>3 DEF SendNotif, SenderTypes
  <2>5. uuid[s] \in Nat /\ notifs \in [Senders -> SUBSET Nat]
    BY DEF SenderTypes, ReceiverTypes
  <2>6. notifs' \in [Senders -> SUBSET Nat]
    BY <1>9, <2>5 DEF SendNotif
  <2>7. ReceiverTypes'
    BY <1>9, <2>6 DEF SendNotif, ReceiverTypes
  <2> QED
    BY <1>p, <2>1, <2>4, <2>7
<1> QED
  BY <1>2, <1>3, <1>4, <1>5, <1>6, <1>7, <1>8, <1>9 DEF SenderStep

-----------------------------------------------------------------------------
(* What the receiver reads.                                                *)

\* The receiver's thread is at work for a sender that has a pipe.
LEMMA InTransaction ==
  ASSUME Types, ReceiverBusy, \A s \in Senders : Inv(s), pc[Receiver] # "poll"
  PROVE  /\ trans.from \in Senders /\ ~Connecting(trans.from)
         /\ HasToken(trans.from) => InStep(trans.from)
<1>1. trans.from \in Senders
  BY DEF ReceiverBusy
<1>2. ~Connecting(trans.from)
  BY <1>1 DEF Inv, Handshake
<1> QED
  BY <1>1, <1>2 DEF Inv

\* The bytes of the chunks of a request are those of this part of the stream.
LEMMA RequestIsPart ==
  ASSUME Types, NEW s \in Senders, trans.from = s, Requests(s)
  PROVE  /\ Begin(s) = Done(s) - (trans.got + trans.seen) /\ Begin(s) \in Nat
         /\ Done(s) \in Nat /\ Len(trans.keys) \in Nat /\ Len(sent[s]) \in Nat
         /\ End(s) = Begin(s) + Len(trans.keys) /\ End(s) <= Len(sent[s])
         /\ \A i \in 1 .. Len(trans.keys) : sent[s][Begin(s) + i] = trans.keys[i]
         /\ \A i, j \in 0 .. Len(trans.keys) :
              Offset(trans.keys)[j] - Offset(trans.keys)[i]
                = Span(s, Begin(s) + i, Begin(s) + j)
<1>1. /\ trans.keys \in Seq(Keys) /\ sent[s] \in Seq(Keys) /\ delivered[s] \in Seq(Objects)
      /\ trans.got \in Nat /\ trans.seen \in Nat
  BY DEF Types, SenderTypes, ReceiverTypes
<1>2. Len(trans.keys) \in Nat /\ Len(sent[s]) \in Nat /\ Done(s) \in Nat
  BY <1>1, LenProperties DEF Done
<1>3. Begin(s) = Done(s) - (trans.got + trans.seen) /\ Begin(s) >= 0
  BY DEF Begin, Requests
<1>4. Begin(s) \in Nat
  BY <1>1, <1>2, <1>3
<1>5. Current(s) = trans.keys
  BY DEF Current
<1>6. End(s) = Begin(s) + Len(trans.keys) /\ End(s) <= Len(sent[s])
  BY <1>5 DEF End, Requests
<1>7. \A i \in 1 .. Len(trans.keys) : sent[s][Begin(s) + i] = trans.keys[i]
  BY <1>5 DEF Requests
<1>8. \A i \in 0 .. Len(trans.keys) :
        Offset(sent[s])[Begin(s) + i] = Offset(sent[s])[Begin(s)] + Offset(trans.keys)[i]
  BY ZenonT(30), <1>1, <1>4, <1>6, <1>7, OffsetOfPart
<1> DEFINE f == Offset(sent[s])
           g == Offset(trans.keys)
<1>9. /\ \A n \in 0 .. Len(sent[s]) : f[n] \in Nat
      /\ \A n \in 0 .. Len(trans.keys) : g[n] \in Nat
  BY <1>1, OffsetIs
<1>10. \A i, j : Span(s, i, j) = f[j] - f[i]
  BY DEF Span
<1>11. f[Begin(s)] \in Nat
  BY <1>2, <1>4, <1>6, <1>9
<1> HIDE DEF f, g
<1>12. ASSUME NEW i \in 0 .. Len(trans.keys), NEW j \in 0 .. Len(trans.keys)
       PROVE  g[j] - g[i] = Span(s, Begin(s) + i, Begin(s) + j)
  <2>1. f[Begin(s) + i] = f[Begin(s)] + g[i] /\ f[Begin(s) + j] = f[Begin(s)] + g[j]
    BY <1>8 DEF f, g
  <2>2. g[i] \in Nat /\ g[j] \in Nat
    BY <1>9
  <2> QED
    BY <1>10, <1>11, <2>1, <2>2
<1> QED
  BY <1>2, <1>3, <1>4, <1>6, <1>7, <1>12 DEF g

\* When its notification has come, the receiver cuts off just that write.
LEMMA ReadsOneWrite ==
  ASSUME Types, ReceiverBusy, \A s \in Senders : Inv(s), WaitRead
  PROVE  LET s == trans.from IN
         /\ s \in Senders /\ ~Connecting(s) /\ Notified(s) /\ InStep(s)
         /\ trans.read = 0 /\ trans.seen = 0
         /\ ReadBuffer(trans.keys, trans.got) \in Nat
         /\ ReadBuffer(trans.keys, trans.got) = written[s] - Done(s)
<1> DEFINE s == trans.from
<1>1. pc[Receiver] = "wait" /\ pipes[s].uuid \in notifs[s]
  BY DEF WaitRead
<1>2. s \in Senders /\ ~Connecting(s) /\ Notified(s) /\ InStep(s)
  <2>1. Notified(s) /\ HasToken(s)
    BY <1>1 DEF Notified, HasToken
  <2> QED
    BY <1>1, <2>1, InTransaction
<1>3. trans.read = 0 /\ trans.seen = 0 /\ trans.got < Len(trans.keys)
  BY <1>1, <1>2 DEF InStep, Transaction
<1>4. /\ OneWrite(s, Done(s), written[s], End(s)) /\ written[s] <= End(s)
      /\ Requests(s)
  BY <1>2 DEF InStep, WhileReading
<1>5. /\ trans.got \in Nat /\ written[s] \in Nat /\ trans.keys \in Seq(Keys)
  BY <1>2 DEF Types, SenderTypes, ReceiverTypes
<1>6. /\ Begin(s) = Done(s) - trans.got /\ Begin(s) \in Nat
      /\ Done(s) \in Nat /\ Len(trans.keys) \in Nat
      /\ End(s) = Begin(s) + Len(trans.keys)
      /\ \A i, j \in 0 .. Len(trans.keys) :
           Offset(trans.keys)[j] - Offset(trans.keys)[i]
             = Span(s, Begin(s) + i, Begin(s) + j)
  BY <1>2, <1>3, <1>4, <1>5, RequestIsPart
<1> DEFINE n == written[s] - Done(s)
           got == trans.got
           len == Len(trans.keys)
           b == Begin(s)
<1> HIDE DEF s
<1>7. /\ Done(s) < written[s] /\ Span(s, Done(s), written[s]) <= Capacity
      /\ written[s] = End(s) \/ Span(s, Done(s), written[s] + 1) > Capacity
  BY <1>4 DEF OneWrite
<1>8. /\ n \in 0 .. len - got /\ b + got = Done(s) /\ b + (got + n) = written[s]
      /\ got + n # len => written[s] # End(s) /\ got + n + 1 \in 0 .. len
                          /\ b + (got + n + 1) = written[s] + 1
      /\ got + n \in 0 .. len /\ got \in 0 .. len
  <2>1. /\ got \in Nat /\ written[s] \in Nat /\ b = Done(s) - got /\ b \in Nat
        /\ Done(s) \in Nat /\ len \in Nat /\ End(s) = b + len
        /\ got < len /\ written[s] <= End(s) /\ Done(s) < written[s]
    BY <1>3, <1>4, <1>5, <1>6, <1>7
  <2> HIDE DEF got, b, len
  <2> QED
    BY <2>1
<1>9. Offset(trans.keys)[got + n] - Offset(trans.keys)[got] <= Capacity
  <2>1. Offset(trans.keys)[got + n] - Offset(trans.keys)[got]
          = Span(s, b + got, b + (got + n))
    BY <1>6, <1>8
  <2> QED
    BY <1>7, <1>8, <2>1
<1>10. ASSUME got + n # len
       PROVE  Offset(trans.keys)[got + n + 1] - Offset(trans.keys)[got] > Capacity
  <2>1. Offset(trans.keys)[got + n + 1] - Offset(trans.keys)[got]
          = Span(s, b + got, b + (got + n + 1))
    BY <1>6, <1>8, <1>10
  <2> QED
    BY <1>7, <1>8, <1>10, <2>1
<1>11. ReadBuffer(trans.keys, got) = n
  <2> HIDE DEF n, got
  <2> QED
    BY <1>5, <1>8, <1>9, <1>10, ReadBufferIs
<1> QED
  BY <1>2, <1>3, <1>8, <1>11 DEF s

\* The next object that is observed is the next chunk of the stream, and the
\* receiver's buffer has its bytes, and only its, where the object begins.
LEMMA ObservesNextChunk ==
  ASSUME Types, ReceiverBusy, \A s \in Senders : Inv(s),
         pc[Receiver] = "observe", trans.seen < trans.read
  PROVE  LET s == trans.from
             i == trans.got + trans.seen + 1
             first == Offset(trans.keys)[i - 1] - Offset(trans.keys)[trans.got]
             k == trans.keys[i] IN
         /\ s \in Senders /\ ~Connecting(s) /\ Reading(s) /\ InStep(s)
         /\ k \in Keys /\ Done(s) + 1 \in 1 .. Len(sent[s]) /\ sent[s][Done(s) + 1] = k
         /\ {pipes[s].buffer[b] : b \in first .. first + Size[k] - 1} = {k}
<1> DEFINE s == trans.from
           got == trans.got
           seen == trans.seen
           i == got + seen + 1
           first == Offset(trans.keys)[i - 1] - Offset(trans.keys)[got]
           k == trans.keys[i]
           from == Done(s) - seen
<1>1. Reading(s) /\ HasToken(s)
  BY DEF Reading, HasToken
<1>2. s \in Senders /\ ~Connecting(s) /\ InStep(s)
  BY <1>1, InTransaction
<1>3. /\ got + trans.read <= Len(trans.keys) /\ Requests(s)
      /\ written[s] = from + trans.read /\ Span(s, from, written[s]) <= Capacity
      /\ Has(pipes[s].buffer, s, from, written[s])
  BY <1>1, <1>2 DEF InStep, Transaction, WhileReading
<1>4. /\ got \in Nat /\ seen \in Nat /\ trans.read \in Nat /\ written[s] \in Nat
      /\ trans.keys \in Seq(Keys) /\ sent[s] \in Seq(Keys)
  BY <1>2 DEF Types, SenderTypes, ReceiverTypes
<1>5. /\ Begin(s) = Done(s) - (got + seen) /\ Begin(s) \in Nat
      /\ Done(s) \in Nat /\ Len(trans.keys) \in Nat /\ Len(sent[s]) \in Nat
      /\ Begin(s) + Len(trans.keys) <= Len(sent[s])
      /\ \A j \in 1 .. Len(trans.keys) : sent[s][Begin(s) + j] = trans.keys[j]
      /\ \A j, m \in 0 .. Len(trans.keys) :
           Offset(trans.keys)[m] - Offset(trans.keys)[j]
             = Span(s, Begin(s) + j, Begin(s) + m)
  BY <1>2, <1>3, <1>4, RequestIsPart
<1> HIDE DEF s, got, seen
<1>6. seen < trans.read
  BY DEF seen
<1>7. /\ i \in 1 .. Len(trans.keys) /\ i - 1 \in 0 .. Len(trans.keys)
      /\ got \in 0 .. Len(trans.keys)
      /\ Begin(s) + i = Done(s) + 1 /\ Begin(s) + got = from
      /\ Begin(s) + (i - 1) = Done(s) /\ Done(s) + 1 \in 1 .. Len(sent[s])
      /\ Done(s) + 1 \in (from + 1) .. written[s] /\ from \in 0 .. Len(sent[s])
      /\ written[s] \in (Done(s) + 1) .. Len(sent[s]) /\ Done(s) \in 0 .. Len(sent[s])
      /\ from <= Done(s)
  <2> DEFINE len == Len(trans.keys)
             all == Len(sent[s])
             read == trans.read
             b == Begin(s)
             d == Done(s)
             w == written[s]
  <2>1. /\ got + read <= len /\ w = from + read /\ got \in Nat /\ seen \in Nat
        /\ read \in Nat /\ w \in Nat /\ b = d - (got + seen) /\ b \in Nat
        /\ d \in Nat /\ len \in Nat /\ all \in Nat /\ b + len <= all /\ seen < read
        /\ from = d - seen
    BY <1>3, <1>4, <1>5, <1>6
  <2> HIDE DEF len, all, read, b, d, w, from
  <2>2. /\ i \in 1 .. len /\ i - 1 \in 0 .. len /\ got \in 0 .. len
        /\ b + i = d + 1 /\ b + got = from /\ b + (i - 1) = d
    BY <2>1
  <2>3. /\ from \in 0 .. all /\ from <= d /\ d + 1 \in 1 .. all /\ d \in 0 .. all
        /\ d + 1 \in (from + 1) .. w /\ w \in (d + 1) .. all
    BY <2>1
  <2> QED
    BY <2>2, <2>3 DEF len, all, read, b, d, w
<1>8. k \in Keys
  BY <1>4, <1>5, <1>7, ElementOfSeq
<1>9. sent[s][Done(s) + 1] = k
  <2>1. sent[s][Begin(s) + i] = trans.keys[i]
    BY <1>5, <1>7
  <2>2. Begin(s) + i = Done(s) + 1
    BY <1>7
  <2> QED
    BY <2>1, <2>2
<1>10. first = Span(s, from, Done(s))
  <2>1. first = Span(s, Begin(s) + got, Begin(s) + (i - 1))
    BY <1>5, <1>7
  <2> QED
    BY <1>7, <2>1
<1>11. Size[k] \in Nat /\ Size[k] >= 1
  BY <1>8, Names
<1> HIDE DEF first, i, k, from
<1>12. /\ first \in Nat
       /\ Span(s, from, Done(s) + 1) = first + Size[k]
       /\ first + Size[k] <= Capacity
  <2>1. /\ \A m, n \in 0 .. Len(sent[s]) : Span(s, m, n) \in Int
        /\ \A m, n \in 0 .. Len(sent[s]) : m <= n => n - m <= Span(s, m, n)
        /\ \A l, m, n \in 0 .. Len(sent[s]) : Span(s, l, n) = Span(s, l, m) + Span(s, m, n)
        /\ \A l \in 0 .. Len(sent[s]) : \A n \in 1 .. Len(sent[s]) :
             Span(s, l, n) = Span(s, l, n - 1) + Size[sent[s][n]]
    BY <1>2, <1>4, SpanIs DEF s
  <2>2. from \in Int
    BY <1>4, <1>5 DEF from
  <2>3. first \in Int /\ Done(s) - from <= first
    BY <1>7, <1>10, <2>1
  <2>4. first \in Nat
    BY <1>5, <1>7, <2>2, <2>3
  <2>5. Span(s, from, Done(s) + 1) = Span(s, from, (Done(s) + 1) - 1) + Size[k]
    BY <1>7, <1>9, <2>1
  <2>6. Span(s, from, Done(s) + 1) = first + Size[k]
    BY <1>5, <1>10, <2>5
  <2>7. /\ written[s] \in 0 .. Len(sent[s]) /\ Done(s) + 1 \in 0 .. Len(sent[s])
        /\ Done(s) + 1 <= written[s]
    BY SMTT(20), <1>5, <1>7
  <2>8. Span(s, from, written[s])
          = Span(s, from, Done(s) + 1) + Span(s, Done(s) + 1, written[s])
    BY <1>7, <2>1, <2>7
  <2>9. Span(s, Done(s) + 1, written[s]) \in Int /\ Span(s, Done(s) + 1, written[s]) >= 0
    <3>1. written[s] - (Done(s) + 1) <= Span(s, Done(s) + 1, written[s])
      BY <2>1, <2>7
    <3>2. Span(s, Done(s) + 1, written[s]) \in Int
      BY <2>1, <2>7
    <3>3. written[s] \in Nat /\ Done(s) \in Nat /\ Done(s) + 1 <= written[s]
      BY <1>4, <1>5, <2>7
    <3> QED
      BY <3>1, <3>2, <3>3
  <2> QED
    BY <1>3, <1>11, <2>4, <2>6, <2>8, <2>9, Names
<1>13. ASSUME NEW b \in first .. first + Size[k] - 1 PROVE pipes[s].buffer[b] = k
  <2>1. b \in Bytes /\ first <= b /\ b < first + Size[k]
    BY <1>11, <1>12, Names DEF Bytes
  <2>2. Span(s, from, (Done(s) + 1) - 1) = first
    BY <1>5, <1>10
  <2>3. \A m \in (from + 1) .. written[s] : \A c \in Bytes :
          Span(s, from, m - 1) <= c /\ c < Span(s, from, m) => pipes[s].buffer[c] = sent[s][m]
    BY <1>3 DEF Has
  <2> QED
    BY <1>7, <1>9, <1>12, <2>1, <2>2, <2>3
<1>14. first \in first .. first + Size[k] - 1
  BY <1>11, <1>12
<1>15. {pipes[s].buffer[b] : b \in first .. first + Size[k] - 1} = {k}
  BY <1>13, <1>14
<1> QED
  BY <1>1, <1>2, <1>7, <1>8, <1>9, <1>15 DEF first, i, k, s, got, seen

LEMMA ReceiverTypesStep ==
  ASSUME Types, ReceiverBusy, \A s \in Senders : Inv(s), ReceiverStep
  PROVE  Types'
<1> DEFINE PcOK == /\ pc' \in [Senders \cup {Receiver} -> SenderLabels \cup ReceiverLabels]
                   /\ pc'[Receiver] \in ReceiverLabels
           Trans == [from : Senders \cup {None}, keys : Seq(Keys),
                     got : Nat, read : Nat, seen : Nat]
           Pipes == [Senders -> [buffer : Contents, uuid : Nat]]
<1>1. ASSUME NEW l \in ReceiverLabels, Goto(Receiver, l) PROVE PcOK
  BY <1>1, PcTypes
<1>2. pc' = pc => PcOK
  BY DEF Types
<1>l. {"poll", "wait", "observe"} = ReceiverLabels
  BY DEF ReceiverLabels
<1>3. /\ side \in [Senders -> Seq(Seq(Keys))] /\ acks \in [Senders -> Seq(Nat)]
      /\ pipes \in Pipes /\ notifs \in [Senders -> SUBSET Nat]
      /\ trans \in Trans /\ delivered \in [Senders -> Seq(Objects)]
  BY DEF Types, ReceiverTypes
<1>4. NoTrans \in Trans
  BY EmptySeq DEF NoTrans
<1>5. Receiver \notin Senders
  BY Names
<1>p. ASSUME PcOK, sender' = sender, side' \in [Senders -> Seq(Seq(Keys))],
             acks' \in [Senders -> Seq(Nat)], pipes' \in Pipes,
             notifs' \in [Senders -> SUBSET Nat], trans' \in Trans,
             delivered' \in [Senders -> Seq(Objects)]
      PROVE  Types'
  BY <1>p DEF Types, SenderTypes, ReceiverTypes, sender
<1> HIDE DEF PcOK, Trans
<1>6. ASSUME NEW s \in Senders, InitializePipe(s) PROVE Types'
  <2>1. Append(acks[s], 1) \in Seq(Nat) /\ Tail(side[s]) \in Seq(Seq(Keys))
    BY <1>3, <1>6, SequenceTypes DEF InitializePipe
  <2>2. [buffer |-> Empty, uuid |-> 1] \in [buffer : Contents, uuid : Nat]
    BY DEF Empty, Contents
  <2>3. pipes' \in Pipes
    BY <1>3, <1>6, <2>2 DEF InitializePipe
  <2> QED
    BY <1>2, <1>3, <1>6, <1>p, <2>1, <2>3 DEF InitializePipe, AckReceive
<1>7. ASSUME NEW s \in Senders, ReceiveRequest(s) PROVE Types'
  <2>1. Head(side[s]) \in Seq(Keys) /\ Tail(side[s]) \in Seq(Seq(Keys))
    BY <1>3, <1>7, SequenceTypes DEF ReceiveRequest
  <2>2. trans' \in Trans
    BY <1>7, <2>1 DEF ReceiveRequest, NoTrans, Trans
  <2>3. PcOK
    BY <1>1, <1>7, <1>l DEF ReceiveRequest
  <2> QED
    BY <1>3, <1>7, <1>p, <2>1, <2>2, <2>3 DEF ReceiveRequest
<1>8. CASE WaitRead
  <2>1. PcOK
    BY <1>1, <1>8, <1>l DEF WaitRead
  <2>2. notifs' \in [Senders -> SUBSET Nat]
    BY <1>3, <1>8 DEF WaitRead
  <2>3. ReadBuffer(trans.keys, trans.got) \in Nat
    BY <1>8, ReadsOneWrite
  <2>4. trans' \in Trans
    BY <1>3, <1>8, <2>3 DEF WaitRead, Trans
  <2> QED
    BY <1>3, <1>8, <1>p, <2>1, <2>2, <2>4 DEF WaitRead
<1>9. CASE Observe
  <2> DEFINE i == trans.got + trans.seen + 1
             first == Offset(trans.keys)[i - 1] - Offset(trans.keys)[trans.got]
  <2>1. PcOK
    BY <1>1, <1>2, <1>9, <1>l DEF Observe
  <2>2. trans' \in Trans
    <3>1. CASE trans' = NoTrans
      BY <1>4, <3>1
    <3>2. CASE trans' = [trans EXCEPT !.seen = @ + 1]
      <4>1. trans \in Trans
        BY <1>3
      <4>2. trans.seen + 1 \in Nat
        BY <4>1 DEF Trans
      <4> QED
        BY <3>2, <4>1, <4>2 DEF Trans
    <3> QED
      BY <1>9, <3>1, <3>2 DEF Observe
  <2>3. delivered' \in [Senders -> Seq(Objects)]
    <3>1. CASE delivered' = delivered
      BY <1>3, <3>1
    <3>2. ASSUME CloneAndAdd(trans.from, trans.keys[i], first)
          PROVE  delivered' \in [Senders -> Seq(Objects)]
      <4> DEFINE s == trans.from
                 k == trans.keys[i]
                 object == [key |-> k,
                            bytes |-> {pipes[s].buffer[b] : b \in first .. first + Size[k] - 1}]
      <4>1. /\ s \in Senders /\ k \in Keys
            /\ {pipes[s].buffer[b] : b \in first .. first + Size[k] - 1} = {k}
        BY <1>9, ObservesNextChunk DEF Observe
      <4>2. object \in Objects
        BY <4>1 DEF Objects
      <4>3. delivered' = [delivered EXCEPT ![s] = Append(@, object)]
        BY <3>2 DEF CloneAndAdd
      <4> HIDE DEF object, s
      <4>4. delivered[s] \in Seq(Objects)
        BY <1>3, <4>1
      <4>5. Append(delivered[s], object) \in Seq(Objects)
        BY <4>2, <4>4, SequenceTypes
      <4> QED
        BY <1>3, <4>3, <4>5
    <3> QED
      BY <1>9, <3>1, <3>2 DEF Observe
  <2> QED
    BY <1>3, <1>9, <1>p, <2>1, <2>2, <2>3 DEF Observe
<1>10. CASE Acknowledge
  <2> DEFINE s == trans.from
             got == trans.got + trans.read
  <2>1. s \in Senders /\ pipes[s].uuid + 1 \in Nat /\ got \in Nat
    <3>1. pc[Receiver] # "poll"
      BY <1>10 DEF Acknowledge
    <3>2. s \in Senders
      BY <3>1 DEF ReceiverBusy
    <3>3. got \in Nat
      BY <1>3 DEF Trans
    <3> QED
      BY <1>3, <3>2, <3>3
  <2>2. PcOK
    BY <1>1, <1>10, <1>l DEF Acknowledge
  <2>3. Append(acks[s], pipes[s].uuid + 1) \in Seq(Nat)
    BY <1>3, <2>1, SequenceTypes
  <2>4. acks' \in [Senders -> Seq(Nat)]
    BY <1>3, <1>10, <2>3 DEF Acknowledge, AckReceive
  <2>5. pipes' \in Pipes
    BY <1>3, <1>10, <2>1 DEF Acknowledge
  <2>6. trans' \in Trans
    <3>1. CASE trans' = NoTrans
      BY <1>4, <3>1
    <3>2. CASE trans' = [trans EXCEPT !.got = got, !.read = 0, !.seen = 0]
      BY <1>3, <2>1, <3>2 DEF Trans
    <3> QED
      BY <1>10, <3>1, <3>2 DEF Acknowledge
  <2> QED
    BY <1>3, <1>10, <1>p, <2>2, <2>4, <2>5, <2>6 DEF Acknowledge
<1> QED
  BY <1>6, <1>7, <1>8, <1>9, <1>10 DEF ReceiverStep

-----------------------------------------------------------------------------
(* The invariant of a sender, over its own steps.                          *)
LEMMA AtSender ==
  ASSUME Types, NEW s \in Senders, StreamOfJob(s)
  PROVE  /\ s # Receiver /\ pc[s] \in SenderLabels \cup ReceiverLabels
         /\ job[s] \in Seq(Keys) /\ Len(job[s]) \in Nat /\ placed[s] \in Nat
         /\ sent[s] \in Seq(Keys) /\ Len(sent[s]) \in Nat /\ written[s] \in Nat
         /\ delivered[s] \in Seq(Objects) /\ Done(s) \in Nat
         /\ allocated[s] \in Nat
         /\ Base(s) \in Nat /\ Placed(s) \in Nat /\ Placed(s) <= Len(sent[s])
         /\ Base(s) <= written[s] /\ written[s] <= Placed(s)
         /\ Base(s) = Len(sent[s]) - Len(job[s]) /\ Placed(s) = Base(s) + placed[s]
         /\ job[s] = <<>> <=> Len(job[s]) = 0
<1>1. /\ s # Receiver /\ pc[s] \in SenderLabels \cup ReceiverLabels
      /\ job[s] \in Seq(Keys) /\ placed[s] \in Nat /\ sent[s] \in Seq(Keys)
      /\ written[s] \in Nat /\ delivered[s] \in Seq(Objects) /\ allocated[s] \in Nat
  BY Names DEF Types, SenderTypes, ReceiverTypes
<1>2. /\ Len(job[s]) \in Nat /\ Len(sent[s]) \in Nat /\ Done(s) \in Nat
      /\ job[s] = <<>> <=> Len(job[s]) = 0
  BY <1>1, LenProperties, EmptySeq DEF Done
<1>3. /\ Len(job[s]) <= Len(sent[s]) /\ placed[s] <= Len(job[s])
      /\ Base(s) <= written[s] /\ written[s] <= Placed(s)
  BY DEF StreamOfJob
<1>4. Base(s) = Len(sent[s]) - Len(job[s]) /\ Placed(s) = Base(s) + placed[s]
  BY DEF Base, Placed
<1>5. Base(s) \in Nat /\ Placed(s) \in Nat /\ Placed(s) <= Len(sent[s])
  <2>1. /\ Len(job[s]) \in Nat /\ Len(sent[s]) \in Nat /\ placed[s] \in Nat
        /\ Len(job[s]) <= Len(sent[s]) /\ placed[s] <= Len(job[s])
    BY <1>1, <1>2, <1>3
  <2> DEFINE j == Len(job[s])
             l == Len(sent[s])
  <2>2. Base(s) = l - j /\ Placed(s) = Base(s) + placed[s]
    BY <1>4
  <2> HIDE DEF j, l
  <2>3. j \in Nat /\ l \in Nat /\ placed[s] \in Nat /\ j <= l /\ placed[s] <= j
    BY <2>1 DEF j, l
  <2>4. Base(s) \in Nat /\ Placed(s) \in Nat /\ Placed(s) <= l
    BY <2>2, <2>3
  <2> QED
    BY <2>4 DEF l
<1> QED
  BY <1>1, <1>2, <1>3, <1>4, <1>5

LEMMA KeepRequests ==
  ASSUME NEW s \in Senders, job'[s] = job[s], sent'[s] = sent[s], written'[s] = written[s],
         side'[s] = side[s], delivered'[s] = delivered[s], trans' = trans
  PROVE  /\ Requests(s) => Requests(s)'
         /\ Begin(s)' = Begin(s) /\ End(s)' = End(s) /\ Done(s)' = Done(s)
<1>1. /\ Begin(s)' = Begin(s) /\ Current(s)' = Current(s) /\ Later(s)' = Later(s)
      /\ Base(s)' = Base(s) /\ Done(s)' = Done(s)
  BY DEF Begin, Current, Later, Base, Done
<1>2. End(s)' = End(s)
  BY <1>1 DEF End
<1> QED
  BY <1>1, <1>2 DEF Requests

LEMMA KeepReading ==
  ASSUME NEW s \in Senders, WhileReading(s), Done(s)' = Done(s), End(s)' = End(s),
         sent'[s] = sent[s], written'[s] = written[s], pipes'[s] = pipes[s],
         notifs'[s] = notifs[s], trans' = trans, pc'[Receiver] = pc[Receiver]
  PROVE  WhileReading(s)'
BY DEF WhileReading, Notified, Reading, OneWrite, Has, Span

\* Connect, Connected, Flush and the acknowledgement change nothing else.
LEMMA ConnectStep ==
  ASSUME Types, NEW s \in Senders, Inv(s), Connect(s)
  PROVE  Inv(s)'
<1>0. s # Receiver
  BY Names
<1>1. /\ pc[s] = "new" /\ Connecting(s) /\ Handshake(s) /\ side[s] = <<>>
  BY DEF Connect, Inv, Handshake
<1>2. /\ pc'[s] = "handshake" /\ pc'[Receiver] = pc[Receiver] /\ side'[s] = <<<<>>>>
      /\ SameSender(s) /\ trans' = trans /\ acks' = acks /\ pipes' = pipes
      /\ notifs' = notifs /\ delivered' = delivered
  <2>1. pc'[s] = "handshake" /\ pc'[Receiver] = pc[Receiver]
    BY <1>0 DEF Connect, Goto, Types
  <2>2. side'[s] = <<<<>>>>
    <3>1. side'[s] = Append(side[s], <<>>)
      BY DEF Connect, Types, ReceiverTypes
    <3> QED
      BY <1>1, <3>1
  <2>3. SameSender(s) /\ trans' = trans /\ acks' = acks /\ pipes' = pipes
        /\ notifs' = notifs /\ delivered' = delivered
    BY DEF Connect, SameSender, SamePosition, sender
  <2> QED
    BY <2>1, <2>2, <2>3
<1>3. ~HasToken(s)' /\ Connecting(s)' /\ OneToken(s)' /\ ~HasToken(s)
  BY <1>1, <1>2 DEF Handshake, HasToken, Acked, Writing, Notified, Reading, Connecting,
                    OneToken, Inv
<1>4. Handshake(s)'
  BY <1>1, <1>2, <1>3 DEF Handshake, SameSender, SamePosition
<1>5. StreamOfJob(s)' /\ BufferOfJob(s)'
  BY ZenonT(60), <1>1, <1>2 DEF Inv, SameSender, SamePosition, StreamOfJob, BufferOfJob, Base, Placed,
                    Has, OneWrite, Span
<1> QED
  BY <1>2, <1>3, <1>4, <1>5 DEF Inv, SenderLabels

LEMMA ConnectedStep ==
  ASSUME Types, NEW s \in Senders, Inv(s), Connected(s)
  PROVE  Inv(s)'
<1>0. s # Receiver
  BY Names
<1>1. pc[s] = "handshake" /\ ~Connecting(s)
  BY DEF Connected, Inv, Handshake
<1>2. /\ pc'[s] = "idle" /\ pc'[Receiver] = pc[Receiver] /\ side' = side
      /\ SameSender(s) /\ trans' = trans /\ acks' = acks /\ pipes' = pipes
      /\ notifs' = notifs /\ delivered' = delivered
  BY <1>0 DEF Connected, Goto, Types, SameSender, SamePosition, sender
<1>3. OneToken(s)' /\ ~Connecting(s)' /\ (HasToken(s)' <=> HasToken(s))
  BY <1>1, <1>2 DEF HasToken, Acked, Writing, Notified, Reading, Connecting,
                    OneToken, Inv
<1>5. StreamOfJob(s)' /\ BufferOfJob(s)'
  BY ZenonT(60), <1>1, <1>2 DEF Inv, SameSender, SamePosition, StreamOfJob, BufferOfJob, Base, Placed,
                    Has, OneWrite, Span
<1>6. ASSUME InStep(s) PROVE InStep(s)'
  <2>1. Requests(s)' /\ Done(s)' = Done(s) /\ End(s)' = End(s)
    BY <1>2, <1>6, KeepRequests DEF InStep, SameSender, SamePosition
  <2>2. WhileReading(s)'
    BY <1>2, <1>6, <2>1, KeepReading DEF InStep, SameSender, SamePosition
  <2>3. Transaction(s)' /\ WhileWriting(s)'
    BY <1>1, <1>2, <1>6, <2>1
       DEF InStep, Transaction, WhileWriting, Acked, Writing, SameSender, SamePosition
  <2> QED
    BY <2>1, <2>2, <2>3 DEF InStep
<1> QED
  BY <1>1, <1>2, <1>3, <1>5, <1>6 DEF Inv, SenderLabels

LEMMA FlushStep ==
  ASSUME Types, NEW s \in Senders, Inv(s), Flush(s)
  PROVE  Inv(s)'
<1>0. s # Receiver
  BY Names
<1>1. pc[s] = "fill" /\ ~NextFits(s) /\ job[s] # <<>> /\ ~Connecting(s)
  BY DEF Flush, Inv, StreamOfJob, Handshake
<1>2. /\ pc'[s] = "spin" /\ pc'[Receiver] = pc[Receiver] /\ side' = side
      /\ SameSender(s) /\ trans' = trans /\ acks' = acks /\ pipes' = pipes
      /\ notifs' = notifs /\ delivered' = delivered
  BY <1>0 DEF Flush, Goto, Types, SameSender, SamePosition, sender
<1>3. OneToken(s)' /\ ~Connecting(s)' /\ (HasToken(s)' <=> HasToken(s))
  BY <1>1, <1>2 DEF HasToken, Acked, Writing, Notified, Reading, Connecting,
                    OneToken, Inv
<1> DEFINE W == written[s]
           P == Placed(s)
           len == Len(sent[s])
           jobs == Len(job[s])
<1>s. sent[s] \in Seq(Keys) /\ job[s] \in Seq(Keys)
  BY AtSender DEF Inv
<1>4. /\ W \in Nat /\ P \in Nat /\ len \in Nat /\ W <= P /\ P <= len /\ W < len
      /\ placed[s] \in Nat
      /\ jobs \in Nat /\ P = len - jobs + placed[s]
      /\ placed[s] <= jobs /\ allocated[s] \in Nat
      /\ Base(s) \in Nat /\ P = Base(s) + placed[s]
  <2>1. StreamOfJob(s)
    BY DEF Inv
  <2> QED
    BY <1>1, <2>1, AtSender DEF StreamOfJob
<1>5. allocated[s] = Span(s, W, P) /\ allocated[s] <= Capacity
  BY DEF Inv, BufferOfJob
<1>6. OneWrite(s, W, P, len)
  <2>1. CASE placed[s] = jobs
    <3>1. P = len
      BY <1>4, <2>1
    <3> QED
      BY <1>4, <1>5, <3>1 DEF OneWrite
  <2>2. CASE placed[s] # jobs
    <3> DEFINE k == job[s][placed[s] + 1]
    <3>1. placed[s] + 1 \in 1 .. jobs /\ P + 1 \in 1 .. len /\ W \in 0 .. len
          /\ P \in 0 .. len /\ P + 1 = Base(s) + (placed[s] + 1) /\ (P + 1) - 1 = P
      <4>1. placed[s] < jobs
        BY <1>4, <2>2
      <4> QED
        <5> HIDE DEF W, P, len, jobs
        <5> QED
          BY <1>4, <4>1
    <3>2. k \in Keys /\ sent[s][P + 1] = k
      BY <1>s, <1>4, <3>1, ElementOfSeq DEF Inv, StreamOfJob
    <3>3. Span(s, W, P + 1) = Span(s, W, P) + Size[k]
      <4>1. Span(s, W, P + 1) = Span(s, W, (P + 1) - 1) + Size[sent[s][P + 1]]
        BY <1>s, <3>1, SpanIs
      <4> QED
        BY <3>1, <3>2, <4>1
    <3>4. allocated[s] + Size[k] > Capacity
      <4>1. placed[s] < jobs
        BY <1>4, <2>2
      <4>2. Size[k] \in Nat
        BY <3>2, Names
      <4>3. ~(allocated[s] + Size[k] <= Capacity)
        BY <1>1, <4>1 DEF NextFits
      <4> QED
        BY <1>4, <4>2, <4>3, Names
    <3>5. W # P
      <4>1. SUFFICES ASSUME W = P PROVE FALSE
        OBVIOUS
      <4>2. Span(s, W, W) = 0
        BY <1>s, <3>1, SpanIs
      <4>3. Size[k] \in Nat /\ Size[k] < Capacity
        BY <3>2, Names
      <4>4. allocated[s] = 0
        BY <1>5, <4>1, <4>2
      <4> QED
        BY <3>4, <4>3, <4>4, Names
    <3>6. W < P
      <4> HIDE DEF W, P, len, jobs
      <4> QED
        BY <1>4, <3>5
    <3> QED
      BY <1>5, <3>3, <3>4, <3>6 DEF OneWrite
  <2> QED
    BY <2>1, <2>2
<1>7. StreamOfJob(s)' /\ BufferOfJob(s)'
  BY ZenonT(60), <1>1, <1>2, <1>6
     DEF Inv, SameSender, SamePosition, StreamOfJob, BufferOfJob, Base, Placed,
         Has, OneWrite, Span
<1>8. ASSUME InStep(s) PROVE InStep(s)'
  <2>1. Requests(s)' /\ Done(s)' = Done(s) /\ End(s)' = End(s)
    BY <1>2, <1>8, KeepRequests DEF InStep, SameSender, SamePosition
  <2>2. WhileReading(s)'
    BY <1>2, <1>8, <2>1, KeepReading DEF InStep, SameSender, SamePosition
  <2>3. Transaction(s)' /\ WhileWriting(s)'
    BY <1>1, <1>2, <1>8, <2>1
       DEF InStep, Transaction, WhileWriting, Acked, Writing, SameSender, SamePosition
  <2> QED
    BY <2>1, <2>2, <2>3 DEF InStep
<1> QED
  BY <1>1, <1>2, <1>3, <1>7, <1>8 DEF Inv, SenderLabels

LEMMA SpinStep ==
  ASSUME Types, NEW s \in Senders, Inv(s), SpinCheckForAck(s)
  PROVE  Inv(s)'
<1>0. s # Receiver
  BY Names
<1>1. pc[s] = "spin" /\ Acked(s) /\ HasToken(s) /\ ~Connecting(s)
  BY DEF SpinCheckForAck, Acked, HasToken, Inv, Handshake
<1>2. /\ pc'[s] = "write" /\ pc'[Receiver] = pc[Receiver] /\ side' = side
      /\ SameSender(s) /\ trans' = trans /\ acks'[s] = <<>> /\ pipes' = pipes
      /\ notifs' = notifs /\ delivered' = delivered
  BY <1>0 DEF SpinCheckForAck, Goto, Types, ReceiverTypes, SameSender, SamePosition
<1>3. OneToken(s)' /\ ~Connecting(s)' /\ HasToken(s)' /\ InStep(s)
  BY <1>1, <1>2 DEF HasToken, Acked, Writing, Notified, Reading, Connecting,
                    OneToken, Inv
<1>4. StreamOfJob(s)' /\ BufferOfJob(s)'
  BY ZenonT(60), <1>1, <1>2 DEF Inv, SameSender, SamePosition, StreamOfJob, BufferOfJob, Base, Placed,
                    Has, OneWrite, Span
<1>5. InStep(s)'
  <2>1. Requests(s)' /\ Done(s)' = Done(s) /\ End(s)' = End(s)
    BY <1>2, <1>3, KeepRequests DEF InStep, SameSender, SamePosition
  <2>2. WhileReading(s)'
    BY <1>2, <1>3, <2>1, KeepReading DEF InStep, SameSender, SamePosition
  <2>3. Transaction(s)' /\ WhileWriting(s)'
    BY <1>1, <1>2, <1>3, <2>1
       DEF InStep, Transaction, WhileWriting, Acked, Writing, SameSender, SamePosition
  <2> QED
    BY <2>1, <2>2, <2>3 DEF InStep
<1> QED
  BY <1>2, <1>3, <1>4, <1>5 DEF Inv, SenderLabels

\* One more chunk in the buffer, behind the others.
LEMMA AllocateStep ==
  ASSUME Types, NEW s \in Senders, Inv(s), Allocate(s)
  PROVE  Inv(s)'
<1> DEFINE W == written[s]
           P == Placed(s)
           len == Len(sent[s])
           jobs == Len(job[s])
           n == placed[s] + 1
           k == job[s][n]
           all == allocated[s]
<1>0. s # Receiver
  BY Names
<1>1. pc[s] = "fill" /\ job[s] # <<>> /\ ~Connecting(s) /\ StreamOfJob(s) /\ BufferOfJob(s)
  <2>1. pc[s] = "fill" /\ ~Connecting(s) /\ StreamOfJob(s) /\ BufferOfJob(s)
    BY DEF Allocate, Inv, Handshake
  <2> QED
    BY <2>1 DEF StreamOfJob
<1>2. /\ pc' = pc /\ side' = side /\ trans' = trans /\ acks' = acks /\ pipes' = pipes
      /\ notifs' = notifs /\ delivered' = delivered
      /\ job' = job /\ sent' = sent /\ written' = written
  BY DEF Allocate
<1>3. placed[s] < jobs /\ all + Size[k] <= Capacity
  BY DEF Allocate, NextFits
<1>4. /\ placed'[s] = placed[s] + 1 /\ allocated'[s] = all + Size[k]
      /\ buffer'[s] = [b \in Bytes |-> IF b - all \in 0 .. Size[k] - 1
                                       THEN k ELSE buffer[s][b]]
  BY DEF Allocate, AllocateZeroCopyWriteObject, BufferAllocate, Types, SenderTypes
<1>s. sent[s] \in Seq(Keys) /\ job[s] \in Seq(Keys)
  BY <1>1, AtSender
<1>5. /\ W \in Nat /\ P \in Nat /\ len \in Nat /\ W <= P /\ P <= len
      /\ placed[s] \in Nat /\ jobs \in Nat /\ P = len - jobs + placed[s]
      /\ all \in Nat /\ Base(s) \in Nat /\ P = Base(s) + placed[s]
  BY <1>1, AtSender
<1>6. /\ n \in 1 .. jobs /\ P + 1 = Base(s) + n /\ (P + 1) - 1 = P
      /\ P + 1 \in 1 .. len /\ P + 1 \in 0 .. len /\ P \in 0 .. len /\ W \in 0 .. len
      /\ W <= P + 1
  <2> HIDE DEF W, P, len, jobs
  <2> QED
    BY <1>3, <1>5
<1>7. k \in Keys /\ sent[s][P + 1] = k
  BY <1>s, <1>1, <1>6, ElementOfSeq DEF StreamOfJob
<1>8. Size[k] \in Nat /\ Size[k] >= 1
  BY <1>7, Names
<1>9. /\ all = Span(s, W, P) /\ Span(s, W, P + 1) = all + Size[k]
      /\ \A m \in 0 .. len : m <= P /\ W <= m => Span(s, W, m) <= all
  <2>1. all = Span(s, W, P)
    BY <1>1 DEF BufferOfJob
  <2>2. Span(s, W, P + 1) = Span(s, W, (P + 1) - 1) + Size[sent[s][P + 1]]
    BY <1>s, <1>6, SpanIs
  <2>3. ASSUME NEW m \in 0 .. len, m <= P, W <= m PROVE Span(s, W, m) <= all
    <3>1. Span(s, W, P) = Span(s, W, m) + Span(s, m, P) /\ P - m <= Span(s, m, P)
          /\ Span(s, W, m) \in Int /\ Span(s, m, P) \in Int
      BY <1>s, <1>6, <2>3, SpanIs
    <3> DEFINE x == Span(s, m, P)
               y == Span(s, W, m)
    <3>2. all = y + x /\ P - m <= x /\ y \in Int /\ x \in Int /\ m \in Int
      BY <2>1, <3>1
    <3> HIDE DEF x, y, W, P, len, jobs, all
    <3>3. y <= all
      BY <1>5, <2>3, <3>2
    <3> QED
      BY <3>3 DEF y
  <2> QED
    BY <1>6, <1>7, <2>1, <2>2, <2>3
<1>10. Placed(s)' = P + 1 /\ Base(s)' = Base(s)
  <2>1. Base(s)' = Base(s)
    BY <1>2 DEF Base
  <2>2. Placed(s)' = Base(s) + (placed[s] + 1)
    BY <1>4, <2>1 DEF Placed
  <2> QED
    BY <1>6, <2>1, <2>2
<1>11. StreamOfJob(s)'
  <2>1. placed[s] + 1 <= jobs
    <3> HIDE DEF jobs
    <3> QED
      BY <1>3, <1>5
  <2> QED
    BY <1>1, <1>2, <1>4, <1>6, <1>10, <2>1 DEF StreamOfJob
<1>12. BufferOfJob(s)'
  <2>1. allocated'[s] = Span(s, W, P + 1) /\ allocated'[s] <= Capacity
    BY <1>3, <1>4, <1>9
  <2>2. ASSUME NEW m \in (W + 1) .. (P + 1), NEW b \in Bytes,
               Span(s, W, m - 1) <= b, b < Span(s, W, m)
        PROVE  buffer'[s][b] = sent[s][m]
    <3>1. /\ m \in Nat /\ W + 1 <= m /\ m <= P + 1 /\ m - 1 \in Nat
          /\ m \in 1 .. len /\ m \in 0 .. len /\ m - 1 \in 0 .. len /\ W <= m - 1 /\ W <= m
      <4> HIDE DEF W, P, len
      <4> QED
        BY SMTT(40), <1>5, <1>6
    <3>2. b \in Nat
      BY Names DEF Bytes
    <3>3. CASE m = P + 1
      <4>1. all <= b /\ b < all + Size[k]
        BY <1>6, <1>9, <2>2, <3>3
      <4>2. b - all \in 0 .. Size[k] - 1
        <5> HIDE DEF all, k
        <5> QED
          BY <1>5, <1>8, <3>2, <4>1
      <4> QED
        BY <1>4, <1>7, <3>3, <4>2
    <3>4. CASE m # P + 1
      <4>1. m <= P
        <5> HIDE DEF W, P, len, jobs, all
        <5> QED
          BY <1>5, <3>1, <3>4
      <4>2. b < all
        <5>1. Span(s, W, m) <= all /\ Span(s, W, m) \in Int
          BY <1>s, <1>6, <1>9, <3>1, <4>1, SpanIs
        <5> DEFINE x == Span(s, W, m)
        <5>2. b < x /\ x <= all /\ x \in Int
          BY <2>2, <5>1
        <5> HIDE DEF x, all
        <5> QED
          BY <1>5, <3>2, <5>2
      <4>3. b - all \notin 0 .. Size[k] - 1
        <5> HIDE DEF all, k
        <5> QED
          BY <1>5, <1>8, <3>2, <4>2
      <4>4. m \in (W + 1) .. P
        <5> HIDE DEF W, P, len, jobs, all
        <5> QED
          BY <1>5, <3>1, <4>1
      <4>5. buffer[s][b] = sent[s][m]
        BY <1>1, <2>2, <4>4 DEF BufferOfJob, Has
      <4> QED
        BY <1>4, <4>3, <4>5
    <3> QED
      BY <3>3, <3>4
  <2>3. Has(buffer'[s], s, W, P + 1)
    BY <2>2 DEF Has
  <2> QED
    BY <1>1, <1>2, <1>10, <2>1, <2>3 DEF BufferOfJob, Has, Span
<1>13. ASSUME InStep(s) PROVE InStep(s)'
  <2>1. Requests(s)' /\ Done(s)' = Done(s) /\ End(s)' = End(s)
    BY <1>2, <1>13, KeepRequests DEF InStep
  <2>2. WhileReading(s)'
    BY <1>2, <1>13, <2>1, KeepReading DEF InStep
  <2>3. Transaction(s)' /\ WhileWriting(s)'
    BY <1>1, <1>2, <1>13, <2>1 DEF InStep, Transaction, WhileWriting, Acked, Writing
  <2> QED
    BY <2>1, <2>2, <2>3 DEF InStep
<1>14. OneToken(s)' /\ ~Connecting(s)' /\ (HasToken(s)' <=> HasToken(s))
  BY <1>1, <1>2 DEF HasToken, Acked, Writing, Notified, Reading, Connecting,
                    OneToken, Inv
<1> QED
  BY <1>1, <1>2, <1>11, <1>12, <1>13, <1>14 DEF Inv, SenderLabels

\* A whole number of units has the bytes that were allocated.
LEMMA WrittenHasAll ==
  ASSUME NEW size \in Nat \ {0}, NEW b \in Bytes, b < size
  PROVE  b \in Written(size)
<1> DEFINE q == (size - 1) \div TransferUnit
<1>1. TransferUnit \in Nat /\ TransferUnit > 0 /\ size - 1 \in Nat /\ b \in Nat
  BY Names DEF Bytes
<1>2. q \in Int /\ size - 1 < (q + 1) * TransferUnit
  BY <1>1
<1> HIDE DEF q
<1>3. (q + 1) * TransferUnit \in Int
  BY <1>1, <1>2
<1>4. b < (q + 1) * TransferUnit
  <2> DEFINE x == (q + 1) * TransferUnit
  <2>1. x \in Int /\ size - 1 < x
    BY <1>2, <1>3
  <2> HIDE DEF x
  <2>2. b < x
    BY <1>1, <2>1
  <2> QED
    BY <2>2 DEF x
<1> QED
  BY <1>4 DEF Written, q

LEMMA CommitStep ==
  ASSUME Types, NEW s \in Senders, Inv(s), CommitWrite(s)
  PROVE  Inv(s)'
<1> DEFINE W == written[s]
           P == Placed(s)
           len == Len(sent[s])
           all == allocated[s]
<1>0. s # Receiver
  BY Names
<1>1. /\ pc[s] = "write" /\ Writing(s) /\ HasToken(s) /\ ~Connecting(s)
      /\ StreamOfJob(s) /\ BufferOfJob(s) /\ ~Acked(s) /\ ~Notified(s) /\ ~Reading(s)
  BY DEF CommitWrite, Inv, Handshake, Writing, HasToken, OneToken
<1>2. InStep(s)
  BY <1>1 DEF Inv
<1>3. /\ side' = side /\ trans' = trans /\ acks' = acks /\ SameSender(s)
      /\ notifs' = notifs /\ delivered' = delivered
  BY DEF CommitWrite, sender, SameSender, SamePosition
<1>4. CASE pc'[s] = "idle" /\ pipes' = pipes /\ pc'[Receiver] = pc[Receiver]
  <2>1. OneToken(s)' /\ ~Connecting(s)' /\ ~HasToken(s)'
    BY <1>1, <1>3, <1>4 DEF HasToken, Acked, Writing, Notified, Reading, Connecting,
                            OneToken, Inv
  <2>2. StreamOfJob(s)' /\ BufferOfJob(s)'
    BY ZenonT(60), <1>1, <1>3, <1>4
       DEF SameSender, SamePosition, StreamOfJob, BufferOfJob, Base, Placed,
           Has, OneWrite, Span
  <2> QED
    BY <1>4, <2>1, <2>2 DEF Inv, SenderLabels
<1>5. CASE /\ pc'[s] = "notify" /\ pc'[Receiver] = pc[Receiver]
           /\ pipes'[s].uuid = pipes[s].uuid
           /\ pipes'[s].buffer = [b \in Bytes |-> IF b \in Written(all) THEN buffer[s][b]
                                                  ELSE pipes[s].buffer[b]]
  <2>0. pc'[s] = "notify" /\ pc'[Receiver] = pc[Receiver]
    BY <1>5
  <2>1. OneToken(s)' /\ ~Connecting(s)' /\ HasToken(s)' /\ ~Notified(s)' /\ ~Reading(s)'
    BY <1>1, <1>3, <1>5 DEF HasToken, Acked, Writing, Notified, Reading, Connecting,
                            OneToken, Inv
  <2>2. StreamOfJob(s)' /\ BufferOfJob(s)'
    BY ZenonT(60), <1>1, <1>3, <2>0
       DEF SameSender, SamePosition, StreamOfJob, BufferOfJob, Base, Placed,
           Has, OneWrite, Span
  <2>3. Requests(s)' /\ Done(s)' = Done(s)
    BY <1>2, <1>3, KeepRequests DEF InStep, SameSender, SamePosition
  <2>4. Transaction(s)' /\ WhileReading(s)'
    BY <1>2, <1>3, <1>5, <2>1 DEF InStep, Transaction, WhileReading
  <2>5. ASSUME NEW m \in (W + 1) .. P, NEW b \in Bytes,
               Span(s, W, m - 1) <= b, b < Span(s, W, m)
        PROVE  pipes'[s].buffer[b] = sent[s][m]
    <3>s. sent[s] \in Seq(Keys)
      BY <1>1, AtSender
    <3>1. W \in Nat /\ P \in Nat /\ len \in Nat /\ W <= P /\ P <= len /\ all \in Nat
      BY <1>1, AtSender
    <3>2. m \in 0 .. len /\ W \in 0 .. len /\ P \in 0 .. len /\ m <= P
      <4> HIDE DEF W, P, len
      <4> QED
        BY <3>1
    <3>3. all = Span(s, W, P)
      BY <1>1 DEF BufferOfJob
    <3> DEFINE x == Span(s, W, m)
               y == Span(s, m, P)
    <3>4. all = x + y /\ x \in Int /\ y \in Int /\ P - m <= y /\ b < x
      BY <2>5, <3>s, <3>2, <3>3, SpanIs
    <3>5. b \in Nat
      BY Names DEF Bytes
    <3>6. all \in Nat \ {0} /\ b < all
      <4> HIDE DEF x, y, P, all
      <4> QED
        BY <3>1, <3>2, <3>4, <3>5
    <3>7. b \in Written(all)
      BY <3>6, WrittenHasAll
    <3>8. buffer[s][b] = sent[s][m]
      BY <1>1, <2>5 DEF BufferOfJob, Has
    <3> QED
      BY <1>5, <3>7, <3>8
  <2>6. Has(pipes'[s].buffer, s, W, P)
    BY <2>5 DEF Has
  <2>7. Has(pipes[s].buffer, s, written[s], Placed(s))'
    BY ZenonT(30), <1>3, <2>6 DEF Has, Span, Placed, Base, SameSender, SamePosition
  <2>8. WhileWriting(s)'
    BY <1>1, <1>2, <1>3, <2>3, <2>7
       DEF InStep, WhileWriting, SameSender, SamePosition
  <2> QED
    BY <1>5, <2>1, <2>2, <2>3, <2>4, <2>8 DEF Inv, InStep, SenderLabels
<1>6. pipes[s] \in [buffer : Contents, uuid : Nat] /\ s \in DOMAIN pipes /\ s \in DOMAIN pc
      /\ Receiver \in DOMAIN pc
  BY DEF Types, ReceiverTypes
<1> QED
  BY <1>0, <1>4, <1>5, <1>6 DEF CommitWrite, Goto, Types

\* Who has the token and has delivered what was written has no later request:
\* the first write of a later store needs the token back.
LEMMA NoLaterRequest ==
  ASSUME Types, ReceiverBusy, NEW s \in Senders, StreamOfJob(s), InStep(s),
         Done(s) = written[s], ~Reading(s), Later(s) # <<>>
  PROVE  FALSE
<1>1. /\ Later(s) = <<job[s]>> /\ End(s) = Base(s) /\ written[s] = Base(s)
      /\ Base(s) \in Nat /\ Done(s) \in Nat
  <2>1. Base(s) \in Nat /\ Done(s) \in Nat
    BY AtSender
  <2> QED
    BY <2>1 DEF InStep, Requests
<1>2. CASE trans.from = s
  <2>1. pc[Receiver] = "wait"
    BY <1>2, Names DEF Reading, ReceiverBusy, NoTrans, Types, ReceiverLabels
  <2>2. trans.seen = 0 /\ trans.got < Len(trans.keys)
    BY <1>2, <2>1 DEF InStep, Transaction
  <2>3. /\ Begin(s) = Done(s) - (trans.got + trans.seen)
        /\ End(s) = Begin(s) + Len(trans.keys) /\ Len(trans.keys) \in Nat
    BY <1>2, RequestIsPart DEF InStep
  <2>4. trans.got \in Nat
    BY DEF Types, ReceiverTypes
  <2> DEFINE len == Len(trans.keys)
             got == trans.got
  <2>5. /\ len \in Nat /\ got \in Nat /\ got < len /\ Begin(s) = Done(s) - (got + 0)
        /\ End(s) = Begin(s) + len /\ End(s) = Done(s)
    BY <1>1, <2>2, <2>3, <2>4
  <2> HIDE DEF len, got
  <2> QED
    BY <1>1, <2>5
<1>3. CASE trans.from # s
  <2>1. side[s] # <<>> /\ Current(s) = Head(side[s]) /\ Begin(s) = Done(s) - 0
    BY <1>3 DEF Later, Current, Begin
  <2>2. Current(s) # <<>> /\ Current(s) \in Seq(Keys)
    <3>1. side[s] \in Seq(Seq(Keys))
      BY DEF Types, ReceiverTypes
    <3> QED
      BY <1>3, <2>1, <3>1, SequenceTypes DEF InStep, Requests
  <2>3. Len(Current(s)) \in Nat /\ Len(Current(s)) >= 1
    BY <2>2, SequenceTypes
  <2> DEFINE len == Len(Current(s))
  <2>4. len \in Nat /\ len >= 1 /\ Done(s) = Done(s) - 0 + len
    BY <1>1, <2>1, <2>3 DEF End
  <2> HIDE DEF len
  <2> QED
    BY <1>1, <2>4
<1> QED
  BY <1>2, <1>3

LEMMA NotifyStep ==
  ASSUME Types, Types', ReceiverBusy, NEW s \in Senders, Inv(s), SendNotif(s)
  PROVE  Inv(s)'
<1> DEFINE W == written[s]
           P == Placed(s)
           len == Len(sent[s])
           jobs == Len(job[s])
<1>0. s # Receiver
  BY Names
<1>1. /\ pc[s] = "notify" /\ Writing(s) /\ HasToken(s) /\ ~Connecting(s)
      /\ StreamOfJob(s) /\ BufferOfJob(s) /\ ~Acked(s) /\ ~Notified(s) /\ ~Reading(s)
  BY DEF SendNotif, Inv, Handshake, Writing, HasToken, OneToken
<1>2. InStep(s) /\ Done(s) = W
  BY <1>1 DEF Inv, InStep, WhileWriting
<1>3. /\ side' = side /\ trans' = trans /\ acks' = acks /\ sent' = sent /\ buffer' = buffer
      /\ pipes' = pipes /\ delivered' = delivered /\ pc'[Receiver] = pc[Receiver]
  BY <1>0 DEF SendNotif, FinishSend, Goto, Types
<1>4. /\ notifs'[s] = {uuid[s]} /\ allocated'[s] = 0 /\ written'[s] = len - jobs + placed[s]
  BY ZenonT(30), <1>1 DEF SendNotif, Types, SenderTypes, ReceiverTypes, Notified
<1>s. sent[s] \in Seq(Keys) /\ job[s] \in Seq(Keys)
  BY <1>1, AtSender
<1>5. /\ W \in Nat /\ P \in Nat /\ len \in Nat /\ W <= P /\ P <= len
      /\ placed[s] \in Nat /\ jobs \in Nat /\ P = len - jobs + placed[s]
      /\ Base(s) \in Nat /\ P = Base(s) + placed[s] /\ Base(s) = len - jobs
      /\ placed[s] <= jobs
  <2>1. placed[s] <= jobs
    BY <1>1 DEF StreamOfJob
  <2> QED
    BY <1>1, <2>1, AtSender
<1>6. written'[s] = P
  BY <1>4, <1>5
<1>7. OneWrite(s, W, P, len)
  BY <1>1 DEF BufferOfJob
<1>8. Later(s) = <<>> /\ End(s) = len /\ Base(s) = Begin(s)
  <2>1. Later(s) = <<>>
    BY <1>1, <1>2, NoLaterRequest
  <2>2. job[s] # <<>>
    BY <1>1 DEF StreamOfJob
  <2> QED
    BY <1>2, <2>1, <2>2 DEF InStep, Requests
<1>9. /\ pc'[s] \in {"fill", "idle"} /\ ~Writing(s)' /\ OneToken(s)' /\ ~Connecting(s)'
      /\ ~Acked(s)' /\ ~Reading(s)'
  <2>1. pc'[s] \in {"fill", "idle"}
    BY DEF SendNotif, FinishSend, Goto, Types
  <2> QED
    BY <1>1, <1>3, <1>4, <2>1
       DEF Acked, Writing, Notified, Reading, Connecting, OneToken
<1>10. Span(s, P, P) = 0 /\ P \in 0 .. len
  <2>1. P \in 0 .. len
    <3> HIDE DEF W, P, len, jobs
    <3> QED
      BY <1>5
  <2> QED
    BY <1>s, <2>1, SpanIs
<1>11. /\ Done(s)' = Done(s) /\ Begin(s)' = Begin(s) /\ End(s)' = End(s)
       /\ Current(s)' = Current(s) /\ Later(s)' = Later(s)
  <2>1. Done(s)' = Done(s) /\ Begin(s)' = Begin(s) /\ Current(s)' = Current(s)
        /\ Later(s)' = Later(s)
    BY <1>3 DEF Done, Begin, Current, Later
  <2> QED
    BY <2>1 DEF End
<1>12. WhileReading(s)'
  <2>1. Has(pipes[s].buffer, s, W, P)
    BY <1>1, <1>2 DEF InStep, WhileWriting
  <2>2. OneWrite(s, Done(s), written[s], End(s))'
    BY <1>2, <1>3, <1>6, <1>7, <1>8, <1>11 DEF OneWrite, Span
  <2>3. Has(pipes[s].buffer, s, Done(s), written[s])'
    BY <1>2, <1>3, <1>6, <1>11, <2>1 DEF Has, Span
  <2>4. (written[s] <= End(s))'
    BY <1>5, <1>6, <1>8, <1>11
  <2> QED
    BY <1>9, <2>2, <2>3, <2>4 DEF WhileReading
<1>13. Transaction(s)' /\ WhileWriting(s)'
  <2>1. Transaction(s)'
    BY <1>2, <1>3 DEF InStep, Transaction
  <2>2. pc'[s] # "notify"
    BY <1>9 DEF Writing
  <2> QED
    BY <1>9, <2>1, <2>2 DEF WhileWriting
<1>16. Has(buffer[s], s, P, P)
  <2>1. (P + 1) .. P = {}
    <3> HIDE DEF W, P, len, jobs
    <3> QED
      BY <1>5
  <2> QED
    BY <2>1 DEF Has
<1>17. ASSUME Placed(s)' = P
       PROVE  (allocated[s] = Span(s, written[s], Placed(s)))' /\ allocated'[s] <= Capacity
  <2>1. Span(s, written[s], Placed(s))' = Offset(sent[s])[P] - Offset(sent[s])[P]
    BY <1>3, <1>6, <1>17 DEF Span
  <2>2. Offset(sent[s])[P] - Offset(sent[s])[P] = 0
    BY <1>10 DEF Span
  <2>3. allocated'[s] <= Capacity
    BY <1>4, Names
  <2> QED
    BY <1>4, <2>1, <2>2, <2>3
\* What is left of the stream, when the store is finished and when it is not.
<1>14. CASE FinishSend(s)
  <2>1. job'[s] = <<>> /\ placed'[s] = 0 /\ placed[s] = jobs /\ pc'[s] = "idle"
    BY <1>14 DEF FinishSend, Goto, Types, SenderTypes
  <2>2. Len(<<>>) = 0
    BY EmptySeq
  <2>3. P = len
    <3> HIDE DEF W, P, len, jobs
    <3> QED
      BY <1>5, <2>1
  <2>4. Base(s)' = len /\ Placed(s)' = P
    <3>1. Base(s)' = len - 0
      BY <1>3, <2>1, <2>2 DEF Base
    <3>2. Placed(s)' = Base(s)' + 0
      BY <2>1 DEF Placed
    <3> HIDE DEF W, P, len, jobs
    <3> QED
      BY <1>5, <2>3, <3>1, <3>2
  <2>5. StreamOfJob(s)'
    <3>1. 0 <= len /\ len <= len /\ 0 <= 0 /\ P <= P
      <4> HIDE DEF W, P, len, jobs
      <4> QED
        BY <1>5
    <3> QED
      BY <1>3, <1>6, <2>1, <2>2, <2>3, <2>4, <3>1 DEF StreamOfJob
  <2>6. Requests(s)'
    BY <1>2, <1>3, <1>8, <1>11, <2>1 DEF InStep, Requests
  <2>7. BufferOfJob(s)'
    <3>1. Has(buffer[s], s, written[s], Placed(s))'
      BY <1>3, <1>6, <1>16, <2>4 DEF Has, Span
    <3>2. (allocated[s] = Span(s, written[s], Placed(s)))' /\ allocated'[s] <= Capacity
      BY <1>17, <2>4
    <3> QED
      BY <2>1, <3>1, <3>2 DEF BufferOfJob
  <2> QED
    BY <1>9, <1>12, <1>13, <2>1, <2>5, <2>6, <2>7 DEF Inv, InStep, SenderLabels
<1>15. CASE placed[s] < jobs /\ pc'[s] = "fill" /\ job' = job /\ placed' = placed
  <2>1. Base(s)' = Base(s) /\ Placed(s)' = P
    <3>1. Base(s)' = Base(s)
      BY <1>3, <1>15 DEF Base
    <3> QED
      BY <1>15, <3>1 DEF Placed
  <2>2. P < len
    <3> HIDE DEF W, P, len, jobs
    <3> QED
      BY <1>5, <1>15
  <2>3. StreamOfJob(s)'
    <3>1. Base(s) <= P /\ P <= P
      <4> HIDE DEF W, P, len, jobs
      <4> QED
        BY <1>5
    <3> QED
      BY <1>1, <1>3, <1>6, <1>15, <2>1, <2>2, <3>1 DEF StreamOfJob
  <2>4. Requests(s)'
    BY <1>2, <1>3, <1>8, <1>11, <1>15, <2>1 DEF InStep, Requests
  <2>5. BufferOfJob(s)'
    <3>1. Has(buffer[s], s, written[s], Placed(s))'
      BY <1>3, <1>6, <1>16, <2>1 DEF Has, Span
    <3>2. (allocated[s] = Span(s, written[s], Placed(s)))' /\ allocated'[s] <= Capacity
      BY <1>17, <2>1
    <3> QED
      BY <1>15, <3>1, <3>2 DEF BufferOfJob
  <2> QED
    BY <1>9, <1>12, <1>13, <1>15, <2>3, <2>4, <2>5 DEF Inv, InStep, SenderLabels
<1> QED
  BY <1>14, <1>15 DEF SendNotif, Goto, Types

LEMMA AppendToQueue ==
  ASSUME NEW S, NEW u \in Seq(S), NEW e \in S
  PROVE  /\ u = <<>> => Append(u, e) = <<e>> /\ Head(<<e>>) = e /\ Tail(<<e>>) = <<>>
         /\ u # <<>> => Append(u, e) # <<>> /\ Head(Append(u, e)) = Head(u)
         /\ u # <<>> /\ Tail(u) = <<>> => Tail(Append(u, e)) = <<e>>
<1> DEFINE v == Append(u, e)
           one == <<e>>
<1>1. /\ v \in Seq(S) /\ v # <<>> /\ Len(v) = Len(u) + 1 /\ Len(u) \in Nat
      /\ \A i \in 1 .. Len(u) : v[i] = u[i]
      /\ v[Len(u) + 1] = e
  BY AppendProperties, LenProperties
<1>2. one \in Seq(S) /\ Len(one) = 1 /\ one[1] = e /\ Head(one) = e /\ Tail(one) = <<>>
  OBVIOUS
<1>3. CASE u = <<>>
  BY <1>3, <1>2
<1>4. CASE u # <<>>
  <2>1. Len(u) >= 1 /\ Len(Tail(u)) = Len(u) - 1
    BY <1>4, SequenceTypes, HeadTailProperties
  <2>2. Head(v) = v[1] /\ Head(u) = u[1]
    BY <1>1, <1>4
  <2>3. Head(v) = Head(u)
    <3> DEFINE len == Len(u)
    <3>1. len \in Nat /\ len >= 1
      BY <1>1, <2>1
    <3>2. 1 \in 1 .. len
      <4> HIDE DEF len
      <4> QED
        BY <3>1
    <3> QED
      BY <1>1, <2>2, <3>2
  <2>4. ASSUME Tail(u) = <<>> PROVE Tail(v) = one
    <3>1. Len(u) = 1
      <4> DEFINE len == Len(u)
      <4>1. len - 1 = 0 /\ len \in Nat
        <5>1. Len(<<>>) = 0
          BY EmptySeq
        <5> QED
          BY <1>1, <2>1, <2>4, <5>1
      <4> HIDE DEF len
      <4>2. len = 1
        BY <4>1
      <4> QED
        BY <4>2 DEF len
    <3>2. /\ Tail(v) \in Seq(S) /\ Len(Tail(v)) = 1
          /\ \A i \in 1 .. Len(Tail(v)) : Tail(v)[i] = v[i + 1]
      BY <1>1, <3>1, HeadTailProperties
    <3>3. Tail(v)[1] = e
      BY <1>1, <3>1, <3>2
    <3>4. \A i \in 1 .. Len(Tail(v)) : Tail(v)[i] = one[i]
      <4>1. ASSUME NEW i \in 1 .. Len(Tail(v)) PROVE i = 1
        BY <3>2
      <4> QED
        BY <1>2, <3>3, <4>1
    <3> HIDE DEF v, one
    <3> QED
      BY <1>2, <3>2, <3>4, SeqEqual
  <2> QED
    BY <1>1, <1>4, <2>3, <2>4
<1> QED
  BY <1>3, <1>4

\* A store begins where the last one ended; what was sent keeps its place.
LEMMA PrepareStep ==
  ASSUME Types, Types', ReceiverBusy, NEW s \in Senders, Inv(s),
         NEW keys \in Stores[s], PreparePut(s, keys)
  PROVE  Inv(s)'
<1> DEFINE more == Len(keys)
<1>0. s # Receiver
  BY Names
<1>1. /\ pc[s] = "idle" /\ job[s] = <<>> /\ ~Connecting(s) /\ ~Writing(s)
      /\ StreamOfJob(s) /\ BufferOfJob(s)
  BY DEF PreparePut, RegisterPutTasks, Inv, Handshake, Writing
<1>2. /\ trans' = trans /\ acks' = acks /\ buffer' = buffer /\ placed' = placed
      /\ pipes' = pipes /\ delivered' = delivered /\ notifs' = notifs
      /\ allocated' = allocated /\ written' = written
      /\ pc'[Receiver] = pc[Receiver] /\ pc'[s] = "fill"
  BY <1>0 DEF PreparePut, Goto, Types
<1>3. /\ job'[s] = keys /\ side'[s] = Append(side[s], keys) /\ sent'[s] = sent[s] \o keys
  BY ZenonT(30) DEF PreparePut, RegisterPutTasks, PrepareSend, Types, SenderTypes, ReceiverTypes
<1>4. /\ keys \in Seq(Keys) /\ keys # <<>> /\ sent[s] \in Seq(Keys)
      /\ side[s] \in Seq(Seq(Keys)) /\ sent'[s] \in Seq(Keys)
  BY Names DEF Types, SenderTypes, ReceiverTypes
<1>p. PICK len : len = Len(sent[s])
  OBVIOUS
<1>5. len \in Nat /\ more \in Nat /\ more >= 1 /\ Len(sent'[s]) = len + more
  BY <1>3, <1>4, <1>p, SequenceTypes
<1>6. \A i \in 1 .. len + more :
        sent'[s][i] = IF i <= len THEN sent[s][i] ELSE keys[i - len]
  BY <1>3, <1>4, <1>p, ConcatProperties
<1>7. /\ \A i \in 1 .. len : sent'[s][i] = sent[s][i] /\ sent'[s][0 + i] = sent[s][i]
      /\ \A i \in 1 .. more : sent'[s][len + i] = keys[i]
  <2>1. ASSUME NEW i \in 1 .. len
        PROVE  i \in 1 .. len + more /\ i <= len /\ 0 + i = i
    <3> HIDE DEF more
    <3> QED
      BY <1>5
  <2>2. ASSUME NEW i \in 1 .. more
        PROVE  len + i \in 1 .. len + more /\ ~(len + i <= len) /\ (len + i) - len = i
    <3> HIDE DEF more
    <3> QED
      BY <1>5
  <2> QED
    BY <1>6, <2>1, <2>2
<1>8. \A i \in 0 .. len : Offset(sent'[s])[i] = Offset(sent[s])[i]
  <2>1. \A i \in 0 .. len : Offset(sent'[s])[0 + i] = Offset(sent'[s])[0] + Offset(sent[s])[i]
    <3>1. 0 + len <= Len(sent'[s]) /\ 0 \in Nat
      <4> HIDE DEF more
      <4> QED
        BY <1>5
    <3> QED
      BY <1>4, <1>7, <1>p, <3>1, OffsetOfPart
  <2>2. Offset(sent'[s])[0] = 0 /\ \A i \in 0 .. len : Offset(sent[s])[i] \in Nat
    BY <1>4, <1>p, OffsetIs
  <2>3. ASSUME NEW i \in 0 .. len PROVE Offset(sent'[s])[i] = Offset(sent[s])[i]
    <3>1. 0 + i = i
      BY <1>5
    <3> QED
      BY <2>1, <2>2, <3>1
  <2> QED
    BY <2>3
<1>9. \A i, j \in 0 .. len : Span(s, i, j)' = Span(s, i, j)
  BY <1>8 DEF Span
<1>10. /\ placed[s] = 0 /\ Base(s) = len /\ written[s] = len /\ Placed(s) = len
  <2> DEFINE jobs == Len(job[s])
  <2>1. jobs = 0 /\ placed[s] <= jobs
    BY <1>1, EmptySeq DEF StreamOfJob
  <2>2. /\ placed[s] \in Nat /\ Base(s) = len - jobs /\ Placed(s) = Base(s) + placed[s]
        /\ Base(s) <= written[s] /\ written[s] <= Placed(s) /\ written[s] \in Nat
    BY <1>1, <1>p, AtSender
  <2> HIDE DEF jobs
  <2>3. placed[s] = 0 /\ Base(s) = len
    BY <1>5, <2>1, <2>2
  <2> QED
    BY <1>5, <2>2, <2>3
<1>11. Base(s)' = len /\ Placed(s)' = len
  <2>1. Base(s)' = (len + more) - more
    BY <1>3, <1>5 DEF Base
  <2>2. Placed(s)' = Base(s)' + 0
    BY <1>2, <1>10 DEF Placed
  <2> HIDE DEF more
  <2> QED
    BY <1>5, <2>1, <2>2
<1>12. StreamOfJob(s)'
  <2>1. more <= len + more /\ 0 <= more /\ len <= len /\ len < len + more
    <3> HIDE DEF more
    <3> QED
      BY <1>5
  <2> QED
    BY <1>2, <1>3, <1>4, <1>5, <1>7, <1>10, <1>11, <2>1 DEF StreamOfJob
<1>13. BufferOfJob(s)'
  <2>1. len \in 0 .. len /\ (len + 1) .. len = {}
    <3> QED
      BY <1>5
  <2>2. allocated[s] = Span(s, len, len) /\ allocated[s] <= Capacity
    BY <1>1, <1>10 DEF BufferOfJob
  <2>3. (allocated[s] = Span(s, written[s], Placed(s)))' /\ allocated'[s] <= Capacity
    BY <1>2, <1>9, <1>10, <1>11, <2>1, <2>2
  <2>4. Has(buffer[s], s, written[s], Placed(s))'
    BY <1>2, <1>10, <1>11, <2>1 DEF Has
  <2> QED
    BY <1>2, <2>3, <2>4 DEF BufferOfJob
<1>14. OneToken(s)' /\ ~Connecting(s)' /\ ~Writing(s)' /\ (HasToken(s)' <=> HasToken(s))
       /\ (Acked(s)' <=> Acked(s)) /\ (Notified(s)' <=> Notified(s))
       /\ (Reading(s)' <=> Reading(s))
  BY <1>1, <1>2 DEF HasToken, Acked, Writing, Notified, Reading, Connecting,
                    OneToken, Inv
<1>15. ASSUME InStep(s) PROVE InStep(s)'
  <2>1. Done(s)' = Done(s) /\ Begin(s)' = Begin(s)
    BY <1>2 DEF Done, Begin
  <2>2. Later(s) = <<>> /\ End(s) = len
    BY <1>1, <1>p, <1>15 DEF InStep, Requests
  <2>3. /\ Begin(s) \in Nat /\ End(s) = Begin(s) + Len(Current(s)) /\ Done(s) \in Nat
        /\ Current(s) \in Seq(Keys) /\ Len(Current(s)) \in Nat
    <3>1. /\ trans.got \in Nat /\ trans.seen \in Nat /\ trans.keys \in Seq(Keys)
          /\ Done(s) \in Nat
      BY <1>1, AtSender DEF Types, ReceiverTypes
    <3>2. Begin(s) \in Nat
      BY <1>15, <3>1 DEF InStep, Requests, Begin
    <3>3. Current(s) \in Seq(Keys)
      BY <1>4, <3>1, SequenceTypes, EmptySeq DEF Current
    <3> QED
      BY <3>1, <3>2, <3>3, LenProperties DEF End
  <2>4. Transaction(s)'
    BY <1>2, <1>15 DEF InStep, Transaction
  <2>5. WhileWriting(s)'
    BY <1>2, <1>14, <1>15, <2>1 DEF InStep, WhileWriting
  <2>6. CASE trans.from # s /\ side[s] = <<>>
    <3>1. Current(s) = <<>> /\ Len(Current(s)) = 0
      BY <2>6, EmptySeq DEF Current
    <3>2. side'[s] = <<keys>> /\ Current(s)' = keys /\ Later(s)' = <<>> /\ side'[s] # <<>>
      <4>1. side'[s] = <<keys>> /\ Head(<<keys>>) = keys /\ Tail(<<keys>>) = <<>>
        BY <1>3, <1>4, <2>6, AppendToQueue
      <4> QED
        BY <1>2, <2>6, <4>1 DEF Current, Later
    <3>3. Begin(s) = len /\ Begin(s) = Done(s) /\ End(s)' = len + more
      <4>1. Begin(s) = Done(s) - 0
        BY <2>6 DEF Begin
      <4>2. End(s)' = Begin(s) + more
        BY <2>1, <3>2 DEF End
      <4> HIDE DEF more
      <4> QED
        BY <2>2, <2>3, <3>1, <4>1, <4>2
    <3>4. Requests(s)'
      <4>1. len >= 0 /\ len + more <= len + more
        <5> HIDE DEF more
        <5> QED
          BY <1>5
      <4> QED
        BY <1>3, <1>4, <1>5, <1>7, <1>11, <2>1, <3>2, <3>3, <4>1 DEF Requests
    <3>5. ~Notified(s)
      <4>1. Notified(s) => Done(s) < written[s]
        BY <1>15 DEF InStep, WhileReading, OneWrite
      <4> QED
        BY <1>5, <1>10, <3>3, <4>1
    <3>6. ~Reading(s)
      BY <2>6 DEF Reading
    <3>7. WhileReading(s)'
      BY <1>14, <3>5, <3>6 DEF WhileReading
    <3> QED
      BY <2>4, <2>5, <3>4, <3>7 DEF InStep
  <2>7. CASE trans.from = s \/ side[s] # <<>>
    <3>1. Current(s)' = Current(s) /\ Later(s)' = <<keys>>
      <4>1. CASE trans.from = s
        <5>1. side[s] = <<>>
          BY <2>2, <4>1 DEF Later
        <5>2. side'[s] = <<keys>>
          BY <1>3, <1>4, <5>1, AppendToQueue
        <5> QED
          BY <1>2, <4>1, <5>2 DEF Current, Later
      <4>2. CASE trans.from # s
        <5>1. side[s] # <<>> /\ Tail(side[s]) = <<>>
          BY <2>2, <2>7, <4>2 DEF Later
        <5>2. /\ Append(side[s], keys) # <<>>
              /\ Head(Append(side[s], keys)) = Head(side[s])
              /\ Tail(Append(side[s], keys)) = <<keys>>
          BY ZenonT(30), <1>4, <5>1, AppendToQueue
        <5>3. side'[s] # <<>> /\ Head(side'[s]) = Head(side[s]) /\ Tail(side'[s]) = <<keys>>
          BY <1>3, <5>2
        <5> QED
          BY <1>2, <4>2, <5>1, <5>3 DEF Current, Later
      <4> QED
        BY <4>1, <4>2
    <3>2. End(s)' = len
      BY <2>1, <2>2, <3>1 DEF End
    <3>3. Requests(s)'
      <4>1. len <= len + more
        <5> HIDE DEF more
        <5> QED
          BY <1>5
      <4>2. ASSUME NEW i \in 1 .. Len(Current(s))
            PROVE  sent'[s][Begin(s) + i] = Current(s)[i]
        <5>1. sent[s][Begin(s) + i] = Current(s)[i]
          BY <1>15 DEF InStep, Requests
        <5>2. Begin(s) + i \in 1 .. len
          <6> DEFINE c == Len(Current(s))
          <6>1. len = Begin(s) + c /\ c \in Nat /\ Begin(s) \in Nat /\ i \in 1 .. c
            BY <2>2, <2>3
          <6> HIDE DEF c
          <6> QED
            BY <6>1
        <5> QED
          BY <1>7, <5>1, <5>2
      <4>3. trans.from # s => Current(s) # <<>>
        BY <1>15, <2>7 DEF InStep, Requests
      <4>4. Begin(s) >= 0
        BY <1>15 DEF InStep, Requests
      <4> QED
        BY <1>2, <1>3, <1>4, <1>5, <1>10, <1>11, <2>1, <3>1, <3>2, <4>1, <4>2, <4>3, <4>4
           DEF Requests
    <3>4. ASSUME NEW i \in 0 .. len, Has(pipes[s].buffer, s, i, len)
          PROVE  Has(pipes[s].buffer, s, i, len)'
      <4>1. ASSUME NEW m \in (i + 1) .. len
            PROVE  m - 1 \in 0 .. len /\ m \in 0 .. len /\ m \in 1 .. len
        <5> QED
          BY <1>5
      <4>2. ASSUME NEW m \in (i + 1) .. len, NEW b \in Bytes,
                   Span(s, i, m - 1)' <= b, b < Span(s, i, m)'
            PROVE  pipes[s].buffer[b] = sent'[s][m]
        <5>1. Span(s, i, m - 1)' = Span(s, i, m - 1) /\ Span(s, i, m)' = Span(s, i, m)
              /\ sent'[s][m] = sent[s][m]
          BY <1>7, <1>9, <4>1
        <5> QED
          BY <3>4, <4>2, <5>1 DEF Has
      <4> QED
        BY <1>2, <4>2 DEF Has
    <3>5. ASSUME Notified(s) PROVE OneWrite(s, Done(s), written[s], End(s))'
                                   /\ Has(pipes[s].buffer, s, Done(s), written[s])'
                                   /\ (written[s] <= End(s))'
      <4>1. Done(s) < len /\ Span(s, Done(s), len) <= Capacity
            /\ Has(pipes[s].buffer, s, Done(s), len)
        BY <1>10, <1>15, <3>5 DEF InStep, WhileReading, OneWrite
      <4>2. Done(s) \in 0 .. len /\ len \in 0 .. len /\ len <= len
        <5> QED
          BY <1>5, <2>3, <4>1
      <4>3. Span(s, Done(s), len)' <= Capacity
        BY <1>9, <4>1, <4>2, <2>1
      <4> QED
        BY <1>2, <1>10, <2>1, <3>2, <3>4, <4>1, <4>2, <4>3 DEF OneWrite, Has, Span
    <3>6. ASSUME Reading(s)
          PROVE  LET first == Done(s) - trans.seen IN
                 /\ (written[s] = first + trans.read)'
                 /\ (Span(s, first, written[s]) <= Capacity)'
                 /\ Has(pipes[s].buffer, s, first, written[s])'
      <4> DEFINE first == Done(s) - trans.seen
      <4>1. /\ len = first + trans.read /\ Span(s, first, len) <= Capacity
            /\ Has(pipes[s].buffer, s, first, len)
        BY <1>10, <1>15, <3>6 DEF InStep, WhileReading
      <4>2. first \in 0 .. len /\ len \in 0 .. len
        <5>1. /\ Begin(s) = Done(s) - (trans.got + trans.seen) /\ trans.seen \in Nat
              /\ trans.got \in Nat /\ trans.read \in Nat
          BY <3>6 DEF Begin, Reading, Types, ReceiverTypes
        <5>2. /\ len = first + trans.read /\ len \in Nat
              /\ Done(s) \in Nat /\ Begin(s) \in Nat
          BY <1>5, <2>3, <4>1
        <5> QED
          BY <5>1, <5>2
      <4>3. first' = first
        BY <1>2, <2>1
      <4>4. Span(s, first, len)' <= Capacity
        BY <1>9, <4>1, <4>2, <4>3
      <4> QED
        BY <1>2, <1>10, <2>1, <3>4, <4>1, <4>2, <4>3, <4>4 DEF Has, Span
    <3>7. WhileReading(s)'
      BY <1>2, <1>14, <3>5, <3>6 DEF WhileReading
    <3> QED
      BY <2>4, <2>5, <3>3, <3>7 DEF InStep
  <2> QED
    BY <2>6, <2>7
<1> QED
  BY <1>1, <1>2, <1>12, <1>13, <1>14, <1>15 DEF Inv, SenderLabels

-----------------------------------------------------------------------------
(* The invariant of a sender, over the receiver's steps for it.            *)
LEMMA SenderKept ==
  ASSUME NEW s \in Senders, StreamOfJob(s), BufferOfJob(s), sender' = sender, pc'[s] = pc[s]
  PROVE  StreamOfJob(s)' /\ BufferOfJob(s)'
BY SameSenderKeeps DEF sender, SameSender, SamePosition

LEMMA InitializeStep ==
  ASSUME Types, ReceiverBusy, NEW s \in Senders, Inv(s), InitializePipe(s)
  PROVE  Inv(s)' /\ ReceiverBusy'
<1>1. /\ pc' = pc /\ sender' = sender /\ notifs' = notifs /\ trans' = trans
      /\ delivered' = delivered
      /\ pc[Receiver] = "poll" /\ pipes[s] = NoPipe /\ side[s] # <<>>
  BY DEF InitializePipe
<1>2. Connecting(s) /\ Handshake(s) /\ StreamOfJob(s) /\ BufferOfJob(s)
  BY <1>1 DEF Inv, Connecting, NoPipe
<1>3. /\ pc[s] = "handshake" /\ side[s] = <<<<>>>> /\ acks[s] = <<>> /\ notifs[s] = {}
      /\ trans.from # s /\ sent[s] = <<>> /\ delivered[s] = <<>>
  BY <1>1, <1>2 DEF Handshake, HasToken, Acked, Notified
<1>4. /\ side'[s] = <<>> /\ acks'[s] = <<1>> /\ pipes'[s] = [buffer |-> Empty, uuid |-> 1]
  BY <1>3 DEF InitializePipe, AckReceive, Types, ReceiverTypes
<1>5. StreamOfJob(s)' /\ BufferOfJob(s)'
  BY <1>1, <1>2, SenderKept
<1>6. Acked(s)' /\ ~Writing(s)' /\ ~Notified(s)' /\ ~Reading(s)' /\ ~Connecting(s)'
  BY <1>1, <1>3, <1>4 DEF Acked, Writing, Notified, Reading, Connecting
<1>7. OneToken(s)'
  BY <1>1, <1>3, <1>6 DEF OneToken
<1>8. /\ Done(s) = 0 /\ written[s] = 0 /\ job[s] = <<>>
  <2> DEFINE len == Len(sent[s])
             jobs == Len(job[s])
  <2>1. len = 0 /\ Done(s) = 0
    BY <1>3, EmptySeq DEF Done
  <2>2. /\ jobs \in Nat /\ Placed(s) <= len /\ written[s] <= Placed(s) /\ written[s] \in Nat
        /\ Placed(s) \in Nat /\ Base(s) = len - jobs /\ Base(s) \in Nat
        /\ job[s] = <<>> <=> jobs = 0
    BY <1>2, AtSender
  <2> HIDE DEF len, jobs
  <2> QED
    BY <2>1, <2>2
<1>9. /\ Done(s)' = 0 /\ Begin(s)' = 0 /\ Current(s)' = <<>> /\ Later(s)' = <<>>
      /\ End(s)' = 0 /\ Len(sent[s]) = 0
  <2>1. Len(<<>>) = 0
    BY EmptySeq
  <2>2. Done(s)' = 0 /\ Begin(s)' = 0 - 0 /\ Current(s)' = <<>> /\ Later(s)' = <<>>
    BY <1>1, <1>3, <1>4, <2>1 DEF Done, Begin, Current, Later
  <2>3. Begin(s)' = 0
    BY <2>2
  <2> QED
    BY <1>3, <2>1, <2>2, <2>3 DEF End
<1>10. Requests(s)'
  <2>1. \A i \in 1 .. Len(Current(s)') : FALSE
    BY <1>9, EmptySeq
  <2> QED
    BY <1>1, <1>4, <1>8, <1>9, <2>1 DEF Requests, sender
<1>11. Transaction(s)' /\ WhileWriting(s)' /\ WhileReading(s)'
  BY <1>1, <1>3, <1>6, <1>8, <1>9 DEF Transaction, WhileWriting, WhileReading, sender
<1>12. ReceiverBusy'
  BY <1>1 DEF ReceiverBusy
<1> QED
  BY <1>1, <1>3, <1>5, <1>6, <1>7, <1>10, <1>11, <1>12 DEF Inv, InStep, SenderLabels

LEMMA RequestStep ==
  ASSUME Types, ReceiverBusy, NEW s \in Senders, Inv(s), ReceiveRequest(s)
  PROVE  Inv(s)' /\ ReceiverBusy'
<1>0. s # Receiver /\ None \notin Senders
  BY Names
<1>1. /\ sender' = sender /\ acks' = acks /\ pipes' = pipes /\ notifs' = notifs
      /\ delivered' = delivered /\ pc'[s] = pc[s] /\ pc'[Receiver] = "wait"
      /\ pc[Receiver] = "poll" /\ pipes[s] # NoPipe /\ side[s] # <<>>
      /\ side'[s] = Tail(side[s])
  BY <1>0 DEF ReceiveRequest, Goto, Types, ReceiverTypes
<1>2. /\ trans'.from = s /\ trans'.keys = Head(side[s]) /\ trans'.got = 0
      /\ trans'.read = 0 /\ trans'.seen = 0
  BY DEF ReceiveRequest, NoTrans
<1>3. trans.from # s
  BY <1>0, <1>1 DEF ReceiverBusy, NoTrans
<1>4. ~Connecting(s) /\ ~Connecting(s)' /\ StreamOfJob(s) /\ BufferOfJob(s)
  BY <1>1 DEF Inv, Handshake, Connecting
<1>5. StreamOfJob(s)' /\ BufferOfJob(s)'
  BY <1>1, <1>4, SenderKept
<1>6. /\ (Acked(s)' <=> Acked(s)) /\ (Writing(s)' <=> Writing(s))
      /\ (Notified(s)' <=> Notified(s)) /\ ~Reading(s)' /\ ~Reading(s)
  BY <1>1, <1>3 DEF Acked, Writing, Notified, Reading
<1>7. OneToken(s)' /\ (HasToken(s)' <=> HasToken(s))
  BY <1>1, <1>6 DEF OneToken, HasToken, Inv
<1>8. ASSUME InStep(s) PROVE InStep(s)'
  <2>1. /\ Done(s)' = Done(s) /\ Current(s)' = Current(s) /\ Later(s)' = Later(s)
        /\ Base(s)' = Base(s) /\ Placed(s)' = Placed(s)
    BY <1>1, <1>2, <1>3 DEF Done, Current, Later, Base, Placed, sender
  <2>2. Begin(s)' = Begin(s)
    <3>1. Begin(s) = Done(s) - 0
      BY <1>3 DEF Begin
    <3>2. Begin(s)' = Done(s)' - (0 + 0)
      BY <1>2 DEF Begin
    <3> QED
      BY <2>1, <3>1, <3>2
  <2>3. End(s)' = End(s)
    BY <2>1, <2>2 DEF End
  <2>4. Requests(s)'
    BY <1>1, <1>2, <1>3, <1>8, <2>1, <2>2, <2>3 DEF InStep, Requests, sender
  <2>5. Current(s) = Head(side[s]) /\ Current(s) # <<>> /\ Current(s) \in Seq(Keys)
    <3>1. side[s] \in Seq(Seq(Keys))
      BY DEF Types, ReceiverTypes
    <3> QED
      BY <1>1, <1>3, <1>8, <3>1, SequenceTypes DEF InStep, Requests, Current
  <2>6. Transaction(s)'
    <3>1. Len(Head(side[s])) \in Nat /\ Len(Head(side[s])) >= 1
      BY <2>5, SequenceTypes
    <3> DEFINE len == Len(Head(side[s]))
    <3>2. 0 + 0 <= len /\ 0 <= 0 /\ 0 < len
      <4>1. len \in Nat /\ len >= 1
        BY <3>1
      <4> HIDE DEF len
      <4> QED
        BY <4>1
    <3> QED
      BY <1>2, <3>2 DEF Transaction
  <2>7. WhileWriting(s)'
    BY <1>1, <1>6, <1>8, <2>1 DEF InStep, WhileWriting, Has, Span, sender
  <2>8. WhileReading(s)'
    BY <1>1, <1>6, <1>8, <2>1, <2>3
       DEF InStep, WhileReading, OneWrite, Has, Span, sender
  <2> QED
    BY <2>4, <2>6, <2>7, <2>8 DEF InStep
<1>9. ReceiverBusy'
  BY <1>1, <1>2 DEF ReceiverBusy
<1> QED
  BY <1>1, <1>4, <1>5, <1>7, <1>8, <1>9 DEF Inv

LEMMA WaitStep ==
  ASSUME Types, ReceiverBusy, \A t \in Senders : Inv(t), WaitRead,
         NEW s \in Senders, s = trans.from
  PROVE  Inv(s)' /\ ReceiverBusy'
<1>1. /\ s \in Senders /\ s = trans.from /\ ~Connecting(s) /\ Notified(s) /\ InStep(s)
      /\ Inv(s) /\ trans.read = 0 /\ trans.seen = 0
      /\ ReadBuffer(trans.keys, trans.got) \in Nat
      /\ ReadBuffer(trans.keys, trans.got) = written[s] - Done(s)
  BY ReadsOneWrite
<1>2. /\ sender' = sender /\ side' = side /\ acks' = acks /\ pipes' = pipes
      /\ delivered' = delivered /\ pc'[s] = pc[s] /\ pc'[Receiver] = "observe"
      /\ pc[Receiver] = "wait" /\ notifs'[s] = {}
  <2>1. notifs[s] \ {pipes[s].uuid} = {} /\ s # Receiver
    BY <1>1, Names DEF WaitRead, Inv, OneToken
  <2> QED
    BY <1>1, <2>1 DEF WaitRead, Goto, Types, ReceiverTypes
<1>3. /\ trans'.from = s /\ trans'.keys = trans.keys /\ trans'.got = trans.got
      /\ trans'.read = written[s] - Done(s) /\ trans'.seen = 0
  BY <1>1 DEF WaitRead, Types, ReceiverTypes
<1>4. /\ ~Connecting(s)' /\ StreamOfJob(s) /\ BufferOfJob(s)
      /\ ~Acked(s) /\ ~Writing(s) /\ ~Reading(s)
  BY <1>1, <1>2 DEF Inv, OneToken, Connecting
<1>5. StreamOfJob(s)' /\ BufferOfJob(s)'
  BY <1>1, <1>2, <1>4, SenderKept
<1>6. ~Acked(s)' /\ ~Writing(s)' /\ ~Notified(s)' /\ Reading(s)' /\ pc[s] # "notify"
  BY <1>2, <1>3, <1>4 DEF Acked, Writing, Notified, Reading
<1>7. OneToken(s)'
  BY <1>2, <1>6 DEF OneToken
<1>8. /\ Done(s)' = Done(s) /\ Begin(s)' = Begin(s) /\ Current(s)' = Current(s)
      /\ Later(s)' = Later(s) /\ Base(s)' = Base(s) /\ End(s)' = End(s)
  <2>1. /\ Done(s)' = Done(s) /\ Begin(s)' = Begin(s) /\ Current(s)' = Current(s)
        /\ Later(s)' = Later(s) /\ Base(s)' = Base(s)
    BY <1>1, <1>2, <1>3 DEF Done, Begin, Current, Later, Base, sender
  <2> QED
    BY <2>1 DEF End
<1>9. Requests(s)'
  BY <1>1, <1>2, <1>3, <1>8 DEF InStep, Requests, sender
<1>10. /\ Requests(s) /\ OneWrite(s, Done(s), written[s], End(s))
       /\ Has(pipes[s].buffer, s, Done(s), written[s]) /\ written[s] <= End(s)
  BY <1>1 DEF InStep, WhileReading
<1>11. Transaction(s)'
  <2> DEFINE len == Len(trans.keys)
             got == trans.got
             d == Done(s)
             w == written[s]
  <2>1. /\ Begin(s) = d - (got + 0) /\ End(s) = Begin(s) + len /\ d \in Nat /\ len \in Nat
    BY <1>1, <1>10, RequestIsPart
  <2>2. got \in Nat /\ w \in Nat /\ w <= End(s) /\ d < w
    BY <1>1, <1>10 DEF Types, SenderTypes, ReceiverTypes, OneWrite
  <2>3. got + (w - d) <= len /\ 0 <= w - d
    <3> HIDE DEF len, got, d, w
    <3> QED
      BY <2>1, <2>2
  <2> QED
    BY <1>2, <1>3, <2>3 DEF Transaction
<1>12. WhileWriting(s)' /\ WhileReading(s)'
  <2>1. WhileWriting(s)'
    BY <1>2, <1>6 DEF WhileWriting
  <2>2. Done(s)' - trans'.seen = Done(s)
    <3>1. Done(s) \in Nat
      BY <1>1, <1>4, AtSender
    <3> QED
      BY <1>3, <1>8, <3>1
  <2>3. (written[s] = (Done(s) - trans.seen) + trans.read)'
    <3>1. Done(s) \in Nat /\ written[s] \in Nat
      BY <1>1, <1>4, AtSender
    <3>2. written[s] = Done(s) + (written[s] - Done(s))
      BY <3>1
    <3> QED
      BY <1>2, <1>3, <2>2, <3>2 DEF sender
  <2>4. Span(s, Done(s), written[s]) <= Capacity
    BY <1>10 DEF OneWrite
  <2>5. (Span(s, Done(s) - trans.seen, written[s]) <= Capacity)'
    BY <1>2, <2>2, <2>4 DEF Span, sender
  <2>6. Has(pipes[s].buffer, s, Done(s) - trans.seen, written[s])'
    BY <1>2, <1>10, <2>2 DEF Has, Span, sender
  <2> QED
    BY <1>6, <2>1, <2>3, <2>5, <2>6 DEF WhileReading
<1>13. ReceiverBusy'
  BY <1>1, <1>2, <1>3 DEF ReceiverBusy
<1>14. Inv(s)'
  BY <1>1, <1>2, <1>4, <1>5, <1>7, <1>9, <1>11, <1>12 DEF Inv, InStep
<1> QED
  BY <1>13, <1>14

LEMMA ObserveStep ==
  ASSUME Types, ReceiverBusy, \A t \in Senders : Inv(t), Observe,
         NEW s \in Senders, s = trans.from
  PROVE  Inv(s)' /\ ReceiverBusy'
<1> DEFINE i == trans.got + trans.seen + 1
           k == trans.keys[i]
           first == Offset(trans.keys)[i - 1] - Offset(trans.keys)[trans.got]
           object == [key |-> k, bytes |-> {k}]
<1>1. pc[Receiver] = "observe" /\ trans.seen < trans.read
  BY DEF Observe
<1>2. /\ ~Connecting(s) /\ Reading(s) /\ InStep(s) /\ Inv(s)
      /\ Done(s) + 1 \in 1 .. Len(sent[s]) /\ k \in Keys
  BY <1>1, ObservesNextChunk
<1>3. StreamOfJob(s) /\ BufferOfJob(s) /\ ~Acked(s) /\ ~Writing(s) /\ ~Notified(s)
  BY <1>2 DEF Inv, OneToken
<1>4. /\ sender' = sender /\ side' = side /\ acks' = acks /\ pipes' = pipes
      /\ notifs' = notifs /\ pc'[s] = pc[s]
  BY Names DEF Observe, Goto, Types
<1>5. StreamOfJob(s)' /\ BufferOfJob(s)'
  BY <1>3, <1>4, SenderKept
<1>6. ~Acked(s)' /\ ~Writing(s)' /\ ~Notified(s)' /\ ~Connecting(s)' /\ OneToken(s)'
  BY <1>2, <1>3, <1>4 DEF Acked, Writing, Notified, Connecting, OneToken
<1>7. CASE trans' = NoTrans /\ pc' = [pc EXCEPT ![Receiver] = "poll"]
  <2>1. pc'[Receiver] = "poll" /\ ReceiverBusy'
    BY <1>7 DEF ReceiverBusy, Types
  <2>2. ~HasToken(s)'
    BY <1>6, <2>1 DEF HasToken, Reading
  <2> QED
    BY <1>2, <1>4, <1>5, <1>6, <2>1, <2>2 DEF Inv
\* The chunk that comes is the next one: the position in the request is kept.
<1>8. CASE /\ trans' = [trans EXCEPT !.seen = @ + 1] /\ pc' = pc
           /\ delivered' = [delivered EXCEPT ![s] = Append(@, object)]
  <2>1. /\ trans'.from = s /\ trans'.keys = trans.keys /\ trans'.got = trans.got
        /\ trans'.read = trans.read /\ trans'.seen = trans.seen + 1
        /\ trans.got \in Nat /\ trans.seen \in Nat /\ trans.read \in Nat
    BY <1>8 DEF Types, ReceiverTypes
  <2>2. Done(s)' = Done(s) + 1 /\ Done(s) \in Nat
    <3>1. object \in Objects
      BY <1>2 DEF Objects
    <3> HIDE DEF object
    <3>2. delivered[s] \in Seq(Objects) /\ delivered'[s] = Append(delivered[s], object)
      BY <1>8 DEF Types, ReceiverTypes
    <3> QED
      BY <3>1, <3>2, AppendProperties, LenProperties DEF Done
  <2>3. Begin(s) = Done(s) - (trans.got + trans.seen) /\ Begin(s)' = Begin(s)
    <3>1. Begin(s) = Done(s) - (trans.got + trans.seen)
      BY DEF Begin
    <3>2. Begin(s)' = Done(s)' - (trans.got + (trans.seen + 1))
      BY <2>1 DEF Begin
    <3> DEFINE d == Done(s)
               got == trans.got
               seen == trans.seen
    <3>3. d - (got + seen) = (d + 1) - (got + (seen + 1))
      <4>1. d \in Nat /\ got \in Nat /\ seen \in Nat
        BY <2>1, <2>2
      <4> HIDE DEF d, got, seen
      <4> QED
        BY <4>1
    <3> QED
      BY <2>2, <3>1, <3>2, <3>3
  <2>4. /\ Current(s)' = Current(s) /\ Later(s)' = Later(s) /\ Base(s)' = Base(s)
        /\ End(s)' = End(s)
    <3>1. Current(s)' = Current(s) /\ Later(s)' = Later(s) /\ Base(s)' = Base(s)
      BY <1>4, <2>1 DEF Current, Later, Base, sender
    <3> QED
      BY <2>3, <3>1 DEF End
  <2>5. Requests(s)'
    BY <1>2, <1>4, <2>1, <2>3, <2>4 DEF InStep, Requests, sender
  <2>6. Transaction(s)'
    <3>1. trans.seen + 1 <= trans.read
      BY <1>1, <2>1
    <3>2. trans.got + trans.read <= Len(trans.keys)
      BY <1>2 DEF InStep, Transaction
    <3>3. pc'[Receiver] # "wait"
      BY <1>1, <1>8
    <3> QED
      BY <2>1, <3>1, <3>2, <3>3 DEF Transaction
  <2>7. WhileWriting(s)'
    BY <1>4, <1>6 DEF WhileWriting, Writing
  <2>8. WhileReading(s)'
    <3>1. (Done(s) - trans.seen)' = Done(s) - trans.seen
      <4>1. (Done(s) - trans.seen)' = (Done(s) + 1) - (trans.seen + 1)
        BY <2>1, <2>2
      <4> QED
        BY <2>1, <2>2, <4>1
    <3>2. /\ written[s] = (Done(s) - trans.seen) + trans.read
          /\ Span(s, Done(s) - trans.seen, written[s]) <= Capacity
          /\ Has(pipes[s].buffer, s, Done(s) - trans.seen, written[s])
      BY <1>2 DEF InStep, WhileReading
    <3>3. (written[s] = (Done(s) - trans.seen) + trans.read)'
      BY <1>4, <2>1, <3>1, <3>2 DEF sender
    <3>4. (Span(s, Done(s) - trans.seen, written[s]) <= Capacity)'
      BY <1>4, <3>1, <3>2 DEF Span, sender
    <3>5. Has(pipes[s].buffer, s, Done(s) - trans.seen, written[s])'
      BY <1>4, <3>1, <3>2 DEF Has, Span, sender
    <3> QED
      BY <1>6, <3>3, <3>4, <3>5 DEF WhileReading
  <2>9. ReceiverBusy'
    BY <1>1, <1>8, <2>1 DEF ReceiverBusy
  <2> QED
    BY <1>2, <1>4, <1>5, <1>6, <2>5, <2>6, <2>7, <2>8, <2>9 DEF Inv, InStep
<1>9. ASSUME CloneAndAdd(trans.from, k, first)
      PROVE  delivered' = [delivered EXCEPT ![s] = Append(@, object)]
  <2>1. {pipes[s].buffer[b] : b \in first .. first + Size[k] - 1} = {k}
    BY <1>1, ObservesNextChunk
  <2> HIDE DEF k, first
  <2>2. delivered' = [delivered EXCEPT ![s] = Append(@, [key |-> k,
          bytes |-> {pipes[s].buffer[b] : b \in first .. first + Size[k] - 1}])]
    BY <1>9 DEF CloneAndAdd
  <2> QED
    BY <2>1, <2>2
<1>10. \/ trans' = NoTrans /\ Goto(Receiver, "poll")
       \/ CloneAndAdd(trans.from, k, first) /\ pc' = pc
          /\ trans' = [trans EXCEPT !.seen = @ + 1]
  BY DEF Observe
<1> QED
  BY <1>7, <1>8, <1>9, <1>10 DEF Goto

\* Everything of this write was handed on: the next one may come, of this
\* request or of the one that waits behind it.
LEMMA AcknowledgeStep ==
  ASSUME Types, ReceiverBusy, \A t \in Senders : Inv(t), Acknowledge,
         NEW s \in Senders, s = trans.from
  PROVE  Inv(s)' /\ ReceiverBusy'
<1>0. s # Receiver
  BY Names
<1>1. pc[Receiver] = "observe" /\ trans.seen = trans.read
  BY DEF Acknowledge
<1>2. Reading(s) /\ HasToken(s) /\ ~Connecting(s) /\ InStep(s) /\ Inv(s)
  <2>1. Reading(s) /\ HasToken(s)
    BY <1>1 DEF Reading, HasToken
  <2> QED
    BY <1>1, <2>1, InTransaction
<1>3. StreamOfJob(s) /\ BufferOfJob(s) /\ ~Acked(s) /\ ~Writing(s) /\ ~Notified(s)
  BY <1>2 DEF Inv, OneToken
<1>4. /\ sender' = sender /\ side' = side /\ notifs' = notifs /\ delivered' = delivered
      /\ pc'[s] = pc[s]
  BY <1>0 DEF Acknowledge, Goto, Types
<1>5. StreamOfJob(s)' /\ BufferOfJob(s)'
  BY <1>3, <1>4, SenderKept
<1>6. /\ Acked(s)' /\ acks'[s] # <<>>
  <2>0. acks[s] \in Seq(Nat) /\ pipes[s] \in [buffer : Contents, uuid : Nat]
    BY DEF Types, ReceiverTypes
  <2>1. acks[s] \in Seq(Nat) /\ pipes[s].uuid + 1 \in Nat
    BY <2>0
  <2>2. acks'[s] = Append(acks[s], pipes[s].uuid + 1)
    BY DEF Acknowledge, AckReceive, Types, ReceiverTypes
  <2>3. Append(acks[s], pipes[s].uuid + 1) # <<>>
    BY <2>1
  <2> QED
    BY <2>2, <2>3 DEF Acked
<1>7. ~Connecting(s)'
  <2>1. pipes[s].uuid \in Nat /\ pipes'[s].uuid = pipes[s].uuid + 1
    BY DEF Acknowledge, Types, ReceiverTypes
  <2> QED
    BY <2>1 DEF Connecting
<1>8. pc'[Receiver] # "observe" /\ pc'[Receiver] = IF trans.got + trans.read < Len(trans.keys)
                                                   THEN "wait" ELSE "poll"
  BY DEF Acknowledge, Goto, Types
<1>9. ~Writing(s)' /\ ~Notified(s)' /\ ~Reading(s)' /\ OneToken(s)' /\ pc[s] # "notify"
  BY <1>3, <1>4, <1>8 DEF Writing, Notified, Reading, OneToken
<1> DEFINE d == Done(s)
           got == trans.got
           read == trans.read
           len == Len(trans.keys)
<1>10. Done(s) = written[s]
  <2>1. written[s] = (d - trans.seen) + read
    BY <1>2 DEF InStep, WhileReading
  <2>2. d \in Nat /\ read \in Nat /\ trans.seen = read
    BY <1>1, <1>3, AtSender DEF Types, ReceiverTypes
  <2> HIDE DEF d, read
  <2>3. written[s] = d
    BY <2>1, <2>2
  <2> QED
    BY <2>3 DEF d
<1>11. /\ Begin(s) = d - (got + read) /\ Begin(s) \in Nat /\ d \in Nat /\ len \in Nat
       /\ got \in Nat /\ read \in Nat /\ got + read <= len
       /\ End(s) = Begin(s) + len /\ Requests(s)
       /\ trans.keys \in Seq(Keys)
  <2>1. got \in Nat /\ read \in Nat /\ trans.keys \in Seq(Keys)
    BY DEF Types, ReceiverTypes
  <2>2. Requests(s) /\ got + read <= len
    BY <1>2 DEF InStep, Transaction
  <2> QED
    BY <1>1, <2>1, <2>2, RequestIsPart
<1>12. Done(s)' = Done(s) /\ Base(s)' = Base(s) /\ Base(s) \in Nat
  BY <1>3, <1>4, AtSender DEF Done, Base, sender
<1>13. WhileWriting(s)' /\ WhileReading(s)'
  BY <1>4, <1>9, <1>10, <1>12 DEF WhileWriting, WhileReading, sender
<1>14. CASE got + read < len
  <2>1. /\ trans'.from = s /\ trans'.keys = trans.keys /\ trans'.got = got + read
        /\ trans'.read = 0 /\ trans'.seen = 0 /\ pc'[Receiver] = "wait"
    BY <1>8, <1>14 DEF Acknowledge, Types, ReceiverTypes
  <2>2. Begin(s)' = Begin(s)
    <3>1. Begin(s)' = d - ((got + read) + 0)
      BY <1>12, <2>1 DEF Begin
    <3>2. d - ((got + read) + 0) = d - (got + read)
      <4>1. d \in Nat /\ got \in Nat /\ read \in Nat
        BY <1>11
      <4> HIDE DEF d, got, read
      <4> QED
        BY <4>1
    <3> QED
      BY <1>11, <3>1, <3>2
  <2>3. Current(s)' = Current(s) /\ Later(s)' = Later(s) /\ End(s)' = End(s)
    <3>1. Current(s)' = Current(s) /\ Later(s)' = Later(s)
      BY <1>4, <2>1 DEF Current, Later
    <3> QED
      BY <2>2, <3>1 DEF End
  <2>4. Requests(s)'
    BY <1>4, <1>11, <1>12, <2>1, <2>2, <2>3 DEF Requests, sender
  <2>5. Transaction(s)'
    <3>1. (got + read) + 0 <= len /\ 0 <= 0
      BY <1>11
    <3> QED
      BY <1>14, <2>1, <3>1 DEF Transaction
  <2>6. ReceiverBusy'
    BY <2>1 DEF ReceiverBusy
  <2> QED
    BY <1>2, <1>4, <1>5, <1>7, <1>9, <1>13, <2>4, <2>5, <2>6 DEF Inv, InStep
\* The request is done, and so is the store, unless it is of the next one.
<1>15. CASE ~(got + read < len)
  <2>1. trans' = NoTrans /\ trans'.from # s /\ pc'[Receiver] = "poll"
    BY <1>8, <1>15, Names DEF Acknowledge, NoTrans
  <2>2. End(s) = d
    <3>1. /\ Begin(s) = d - (got + read) /\ d \in Nat /\ len \in Nat /\ got \in Nat
          /\ read \in Nat /\ got + read <= len /\ ~(got + read < len)
          /\ End(s) = Begin(s) + len
      BY <1>11, <1>15
    <3> HIDE DEF d, got, read, len
    <3> QED
      BY <3>1
  <2>3. Begin(s)' = d
    <3>1. Begin(s)' = d - 0
      BY <1>12, <2>1 DEF Begin
    <3> QED
      BY <1>11, <3>1
  <2>4. Transaction(s)' /\ ReceiverBusy'
    BY <2>1 DEF Transaction, ReceiverBusy
  <2>5. /\ Later(s) = side[s]
        /\ End(s) <= Len(sent[s])
        /\ \/ Later(s) = <<>> /\ End(s) = Len(sent[s])
           \/ Later(s) = <<job[s]>> /\ job[s] # <<>> /\ End(s) = Base(s)
    BY <1>11 DEF Later, Requests
  <2>6. CASE side[s] = <<>> /\ End(s) = Len(sent[s])
    <3>1. job[s] = <<>>
      BY SMTT(20), <1>3, <1>10, <1>11, <2>2, <2>6 DEF StreamOfJob
    <3>2. /\ Current(s)' = <<>> /\ Later(s)' = <<>> /\ End(s)' = d
      <4>1. Current(s)' = <<>> /\ Later(s)' = <<>> /\ Len(<<>>) = 0
        BY <1>4, <2>1, <2>6, EmptySeq DEF Current, Later
      <4>2. End(s)' = d + 0
        BY <2>3, <4>1 DEF End
      <4> QED
        BY <1>11, <4>1, <4>2
    <3>3. Requests(s)'
      <4>1. \A i \in 1 .. Len(<<>>) : FALSE
        BY EmptySeq
      <4>2. d >= 0 /\ d <= d
        BY <1>11
      <4> QED
        BY <1>4, <2>2, <2>3, <2>6, <3>1, <3>2, <4>1, <4>2 DEF Requests, sender
    <3> QED
      BY <1>2, <1>4, <1>5, <1>7, <1>9, <1>13, <2>4, <3>3 DEF Inv, InStep
  <2>7. CASE side[s] = <<job[s]>> /\ job[s] # <<>> /\ End(s) = Base(s)
    <3>1. /\ side[s] # <<>> /\ Head(side[s]) = job[s] /\ Tail(side[s]) = <<>>
      BY <2>7
    <3>2. Current(s)' = job[s] /\ Later(s)' = <<>> /\ End(s)' = d + Len(job[s])
      <4>1. Current(s)' = job[s] /\ Later(s)' = <<>>
        BY <1>4, <2>1, <3>1 DEF Current, Later
      <4> QED
        BY <2>3, <4>1 DEF End
    <3>3. d = Base(s) /\ d + Len(job[s]) = Len(sent[s])
      <4>1. Len(job[s]) \in Nat /\ Len(sent[s]) \in Nat /\ Base(s) = Len(sent[s]) - Len(job[s])
        BY <1>3, AtSender
      <4> DEFINE jobs == Len(job[s])
                 all == Len(sent[s])
      <4>2. d = all - jobs /\ d \in Nat /\ jobs \in Nat /\ all \in Nat
        BY <1>11, <2>2, <2>7, <4>1
      <4> HIDE DEF d, jobs, all
      <4>3. d + jobs = all
        BY <4>2
      <4> QED
        BY <2>2, <2>7, <4>3 DEF jobs, all
    <3>4. Requests(s)'
      <4>1. \A i \in 1 .. Len(job[s]) : sent[s][d + i] = job[s][i]
        BY <1>3, <3>3 DEF StreamOfJob
      <4>2. d >= 0 /\ Len(sent[s]) <= Len(sent[s])
        BY <1>3, <1>11, AtSender
      <4>3. job'[s] = job[s] /\ sent'[s] = sent[s]
        BY <1>4 DEF sender
      <4>4. Base(s)' = Begin(s)' /\ End(s)' = Len(sent'[s])
        BY <1>12, <2>3, <3>2, <3>3, <4>3
      <4> QED
        BY <1>4, <2>3, <2>7, <3>2, <3>3, <4>1, <4>2, <4>3, <4>4 DEF Requests
    <3> QED
      BY <1>2, <1>4, <1>5, <1>7, <1>9, <1>13, <2>4, <3>4 DEF Inv, InStep
  <2> QED
    BY <2>5, <2>6, <2>7
<1> QED
  BY <1>14, <1>15

-----------------------------------------------------------------------------
(* The invariant, and what it says.                                        *)
LEMMA InitHolds == Init => IInv
<1> SUFFICES ASSUME Init PROVE IInv
  OBVIOUS
<1>1. Types
  BY InitTypes
<1>2. ReceiverBusy
  BY DEF Init, InitReceiver, ReceiverBusy, Receiver
<1>3. ASSUME NEW s \in Senders PROVE Inv(s)
  <2>1. /\ pc[s] = "new" /\ job[s] = <<>> /\ placed[s] = 0 /\ allocated[s] = 0
        /\ side[s] = <<>> /\ acks[s] = <<>> /\ sent[s] = <<>> /\ written[s] = 0
        /\ pipes[s] = NoPipe /\ notifs[s] = {} /\ trans.from = None /\ delivered[s] = <<>>
    BY Names DEF Init, InitSenders, InitReceiver, NoTrans
  <2>2. trans.from # s /\ ~HasToken(s) /\ Connecting(s)
    BY <2>1, Names DEF HasToken, Acked, Writing, Notified, Reading, Connecting, NoPipe
  <2>3. OneToken(s) /\ Handshake(s)
    BY <2>1, <2>2 DEF OneToken, Acked, Writing, Notified, Handshake
  <2>4. Base(s) = 0 /\ Placed(s) = 0 /\ Len(job[s]) = 0 /\ Len(sent[s]) = 0
    <3>1. Len(<<>>) = 0
      BY EmptySeq
    <3>2. Base(s) = 0 - 0
      BY <2>1, <3>1 DEF Base
    <3>3. Placed(s) = 0 - 0 + 0
      BY <2>1, <3>2 DEF Placed
    <3> QED
      BY <2>1, <3>1, <3>2, <3>3
  <2>5. StreamOfJob(s)
    <3>1. \A i \in 1 .. Len(job[s]) : FALSE
      BY <2>4
    <3> QED
      BY <2>1, <2>4, <3>1 DEF StreamOfJob
  <2>6. BufferOfJob(s)
    <3>1. Span(s, 0, 0) = 0
      <4>1. sent[s] \in Seq(Keys)
        BY <1>1 DEF Types, SenderTypes
      <4>2. 0 \in 0 .. Len(sent[s])
        BY <2>4
      <4> QED
        BY <4>1, <4>2, SpanIs
    <3>2. Has(buffer[s], s, 0, 0)
      BY DEF Has
    <3> QED
      BY <2>1, <2>4, <3>1, <3>2, Names DEF BufferOfJob
  <2> QED
    BY <2>1, <2>2, <2>3, <2>5, <2>6 DEF Inv, SenderLabels
<1> QED
  BY <1>1, <1>2, <1>3 DEF IInv

\* A sender's step touches no other, and not the receiver's thread.
LEMMA SenderKeepsInv ==
  ASSUME IInv, NEW s \in Senders,
         SenderStep(s) \/ \E keys \in Stores[s] : PreparePut(s, keys)
  PROVE  IInv'
<1>1. Types /\ ReceiverBusy /\ Inv(s) /\ StreamOfJob(s)
  BY DEF IInv, Inv
<1>2. Types'
  BY <1>1, SenderTypesStep
<1>3. Inv(s)'
  <2>1. CASE Connect(s)
    BY <1>1, <2>1, ConnectStep
  <2>2. CASE Connected(s)
    BY <1>1, <2>2, ConnectedStep
  <2>3. CASE Allocate(s)
    BY <1>1, <2>3, AllocateStep
  <2>4. CASE Flush(s)
    BY <1>1, <2>4, FlushStep
  <2>5. CASE SpinCheckForAck(s)
    BY <1>1, <2>5, SpinStep
  <2>6. CASE CommitWrite(s)
    BY <1>1, <2>6, CommitStep
  <2>7. CASE SendNotif(s)
    BY <1>1, <1>2, <2>7, NotifyStep
  <2>8. ASSUME NEW keys \in Stores[s], PreparePut(s, keys) PROVE Inv(s)'
    BY <1>1, <1>2, <2>8, PrepareStep
  <2> QED
    BY <2>1, <2>2, <2>3, <2>4, <2>5, <2>6, <2>7, <2>8 DEF SenderStep
<1>4. trans' = trans /\ pc'[Receiver] = pc[Receiver]
  <2>1. s # Receiver
    BY Names
  <2> QED
    BY <1>1, <2>1 DEF SenderStep, Connect, Connected, Allocate, Flush, SpinCheckForAck,
                      CommitWrite, SendNotif, FinishSend, PreparePut, Goto, Types
<1>5. ASSUME NEW t \in Senders, t # s PROVE Inv(t)'
  <2>1. Inv(t) /\ SameReceiver(t)
    BY <1>4 DEF IInv, SameReceiver
  <2>2. pc'[t] = pc[t] /\ delivered'[t] = delivered[t]
    BY <1>1, <1>5 DEF SenderStep, Connect, Connected, Allocate, Flush, SpinCheckForAck,
                      CommitWrite, SendNotif, FinishSend, PreparePut, Goto, Types
  <2>3. SameChannels(t)
    BY <1>1, <1>5
       DEF SenderStep, Connect, Connected, Allocate, Flush, SpinCheckForAck,
           CommitWrite, SendNotif, PreparePut, RegisterPutTasks, PrepareSend,
           Types, ReceiverTypes, SameChannels
  <2>4. SameSender(t)
    BY SMTT(20), <1>1, <1>5
       DEF SenderStep, Connect, Connected, Allocate, Flush, SpinCheckForAck,
           CommitWrite, SendNotif, FinishSend, PreparePut, RegisterPutTasks,
           AllocateZeroCopyWriteObject, BufferAllocate, Types, SenderTypes, SameSender,
           SamePosition, sender
  <2> QED
    BY <2>1, <2>2, <2>3, <2>4, UntouchedKeeps DEF Untouched
<1>6. ReceiverBusy'
  BY <1>1, <1>4 DEF ReceiverBusy
<1> QED
  BY <1>2, <1>3, <1>5, <1>6 DEF IInv

\* A step of the receiver's thread is for one sender.
LEMMA ReceiverKeepsInv ==
  ASSUME IInv, ReceiverStep
  PROVE  IInv'
<1>1. Types /\ ReceiverBusy /\ \A s \in Senders : Inv(s)
  BY DEF IInv
<1>2. Types'
  BY <1>1, ReceiverTypesStep
<1>3. ASSUME NEW s \in Senders, Inv(s)' /\ ReceiverBusy',
             \A t \in Senders : t # s => Untouched(t)
      PROVE  IInv'
  <2>1. ASSUME NEW t \in Senders PROVE Inv(t)'
    BY <1>1, <1>3, UntouchedKeeps
  <2> QED
    BY <1>2, <1>3, <2>1 DEF IInv
<1>4. ASSUME NEW s \in Senders, InitializePipe(s) PROVE IInv'
  <2>1. ASSUME NEW t \in Senders, t # s PROVE Untouched(t)
    BY <1>1, <1>4, <2>1
       DEF InitializePipe, AckReceive, sender, Types, ReceiverTypes, Untouched, SameReceiver,
           SameChannels, SameSender, SamePosition
  <2> QED
    BY <1>1, <1>3, <1>4, <2>1, InitializeStep
<1>5. ASSUME NEW s \in Senders, ReceiveRequest(s) PROVE IInv'
  <2>1. ASSUME NEW t \in Senders, t # s PROVE Untouched(t)
    <3>1. pc'[t] = pc[t] /\ trans.from # t /\ trans'.from # t
      BY <1>1, <1>5, <2>1, Names DEF ReceiveRequest, Goto, NoTrans, ReceiverBusy, Types
    <3> QED
      BY <1>1, <1>5, <2>1, <3>1
         DEF ReceiveRequest, sender, Types, ReceiverTypes, Untouched, SameReceiver,
             SameChannels, SameSender, SamePosition
  <2> QED
    BY <1>1, <1>3, <1>5, <2>1, RequestStep
<1>6. ASSUME WaitRead \/ Observe \/ Acknowledge PROVE IInv'
  <2>1. PICK s \in Senders : s = trans.from
    BY <1>1, <1>6 DEF WaitRead, Observe, Acknowledge, ReceiverBusy
  <2>2. Inv(s)' /\ ReceiverBusy'
    BY <1>1, <1>6, <2>1, WaitStep, ObserveStep, AcknowledgeStep
  <2>3. ASSUME NEW t \in Senders, t # s PROVE Untouched(t)
    <3>1. pc'[t] = pc[t] /\ trans.from # t /\ trans'.from # t
      <4>1. trans'.from \in {s, None}
        <5>1. trans \in [from : Senders \cup {None}, keys : Seq(Keys),
                         got : Nat, read : Nat, seen : Nat]
          BY <1>1 DEF Types, ReceiverTypes
        <5>2. CASE WaitRead
          BY <2>1, <5>1, <5>2 DEF WaitRead
        <5>3. CASE Observe
          BY <2>1, <5>1, <5>3 DEF Observe, NoTrans
        <5>4. CASE Acknowledge
          <6> DEFINE got == trans.got + trans.read
          <6>1. trans' = NoTrans \/ trans' = [trans EXCEPT !.got = got, !.read = 0, !.seen = 0]
            BY <5>4 DEF Acknowledge
          <6>2. CASE trans' = NoTrans
            BY <6>2 DEF NoTrans
          <6>3. CASE trans' = [trans EXCEPT !.got = got, !.read = 0, !.seen = 0]
            <7> HIDE DEF got
            <7>1. trans'.from = trans.from
              BY <5>1, <6>3
            <7> QED
              BY <2>1, <7>1
          <6> QED
            BY <6>1, <6>2, <6>3
        <5> QED
          BY <1>6, <5>2, <5>3, <5>4
      <4>2. pc'[t] = pc[t]
        BY <1>1, <1>6, Names DEF WaitRead, Observe, Acknowledge, Goto, Types
      <4> QED
        BY <2>1, <2>3, <4>1, <4>2, Names
    <3>2. SameChannels(t)
      BY <1>1, <1>6, <2>1, <2>3
         DEF WaitRead, Observe, Acknowledge, AckReceive, Types, ReceiverTypes, SameChannels
    <3>3. SameSender(t)
      BY <1>6 DEF WaitRead, Observe, Acknowledge, sender, SameSender, SamePosition
    <3>4. delivered'[t] = delivered[t]
      BY <1>1, <1>6, <2>1, <2>3
         DEF WaitRead, Observe, CloneAndAdd, Acknowledge, Types, ReceiverTypes
    <3> QED
      BY <3>1, <3>2, <3>3, <3>4 DEF Untouched, SameReceiver
  <2> QED
    BY <1>3, <2>1, <2>2, <2>3
<1> QED
  BY <1>4, <1>5, <1>6 DEF ReceiverStep

LEMMA NextKeepsInv == IInv /\ [Next]_vars => IInv'
<1> SUFFICES ASSUME IInv, [Next]_vars PROVE IInv'
  OBVIOUS
<1>1. CASE \E s \in Senders : SenderStep(s) \/ \E keys \in Stores[s] : PreparePut(s, keys)
  BY <1>1, SenderKeepsInv
<1>2. CASE ReceiverStep
  BY <1>2, ReceiverKeepsInv
<1>3. CASE /\ UNCHANGED <<pc, sender, side, acks, pipes, notifs, trans, delivered>>
  <2>1. ASSUME NEW s \in Senders PROVE Inv(s)'
    <3>1. Untouched(s)
      BY <1>3 DEF sender, Untouched, SameReceiver, SameChannels, SameSender, SamePosition
    <3> QED
      BY <3>1, UntouchedKeeps DEF IInv
  <2>2. Types' /\ ReceiverBusy'
    BY <1>3 DEF IInv, Types, SenderTypes, ReceiverTypes, ReceiverBusy, sender
  <2> QED
    BY <2>1, <2>2 DEF IInv
<1> QED
  BY <1>1, <1>2, <1>3 DEF Next, vars, PoolContains, PoolRemove, PoolGet

\* The inductive invariant: the token is in one place, and while it is
\* somewhere, both sides agree on the stream.
THEOREM IInvInvariant == Spec => []IInv
<1>1. Init => IInv
  BY InitHolds
<1>2. IInv /\ [Next]_vars => IInv'
  BY NextKeepsInv
<1> QED
  BY <1>1, <1>2, PTL DEF Spec

\* No sender writes to its buffer at the receiver while the receiver reads
\* it, or has been told that it may: CommitWrite against WaitRead and Observe.
THEOREM WriteExcludesReadHolds == Spec => []WriteExcludesRead
<1>1. IInv => WriteExcludesRead
  BY DEF IInv, Inv, OneToken, Writing, Notified, Reading, WriteExcludesRead
<1> QED
  BY <1>1, IInvInvariant, PTL

-----------------------------------------------------------------------------
(* The refinement of ObjectStream.                                         *)
LEMMA AnnounceStep ==
  ASSUME IInv, NEW s \in Senders, NEW keys \in Stores[s], PreparePut(s, keys)
  PROVE  Stream!Announce(s)
<1> DEFINE u == sent[s]
           v == sent'[s]
           n == Len(u)
<1>1. u \in Seq(Keys) /\ keys \in Seq(Keys) /\ keys # <<>>
  BY Names DEF IInv, Types, SenderTypes
<1>2. sent' = [sent EXCEPT ![s] = u \o keys] /\ v = u \o keys /\ delivered' = delivered
  BY DEF PreparePut, IInv, Types, SenderTypes
<1>3. v \in Seq(Keys) /\ Len(v) = n + Len(keys) /\ n \in Nat /\ Len(keys) \in Nat
      /\ Len(keys) >= 1
  BY <1>1, <1>2, SequenceTypes
<1>4. n < Len(v)
  <2> DEFINE more == Len(keys)
             all == Len(v)
  <2>1. all = n + more /\ n \in Nat /\ more \in Nat /\ more >= 1
    BY <1>3
  <2> HIDE DEF n, more, all
  <2>2. n < all
    BY <2>1
  <2> QED
    BY <2>2 DEF all
<1>5. \A i \in 1 .. n : v[i] = u[i]
  <2>1. \A i \in 1 .. n + Len(keys) : v[i] = IF i <= n THEN u[i] ELSE keys[i - n]
    BY <1>1, <1>2, ConcatProperties
  <2> HIDE DEF n, u, v
  <2> QED
    BY <1>3, <2>1
<1>6. SubSeq(u, 1, n) = SubSeq(v, 1, n)
  <2>1. \A i \in 1 .. n : u[i] \in Keys /\ v[i] \in Keys
    BY <1>1, <1>5, ElementOfSeq
  <2> HIDE DEF n, u, v
  <2>2. /\ SubSeq(u, 1, n) \in Seq(Keys) /\ SubSeq(v, 1, n) \in Seq(Keys)
        /\ Len(SubSeq(u, 1, n)) = IF 1 <= n THEN n - 1 + 1 ELSE 0
        /\ Len(SubSeq(v, 1, n)) = IF 1 <= n THEN n - 1 + 1 ELSE 0
        /\ \A i \in 1 .. n - 1 + 1 : SubSeq(u, 1, n)[i] = u[1 + i - 1]
        /\ \A i \in 1 .. n - 1 + 1 : SubSeq(v, 1, n)[i] = v[1 + i - 1]
    BY <1>3, <2>1, SubSeqProperties
  <2> DEFINE a == SubSeq(u, 1, n)
             c == SubSeq(v, 1, n)
  <2> HIDE DEF a, c
  <2>3. Len(a) = n /\ Len(c) = n
    BY <1>3, <2>2 DEF a, c
  <2>4. \A i \in 1 .. n : a[i] = u[i] /\ c[i] = v[i]
    <3>1. ASSUME NEW i \in 1 .. n PROVE i \in 1 .. n - 1 + 1 /\ 1 + i - 1 = i
      BY <1>3
    <3> QED
      BY <2>2, <3>1 DEF a, c
  <2>5. a = c
    BY <1>5, <2>2, <2>3, <2>4, SeqEqual DEF a, c
  <2> QED
    BY <2>5 DEF a, c
<1>7. IsStrictPrefix(u, v)
  <2>1. u # v /\ n <= Len(v)
    BY <1>3, <1>4
  <2> QED
    BY <1>6, <2>1 DEF IsStrictPrefix, IsPrefix
<1> QED
  BY <1>2, <1>7
     DEF Stream!Announce, Stream!IsStrictPrefix, Stream!IsPrefix, IsStrictPrefix, IsPrefix

LEMMA DeliverStep ==
  ASSUME IInv, Observe, delivered' # delivered
  PROVE  \E s \in Senders : Stream!Deliver(s)
<1> DEFINE i == trans.got + trans.seen + 1
           k == trans.keys[i]
           first == Offset(trans.keys)[i - 1] - Offset(trans.keys)[trans.got]
<1>1. PICK s \in Senders : s = trans.from
  BY DEF IInv, Observe, ReceiverBusy
<1>2. /\ Done(s) + 1 \in 1 .. Len(sent[s]) /\ sent[s][Done(s) + 1] = k
      /\ {pipes[s].buffer[b] : b \in first .. first + Size[k] - 1} = {k}
  BY <1>1, ObservesNextChunk DEF IInv, Observe
<1>3. CloneAndAdd(trans.from, k, first) /\ sent' = sent
  BY DEF Observe, sender
<1> HIDE DEF i, k, first
<1>4. delivered' = [delivered EXCEPT ![s] = Append(@, [key |-> k,
        bytes |-> {pipes[s].buffer[b] : b \in first .. first + Size[k] - 1}])]
  BY <1>1, <1>3 DEF CloneAndAdd
<1>5. delivered' = [delivered EXCEPT ![s] = Append(@, [key |-> k, bytes |-> {k}])]
  BY <1>2, <1>4
<1>6. Len(delivered[s]) < Len(sent[s])
  <2>1. delivered[s] \in Seq(Objects) /\ sent[s] \in Seq(Keys)
    BY DEF IInv, Types, SenderTypes, ReceiverTypes
  <2> DEFINE d == Len(delivered[s])
             n == Len(sent[s])
  <2>2. d \in Nat /\ n \in Nat /\ d + 1 \in 1 .. n
    BY <1>2, <2>1, LenProperties DEF Done
  <2> HIDE DEF d, n
  <2>3. d < n
    BY <2>2
  <2> QED
    BY <2>3 DEF d, n
<1> QED
  BY <1>2, <1>3, <1>5, <1>6 DEF Stream!Deliver, Done

LEMMA StepOfStream == IInv /\ [Next]_vars => [Stream!Next]_(Stream!vars)
<1> SUFFICES ASSUME IInv, [Next]_vars PROVE Stream!Next \/ UNCHANGED Stream!vars
  OBVIOUS
<1>1. ASSUME NEW s \in Senders, NEW keys \in Stores[s], PreparePut(s, keys)
      PROVE  Stream!Next
  BY <1>1, AnnounceStep DEF Stream!Next
<1>2. CASE Observe
  <2>1. sent' = sent
    BY <1>2 DEF Observe, sender
  <2> QED
    BY <1>2, <2>1, DeliverStep DEF Stream!Next, Stream!vars
<1>3. CASE sent' = sent /\ delivered' = delivered
  BY <1>3 DEF Stream!vars
<1>4. ASSUME NEW s \in Senders, SenderStep(s) PROVE sent' = sent /\ delivered' = delivered
  BY <1>4 DEF SenderStep, Connect, Connected, Allocate, Flush, SpinCheckForAck, CommitWrite,
              SendNotif, sender
<1>5. ASSUME ReceiverStep, ~Observe PROVE sent' = sent /\ delivered' = delivered
  <2>1. ASSUME NEW s \in Senders, InitializePipe(s) \/ ReceiveRequest(s)
        PROVE  sent' = sent /\ delivered' = delivered
    BY <2>1 DEF InitializePipe, ReceiveRequest, sender
  <2>2. CASE WaitRead
    BY <2>2 DEF WaitRead, sender
  <2>3. CASE Acknowledge
    <3>1. sender' = sender /\ delivered' = delivered
      BY <2>3 DEF Acknowledge
    <3> QED
      BY <3>1 DEF sender
  <2> QED
    BY <1>5, <2>1, <2>2, <2>3 DEF ReceiverStep
<1>6. ASSUME PoolContains \/ PoolRemove \/ (\E k \in Keys : PoolGet(k)) \/ UNCHANGED vars
      PROVE  sent' = sent /\ delivered' = delivered
  BY <1>6 DEF PoolContains, PoolRemove, PoolGet, sender, vars
<1> QED
  BY <1>1, <1>2, <1>3, <1>4, <1>5, <1>6 DEF Next

\* The transfer implements ObjectStream: however the stores are cut into
\* writes, and whatever fails, the receiver's observer is given each sender's
\* chunks in order, once, each with its own bytes and no others.
THEOREM DeliversStreamsHolds == Spec => DeliversStreams
<1>1. Init => Stream!Init
  BY DEF Init, InitSenders, InitReceiver, Stream!Init
<1>2. IInv /\ [Next]_vars => [Stream!Next]_(Stream!vars)
  BY StepOfStream
<1> QED
  BY <1>1, <1>2, IInvInvariant, PTL DEF Spec, DeliversStreams, Stream!Spec
=============================================================================
