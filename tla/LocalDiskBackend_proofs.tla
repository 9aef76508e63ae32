----------------------- MODULE LocalDiskBackend_proofs -----------------------
(***************************************************************************)
(* Proofs about LocalDiskBackend, for any threads, operations, sizes and   *)
(* number of saves in flight: an entry of the dictionary has its whole     *)
(* file, unless the chunk is put once more while it is there, and no file  *)
(* is left that nobody will delete; of an instance that only serves, the   *)
(* evictor's size is what is on disk.                                      *)
(*                                                                         *)
(* Then, of GdsBackend, for any instances, keys and number of crashes: the *)
(* file of a chunk that an instance knows is whole, and stays so, and a    *)
(* lookup never reports as absent a chunk that is stored.                  *)
(***************************************************************************)
EXTENDS MCLocalDiskBackend, CollectionLemmas

SaveLabels == {"idle", "open", "write", "insert", "done"}

Types ==
  /\ dict \in Seq(Keys) /\ IsInjective(dict)
  /\ files \in [Keys -> {"none", "partial", "whole"}]
  /\ saves \in [Slots -> [pc : SaveLabels, key : Keys \cup {NoKey}, linked : BOOLEAN]]
  /\ again \subseteq Keys
  /\ pc \in [Threads -> Labels]
  /\ key \in [Threads -> Keys \cup {NoKey}]
  /\ evict_keys \in [Threads -> Seq(Keys)]
  /\ walk \in [Threads -> [seen : Seq(Keys), left : Seq(Keys)]]

\* An operation has a key, and only an eviction has keys to evict.
Holding ==
  /\ \A t \in Threads : pc[t] \notin {"idle", "raised"} => key[t] \in Keys
  /\ \A t \in Threads : pc[t] \in {"idle", "put", "iterate", "remove", "read"} =>
        evict_keys[t] = <<>>
  /\ \A i \in Slots : saves[i].pc # "idle" => saves[i].key \in Keys

\* A chunk that is put or written is so by one thread or coroutine ...
OneWriter(k) ==
  /\ \A t, u \in Threads : Puts(t, k) /\ Puts(u, k) => t = u
  /\ \A i, j \in Slots : Writes(i, k) /\ Writes(j, k) => i = j
  /\ \A t \in Threads, i \in Slots : ~(Puts(t, k) /\ Writes(i, k))

\* ... is not in the dictionary and is not being deleted; a chunk that is being
\* deleted has left the dictionary.
OutOfDict(k) ==
  /\ \A t \in Threads : Puts(t, k) \/ Unlinks(t, k) => ~InDict(k)
  /\ \A i \in Slots : Writes(i, k) => ~InDict(k)
  /\ \A t, u \in Threads : ~(Unlinks(t, k) /\ Puts(u, k))
  /\ \A t \in Threads, i \in Slots : ~(Unlinks(t, k) /\ Writes(i, k))

\* What a coroutine has written is at the chunk's path.
WritesFile(k) ==
  \A i \in Slots : Writes(i, k) =>
     /\ saves[i].pc = "write" => saves[i].linked
     /\ saves[i].pc = "insert" => files[k] = "whole"

LifeCycle(k) ==
  /\ OneWriter(k) /\ OutOfDict(k) /\ WritesFile(k)
  /\ InDict(k) => files[k] = "whole"

\* A file has an entry, or somebody writes or deletes it.
FileIsOwned(k) ==
  \/ files[k] = "none"
  \/ InDict(k)
  \/ \E t \in Threads : Unlinks(t, k)
  \/ \E i \in Slots : Writes(i, k)

LifeCycles == \A k \in Keys \ again : LifeCycle(k)
FilesOwned == \A k \in Keys : FileIsOwned(k)

IInv == Types /\ Holding /\ LifeCycles /\ FilesOwned

-----------------------------------------------------------------------------

LEMMA WithoutFacts ==
  ASSUME NEW s \in Seq(Keys), IsInjective(s), NEW k \in Keys
  PROVE  /\ Without(s, k) \in Seq(Keys) /\ IsInjective(Without(s, k))
         /\ Range(Without(s, k)) = Range(s) \ {k}
BY DropElement DEF Without

LEMMA NewestFacts ==
  ASSUME NEW s \in Seq(Keys), IsInjective(s), NEW k \in Keys
  PROVE  /\ Newest(s, k) \in Seq(Keys) /\ IsInjective(Newest(s, k))
         /\ Range(Newest(s, k)) = Range(s) \cup {k}
<1>1. /\ Without(s, k) \in Seq(Keys) /\ IsInjective(Without(s, k))
      /\ Range(Without(s, k)) = Range(s) \ {k}
  BY WithoutFacts
<1>2. k \notin Range(Without(s, k))
  BY <1>1
<1> QED
  BY <1>1, <1>2, RangeAppend, AppendInjectiveSeq DEF Newest

\* An entry that is there becomes the newest.
LEMMA MovedFacts ==
  ASSUME NEW s \in Seq(Keys), IsInjective(s), NEW k \in Range(s), k \in Keys
  PROVE  /\ Newest(s, k) \in Seq(Keys) /\ IsInjective(Newest(s, k))
         /\ Range(Newest(s, k)) = Range(s)
<1>1. Range(s) \cup {k} = Range(s)
  OBVIOUS
<1> QED
  BY <1>1, NewestFacts

\* A chunk's life goes on as it was when a step begins nothing with it.
LEMMA NothingBegins ==
  ASSUME NEW k \in Keys, LifeCycle(k),
         \A t \in Threads : Puts(t, k)' => Puts(t, k),
         \A t \in Threads : Unlinks(t, k)' => Unlinks(t, k),
         \A i \in Slots : Writes(i, k)' => Writes(i, k) /\ saves'[i] = saves[i],
         InDict(k)' => InDict(k),
         files'[k] = files[k]
  PROVE  LifeCycle(k)'
<1>1. OneWriter(k)' /\ OutOfDict(k)'
  BY DEF LifeCycle, OneWriter, OutOfDict
<1>2. WritesFile(k)'
  BY DEF LifeCycle, WritesFile
<1> QED
  BY <1>1, <1>2 DEF LifeCycle

\* A file that had an owner has one when nothing ends.
LEMMA NothingEnds ==
  ASSUME NEW k \in Keys, FileIsOwned(k),
         files'[k] \in {"none", files[k]},
         InDict(k) => InDict(k)',
         \A t \in Threads : Unlinks(t, k) => Unlinks(t, k)',
         \A i \in Slots : Writes(i, k) => Writes(i, k)'
  PROVE  FileIsOwned(k)'
BY DEF FileIsOwned

LEMMA InitIInv == ASSUME Init PROVE IInv
<1>1. Types
  BY RangeEmpty, EmptySeq DEF Init, Types, SaveLabels, Labels, NoSave, NoWalk
<1>2. Holding
  BY DEF Init, Holding, NoSave
<1>3. ASSUME NEW k \in Keys PROVE LifeCycle(k) /\ FileIsOwned(k)
  BY RangeEmpty DEF Init, LifeCycle, OneWriter, OutOfDict, WritesFile, FileIsOwned, Puts,
     Unlinks, Writes, InDict, NoSave
<1> QED
  BY <1>1, <1>2, <1>3 DEF IInv, LifeCycles, FilesOwned

-----------------------------------------------------------------------------
(* The steps of an operation that neither begin nor end a put or a deletion. *)

OthersKeep(t) ==
  \A u \in Threads : u # t =>
     pc'[u] = pc[u] /\ key'[u] = key[u] /\ evict_keys'[u] = evict_keys[u]

LEMMA QuietStep ==
  ASSUME IInv, NEW t \in Threads, OthersKeep(t),
         files' = files, saves' = saves, again' = again, Range(dict') = Range(dict),
         pc[t] # "unlink", pc'[t] # "unlink",
         \A k \in Keys : Puts(t, k)' => Puts(t, k)
  PROVE  LifeCycles' /\ FilesOwned'
<1>1. ASSUME NEW k \in Keys
      PROVE  /\ \A u \in Threads : Puts(u, k)' => Puts(u, k)
             /\ \A u \in Threads : Unlinks(u, k)' <=> Unlinks(u, k)
             /\ \A i \in Slots : Writes(i, k)' <=> Writes(i, k)
             /\ InDict(k)' <=> InDict(k)
  <2>1. ASSUME NEW u \in Threads, u # t
        PROVE  (Puts(u, k)' <=> Puts(u, k)) /\ (Unlinks(u, k)' <=> Unlinks(u, k))
    BY <2>1 DEF OthersKeep, Puts, Unlinks, Victim
  <2>2. ~Unlinks(t, k)' /\ ~Unlinks(t, k)
    BY DEF Unlinks
  <2> QED
    BY <2>1, <2>2 DEF Writes, InDict
<1>2. ASSUME NEW k \in Keys \ again' PROVE LifeCycle(k)'
  BY <1>1, NothingBegins DEF IInv, LifeCycles
<1>3. ASSUME NEW k \in Keys PROVE FileIsOwned(k)'
  BY <1>1, NothingEnds DEF IInv, FilesOwned
<1> QED
  BY <1>2, <1>3 DEF LifeCycles, FilesOwned

LEMMA StoreBeginStep ==
  ASSUME IInv, NEW t \in Threads, NEW k \in Keys, StoreBegin(t, k)
  PROVE  IInv'
<1> USE DEF StoreBegin, Start, Free, Goto, store, disk, local
<1>1. Types' /\ Holding'
  BY DEF IInv, Types, Holding, Labels
<1>2. OthersKeep(t) /\ pc[t] = "idle" /\ pc'[t] = "put"
  BY DEF OthersKeep, IInv, Types
<1> QED
  BY <1>1, <1>2, QuietStep DEF IInv, Puts

LEMMA RemoveBeginStep ==
  ASSUME IInv, NEW t \in Threads, NEW k \in Keys, RemoveBegin(t, k)
  PROVE  IInv'
<1> USE DEF RemoveBegin, Start, Free, Goto, store, disk, local, history
<1>1. Types' /\ Holding'
  BY DEF IInv, Types, Holding, Labels
<1>2. OthersKeep(t) /\ pc[t] = "idle" /\ pc'[t] = "remove"
  BY DEF OthersKeep, IInv, Types
<1> QED
  BY <1>1, <1>2, QuietStep DEF IInv, Puts

LEMMA IterateStep ==
  ASSUME IInv, NEW t \in Threads, Iterate(t)
  PROVE  IInv'
<1> USE DEF Iterate, Continue, Goto, store, disk, history
<1>1. Types' /\ Holding'
  BY DEF IInv, Types, Holding, Labels
<1>2. /\ OthersKeep(t) /\ pc[t] = "iterate" /\ pc'[t] \in {"pick", "idle"}
      /\ pc'[t] # "idle" => key' = key
  BY DEF OthersKeep, IInv, Types
<1> QED
  BY <1>1, <1>2, QuietStep DEF IInv, Puts

LEMMA WalksOn ==
  ASSUME NEW w \in [seen : Seq(Keys), left : Seq(Keys)], NEW s \in Seq(Keys)
  PROVE  [w EXCEPT !.left = s] \in [seen : Seq(Keys), left : Seq(Keys)]
OBVIOUS

LEMMA PickOneStep ==
  ASSUME IInv, NEW t \in Threads, PickOne(t)
  PROVE  IInv'
<1> USE DEF PickOne, store, disk, history
<1> DEFINE k == Head(walk[t].left)
<1>1. walk[t].left \in Seq(Keys) /\ walk[t].seen \in Seq(Keys) /\ walk[t].left # <<>>
  BY DEF IInv, Types
<1>2. k \in Keys /\ Tail(walk[t].left) \in Seq(Keys)
  BY <1>1, HeadTailProperties
<1>3. \/ evict_keys' = evict_keys
      \/ evict_keys' = [evict_keys EXCEPT ![t] = Append(@, k)]
  OBVIOUS
<1> HIDE DEF k
<1>4. evict_keys' \in [Threads -> Seq(Keys)]
  <2>1. evict_keys \in [Threads -> Seq(Keys)] /\ evict_keys[t] \in Seq(Keys)
    BY DEF IInv, Types
  <2>2. Append(evict_keys[t], k) \in Seq(Keys)
    BY <1>2, <2>1, AppendProperties
  <2> QED
    BY <1>3, <2>1, <2>2
<1>5. walk' \in [Threads -> [seen : Seq(Keys), left : Seq(Keys)]]
  <2>1. walk \in [Threads -> [seen : Seq(Keys), left : Seq(Keys)]]
    BY DEF IInv, Types
  <2>2. PICK s \in Seq(Keys) : s = Tail(walk[t].left)
    BY <1>2
  <2>3. walk' = [walk EXCEPT ![t] = [walk[t] EXCEPT !.left = s]]
    BY <2>2
  <2> QED
    BY ZenonT(30), <2>1, <2>3, WalksOn
<1>6. OthersKeep(t) /\ pc[t] = "pick" /\ pc' = pc /\ key' = key
  BY <1>3 DEF OthersKeep, IInv, Types
<1>7. Types' /\ Holding'
  BY <1>4, <1>5, <1>6 DEF IInv, Types, Holding, OthersKeep
<1> QED
  BY <1>6, <1>7, QuietStep DEF IInv, Puts

LEMMA PickRaisesStep ==
  ASSUME IInv, NEW t \in Threads, PickRaises(t)
  PROVE  IInv'
<1> USE DEF PickRaises, Goto, store, disk, history, local
<1>1. Types' /\ Holding'
  BY DEF IInv, Types, Holding, Labels
<1>2. OthersKeep(t) /\ pc[t] = "pick" /\ pc'[t] = "raised"
  BY DEF OthersKeep, IInv, Types
<1> QED
  BY <1>1, <1>2, QuietStep DEF IInv, Puts

LEMMA PickedStep ==
  ASSUME IInv, NEW t \in Threads, Picked(t)
  PROVE  IInv'
<1> USE DEF Picked, Goto, store, disk, history
<1>1. walk' \in [Threads -> [seen : Seq(Keys), left : Seq(Keys)]]
  BY EmptySeq DEF IInv, Types, NoWalk
<1>2. Types' /\ Holding'
  BY <1>1 DEF IInv, Types, Holding, Labels
<1>3. OthersKeep(t) /\ pc[t] = "pick" /\ pc'[t] = "evict" /\ key' = key
  BY DEF OthersKeep, IInv, Types
<1> QED
  BY <1>2, <1>3, QuietStep DEF IInv, Puts

LEMMA RemoveReadStep ==
  ASSUME IInv, NEW t \in Threads, RemoveRead(t)
  PROVE  IInv'
<1> USE DEF RemoveRead, Goto, store, disk, history, local
<1>1. Types' /\ Holding'
  BY DEF IInv, Types, Holding, Labels
<1>2. /\ OthersKeep(t) /\ pc'[t] \in {"pop", "raised"} /\ key' = key
      /\ evict_keys' = evict_keys
      /\ \/ pc[t] = "remove" /\ evict_keys[t] = <<>>
         \/ pc[t] = "evict"
  BY DEF OthersKeep, IInv, Types, Holding
<1> QED
  BY <1>1, <1>2, QuietStep DEF IInv, Puts

LEMMA RecoverStep ==
  ASSUME IInv, NEW t \in Threads, Recover(t)
  PROVE  IInv'
<1> USE DEF Recover, Return, Continue, Goto, store, disk, history
<1>1. walk' \in [Threads -> [seen : Seq(Keys), left : Seq(Keys)]]
  BY EmptySeq DEF IInv, Types, NoWalk
<1>2. evict_keys' \in [Threads -> Seq(Keys)]
  BY EmptySeq DEF IInv, Types
<1>3. Types' /\ Holding'
  BY <1>1, <1>2 DEF IInv, Types, Holding, Labels
<1>4. OthersKeep(t) /\ pc[t] = "raised" /\ pc'[t] = "idle"
  BY DEF OthersKeep, IInv, Types
<1> QED
  BY <1>3, <1>4, QuietStep DEF IInv, Puts

LEMMA GetBeginStep ==
  ASSUME IInv, NEW t \in Threads, NEW k \in Keys, GetBegin(t, k)
  PROVE  IInv'
<1> USE DEF GetBegin, Start, Free, Goto, disk, local, history
<1>1. dict' \in Seq(Keys) /\ IsInjective(dict') /\ Range(dict') = Range(dict)
  BY MovedFacts DEF IInv, Types, InDict
<1>2. Types' /\ Holding'
  BY <1>1 DEF IInv, Types, Holding, Labels
<1>3. OthersKeep(t) /\ pc[t] = "idle" /\ pc'[t] = "read"
  BY DEF OthersKeep, IInv, Types
<1> QED
  BY <1>1, <1>2, <1>3, QuietStep DEF IInv, Puts

LEMMA GetReadStep ==
  ASSUME IInv, NEW t \in Threads, GetRead(t)
  PROVE  IInv'
<1> USE DEF GetRead, Return, Continue, Goto, store, disk, local, history
<1>1. Types' /\ Holding'
  BY DEF IInv, Types, Holding, Labels
<1>2. OthersKeep(t) /\ pc[t] = "read" /\ pc'[t] \in {"idle", "raised"}
  BY DEF OthersKeep, IInv, Types
<1> QED
  BY <1>1, <1>2, QuietStep DEF IInv, Puts

\* The steps that move nothing but the order of the dictionary, pins and loads.
LEMMA ReadingStep ==
  ASSUME IInv, NEW k \in Keys,
         \/ \E t \in Threads : Prefetch(t, k) \/ Pin(t, k) \/ Unpin(t, k)
         \/ LoadFile(k)
  PROVE  IInv'
<1>1. /\ files' = files /\ saves' = saves /\ again' = again /\ pc' = pc /\ key' = key
      /\ evict_keys' = evict_keys /\ walk' = walk
      /\ dict' = dict \/ (InDict(k) /\ dict' = Newest(dict, k))
  BY DEF Prefetch, Pin, Unpin, LoadFile, store, disk, local, history
<1>2. dict' \in Seq(Keys) /\ IsInjective(dict') /\ Range(dict') = Range(dict)
  BY <1>1, MovedFacts DEF IInv, Types, InDict
<1>3. Types' /\ Holding'
  BY <1>1, <1>2 DEF IInv, Types, Holding
<1>4. ASSUME NEW j \in Keys
      PROVE  /\ LifeCycle(j)' <=> LifeCycle(j)
             /\ FileIsOwned(j)' <=> FileIsOwned(j)
  BY <1>1, <1>2 DEF LifeCycle, OneWriter, OutOfDict, WritesFile, FileIsOwned, Puts, Unlinks,
     Writes, InDict, Victim
<1> QED
  BY <1>1, <1>3, <1>4 DEF IInv, LifeCycles, FilesOwned

-----------------------------------------------------------------------------
(* The steps that put, delete and write a chunk.                           *)

LEMMA CheckPutTasksStep ==
  ASSUME IInv, NEW t \in Threads, CheckPutTasks(t)
  PROVE  IInv'
<1> USE DEF CheckPutTasks, Continue, Goto, store, disk, local
<1>1. PICK k \in Keys : k = key[t]
  BY DEF IInv, Holding
<1>2. Types' /\ Holding'
  BY <1>1 DEF IInv, Types, Holding, Labels
<1>3. /\ OthersKeep(t) /\ pc[t] = "put" /\ evict_keys' = evict_keys
      /\ files' = files /\ saves' = saves /\ dict' = dict
  BY DEF OthersKeep, IInv, Types
<1>4. CASE k \in Range(put_tasks)
  <2>1. again' = again /\ pc'[t] = "idle"
    BY <1>1, <1>4 DEF IInv, Types
  <2> QED
    BY <1>2, <1>3, <2>1, QuietStep DEF IInv, Puts
<1>5. CASE k \notin Range(put_tasks)
  <2>1. /\ pc'[t] = "iterate" /\ key' = key
        /\ again' = IF InDict(k) \/ Busy(k) THEN again \cup {k} ELSE again \ {k}
    BY <1>1, <1>5 DEF IInv, Types
  <2>2. ASSUME NEW j \in Keys
        PROVE  /\ \A u \in Threads : u # t => (Puts(u, j)' <=> Puts(u, j))
               /\ Puts(t, j)' => j = k
               /\ \A u \in Threads : Unlinks(u, j)' <=> Unlinks(u, j)
               /\ \A i \in Slots : Writes(i, j)' <=> Writes(i, j)
               /\ InDict(j)' <=> InDict(j)
    BY <1>1, <1>3, <2>1 DEF OthersKeep, Puts, Unlinks, Victim, Writes, InDict
  <2>3. ASSUME NEW j \in Keys \ again', j # k PROVE LifeCycle(j)'
    <3>1. j \notin again
      BY <2>1, <2>3
    <3> QED
      BY <1>3, <2>2, <2>3, <3>1, NothingBegins DEF IInv, LifeCycles
  <2>4. ASSUME k \notin again' PROVE LifeCycle(k)'
    <3>1. ~InDict(k) /\ ~Busy(k)
      BY <2>1, <2>4
    <3>2. /\ \A u \in Threads : Puts(u, k)' => u = t
          /\ \A u \in Threads : ~Unlinks(u, k)'
          /\ \A i \in Slots : ~Writes(i, k)'
          /\ ~InDict(k)'
      BY <2>2, <3>1 DEF Busy
    <3> QED
      BY <3>2 DEF LifeCycle, OneWriter, OutOfDict, WritesFile
  <2>5. ASSUME NEW j \in Keys PROVE FileIsOwned(j)'
    BY <1>3, <2>2, NothingEnds DEF IInv, FilesOwned
  <2> QED
    BY <1>2, <2>3, <2>4, <2>5 DEF IInv, LifeCycles, FilesOwned
<1> QED
  BY <1>4, <1>5

LEMMA SubmitSaveStep ==
  ASSUME IInv, NEW t \in Threads, SubmitSave(t)
  PROVE  IInv'
<1> USE DEF SubmitSave, Return, Continue, Goto, local, history
<1>1. PICK k \in Keys : k = key[t]
  BY DEF IInv, Holding
<1>2. PICK i \in Slots :
         /\ saves[i].pc = "idle"
         /\ saves' = [saves EXCEPT ![i] = [pc |-> "open", key |-> k, linked |-> FALSE]]
  BY <1>1
<1>3. /\ saves'[i] = [pc |-> "open", key |-> k, linked |-> FALSE]
      /\ \A j \in Slots : j # i => saves'[j] = saves[j]
      /\ saves' \in [Slots -> [pc : SaveLabels, key : Keys \cup {NoKey}, linked : BOOLEAN]]
  BY <1>2 DEF IInv, Types, SaveLabels
<1>4. Types' /\ Holding'
  BY <1>3 DEF IInv, Types, Holding, Labels
<1>5. /\ OthersKeep(t) /\ pc[t] = "evict" /\ pc'[t] = "idle" /\ evict_keys' = evict_keys
      /\ files' = files /\ dict' = dict /\ again' = again
  BY DEF OthersKeep, IInv, Types
<1>6. ASSUME NEW j \in Keys
      PROVE  /\ \A u \in Threads : u # t => (Puts(u, j)' <=> Puts(u, j))
             /\ ~Puts(t, j)'
             /\ \A u \in Threads : Unlinks(u, j)' <=> Unlinks(u, j)
             /\ \A h \in Slots : h # i => (Writes(h, j)' <=> Writes(h, j))
             /\ Writes(i, j)' => j = k
             /\ ~Writes(i, j)
             /\ InDict(j)' <=> InDict(j)
  BY <1>2, <1>3, <1>5 DEF OthersKeep, Puts, Unlinks, Victim, Writes, InDict
<1>7. ASSUME NEW j \in Keys \ again', j # k PROVE LifeCycle(j)'
  BY <1>3, <1>5, <1>6, <1>7, NothingBegins DEF IInv, LifeCycles
<1>8. ASSUME k \notin again' PROVE LifeCycle(k)'
  <2>1. LifeCycle(k) /\ Puts(t, k)
    BY <1>1, <1>5, <1>8 DEF IInv, LifeCycles, Puts
  <2>2. /\ \A u \in Threads : ~Puts(u, k)' /\ ~Unlinks(u, k)'
        /\ \A h \in Slots : Writes(h, k)' => h = i
        /\ ~InDict(k)'
    BY <1>6, <2>1 DEF LifeCycle, OneWriter, OutOfDict
  <2> QED
    BY <1>3, <2>2 DEF LifeCycle, OneWriter, OutOfDict, WritesFile
<1>9. ASSUME NEW j \in Keys PROVE FileIsOwned(j)'
  BY <1>5, <1>6, NothingEnds DEF IInv, FilesOwned
<1> QED
  BY <1>4, <1>7, <1>8, <1>9 DEF IInv, LifeCycles, FilesOwned

LEMMA RemovePopStep ==
  ASSUME IInv, NEW t \in Threads, RemovePop(t)
  PROVE  IInv'
<1>1. Victim(t) \in Keys /\ pc[t] = "pop" /\ evict_keys[t] \in Seq(Keys)
  BY RangeTail DEF RemovePop, Victim, IInv, Types, Holding
<1>k. PICK k \in Keys : k = Victim(t)
  BY <1>1
<1>2. /\ key' = key /\ evict_keys' = evict_keys /\ walk' = walk
      /\ files' = files /\ saves' = saves
      /\ \/ /\ InDict(k)
            /\ dict' = Without(dict, k)
            /\ again' = IF Busy(k) THEN again ELSE again \ {k}
            /\ pc' = [pc EXCEPT ![t] = "unlink"]
         \/ dict' = dict /\ again' = again /\ pc' = [pc EXCEPT ![t] = "raised"]
  BY <1>k DEF RemovePop, Goto, disk, local
<1>3. CASE /\ InDict(k)
           /\ dict' = Without(dict, k)
           /\ again' = IF Busy(k) THEN again ELSE again \ {k}
           /\ pc' = [pc EXCEPT ![t] = "unlink"]
  <2>1. dict' \in Seq(Keys) /\ IsInjective(dict') /\ Range(dict') = Range(dict) \ {k}
    BY <1>1, <1>3, WithoutFacts DEF IInv, Types
  <2>2. Types' /\ Holding'
    BY <1>1, <1>2, <1>3, <2>1 DEF IInv, Types, Holding, Labels
  <2>3. OthersKeep(t) /\ pc'[t] = "unlink"
    BY <1>2, <1>3 DEF OthersKeep, IInv, Types
  <2>4. ASSUME NEW j \in Keys
        PROVE  /\ \A u \in Threads : Puts(u, j)' <=> Puts(u, j)
               /\ \A u \in Threads : u # t => (Unlinks(u, j)' <=> Unlinks(u, j))
               /\ Unlinks(t, j)' <=> j = k
               /\ ~Unlinks(t, j)
               /\ \A i \in Slots : Writes(i, j)' <=> Writes(i, j)
               /\ InDict(j)' <=> (InDict(j) /\ j # k)
    <3>1. Puts(t, j)' <=> Puts(t, j)
      BY <1>1, <1>2, <2>3 DEF Puts
    <3>2. (Unlinks(t, j)' <=> j = k) /\ ~Unlinks(t, j)
      BY <1>1, <1>k, <1>2, <2>3 DEF Unlinks, Victim
    <3> QED
      BY <1>2, <2>1, <2>3, <3>1, <3>2 DEF OthersKeep, Puts, Unlinks, Victim, Writes, InDict
  <2>5. ASSUME NEW j \in Keys \ again', j # k PROVE LifeCycle(j)'
    <3>1. j \notin again
      BY <1>3, <2>5
    <3> QED
      BY <1>2, <2>4, <2>5, <3>1, NothingBegins DEF IInv, LifeCycles
  <2>6. ASSUME k \notin again' PROVE LifeCycle(k)'
    <3>1. ~Busy(k)
      BY <1>1, <1>3, <2>6 DEF IInv, LifeCycles, LifeCycle, OutOfDict, Busy
    <3>2. /\ \A u \in Threads : ~Puts(u, k)'
          /\ \A i \in Slots : ~Writes(i, k)'
          /\ ~InDict(k)'
      BY <1>1, <2>4, <3>1 DEF Busy
    <3> QED
      BY <3>2 DEF LifeCycle, OneWriter, OutOfDict, WritesFile
  <2>7. ASSUME NEW j \in Keys PROVE FileIsOwned(j)'
    <3>1. CASE j = k
      BY <2>4, <3>1 DEF FileIsOwned
    <3>2. CASE j # k
      BY <1>2, <2>4, <3>2, NothingEnds DEF IInv, FilesOwned
    <3> QED
      BY <3>1, <3>2
  <2> QED
    BY <1>1, <2>2, <2>5, <2>6, <2>7 DEF IInv, LifeCycles, FilesOwned
<1>4. CASE dict' = dict /\ again' = again /\ pc' = [pc EXCEPT ![t] = "raised"]
  <2>1. Types' /\ Holding'
    BY <1>2, <1>4 DEF IInv, Types, Holding, Labels
  <2>2. OthersKeep(t) /\ pc'[t] = "raised"
    BY <1>2, <1>4 DEF OthersKeep, IInv, Types
  <2> QED
    BY <1>1, <1>2, <1>4, <2>1, <2>2, QuietStep DEF IInv, Puts
<1> QED
  BY <1>2, <1>3, <1>4

LEMMA Unlinked ==
  ASSUME NEW s \in [pc : SaveLabels, key : Keys \cup {NoKey}, linked : BOOLEAN]
  PROVE  /\ [s EXCEPT !.linked = FALSE] \in
              [pc : SaveLabels, key : Keys \cup {NoKey}, linked : BOOLEAN]
         /\ [s EXCEPT !.linked = FALSE].pc = s.pc
         /\ [s EXCEPT !.linked = FALSE].key = s.key
OBVIOUS

LEMMA RemoveFileStep ==
  ASSUME IInv, NEW t \in Threads, RemoveFile(t)
  PROVE  IInv'
<1>1. Victim(t) \in Keys /\ pc[t] = "unlink" /\ evict_keys[t] \in Seq(Keys)
  BY RangeTail DEF RemoveFile, Victim, IInv, Types, Holding
<1>k. PICK k \in Keys : k = Victim(t)
  BY <1>1
<1>2. /\ key' = key /\ walk' = walk /\ dict' = dict /\ again' = again
      /\ files' = [files EXCEPT ![k] = "none"]
      /\ saves' = [i \in Slots |-> IF saves[i].key = k
                                   THEN [saves[i] EXCEPT !.linked = FALSE]
                                   ELSE saves[i]]
      /\ evict_keys' = [evict_keys EXCEPT ![t] = IF @ = <<>> THEN @ ELSE Tail(@)]
      /\ \/ pc' = [pc EXCEPT ![t] = "evict"] /\ evict_keys[t] # <<>>
         \/ pc' = [pc EXCEPT ![t] = "raised"]
  BY <1>k DEF RemoveFile, Goto, store, history
<1>3. evict_keys' \in [Threads -> Seq(Keys)]
  BY <1>1, <1>2, HeadTailProperties DEF IInv, Types
<1>4. /\ saves' \in [Slots -> [pc : SaveLabels, key : Keys \cup {NoKey}, linked : BOOLEAN]]
      /\ \A i \in Slots : saves'[i].pc = saves[i].pc /\ saves'[i].key = saves[i].key
      /\ \A i \in Slots : saves[i].key # k => saves'[i] = saves[i]
  <2>1. saves \in [Slots -> [pc : SaveLabels, key : Keys \cup {NoKey}, linked : BOOLEAN]]
    BY DEF IInv, Types
  <2>2. ASSUME NEW i \in Slots
        PROVE  /\ saves'[i] \in [pc : SaveLabels, key : Keys \cup {NoKey}, linked : BOOLEAN]
               /\ saves'[i].pc = saves[i].pc /\ saves'[i].key = saves[i].key
    BY <1>2, <2>1, Unlinked
  <2> QED
    BY <1>2, <2>2
<1>5. Types' /\ Holding'
  BY ZenonT(30), <1>1, <1>2, <1>3, <1>4 DEF IInv, Types, Holding, Labels
<1>6. /\ OthersKeep(t) /\ pc'[t] \in {"evict", "raised"}
      /\ pc'[t] = "evict" => evict_keys[t] # <<>>
      /\ files'[k] = "none" /\ \A j \in Keys : j # k => files'[j] = files[j]
  BY <1>1, <1>2 DEF OthersKeep, IInv, Types
<1>7. ASSUME NEW j \in Keys
      PROVE  /\ \A u \in Threads : Puts(u, j)' => Puts(u, j)
             /\ \A u \in Threads : u # t => (Unlinks(u, j)' <=> Unlinks(u, j))
             /\ ~Unlinks(t, j)'
             /\ Unlinks(t, j) <=> j = k
             /\ \A i \in Slots : Writes(i, j)' <=> Writes(i, j)
             /\ InDict(j)' <=> InDict(j)
  <2>1. Puts(t, j)' => Puts(t, j)
    BY <1>1, <1>2, <1>6 DEF Puts
  <2>2. ~Unlinks(t, j)' /\ (Unlinks(t, j) <=> j = k)
    BY <1>1, <1>k, <1>6 DEF Unlinks
  <2> QED
    BY <1>2, <1>4, <1>6, <2>1, <2>2 DEF OthersKeep, Puts, Unlinks, Victim, Writes, InDict
<1>8. ASSUME NEW j \in Keys \ again', j # k PROVE LifeCycle(j)'
  <2>1. \A i \in Slots : Writes(i, j)' => Writes(i, j) /\ saves'[i] = saves[i]
    BY <1>4, <1>7, <1>8 DEF Writes
  <2> QED
    BY <1>2, <1>6, <1>7, <1>8, <2>1, NothingBegins DEF IInv, LifeCycles
<1>9. ASSUME k \notin again' PROVE LifeCycle(k)'
  <2>1. LifeCycle(k) /\ Unlinks(t, k)
    BY <1>1, <1>2, <1>7, <1>9 DEF IInv, LifeCycles
  <2>2. /\ \A u \in Threads : ~Puts(u, k)'
        /\ \A i \in Slots : ~Writes(i, k)'
        /\ ~InDict(k)'
    BY <1>1, <1>7, <2>1 DEF LifeCycle, OutOfDict
  <2> QED
    BY <2>2 DEF LifeCycle, OneWriter, OutOfDict, WritesFile
<1>10. ASSUME NEW j \in Keys PROVE FileIsOwned(j)'
  <2>1. CASE j = k
    BY <1>6, <2>1 DEF FileIsOwned
  <2>2. CASE j # k
    BY <1>6, <1>7, <2>2, NothingEnds DEF IInv, FilesOwned
  <2> QED
    BY <2>1, <2>2
<1> QED
  BY <1>1, <1>5, <1>8, <1>9, <1>10 DEF IInv, LifeCycles, FilesOwned

-----------------------------------------------------------------------------
(* The steps of a save.                                                    *)

\* What the other threads and coroutines, and this one for other chunks, do.
LEMMA SaveKeepsRest ==
  ASSUME NEW i \in Slots, NEW k, saves[i].key = k, pc' = pc, key' = key,
         evict_keys' = evict_keys,
         \A h \in Slots : h # i => saves'[h] = saves[h],
         saves'[i].key = k \/ saves'[i].pc = "idle"
  PROVE  \A j \in Keys :
            /\ \A t \in Threads : Puts(t, j)' <=> Puts(t, j)
            /\ \A t \in Threads : Unlinks(t, j)' <=> Unlinks(t, j)
            /\ \A h \in Slots : h # i => (Writes(h, j)' <=> Writes(h, j))
            /\ j # k => ~Writes(i, j) /\ ~Writes(i, j)'
BY DEF Puts, Unlinks, Victim, Writes

LEMMA SaveOpenStep ==
  ASSUME IInv, NEW i \in Slots, SaveOpen(i)
  PROVE  IInv'
<1> USE DEF SaveOpen, SetSave, store, local, history
<1>1. PICK k \in Keys : k = saves[i].key
  BY DEF IInv, Holding
<1>2. saves[i] \in [pc : SaveLabels, key : Keys \cup {NoKey}, linked : BOOLEAN]
  BY DEF IInv, Types
<1>3. /\ saves' \in [Slots -> [pc : SaveLabels, key : Keys \cup {NoKey}, linked : BOOLEAN]]
      /\ saves'[i].pc = "write" /\ saves'[i].key = k /\ saves'[i].linked
      /\ \A h \in Slots : h # i => saves'[h] = saves[h]
  BY <1>1, <1>2 DEF IInv, Types, SaveLabels
<1>4. /\ files'[k] = "partial" /\ \A j \in Keys : j # k => files'[j] = files[j]
      /\ files' \in [Keys -> {"none", "partial", "whole"}]
      /\ dict' = dict /\ again' = again
  BY <1>1 DEF IInv, Types
<1>5. Types' /\ Holding'
  BY <1>1, <1>3, <1>4 DEF IInv, Types, Holding
<1>6. \A j \in Keys :
         /\ \A t \in Threads : Puts(t, j)' <=> Puts(t, j)
         /\ \A t \in Threads : Unlinks(t, j)' <=> Unlinks(t, j)
         /\ \A h \in Slots : h # i => (Writes(h, j)' <=> Writes(h, j))
         /\ j # k => ~Writes(i, j) /\ ~Writes(i, j)'
  BY <1>1, <1>3, SaveKeepsRest
<1>7. Writes(i, k) /\ Writes(i, k)' /\ \A j \in Keys : InDict(j)' <=> InDict(j)
  BY <1>1, <1>3, <1>4 DEF Writes, InDict
<1>8. ASSUME NEW j \in Keys \ again', j # k PROVE LifeCycle(j)'
  BY <1>3, <1>4, <1>6, <1>7, <1>8, NothingBegins DEF IInv, LifeCycles
<1>9. ASSUME k \notin again' PROVE LifeCycle(k)'
  <2>1. LifeCycle(k)
    BY <1>4, <1>9 DEF IInv, LifeCycles
  <2>2. OneWriter(k)' /\ OutOfDict(k)' /\ ~InDict(k)'
    BY <1>6, <1>7, <2>1 DEF LifeCycle, OneWriter, OutOfDict
  <2>3. \A h \in Slots : Writes(h, k)' => h = i
    BY <1>7, <2>2 DEF OneWriter
  <2> QED
    BY <1>3, <2>2, <2>3 DEF LifeCycle, WritesFile
<1>10. ASSUME NEW j \in Keys PROVE FileIsOwned(j)'
  <2>1. CASE j = k
    BY <1>7, <2>1 DEF FileIsOwned
  <2>2. CASE j # k
    BY <1>4, <1>6, <1>7, <2>2, NothingEnds DEF IInv, FilesOwned
  <2> QED
    BY <2>1, <2>2
<1> QED
  BY <1>5, <1>8, <1>9, <1>10 DEF IInv, LifeCycles, FilesOwned

LEMMA SaveWriteStep ==
  ASSUME IInv, NEW i \in Slots, SaveWrite(i)
  PROVE  IInv'
<1> USE DEF SaveWrite, SetSave, store, local, history
<1>1. PICK k \in Keys : k = saves[i].key
  BY DEF IInv, Holding
<1>2. saves[i] \in [pc : SaveLabels, key : Keys \cup {NoKey}, linked : BOOLEAN]
  BY DEF IInv, Types
<1>3. /\ saves' \in [Slots -> [pc : SaveLabels, key : Keys \cup {NoKey}, linked : BOOLEAN]]
      /\ saves'[i].pc = "insert" /\ saves'[i].key = k
      /\ \A h \in Slots : h # i => saves'[h] = saves[h]
  BY <1>1, <1>2 DEF IInv, Types, SaveLabels
<1>4. /\ saves[i].linked => files'[k] = "whole"
      /\ \A j \in Keys : j # k => files'[j] = files[j]
      /\ files' \in [Keys -> {"none", "partial", "whole"}]
      /\ dict' = dict /\ again' = again
  BY <1>1 DEF IInv, Types
<1>5. Types' /\ Holding'
  BY <1>1, <1>3, <1>4 DEF IInv, Types, Holding
<1>6. \A j \in Keys :
         /\ \A t \in Threads : Puts(t, j)' <=> Puts(t, j)
         /\ \A t \in Threads : Unlinks(t, j)' <=> Unlinks(t, j)
         /\ \A h \in Slots : h # i => (Writes(h, j)' <=> Writes(h, j))
         /\ j # k => ~Writes(i, j) /\ ~Writes(i, j)'
  BY <1>1, <1>3, SaveKeepsRest
<1>7. /\ Writes(i, k) /\ saves[i].pc = "write" /\ Writes(i, k)'
      /\ \A j \in Keys : InDict(j)' <=> InDict(j)
  BY <1>1, <1>3, <1>4 DEF Writes, InDict
<1>8. ASSUME NEW j \in Keys \ again', j # k PROVE LifeCycle(j)'
  BY <1>3, <1>4, <1>6, <1>7, <1>8, NothingBegins DEF IInv, LifeCycles
<1>9. ASSUME k \notin again' PROVE LifeCycle(k)'
  <2>1. LifeCycle(k)
    BY <1>4, <1>9 DEF IInv, LifeCycles
  <2>2. OneWriter(k)' /\ OutOfDict(k)' /\ ~InDict(k)'
    BY <1>6, <1>7, <2>1 DEF LifeCycle, OneWriter, OutOfDict
  <2>3. \A h \in Slots : Writes(h, k)' => h = i
    BY <1>7, <2>2 DEF OneWriter
  <2>4. files'[k] = "whole"
    BY <1>4, <1>7, <2>1 DEF LifeCycle, WritesFile
  <2> QED
    BY <1>3, <2>2, <2>3, <2>4 DEF LifeCycle, WritesFile
<1>10. ASSUME NEW j \in Keys PROVE FileIsOwned(j)'
  <2>1. CASE j = k
    BY <1>7, <2>1 DEF FileIsOwned
  <2>2. CASE j # k
    BY <1>4, <1>6, <1>7, <2>2, NothingEnds DEF IInv, FilesOwned
  <2> QED
    BY <2>1, <2>2
<1> QED
  BY <1>5, <1>8, <1>9, <1>10 DEF IInv, LifeCycles, FilesOwned

LEMMA SaveInsertStep ==
  ASSUME IInv, NEW i \in Slots, SaveInsert(i)
  PROVE  IInv'
<1> USE DEF SaveInsert, SetSave, local, history
<1>1. PICK k \in Keys : k = saves[i].key
  BY DEF IInv, Holding
<1>2. saves[i] \in [pc : SaveLabels, key : Keys \cup {NoKey}, linked : BOOLEAN]
  BY DEF IInv, Types
<1>3. /\ saves' \in [Slots -> [pc : SaveLabels, key : Keys \cup {NoKey}, linked : BOOLEAN]]
      /\ saves'[i].pc = "done" /\ saves'[i].key = k
      /\ \A h \in Slots : h # i => saves'[h] = saves[h]
  BY <1>1, <1>2 DEF IInv, Types, SaveLabels
<1>4. /\ dict' \in Seq(Keys) /\ IsInjective(dict') /\ Range(dict') = Range(dict) \cup {k}
      /\ files' = files /\ again' = again
  BY <1>1, NewestFacts DEF IInv, Types
<1>5. Types' /\ Holding'
  BY <1>1, <1>3, <1>4 DEF IInv, Types, Holding
<1>6. \A j \in Keys :
         /\ \A t \in Threads : Puts(t, j)' <=> Puts(t, j)
         /\ \A t \in Threads : Unlinks(t, j)' <=> Unlinks(t, j)
         /\ \A h \in Slots : h # i => (Writes(h, j)' <=> Writes(h, j))
         /\ j # k => ~Writes(i, j) /\ ~Writes(i, j)'
  BY <1>1, <1>3, SaveKeepsRest
<1>7. /\ Writes(i, k) /\ saves[i].pc = "insert" /\ ~Writes(i, k)'
      /\ \A j \in Keys : InDict(j)' <=> InDict(j) \/ j = k
  BY <1>1, <1>3, <1>4 DEF Writes, InDict
<1>8. ASSUME NEW j \in Keys \ again', j # k PROVE LifeCycle(j)'
  BY <1>3, <1>4, <1>6, <1>7, <1>8, NothingBegins DEF IInv, LifeCycles
<1>9. ASSUME k \notin again' PROVE LifeCycle(k)'
  <2>1. LifeCycle(k)
    BY <1>4, <1>9 DEF IInv, LifeCycles
  <2>2. files'[k] = "whole"
    BY <1>4, <1>7, <2>1 DEF LifeCycle, WritesFile
  <2>3. /\ \A t \in Threads : ~Puts(t, k)' /\ ~Unlinks(t, k)'
        /\ \A h \in Slots : ~Writes(h, k)'
    BY <1>6, <1>7, <2>1 DEF LifeCycle, OneWriter, OutOfDict
  <2> QED
    BY <2>2, <2>3 DEF LifeCycle, OneWriter, OutOfDict, WritesFile
<1>10. ASSUME NEW j \in Keys PROVE FileIsOwned(j)'
  <2>1. CASE j = k
    BY <1>7, <2>1 DEF FileIsOwned
  <2>2. CASE j # k
    BY <1>4, <1>6, <1>7, <2>2, NothingEnds DEF IInv, FilesOwned
  <2> QED
    BY <2>1, <2>2
<1> QED
  BY <1>5, <1>8, <1>9, <1>10 DEF IInv, LifeCycles, FilesOwned

LEMMA SaveDoneStep ==
  ASSUME IInv, NEW i \in Slots, SaveDone(i)
  PROVE  IInv'
<1>1. /\ saves[i].pc = "done" /\ saves' = [saves EXCEPT ![i] = NoSave]
      /\ pc' = pc /\ key' = key /\ evict_keys' = evict_keys /\ walk' = walk
      /\ dict' = dict /\ files' = files /\ again' = again
  BY DEF SaveDone, SetSave, local, history
<1>2. PICK k \in Keys : k = saves[i].key
  BY <1>1 DEF IInv, Holding
<1>3. /\ saves' \in [Slots -> [pc : SaveLabels, key : Keys \cup {NoKey}, linked : BOOLEAN]]
      /\ saves'[i].pc = "idle"
      /\ \A h \in Slots : h # i => saves'[h] = saves[h]
  BY <1>1 DEF IInv, Types, SaveLabels, NoSave
<1>4. Types' /\ Holding'
  BY <1>1, <1>3 DEF IInv, Types, Holding
<1>5. \A j \in Keys :
         /\ \A t \in Threads : Puts(t, j)' <=> Puts(t, j)
         /\ \A t \in Threads : Unlinks(t, j)' <=> Unlinks(t, j)
         /\ \A h \in Slots : h # i => (Writes(h, j)' <=> Writes(h, j))
  BY <1>1, <1>2, <1>3, SaveKeepsRest
<1>6. \A j \in Keys : ~Writes(i, j) /\ ~Writes(i, j)' /\ (InDict(j)' <=> InDict(j))
  BY <1>1, <1>3 DEF Writes, InDict
<1>7. ASSUME NEW j \in Keys \ again' PROVE LifeCycle(j)'
  BY <1>1, <1>3, <1>5, <1>6, NothingBegins DEF IInv, LifeCycles
<1>8. ASSUME NEW j \in Keys PROVE FileIsOwned(j)'
  BY <1>1, <1>5, <1>6, NothingEnds DEF IInv, FilesOwned
<1> QED
  BY <1>4, <1>7, <1>8 DEF IInv, LifeCycles, FilesOwned

-----------------------------------------------------------------------------

LEMMA StepIInv == ASSUME IInv, [Next]_vars PROVE IInv'
<1>1. CASE UNCHANGED vars
  BY <1>1 DEF vars, store, disk, local, history, IInv, Types, Holding, LifeCycles, FilesOwned,
     LifeCycle, OneWriter, OutOfDict, WritesFile, FileIsOwned, Puts, Unlinks, Writes, InDict,
     Victim
<1>2. ASSUME NEW t \in Threads, Proceed(t) PROVE IInv'
  BY <1>2, CheckPutTasksStep, IterateStep, PickOneStep, PickRaisesStep, PickedStep,
     SubmitSaveStep, RemoveReadStep, RemovePopStep, RemoveFileStep, RecoverStep, GetReadStep
     DEF Proceed
<1>3. ASSUME NEW t \in Threads, Begin(t) PROVE IInv'
  BY <1>3, StoreBeginStep, RemoveBeginStep, GetBeginStep, ReadingStep DEF Begin
<1>4. ASSUME NEW i \in Slots, LoopStep(i) PROVE IInv'
  BY <1>4, SaveOpenStep, SaveWriteStep, SaveInsertStep, SaveDoneStep DEF LoopStep
<1>5. ASSUME NEW k \in Keys, LoadFile(k) PROVE IInv'
  BY <1>5, ReadingStep
<1> QED
  BY <1>1, <1>2, <1>3, <1>4, <1>5 DEF Next

THEOREM IInvInvariant == Spec => []IInv
BY InitIInv, StepIInv, PTL DEF Spec

\* Whoever finds a key in the dictionary finds its whole chunk on disk, through
\* all interleavings of saves, evictions, removals and loads; only a put of a
\* chunk that is there, or that is being saved or deleted, can make it untrue.
THEOREM EntryHasWholeFileHolds == Spec => []EntryHasWholeFile
<1>1. ASSUME IInv PROVE EntryHasWholeFile
  <2>1. Range(dict) \subseteq Keys
    BY <1>1, ElementOfSeq, LenProperties DEF IInv, Types, Range
  <2> QED
    BY <1>1, <2>1 DEF IInv, LifeCycles, LifeCycle, InDict, EntryHasWholeFile
<1> QED
  BY <1>1, IInvInvariant, PTL

\* No file is forgotten on disk, however often chunks are stored and removed.
THEOREM NoOrphanFileHolds == Spec => []NoOrphanFile
<1>1. ASSUME IInv, NEW k \in Keys, files[k] # "none"
      PROVE  InDict(k) \/ k \in Saving \cup Victims \cup Removing
  <2>1. ASSUME NEW t \in Threads, Unlinks(t, k) PROVE k \in Victims \cup Removing
    <3>1. CASE evict_keys[t] = <<>>
      BY <2>1, <3>1 DEF Unlinks, Victim, Removing
    <3>2. CASE evict_keys[t] # <<>>
      BY <1>1, <2>1, <3>2, RangeTail DEF Unlinks, Victim, Victims, IInv, Types
    <3> QED
      BY <3>1, <3>2
  <2>2. ASSUME NEW i \in Slots, Writes(i, k) PROVE k \in Saving
    BY <2>2 DEF Writes, Saving, Writing, SavesAt
  <2> QED
    BY <1>1, <2>1, <2>2 DEF IInv, FilesOwned, FileIsOwned
<1>2. IInv => NoOrphanFile
  BY <1>1 DEF NoOrphanFile
<1> QED
  BY <1>2, IInvInvariant, PTL

-----------------------------------------------------------------------------
(***************************************************************************)
(* The believed size, for an instance of which nothing is removed: one     *)
(* thread stores, each chunk once, and all chunks have the same size.      *)
(***************************************************************************)
ServingOnly ==
  /\ StoreOnce
  /\ \A t, u \in Threads : "store" \in Ops[t] /\ "store" \in Ops[u] => t = u
  /\ \A t \in Threads : "remove" \notin Ops[t]
  /\ \A k, l \in Keys : Size[k] = Size[l]

Storing == {"put", "iterate", "pick", "evict", "pop", "unlink"}

\* One eviction makes room for a chunk, so that the evictor picks one key at
\* most; the key is in the dictionary until it is popped, and its file is there
\* until it is deleted.
Evicts(t) ==
  \/ evict_keys[t] = <<>> /\ pc[t] \notin {"remove", "pop", "unlink"}
  \/ \E k \in Keys :
       /\ evict_keys[t] = <<k>>
       /\ \/ pc[t] \in {"pick", "evict", "pop"} /\ InDict(k) /\ (pc[t] = "pick" => Fits(t))
          \/ pc[t] = "unlink" /\ ~InDict(k) /\ files[k] = "whole"

\* What is being put is new.
Stores(t) ==
  pc[t] \in Storing =>
    /\ "store" \in Ops[t] /\ key[t] \in stored
    /\ pc[t] = "put" => ~InDict(key[t]) /\ \A i \in Slots : ~Writes(i, key[t])
    /\ pc[t] = "pick" => Range(walk[t].left) \subseteq Range(walk[t].seen)

Fresh ==
  /\ again = {}
  /\ \A k \in Keys : InDict(k) \/ (\E i \in Slots : Writes(i, k)) => k \in stored

\* What SizeIsExact counts.
OnDisk == (Range(dict) \ Victims) \cup Writing \cup Putting

SizeKept ==
  /\ IsFiniteSet(OnDisk) /\ current_cache_size = Bytes(OnDisk)
  /\ current_cache_size \in Nat /\ current_cache_size <= MaxCacheSize

SInv == Fresh /\ (\A t \in Threads : Evicts(t) /\ Stores(t)) /\ SizeKept

Submits(t, k) ==
  key[t] = k /\ (pc[t] = "evict" \/ (pc[t] \in {"pop", "unlink"} /\ evict_keys[t] # <<>>))

LEMMA OnDiskIs ==
  ASSUME NEW k
  PROVE  k \in OnDisk <=> \/ InDict(k) /\ \A t \in Threads : k \notin Range(evict_keys[t])
                          \/ \E i \in Slots : Writes(i, k)
                          \/ \E t \in Threads : Submits(t, k)
BY DEF OnDisk, InDict, Victims, Writing, SavesAt, Writes, Putting, Submits

LEMMA OnDiskAfter ==
  ASSUME NEW k
  PROVE  k \in OnDisk' <=> \/ InDict(k)' /\ \A t \in Threads : k \notin Range(evict_keys'[t])
                           \/ \E i \in Slots : Writes(i, k)'
                           \/ \E t \in Threads : Submits(t, k)'
BY DEF OnDisk, InDict, Victims, Writing, SavesAt, Writes, Putting, Submits

LEMMA OnDiskKeys == ASSUME IInv PROVE OnDisk \subseteq Keys
<1>1. Range(dict) \subseteq Keys
  BY ElementOfSeq, LenProperties DEF IInv, Types, Range
<1>2. \A t \in Threads : \A k : Submits(t, k) => k \in Keys
  BY DEF IInv, Holding, Submits
<1>3. \A i \in Slots : \A k : Writes(i, k) => k \in Keys
  BY DEF IInv, Holding, Writes
<1> QED
  BY <1>1, <1>2, <1>3, OnDiskIs DEF InDict

LEMMA BytesIs == \A S : Bytes(S) = TotalOf(Size, S)
BY DEF Bytes, TotalOf

\* Nothing, one chunk more, or one chunk less.
LEMMA SizeStays ==
  ASSUME SizeKept, OnDisk' = OnDisk, current_cache_size' = current_cache_size
  PROVE  SizeKept'
BY DEF SizeKept

LEMMA SizeGrows ==
  ASSUME IInv, SizeKept, NEW k \in Keys, k \notin OnDisk, OnDisk' = OnDisk \cup {k},
         current_cache_size' = current_cache_size + Size[k],
         current_cache_size + Size[k] <= MaxCacheSize
  PROVE  SizeKept'
<1> DEFINE U == OnDisk \cup {k}
<1>1. IsFiniteSet(U) /\ k \in U /\ U \ {k} = OnDisk
  BY FS_AddElement DEF SizeKept
<1>2. Size[k] \in Nat /\ \A x \in U : Size[x] \in Nat
  BY OnDiskKeys, DiskAssumption
<1>3. OnDisk' = U
  OBVIOUS
<1> HIDE DEF U
<1>4. TotalOf(Size, U) = TotalOf(Size, OnDisk) + Size[k]
  BY <1>1, <1>2, TotalOfLess
<1>5. Bytes(U) = current_cache_size'
  BY <1>4, BytesIs DEF SizeKept
<1>6. current_cache_size' \in Nat
  BY <1>2 DEF SizeKept
<1> QED
  BY <1>1, <1>3, <1>5, <1>6 DEF SizeKept

LEMMA SizeShrinks ==
  ASSUME IInv, SizeKept, NEW k \in OnDisk, OnDisk' = OnDisk \ {k},
         current_cache_size' = current_cache_size - Size[k]
  PROVE  SizeKept'
<1> DEFINE U == OnDisk \ {k}
<1>1. IsFiniteSet(U) /\ IsFiniteSet(OnDisk)
  BY FS_RemoveElement DEF SizeKept
<1>2. Size[k] \in Nat /\ \A x \in OnDisk : Size[x] \in Nat
  BY OnDiskKeys, DiskAssumption
<1>3. OnDisk' = U
  OBVIOUS
<1>4. TotalOf(Size, OnDisk) = TotalOf(Size, U) + Size[k] /\ TotalOf(Size, U) \in Nat
  BY <1>1, <1>2, TotalOfLess
<1> HIDE DEF U
<1>5. Bytes(U) = current_cache_size' /\ current_cache_size' \in Nat
  BY <1>2, <1>4, BytesIs DEF SizeKept
<1>6. MaxCacheSize \in Nat
  BY DiskAssumption
<1>7. current_cache_size' <= MaxCacheSize
  BY <1>2, <1>5, <1>6 DEF SizeKept
<1> QED
  BY <1>1, <1>3, <1>5, <1>7 DEF SizeKept

LEMMA OnDiskInKeys ==
  ASSUME IInv, IInv' PROVE OnDisk \subseteq Keys /\ OnDisk' \subseteq Keys
<1>1. OnDisk \subseteq Keys
  BY OnDiskKeys
<1>2. (IInv => OnDisk \subseteq Keys)'
  BY OnDiskKeys, PTL
<1> QED
  BY <1>1, <1>2

\* A step that moves no chunk in or out.
LEMMA SameOnDisk ==
  ASSUME Range(dict') = Range(dict),
         \A i \in Slots, k \in Keys : Writes(i, k)' <=> Writes(i, k),
         \A t \in Threads : Range(evict_keys'[t]) = Range(evict_keys[t]),
         \A t \in Threads, k \in Keys : Submits(t, k)' <=> Submits(t, k),
         IInv, IInv'
  PROVE  OnDisk' = OnDisk
<1>1. OnDisk \subseteq Keys /\ OnDisk' \subseteq Keys
  BY OnDiskInKeys
<1>2. ASSUME NEW k \in Keys PROVE k \in OnDisk' <=> k \in OnDisk
  BY OnDiskIs, OnDiskAfter DEF InDict
<1> QED
  BY <1>1, <1>2
-----------------------------------------------------------------------------
(* The other threads, and what is known of the one that stores.            *)

OthersRest(t) ==
  \A u \in Threads : u # t =>
     /\ pc'[u] = pc[u] /\ key'[u] = key[u]
     /\ evict_keys'[u] = evict_keys[u] /\ walk'[u] = walk[u]

LEMMA OthersGoOn ==
  ASSUME ServingOnly, SInv, NEW t \in Threads, OthersRest(t),
         \/ "store" \in Ops[t]
         \/ /\ Range(dict') = Range(dict) /\ files' = files /\ saves' = saves
            /\ stored' = stored /\ current_cache_size' = current_cache_size
  PROVE  \A u \in Threads : u # t => Evicts(u)' /\ Stores(u)'
<1> SUFFICES ASSUME NEW u \in Threads, u # t PROVE Evicts(u)' /\ Stores(u)'
  OBVIOUS
<1>1. /\ pc'[u] = pc[u] /\ key'[u] = key[u]
      /\ evict_keys'[u] = evict_keys[u] /\ walk'[u] = walk[u]
      /\ Evicts(u) /\ Stores(u)
  BY DEF OthersRest, SInv
<1>2. CASE "store" \in Ops[t]
  <2>1. pc[u] \notin Storing
    BY <1>1, <1>2 DEF ServingOnly, Stores
  <2> QED
    BY <1>1, <2>1 DEF Evicts, Stores, Storing
<1>3. CASE /\ Range(dict') = Range(dict) /\ files' = files /\ saves' = saves
           /\ stored' = stored /\ current_cache_size' = current_cache_size
  BY <1>1, <1>3 DEF Evicts, Stores, InDict, Fits, Writes
<1> QED
  BY <1>2, <1>3

\* While a thread stores, no other has keys to evict or a chunk to submit.
LEMMA OneStores ==
  ASSUME ServingOnly, SInv, NEW t \in Threads, "store" \in Ops[t]
  PROVE  \A u \in Threads : u # t =>
           /\ pc[u] \notin Storing /\ evict_keys[u] = <<>>
           /\ \A k \in Keys : ~Puts(u, k) /\ ~Unlinks(u, k) /\ ~Submits(u, k)
<1> SUFFICES ASSUME NEW u \in Threads, u # t
             PROVE  pc[u] \notin Storing /\ evict_keys[u] = <<>>
  BY DEF Storing, Puts, Unlinks, Submits
<1> QED
  BY DEF ServingOnly, SInv, Stores, Evicts, Storing

\* As all chunks have one life, each key of the dictionary has its file.
LEMMA LivesOf == ASSUME IInv, SInv PROVE \A k \in Keys : LifeCycle(k)
BY DEF IInv, LifeCycles, SInv, Fresh

LEMMA RangeOfOne == \A k : Range(<<k>>) = {k} /\ <<k>> # <<>> /\ Head(<<k>>) = k /\ Tail(<<k>>) = <<>>
<1> SUFFICES ASSUME NEW k PROVE Range(<<k>>) = {k}
  OBVIOUS
<1> QED
  BY DEF Range

-----------------------------------------------------------------------------
(* The steps of the thread that stores.                                     *)

LEMMA StoreBeginSize ==
  ASSUME ServingOnly, IInv, IInv', SInv, NEW t \in Threads, NEW k \in Keys, StoreBegin(t, k)
  PROVE  SInv'
<1>1. /\ pc[t] = "idle" /\ pc'[t] = "put" /\ key'[t] = k /\ k \notin stored
      /\ stored' = stored \cup {k} /\ "store" \in Ops[t] /\ OthersRest(t)
      /\ dict' = dict /\ files' = files /\ saves' = saves /\ again' = again
      /\ evict_keys' = evict_keys /\ current_cache_size' = current_cache_size
  BY DEF StoreBegin, Start, Free, Goto, store, disk, local, ServingOnly, OthersRest, IInv, Types
<1>2. \A j \in Keys : /\ \A i \in Slots : Writes(i, j)' <=> Writes(i, j)
                      /\ InDict(j)' <=> InDict(j)
  BY <1>1 DEF Writes, InDict
<1>3. Fresh'
  BY <1>1, <1>2 DEF SInv, Fresh
<1>4. Evicts(t)'
  BY <1>1 DEF SInv, Evicts
<1>5. Stores(t)'
  BY <1>1, <1>2 DEF SInv, Fresh, Stores
<1>6. \A u \in Threads : Evicts(u)' /\ Stores(u)'
  BY <1>1, <1>4, <1>5, OthersGoOn
<1>7. \A u \in Threads, j \in Keys : Submits(u, j)' <=> Submits(u, j)
  BY <1>1 DEF Submits, OthersRest
<1>8. SizeKept'
  BY <1>1, <1>2, <1>7, SameOnDisk, SizeStays DEF SInv
<1> QED
  BY <1>3, <1>6, <1>8 DEF SInv

LEMMA CheckPutTasksSize ==
  ASSUME ServingOnly, IInv, IInv', SInv, NEW t \in Threads, CheckPutTasks(t)
  PROVE  SInv'
<1>1. /\ pc[t] = "put" /\ pc'[t] \in {"iterate", "idle"} /\ OthersRest(t)
      /\ pc'[t] = "iterate" => key'[t] = key[t]
      /\ dict' = dict /\ files' = files /\ saves' = saves /\ stored' = stored
      /\ evict_keys' = evict_keys /\ current_cache_size' = current_cache_size
  BY DEF CheckPutTasks, Continue, Goto, store, disk, local, OthersRest, IInv, Types
<1>2. \A j \in Keys : /\ \A i \in Slots : Writes(i, j)' <=> Writes(i, j)
                      /\ InDict(j)' <=> InDict(j)
  BY <1>1 DEF Writes, InDict
<1>3. "store" \in Ops[t] /\ Stores(t) /\ Evicts(t) /\ key[t] \in Keys
  BY <1>1 DEF SInv, Stores, Storing, IInv, Holding
<1>4. ~InDict(key[t]) /\ ~Busy(key[t])
  <2>1. ~Puts(t, key[t]) /\ ~Unlinks(t, key[t])
    BY <1>1 DEF Puts, Unlinks
  <2>2. \A u \in Threads : ~Puts(u, key[t]) /\ ~Unlinks(u, key[t])
    BY <1>3, <2>1, OneStores
  <2> QED
    BY <1>1, <1>3, <2>2 DEF Stores, Storing, Busy
<1>5. again' = {}
  BY <1>4 DEF CheckPutTasks, SInv, Fresh
<1>6. Fresh'
  BY <1>1, <1>2, <1>5 DEF SInv, Fresh
<1>7. Evicts(t)'
  BY <1>1, <1>3 DEF Evicts
<1>8. Stores(t)'
  BY <1>1, <1>3 DEF Stores, Storing
<1>9. \A u \in Threads : Evicts(u)' /\ Stores(u)'
  BY <1>1, <1>3, <1>7, <1>8, OthersGoOn
<1>10. \A u \in Threads, j \in Keys : Submits(u, j)' <=> Submits(u, j)
  BY <1>1 DEF Submits, OthersRest
<1>11. SizeKept'
  BY <1>1, <1>2, <1>10, SameOnDisk, SizeStays DEF SInv
<1> QED
  BY <1>6, <1>9, <1>11 DEF SInv

LEMMA IterateSize ==
  ASSUME ServingOnly, IInv, IInv', SInv, NEW t \in Threads, Iterate(t)
  PROVE  SInv'
<1>1. /\ pc[t] = "iterate" /\ pc'[t] \in {"pick", "idle"} /\ OthersRest(t)
      /\ pc'[t] = "pick" => key'[t] = key[t]
      /\ walk'[t] = [seen |-> dict, left |-> dict] /\ again' = again
      /\ dict' = dict /\ files' = files /\ saves' = saves /\ stored' = stored
      /\ evict_keys' = evict_keys /\ current_cache_size' = current_cache_size
  BY DEF Iterate, Continue, Goto, store, disk, history, OthersRest, IInv, Types
<1>2. \A j \in Keys : /\ \A i \in Slots : Writes(i, j)' <=> Writes(i, j)
                      /\ InDict(j)' <=> InDict(j)
  BY <1>1 DEF Writes, InDict
<1>3. "store" \in Ops[t] /\ Stores(t) /\ Evicts(t)
  BY <1>1 DEF SInv, Stores, Storing
<1>4. Fresh'
  BY <1>1, <1>2 DEF SInv, Fresh
<1>5. Evicts(t)'
  BY <1>1, <1>3 DEF Evicts
<1>6. Stores(t)'
  BY <1>1, <1>3 DEF Stores, Storing
<1>7. \A u \in Threads : Evicts(u)' /\ Stores(u)'
  BY <1>1, <1>3, <1>5, <1>6, OthersGoOn
<1>8. \A u \in Threads, j \in Keys : Submits(u, j)' <=> Submits(u, j)
  BY <1>1 DEF Submits, OthersRest
<1>9. SizeKept'
  BY <1>1, <1>2, <1>8, SameOnDisk, SizeStays DEF SInv
<1> QED
  BY <1>4, <1>7, <1>9 DEF SInv
LEMMA PickRaisesSize ==
  ASSUME ServingOnly, IInv, IInv', SInv, NEW t \in Threads, PickRaises(t)
  PROVE  SInv'
<1>1. /\ pc[t] = "pick" /\ ~Fits(t) /\ pc'[t] = "raised" /\ OthersRest(t)
      /\ key'[t] = key[t] /\ walk'[t] = walk[t] /\ again' = again
      /\ dict' = dict /\ files' = files /\ saves' = saves /\ stored' = stored
      /\ evict_keys' = evict_keys /\ current_cache_size' = current_cache_size
  BY DEF PickRaises, Goto, store, disk, local, history, OthersRest, IInv, Types
<1>2. \A j \in Keys : /\ \A i \in Slots : Writes(i, j)' <=> Writes(i, j)
                      /\ InDict(j)' <=> InDict(j)
  BY <1>1 DEF Writes, InDict
<1>3. "store" \in Ops[t] /\ Evicts(t)
  BY <1>1 DEF SInv, Stores, Storing
<1>4. Fresh'
  BY <1>1, <1>2 DEF SInv, Fresh
<1>5. Evicts(t)'
  BY <1>1, <1>3 DEF Evicts
<1>6. Stores(t)'
  BY <1>1 DEF Stores, Storing
<1>7. \A u \in Threads : Evicts(u)' /\ Stores(u)'
  BY <1>1, <1>3, <1>5, <1>6, OthersGoOn
<1>8. \A u \in Threads, j \in Keys : Submits(u, j)' <=> Submits(u, j)
  BY <1>1 DEF Submits, OthersRest
<1>9. SizeKept'
  BY <1>1, <1>2, <1>8, SameOnDisk, SizeStays DEF SInv
<1> QED
  BY <1>4, <1>7, <1>9 DEF SInv

\* The freed size is what the new chunk needs.
LEMMA PickOneSize ==
  ASSUME ServingOnly, IInv, IInv', SInv, NEW t \in Threads, PickOne(t)
  PROVE  SInv'
<1> DEFINE k == Head(walk[t].left)
<1>1. /\ pc[t] = "pick" /\ ~Fits(t) /\ pc' = pc /\ key' = key
      /\ walk[t].seen = dict /\ walk[t].left # <<>>
      /\ dict' = dict /\ files' = files /\ saves' = saves /\ stored' = stored
      /\ again' = again
  BY DEF PickOne, store, disk, history
<1>2. /\ walk'[t].left = Tail(walk[t].left) /\ walk'[t].seen = walk[t].seen
      /\ \A u \in Threads : u # t => walk'[u] = walk[u]
  BY DEF PickOne, IInv, Types
<1>3. walk[t].left \in Seq(Keys)
  BY DEF IInv, Types
<1>4. /\ k \in Keys /\ k \in Range(walk[t].left) /\ Tail(walk[t].left) \in Seq(Keys)
      /\ Range(walk'[t].left) \subseteq Range(walk[t].left)
  BY <1>1, <1>2, <1>3, RangeTail
<1>5. "store" \in Ops[t] /\ Stores(t) /\ Evicts(t) /\ key[t] \in Keys
  BY <1>1 DEF SInv, Stores, Storing, IInv, Holding
<1>6. evict_keys[t] = <<>> /\ InDict(k)
  BY <1>1, <1>4, <1>5 DEF Evicts, Stores, Storing, InDict
<1>7. \/ /\ evict_keys' = evict_keys /\ current_cache_size' = current_cache_size
      \/ /\ evict_keys' = [evict_keys EXCEPT ![t] = Append(@, k)]
         /\ current_cache_size' = current_cache_size - Size[k]
  BY DEF PickOne
<1> HIDE DEF k
<1>8. \A j \in Keys : /\ \A i \in Slots : Writes(i, j)' <=> Writes(i, j)
                      /\ InDict(j)' <=> InDict(j)
  BY <1>1 DEF Writes, InDict
<1>9. Fresh'
  BY <1>1, <1>8 DEF SInv, Fresh
<1>10. Stores(t)'
  BY <1>1, <1>2, <1>4, <1>5 DEF Stores, Storing
<1>11. CASE evict_keys' = evict_keys /\ current_cache_size' = current_cache_size
  <2>1. Evicts(t)'
    BY <1>1, <1>6, <1>11 DEF Evicts
  <2>2. OthersRest(t)
    BY <1>1, <1>2, <1>11 DEF OthersRest
  <2>3. \A u \in Threads : Evicts(u)' /\ Stores(u)'
    BY <1>5, <1>10, <2>1, <2>2, OthersGoOn
  <2>4. \A u \in Threads, j \in Keys : Submits(u, j)' <=> Submits(u, j)
    BY <1>1, <1>11 DEF Submits
  <2>5. SizeKept'
    BY <1>1, <1>8, <1>11, <2>4, SameOnDisk, SizeStays DEF SInv
  <2> QED
    BY <1>9, <2>3, <2>5 DEF SInv
<1>12. CASE /\ evict_keys' = [evict_keys EXCEPT ![t] = Append(@, k)]
            /\ current_cache_size' = current_cache_size - Size[k]
  <2>1. /\ evict_keys'[t] = <<k>>
        /\ \A u \in Threads : u # t => evict_keys'[u] = evict_keys[u]
    <3>1. Append(<<>>, k) = <<k>> /\ evict_keys \in [Threads -> Seq(Keys)]
      BY DEF IInv, Types
    <3> QED
      BY <1>6, <1>12, <3>1
  <2>2. Fits(t)'
    <3>1. Size[key[t]] = Size[k] /\ Size[k] \in Nat
      BY <1>4, <1>5, DiskAssumption DEF ServingOnly
    <3>2. current_cache_size \in Nat /\ current_cache_size <= MaxCacheSize
      BY DEF SInv, SizeKept
    <3> QED
      BY <1>1, <1>12, <3>1, <3>2, DiskAssumption DEF Fits
  <2>3. Evicts(t)'
    BY <1>1, <1>4, <1>6, <1>8, <2>1, <2>2 DEF Evicts
  <2>4. OthersRest(t)
    BY <1>1, <1>2, <2>1 DEF OthersRest
  <2>5. \A u \in Threads : Evicts(u)' /\ Stores(u)'
    BY <1>5, <1>10, <2>3, <2>4, OthersGoOn
  <2>6. \A u \in Threads, j \in Keys : ~Submits(u, j) /\ ~Submits(u, j)'
    <3>1. \A u \in Threads, j \in Keys : ~Submits(u, j)
      BY <1>1, <1>5, OneStores DEF Submits
    <3>2. \A j \in Keys : ~Submits(t, j)'
      BY <1>1 DEF Submits
    <3>3. \A u \in Threads : u # t => \A j \in Keys : Submits(u, j)' <=> Submits(u, j)
      BY <1>1, <2>1 DEF Submits
    <3> QED
      BY <3>1, <3>2, <3>3
  <2>7. \A u \in Threads, j \in Keys : j \notin Range(evict_keys[u])
    BY <1>5, <1>6, OneStores, RangeEmpty
  <2>8. \A j \in Keys : (\A u \in Threads : j \notin Range(evict_keys'[u])) <=> j # k
    <3>1. Range(evict_keys'[t]) = {k}
      BY <2>1, RangeOfOne
    <3>2. \A u \in Threads, j \in Keys : u # t => j \notin Range(evict_keys'[u])
      BY <2>1, <2>7
    <3> QED
      BY <3>1, <3>2
  <2>9. \A i \in Slots : ~Writes(i, k)
    BY <1>4, <1>6, LivesOf DEF LifeCycle, OutOfDict
  <2>10. \A j \in Keys : j \in OnDisk <=> InDict(j) \/ \E i \in Slots : Writes(i, j)
    BY <2>6, <2>7, OnDiskIs
  <2>11. \A j \in Keys : j \in OnDisk' <=> (InDict(j) /\ j # k) \/ \E i \in Slots : Writes(i, j)
    BY <1>8, <2>6, <2>8, OnDiskAfter
  <2>12. OnDisk \subseteq Keys /\ OnDisk' \subseteq Keys
    BY OnDiskInKeys
  <2>13. k \in OnDisk /\ OnDisk' = OnDisk \ {k}
    BY <1>4, <1>6, <2>9, <2>10, <2>11, <2>12
  <2>14. SizeKept'
    BY <1>12, <2>13, SizeShrinks DEF SInv
  <2> QED
    BY <1>9, <2>5, <2>14 DEF SInv
<1> QED
  BY <1>7, <1>11, <1>12

LEMMA PickedSize ==
  ASSUME ServingOnly, IInv, IInv', SInv, NEW t \in Threads, Picked(t)
  PROVE  SInv'
<1>1. /\ pc[t] = "pick" /\ Fits(t) /\ pc'[t] = "evict" /\ key' = key
      /\ current_cache_size' = current_cache_size + Size[key[t]] /\ OthersRest(t)
      /\ dict' = dict /\ files' = files /\ saves' = saves /\ stored' = stored
      /\ again' = again /\ evict_keys' = evict_keys
  BY DEF Picked, Goto, store, disk, history, OthersRest, IInv, Types
<1>2. \A j \in Keys : /\ \A i \in Slots : Writes(i, j)' <=> Writes(i, j)
                      /\ InDict(j)' <=> InDict(j)
  BY <1>1 DEF Writes, InDict
<1>3. "store" \in Ops[t] /\ Stores(t) /\ Evicts(t) /\ key[t] \in Keys
  BY <1>1 DEF SInv, Stores, Storing, IInv, Holding
<1>4. Fresh'
  BY <1>1, <1>2 DEF SInv, Fresh
<1>5. Evicts(t)'
  BY <1>1, <1>2, <1>3 DEF Evicts
<1>6. Stores(t)'
  BY <1>1, <1>3 DEF Stores, Storing
<1>7. \A u \in Threads : Evicts(u)' /\ Stores(u)'
  BY <1>1, <1>3, <1>5, <1>6, OthersGoOn
<1>8. \A u \in Threads, j \in Keys : Submits(u, j)' <=> u = t /\ j = key[t]
  <2>1. \A u \in Threads : u # t => \A j \in Keys : Submits(u, j)' <=> Submits(u, j)
    BY <1>1 DEF Submits, OthersRest
  <2>2. \A j \in Keys : Submits(t, j)' <=> j = key[t]
    BY <1>1 DEF Submits
  <2> QED
    BY <1>3, <2>1, <2>2, OneStores
<1>9. \A u \in Threads, j \in Keys : ~Submits(u, j)
  BY <1>1, <1>3, OneStores DEF Submits
<1>10. key[t] \notin OnDisk
  <2>1. Puts(t, key[t])
    BY <1>1 DEF Puts
  <2>2. ~InDict(key[t]) /\ \A i \in Slots : ~Writes(i, key[t])
    BY <1>3, <2>1, LivesOf DEF LifeCycle, OneWriter, OutOfDict
  <2> QED
    BY <1>3, <1>9, <2>2, OnDiskIs
<1>11. OnDisk' = OnDisk \cup {key[t]}
  <2>1. \A j \in Keys : j \in OnDisk' <=> j \in OnDisk \/ j = key[t]
    BY <1>1, <1>2, <1>8, <1>9, OnDiskIs, OnDiskAfter
  <2> QED
    BY <1>3, <2>1, OnDiskInKeys
<1>12. current_cache_size + Size[key[t]] <= MaxCacheSize
  <2>1. current_cache_size \in Nat /\ Size[key[t]] \in Nat
    BY <1>3, DiskAssumption DEF SInv, SizeKept
  <2> QED
    BY <1>1, <2>1, DiskAssumption DEF Fits
<1>13. SizeKept'
  BY <1>1, <1>3, <1>10, <1>11, <1>12, SizeGrows DEF SInv
<1> QED
  BY <1>4, <1>7, <1>13 DEF SInv
\* The chunk goes from the thread to the coroutine.
LEMMA SubmitSaveSize ==
  ASSUME ServingOnly, IInv, IInv', SInv, NEW t \in Threads, SubmitSave(t)
  PROVE  SInv'
<1>1. /\ pc[t] = "evict" /\ pc'[t] = "idle" /\ OthersRest(t)
      /\ evict_keys' = evict_keys /\ evict_keys[t] = <<>>
      /\ dict' = dict /\ files' = files /\ stored' = stored /\ again' = again
      /\ current_cache_size' = current_cache_size
  BY DEF SubmitSave, Return, Continue, Goto, local, history, OthersRest, IInv, Types
<1>2. "store" \in Ops[t] /\ key[t] \in Keys /\ key[t] \in stored
  BY <1>1 DEF SInv, Stores, Storing, IInv, Holding
<1>3. PICK k \in Keys : k = key[t]
  BY <1>2
<1>4. PICK i \in Slots :
         /\ saves[i].pc = "idle"
         /\ saves' = [saves EXCEPT ![i] = [pc |-> "open", key |-> k, linked |-> FALSE]]
  BY <1>3 DEF SubmitSave
<1>5. saves'[i].pc = "open" /\ saves'[i].key = k /\ \A h \in Slots : h # i => saves'[h] = saves[h]
  BY <1>4 DEF IInv, Types
<1>6. \A j \in Keys : /\ \A h \in Slots : Writes(h, j)' <=> Writes(h, j) \/ (h = i /\ j = k)
                      /\ InDict(j)' <=> InDict(j)
  BY <1>1, <1>4, <1>5 DEF Writes, InDict
<1>7. Fresh'
  BY <1>1, <1>2, <1>3, <1>6 DEF SInv, Fresh
<1>8. Evicts(t)' /\ Stores(t)'
  BY <1>1 DEF Evicts, Stores, Storing
<1>9. \A u \in Threads : Evicts(u)' /\ Stores(u)'
  BY <1>1, <1>2, <1>8, OthersGoOn
<1>10. \A u \in Threads, j \in Keys : Submits(u, j) <=> u = t /\ j = k
  BY <1>1, <1>2, <1>3, OneStores DEF Submits
<1>11. \A u \in Threads, j \in Keys : ~Submits(u, j)'
  <2>1. \A u \in Threads : u # t => \A j \in Keys : Submits(u, j)' <=> Submits(u, j)
    BY <1>1 DEF Submits, OthersRest
  <2>2. \A j \in Keys : ~Submits(t, j)'
    BY <1>1 DEF Submits
  <2> QED
    BY <1>10, <2>1, <2>2
<1>12. \A j \in Keys : j \in OnDisk' <=> j \in OnDisk
  BY <1>1, <1>6, <1>10, <1>11, OnDiskIs, OnDiskAfter
<1>13. OnDisk' = OnDisk
  BY <1>12, OnDiskInKeys
<1> QED
  BY <1>1, <1>7, <1>9, <1>13, SizeStays DEF SInv

\* The picked key is in the dictionary, so that nothing is raised.
LEMMA RemoveReadSize ==
  ASSUME ServingOnly, IInv, IInv', SInv, NEW t \in Threads, RemoveRead(t)
  PROVE  SInv'
<1>1. Evicts(t) /\ pc[t] = "evict" /\ evict_keys[t] # <<>>
  BY DEF RemoveRead, SInv, Evicts
<1>2. PICK k \in Keys : evict_keys[t] = <<k>> /\ InDict(k)
  BY <1>1 DEF Evicts
<1>3. Victim(t) = k
  BY <1>2, RangeOfOne DEF Victim
<1>4. /\ pc'[t] = "pop" /\ key' = key /\ OthersRest(t)
      /\ dict' = dict /\ files' = files /\ saves' = saves /\ stored' = stored
      /\ again' = again /\ evict_keys' = evict_keys
      /\ current_cache_size' = current_cache_size
  BY <1>2, <1>3 DEF RemoveRead, Goto, store, disk, local, history, OthersRest, IInv, Types
<1>5. \A j \in Keys : /\ \A i \in Slots : Writes(i, j)' <=> Writes(i, j)
                      /\ InDict(j)' <=> InDict(j)
  BY <1>4 DEF Writes, InDict
<1>6. "store" \in Ops[t] /\ Stores(t)
  BY <1>1 DEF SInv, Stores, Storing
<1>7. Fresh'
  BY <1>4, <1>5 DEF SInv, Fresh
<1>8. Evicts(t)'
  BY <1>2, <1>4, <1>5 DEF Evicts
<1>9. Stores(t)'
  BY <1>1, <1>4, <1>6 DEF Stores, Storing
<1>10. \A u \in Threads : Evicts(u)' /\ Stores(u)'
  BY <1>4, <1>6, <1>8, <1>9, OthersGoOn
<1>11. \A u \in Threads, j \in Keys : Submits(u, j)' <=> Submits(u, j)
  BY <1>1, <1>4 DEF Submits, OthersRest
<1>12. SizeKept'
  BY <1>4, <1>5, <1>11, SameOnDisk, SizeStays DEF SInv
<1> QED
  BY <1>7, <1>10, <1>12 DEF SInv

\* What is popped has been subtracted before.
LEMMA RemovePopSize ==
  ASSUME ServingOnly, IInv, IInv', SInv, NEW t \in Threads, RemovePop(t)
  PROVE  SInv'
<1>1. pc[t] = "pop" /\ Evicts(t) /\ Stores(t)
  BY DEF RemovePop, SInv
<1>2. PICK k \in Keys : evict_keys[t] = <<k>> /\ InDict(k)
  BY <1>1 DEF Evicts
<1>3. Victim(t) = k
  BY <1>2, RangeOfOne DEF Victim
<1>4. /\ pc'[t] = "unlink" /\ key' = key /\ OthersRest(t)
      /\ dict' = Without(dict, k) /\ files' = files /\ saves' = saves /\ stored' = stored
      /\ again' \in {again, again \ {k}} /\ evict_keys' = evict_keys
      /\ current_cache_size' = current_cache_size
  BY <1>2, <1>3 DEF RemovePop, Goto, disk, local, OthersRest, IInv, Types
<1>5. Range(dict') = Range(dict) \ {k}
  BY <1>4, WithoutFacts DEF IInv, Types
<1>6. \A j \in Keys : /\ \A i \in Slots : Writes(i, j)' <=> Writes(i, j)
                      /\ InDict(j)' <=> (InDict(j) /\ j # k)
  BY <1>4, <1>5 DEF Writes, InDict
<1>7. "store" \in Ops[t]
  BY <1>1 DEF Stores, Storing
<1>8. Fresh'
  BY <1>4, <1>6 DEF SInv, Fresh
<1>9. files[k] = "whole"
  BY <1>2, LivesOf DEF LifeCycle
<1>10. Evicts(t)'
  BY <1>2, <1>4, <1>6, <1>9 DEF Evicts
<1>11. Stores(t)'
  BY <1>1, <1>4 DEF Stores, Storing
<1>12. \A u \in Threads : Evicts(u)' /\ Stores(u)'
  BY <1>4, <1>7, <1>10, <1>11, OthersGoOn
<1>13. \A u \in Threads, j \in Keys : Submits(u, j)' <=> Submits(u, j)
  BY <1>1, <1>4 DEF Submits, OthersRest
<1>14. k \in Range(evict_keys[t])
  BY <1>2, RangeOfOne
<1>15. \A j \in Keys : j \in OnDisk' <=> j \in OnDisk
  BY <1>4, <1>6, <1>13, <1>14, OnDiskIs, OnDiskAfter
<1>16. OnDisk' = OnDisk
  BY <1>15, OnDiskInKeys
<1> QED
  BY <1>4, <1>8, <1>12, <1>16, SizeStays DEF SInv

\* The file is there, so that nothing is raised.
LEMMA RemoveFileSize ==
  ASSUME ServingOnly, IInv, IInv', SInv, NEW t \in Threads, RemoveFile(t)
  PROVE  SInv'
<1>1. pc[t] = "unlink" /\ Evicts(t) /\ Stores(t)
  BY DEF RemoveFile, SInv
<1>2. PICK k \in Keys : evict_keys[t] = <<k>> /\ ~InDict(k) /\ files[k] = "whole"
  BY <1>1 DEF Evicts
<1>3. Victim(t) = k
  BY <1>2, RangeOfOne DEF Victim
<1>4. /\ pc'[t] = "evict" /\ key' = key /\ OthersRest(t)
      /\ dict' = dict /\ stored' = stored /\ again' = again
      /\ evict_keys'[t] = <<>> /\ \A u \in Threads : u # t => evict_keys'[u] = evict_keys[u]
      /\ current_cache_size' = current_cache_size
  BY <1>2, <1>3, RangeOfOne DEF RemoveFile, Goto, store, history, OthersRest, IInv, Types
<1>5. \A i \in Slots : saves'[i].pc = saves[i].pc /\ saves'[i].key = saves[i].key
  <2>1. saves' = [i \in Slots |-> IF saves[i].key = k
                                  THEN [saves[i] EXCEPT !.linked = FALSE]
                                  ELSE saves[i]]
    BY <1>3 DEF RemoveFile
  <2>2. \A i \in Slots :
          saves[i] \in [pc : SaveLabels, key : Keys \cup {NoKey}, linked : BOOLEAN]
    BY DEF IInv, Types
  <2> QED
    BY <2>1, <2>2, Unlinked
<1>6. \A j \in Keys : /\ \A i \in Slots : Writes(i, j)' <=> Writes(i, j)
                      /\ InDict(j)' <=> InDict(j)
  BY <1>4, <1>5 DEF Writes, InDict
<1>7. "store" \in Ops[t]
  BY <1>1 DEF Stores, Storing
<1>8. Fresh'
  BY <1>4, <1>6 DEF SInv, Fresh
<1>9. Evicts(t)'
  BY <1>4 DEF Evicts
<1>10. Stores(t)'
  BY <1>1, <1>4 DEF Stores, Storing
<1>11. \A u \in Threads : Evicts(u)' /\ Stores(u)'
  BY <1>4, <1>7, <1>9, <1>10, OthersGoOn
<1>12. \A u \in Threads, j \in Keys : Submits(u, j)' <=> Submits(u, j)
  BY <1>1, <1>2, <1>4, RangeOfOne DEF Submits, OthersRest
<1>13. \A j \in Keys, u \in Threads :
         j # k => (j \in Range(evict_keys'[u]) <=> j \in Range(evict_keys[u]))
  <2>1. Range(evict_keys'[t]) = {} /\ Range(evict_keys[t]) = {k}
    BY <1>2, <1>4, RangeOfOne, RangeEmpty
  <2> QED
    BY <1>4, <2>1
<1>14. \A j \in Keys : j \in OnDisk' <=> j \in OnDisk
  BY <1>2, <1>6, <1>12, <1>13, OnDiskIs, OnDiskAfter
<1>15. OnDisk' = OnDisk
  BY <1>14, OnDiskInKeys
<1> QED
  BY <1>4, <1>8, <1>11, <1>15, SizeStays DEF SInv

-----------------------------------------------------------------------------
(* The steps that may be of any thread, and those of the loop.              *)

LEMMA IdleStepSize ==
  ASSUME ServingOnly, IInv, IInv', SInv, NEW t \in Threads, OthersRest(t),
         pc[t] \in {"idle", "read", "raised"}, pc'[t] \in {"idle", "read", "raised"},
         evict_keys'[t] \in {<<>>, evict_keys[t]},
         Range(dict') = Range(dict), files' = files, saves' = saves, again' = again,
         stored' = stored, current_cache_size' = current_cache_size
  PROVE  SInv'
<1>1. evict_keys[t] = <<>> /\ evict_keys'[t] = <<>>
  BY DEF SInv, Evicts
<1>2. Evicts(t)' /\ Stores(t)'
  BY <1>1 DEF Evicts, Stores, Storing
<1>3. \A u \in Threads : Evicts(u)' /\ Stores(u)'
  BY <1>2, OthersGoOn
<1>4. \A j \in Keys : /\ \A i \in Slots : Writes(i, j)' <=> Writes(i, j)
                      /\ InDict(j)' <=> InDict(j)
  BY DEF Writes, InDict
<1>5. Fresh'
  BY <1>4 DEF SInv, Fresh
<1>6. \A u \in Threads : /\ Range(evict_keys'[u]) = Range(evict_keys[u])
                         /\ \A j \in Keys : Submits(u, j)' <=> Submits(u, j)
  BY <1>1 DEF OthersRest, Submits
<1>7. SizeKept'
  BY <1>4, <1>6, SameOnDisk, SizeStays DEF SInv
<1> QED
  BY <1>3, <1>5, <1>7 DEF SInv

LEMMA RecoverSize ==
  ASSUME ServingOnly, IInv, IInv', SInv, NEW t \in Threads, Recover(t)
  PROVE  SInv'
<1>1. /\ pc[t] = "raised" /\ pc'[t] = "idle" /\ OthersRest(t) /\ evict_keys'[t] = <<>>
      /\ dict' = dict /\ files' = files /\ saves' = saves /\ stored' = stored
      /\ again' = again /\ current_cache_size' = current_cache_size
  BY DEF Recover, Return, Continue, Goto, store, disk, history, OthersRest, IInv, Types
<1> QED
  BY <1>1, IdleStepSize

LEMMA GetSize ==
  ASSUME ServingOnly, IInv, IInv', SInv, NEW t \in Threads,
         GetRead(t) \/ \E k \in Keys : GetBegin(t, k)
  PROVE  SInv'
<1>1. CASE GetRead(t)
  <2>1. /\ pc[t] = "read" /\ pc'[t] \in {"idle", "raised"} /\ OthersRest(t)
        /\ evict_keys' = evict_keys
        /\ dict' = dict /\ files' = files /\ saves' = saves /\ stored' = stored
        /\ again' = again /\ current_cache_size' = current_cache_size
    BY <1>1 DEF GetRead, Return, Continue, Goto, store, disk, local, history, OthersRest,
       IInv, Types
  <2> QED
    BY <2>1, IdleStepSize
<1>2. ASSUME NEW k \in Keys, GetBegin(t, k) PROVE SInv'
  <2>1. /\ pc[t] = "idle" /\ pc'[t] = "read" /\ OthersRest(t)
        /\ evict_keys' = evict_keys /\ InDict(k) /\ dict' = Newest(dict, k)
        /\ files' = files /\ saves' = saves /\ stored' = stored
        /\ again' = again /\ current_cache_size' = current_cache_size
    BY <1>2 DEF GetBegin, Start, Free, Goto, disk, local, history, OthersRest, IInv, Types
  <2>2. Range(dict') = Range(dict)
    BY <2>1, MovedFacts DEF IInv, Types, InDict
  <2> QED
    BY <2>1, <2>2, IdleStepSize
<1> QED
  BY <1>1, <1>2
\* Only a chunk that a coroutine writes may enter the dictionary, and only its
\* file changes.
LEMMA LoopKeeps ==
  ASSUME IInv, SInv, pc' = pc, key' = key, evict_keys' = evict_keys, walk' = walk,
         stored' = stored, current_cache_size' = current_cache_size,
         \A j \in Keys : \/ \E i \in Slots : Writes(i, j)
                         \/ (InDict(j)' <=> InDict(j)) /\ files'[j] = files[j],
         \A j \in Keys : InDict(j) => InDict(j)',
         \A i \in Slots, j \in Keys : Writes(i, j)' => Writes(i, j)
  PROVE  \A t \in Threads : Evicts(t)' /\ Stores(t)'
<1> SUFFICES ASSUME NEW t \in Threads PROVE Evicts(t)' /\ Stores(t)'
  OBVIOUS
<1>1. Evicts(t) /\ Stores(t)
  BY DEF SInv
<1>2. ASSUME evict_keys[t] = <<>>, pc[t] \notin {"remove", "pop", "unlink"}
      PROVE  Evicts(t)'
  BY <1>2 DEF Evicts
<1>3. ASSUME NEW k \in Keys, evict_keys[t] = <<k>>, pc[t] = "unlink",
             ~InDict(k), files[k] = "whole"
      PROVE  Evicts(t)'
  <2>1. Unlinks(t, k)
    BY <1>3, RangeOfOne DEF Unlinks, Victim
  <2>2. \A i \in Slots : ~Writes(i, k)
    BY <2>1, LivesOf DEF LifeCycle, OutOfDict
  <2>3. ~InDict(k)' /\ files'[k] = "whole"
    BY <1>3, <2>2
  <2> QED
    BY <1>3, <2>3 DEF Evicts
<1>4. ASSUME NEW k \in Keys, evict_keys[t] = <<k>>, pc[t] \in {"pick", "evict", "pop"},
             InDict(k), pc[t] = "pick" => Fits(t)
      PROVE  Evicts(t)'
  <2>1. InDict(k)' /\ (pc'[t] = "pick" => Fits(t)')
    BY <1>4 DEF Fits
  <2> QED
    BY <1>4, <2>1 DEF Evicts
<1>5. Evicts(t)'
  BY <1>1, <1>2, <1>3, <1>4 DEF Evicts
<1>6. Stores(t)'
  <2>1. pc[t] = "put" => ~InDict(key[t])' /\ \A i \in Slots : ~Writes(i, key[t])'
    <3>1. pc[t] = "put" => key[t] \in Keys
      BY DEF IInv, Holding
    <3> QED
      BY <1>1, <3>1 DEF Stores, Storing
  <2> QED
    BY <1>1, <2>1 DEF Stores
<1> QED
  BY <1>5, <1>6

LEMMA LoopStepSize ==
  ASSUME ServingOnly, IInv, IInv', SInv, NEW i \in Slots, LoopStep(i)
  PROVE  SInv'
<1>1. /\ pc' = pc /\ key' = key /\ evict_keys' = evict_keys /\ walk' = walk
      /\ stored' = stored /\ again' = again /\ current_cache_size' = current_cache_size
  BY DEF LoopStep, SaveOpen, SaveWrite, SaveInsert, SaveDone, SetSave, store, local, history
<1>2. saves[i].pc # "idle" /\ \A h \in Slots : h # i => saves'[h] = saves[h]
  BY DEF LoopStep, SaveOpen, SaveWrite, SaveInsert, SaveDone, SetSave, IInv, Types
<1>3. PICK k \in Keys : k = saves[i].key
  BY <1>2 DEF IInv, Holding
<1>4. saves[i] \in [pc : SaveLabels, key : Keys \cup {NoKey}, linked : BOOLEAN]
      /\ saves \in [Slots -> [pc : SaveLabels, key : Keys \cup {NoKey}, linked : BOOLEAN]]
      /\ files \in [Keys -> {"none", "partial", "whole"}]
  BY DEF IInv, Types
<1>5. \A t \in Threads, j \in Keys : Submits(t, j)' <=> Submits(t, j)
  BY <1>1 DEF Submits
<1>6. \A h \in Slots, j \in Keys : h # i => (Writes(h, j)' <=> Writes(h, j))
  BY <1>2 DEF Writes
<1>7. \A j \in Keys : j # k => ~Writes(i, j)
  BY <1>3 DEF Writes
<1>8. CASE SaveOpen(i) \/ SaveWrite(i) \/ SaveDone(i)
  <2>1. dict' = dict /\ \A j \in Keys : InDict(j)' <=> InDict(j)
    BY <1>8 DEF SaveOpen, SaveWrite, SaveDone, store, InDict
  <2>2. \A j \in Keys : Writes(i, j)' <=> Writes(i, j)
    <3>1. CASE SaveOpen(i)
      BY <1>3, <1>4, <3>1 DEF SaveOpen, SetSave, Writes
    <3>2. CASE SaveWrite(i)
      BY <1>3, <1>4, <3>2 DEF SaveWrite, SetSave, Writes
    <3>3. CASE SaveDone(i)
      BY <1>4, <3>3 DEF SaveDone, SetSave, Writes, NoSave
    <3> QED
      BY <1>8, <3>1, <3>2, <3>3
  <2>3. \A j \in Keys : Writes(i, j) \/ files'[j] = files[j]
    <3>1. CASE SaveOpen(i)
      BY <1>3, <1>4, <3>1 DEF SaveOpen, Writes
    <3>2. CASE SaveWrite(i)
      BY <1>3, <1>4, <3>2 DEF SaveWrite, Writes
    <3>3. CASE SaveDone(i)
      BY <3>3 DEF SaveDone
    <3> QED
      BY <1>8, <3>1, <3>2, <3>3
  <2>4. \A h \in Slots, j \in Keys : Writes(h, j)' <=> Writes(h, j)
    BY <1>6, <2>2
  <2>5. Fresh'
    BY <1>1, <2>1, <2>4 DEF SInv, Fresh
  <2>6. \A t \in Threads : Evicts(t)' /\ Stores(t)'
    BY <1>1, <2>1, <2>3, <2>4, LoopKeeps
  <2>7. SizeKept'
    BY <1>1, <1>5, <2>1, <2>4, SameOnDisk, SizeStays DEF SInv
  <2> QED
    BY <2>5, <2>6, <2>7 DEF SInv
<1>9. CASE SaveInsert(i)
  <2>1. /\ dict' = Newest(dict, k) /\ files' = files /\ Writes(i, k)
        /\ \A j \in Keys : ~Writes(i, j)'
    BY <1>3, <1>4, <1>9 DEF SaveInsert, SetSave, Writes
  <2>2. \A j \in Keys : InDict(j)' <=> InDict(j) \/ j = k
    <3>1. Range(dict') = Range(dict) \cup {k}
      BY <2>1, NewestFacts DEF IInv, Types
    <3> QED
      BY <3>1 DEF InDict
  <2>3. LifeCycle(k) /\ \A h \in Slots : Writes(h, k) => h = i
    BY <2>1, LivesOf DEF LifeCycle, OneWriter
  <2>4. \A t \in Threads : k \notin Range(evict_keys[t])
    <3>1. SUFFICES ASSUME NEW t \in Threads, k \in Range(evict_keys[t]) PROVE FALSE
      OBVIOUS
    <3>2. PICK v \in Keys :
            /\ evict_keys[t] = <<v>>
            /\ InDict(v) \/ pc[t] = "unlink"
      BY <3>1, RangeEmpty DEF SInv, Evicts
    <3>3. v = k
      BY <3>1, <3>2, RangeOfOne
    <3>4. ~InDict(k) /\ ~Unlinks(t, k)
      BY <2>1, <2>3 DEF LifeCycle, OutOfDict
    <3> QED
      BY <3>2, <3>3, <3>4, RangeOfOne DEF Unlinks, Victim
  <2>5. Fresh'
    BY <1>1, <1>6, <2>1, <2>2 DEF SInv, Fresh
  <2>6. \A t \in Threads : Evicts(t)' /\ Stores(t)'
    <3>1. \A j \in Keys : \/ \E h \in Slots : Writes(h, j)
                          \/ (InDict(j)' <=> InDict(j)) /\ files'[j] = files[j]
      BY <2>1, <2>2
    <3>2. \A h \in Slots, j \in Keys : Writes(h, j)' => Writes(h, j)
      BY <1>6, <2>1
    <3> QED
      BY <1>1, <2>2, <3>1, <3>2, LoopKeeps
  <2>7. \A j \in Keys : j \in OnDisk' <=> j \in OnDisk
    <3>1. \A j \in Keys : (\E h \in Slots : Writes(h, j)) <=> (\E h \in Slots : Writes(h, j)') \/ j = k
      BY <1>6, <1>7, <2>1, <2>3
    <3> QED
      BY <1>1, <1>5, <2>2, <2>4, <3>1, OnDiskIs, OnDiskAfter
  <2>8. OnDisk' = OnDisk
    BY <2>7, OnDiskInKeys
  <2> QED
    BY <1>1, <2>5, <2>6, <2>8, SizeStays DEF SInv
<1> QED
  BY <1>8, <1>9 DEF LoopStep

LEMMA ReadingSize ==
  ASSUME ServingOnly, IInv, IInv', SInv, NEW k \in Keys,
         \/ \E t \in Threads : Prefetch(t, k) \/ Pin(t, k) \/ Unpin(t, k)
         \/ LoadFile(k)
  PROVE  SInv'
<1>1. /\ files' = files /\ saves' = saves /\ again' = again /\ pc' = pc /\ key' = key
      /\ evict_keys' = evict_keys /\ walk' = walk /\ stored' = stored
      /\ current_cache_size' = current_cache_size
      /\ dict' = dict \/ (InDict(k) /\ dict' = Newest(dict, k))
  BY DEF Prefetch, Pin, Unpin, LoadFile, store, disk, local, history
<1>2. Range(dict') = Range(dict)
  BY <1>1, MovedFacts DEF IInv, Types, InDict
<1>3. /\ \A j \in Keys : InDict(j)' <=> InDict(j)
      /\ \A i \in Slots, j \in Keys : Writes(i, j)' <=> Writes(i, j)
      /\ \A t \in Threads, j \in Keys : Submits(t, j)' <=> Submits(t, j)
  BY <1>1, <1>2 DEF InDict, Writes, Submits
<1>4. Fresh'
  BY <1>1, <1>3 DEF SInv, Fresh
<1>5. \A t \in Threads : Evicts(t)' /\ Stores(t)'
  BY <1>1, <1>3, LoopKeeps
<1>6. SizeKept'
  BY <1>1, <1>2, <1>3, SameOnDisk, SizeStays DEF SInv
<1> QED
  BY <1>4, <1>5, <1>6 DEF SInv

-----------------------------------------------------------------------------

LEMMA InitSize == ASSUME Init PROVE SInv
<1>1. IInv /\ \A t \in Threads : pc[t] = "idle" /\ evict_keys[t] = <<>>
  BY InitIInv DEF Init
<1>2. /\ \A k : ~InDict(k) /\ \A i \in Slots : ~Writes(i, k)
      /\ \A k : \A t \in Threads : ~Submits(t, k)
  BY <1>1, RangeEmpty DEF Init, InDict, Writes, Submits, NoSave
<1>3. Fresh
  BY <1>2 DEF Init, Fresh
<1>4. \A t \in Threads : Evicts(t) /\ Stores(t)
  BY <1>1 DEF Evicts, Stores, Storing
<1>5. OnDisk = {}
  BY <1>2, OnDiskIs
<1>6. Bytes({}) = 0 /\ IsFiniteSet({})
  BY BytesIs, TotalOfNone, FS_EmptySet
<1>7. SizeKept
  BY <1>5, <1>6, DiskAssumption DEF Init, SizeKept
<1> QED
  BY <1>3, <1>4, <1>7 DEF SInv

LEMMA StepSize == ASSUME ServingOnly, IInv, SInv, [Next]_vars PROVE SInv'
<1>1. IInv'
  BY StepIInv
<1>2. CASE UNCHANGED vars
  <2>1. /\ \A i \in Slots, j \in Keys : Writes(i, j)' <=> Writes(i, j)
        /\ \A j \in Keys : InDict(j)' <=> InDict(j)
        /\ \A t \in Threads, j \in Keys : Submits(t, j)' <=> Submits(t, j)
    BY <1>2 DEF vars, store, disk, local, history, Writes, InDict, Submits
  <2>2. Fresh'
    BY <1>2, <2>1 DEF vars, history, SInv, Fresh
  <2>3. \A t \in Threads : Evicts(t)' /\ Stores(t)'
    BY <1>2, <2>1, LoopKeeps DEF vars, store, disk, local, history
  <2>4. SizeKept'
    BY <1>1, <1>2, <2>1, SameOnDisk, SizeStays DEF vars, store, local, SInv
  <2> QED
    BY <2>2, <2>3, <2>4 DEF SInv
<1>3. ASSUME NEW t \in Threads, Proceed(t) PROVE SInv'
  BY <1>1, <1>3, CheckPutTasksSize, IterateSize, PickOneSize, PickRaisesSize, PickedSize,
     SubmitSaveSize, RemoveReadSize, RemovePopSize, RemoveFileSize, RecoverSize, GetSize
     DEF Proceed
<1>4. ASSUME NEW t \in Threads, Begin(t) PROVE SInv'
  <2>1. \A k \in Keys : ~RemoveBegin(t, k)
    BY DEF RemoveBegin, Start, Free, ServingOnly
  <2> QED
    BY <1>1, <1>4, <2>1, StoreBeginSize, GetSize, ReadingSize DEF Begin
<1>5. ASSUME NEW i \in Slots, LoopStep(i) PROVE SInv'
  BY <1>1, <1>5, LoopStepSize
<1>6. ASSUME NEW k \in Keys, LoadFile(k) PROVE SInv'
  BY <1>1, <1>6, ReadingSize
<1> QED
  BY <1>2, <1>3, <1>4, <1>5, <1>6 DEF Next

\* What the evictor believes to be on disk is what is there or on its way there:
\* each put adds one chunk's size and each pick of a victim takes one away, while
\* deletions and saves of other chunks are under way.
THEOREM SizeIsExactHolds == ASSUME ServingOnly PROVE Spec => []SizeIsExact
<1>1. Init => IInv /\ SInv
  BY InitIInv, InitSize
<1>2. IInv /\ SInv /\ [Next]_vars => (IInv /\ SInv)'
  BY StepIInv, StepSize
<1>3. SInv => SizeIsExact
  BY DEF SInv, SizeKept, SizeIsExact, OnDisk
<1> QED
  BY <1>1, <1>2, <1>3, PTL DEF Spec

\* The same of the specification of the run, which also has behaviours of an
\* instance whose chunks a controller removes, and of the GDS backend.
THEOREM SizeIsExactServingHolds == ASSUME ServingOnly PROVE MCSpec => []SizeIsExactServing
<1> DEFINE I == ~removing => IInv /\ SInv
<1>1. MCInit => I
  BY InitIInv, InitSize DEF MCInit
<1>2. I /\ [MCNext]_all => I'
  <2> SUFFICES ASSUME I, [MCNext]_all, ~removing' PROVE (IInv /\ SInv)'
    OBVIOUS
  <2>1. ~removing /\ [Next]_vars
    BY DEF MCNext, all, gvars
  <2> QED
    BY <2>1, StepIInv, StepSize
<1>3. I => SizeIsExactServing
  BY DEF SInv, SizeKept, SizeIsExact, OnDisk, SizeIsExactServing
<1> QED
  BY <1>1, <1>2, <1>3, PTL DEF MCSpec

(***************************************************************************)
(* The GDS and Weka backends: what the instances' saves have written, and  *)
(* what stands at the paths, through crashes and restarts.                 *)
(***************************************************************************)
SaveSteps == {"none", "open", "meta", "cufile", "payload", "rename", "raised", "insert"}
GdsFiles == [meta : {"none", "cur", "old"}, payload : BOOLEAN]

GdsTypes ==
    /\ setting \in Gds!Settings
    /\ inodes \in Seq(GdsFiles)
    /\ tmp \in [GdsKeys \X Gds!TmpSuffixes -> 0..Len(inodes)]
    /\ data \in [GdsKeys -> 0..Len(inodes)]
    /\ save \in [Instances -> [GdsKeys -> [step : SaveSteps,
                                    suffix : Gds!TmpSuffixes \union {<<0, 0>>},
                                    inode : Nat]]]
    /\ hot_cache \in [Instances -> SUBSET (GdsKeys \X {"own", "cut"})]
    /\ drawn \in [Instances -> Nat]

\* A save uses a suffix of its instance.
SuffixesOwn ==
    \A i \in Instances, k \in GdsKeys :
        save[i][k].step # "none" => save[i][k].suffix \in {setting.seed[i]} \X (1..MaxDraws)

\* No two names, of which at most one is a path, are of the same file.
NamesApart ==
    /\ \A m, n \in GdsKeys \X Gds!TmpSuffixes : tmp[m] # 0 /\ tmp[m] = tmp[n] => m = n
    /\ \A n \in GdsKeys \X Gds!TmpSuffixes, k \in GdsKeys : tmp[n] # 0 => tmp[n] # data[k]

\* A save writes to the file of its temporary name, and has written what comes
\* before the step it is at.
SavesWrite ==
    \A i \in Instances, k \in GdsKeys :
        /\ save[i][k].step \in {"meta", "cufile", "payload", "rename"} =>
             tmp[Gds!Name(i, k)] # 0 /\ save[i][k].inode = tmp[Gds!Name(i, k)]
        /\ save[i][k].step \in {"cufile", "payload", "rename"} =>
             inodes[save[i][k].inode].meta = "cur"
        /\ save[i][k].step = "rename" => inodes[save[i][k].inode].payload

\* What stands at a path is whole.
PathsWhole == \A k \in GdsKeys : data[k] # 0 => Gds!Whole(k)

\* What an instance knows, or is about to know, has a file at its path.
KnownHasPath ==
    \A i \in Instances, k \in GdsKeys :
        Gds!InHotCache(i, k) \/ save[i][k].step = "insert" => data[k] # 0

GdsInv == NamesApart /\ SavesWrite /\ PathsWhole /\ KnownHasPath

GdsIInv == GdsTypes /\ SuffixesOwn /\ (Gds!SuffixesDiffer => GdsInv)

-----------------------------------------------------------------------------
\* The operators that GdsBackend has of the library are those of this module.
LEMMA GdsSequences ==
    /\ \A f : Gds!Range(f) = Range(f)
    /\ \A S : Gds!SetToSeqs(S) = SetToSeqs(S)
<1>1. \A S : Gds!Cardinality(S) = Cardinality(S)
  BY DEF Cardinality, Gds!Cardinality
<1> QED
  BY <1>1 DEF Range, Gds!Range, SetToSeqs, Gds!SetToSeqs

LEMMA MoreSettings ==
    ASSUME GdsTypes
    PROVE  setting.seed \in [Instances -> Gds!Range(setting.seed)] /\ MaxDraws \in Nat
<1>1. setting.seed \in [Instances -> Nat]
  BY GdsAssumption DEF GdsTypes, Gds!Settings
<1>2. \A i \in Instances : setting.seed[i] \in Gds!Range(setting.seed)
  BY <1>1 DEF Gds!Range
<1> QED
  BY <1>1, <1>2, GdsAssumption

\* A step of one save changes nothing of the others.
LEMMA OneSave ==
    ASSUME GdsTypes, NEW i \in Instances, NEW k \in GdsKeys,
           NEW s, save' = [save EXCEPT ![i][k] = s]
    PROVE  /\ save'[i][k] = s
           /\ \A j \in Instances, l \in GdsKeys : j # i \/ l # k => save'[j][l] = save[j][l]
BY DEF GdsTypes

\* The names of two saves are different ones.
LEMMA NamesDiffer ==
    ASSUME GdsTypes, Gds!SuffixesDiffer, SuffixesOwn,
           NEW i \in Instances, NEW k \in GdsKeys, NEW j \in Instances, NEW l \in GdsKeys,
           save[i][k].step # "none", save[j][l].step # "none", j # i \/ l # k
    PROVE  Gds!Name(i, k) # Gds!Name(j, l)
<1>1. PICK m \in 1..MaxDraws : save[i][k].suffix = <<setting.seed[i], m>>
  BY DEF SuffixesOwn
<1>2. PICK n \in 1..MaxDraws : save[j][l].suffix = <<setting.seed[j], n>>
  BY DEF SuffixesOwn
<1>3. i # j => setting.seed[i] # setting.seed[j]
  BY MoreSettings DEF Gds!SuffixesDiffer, Gds!IsInjective
<1> QED
  BY <1>1, <1>2, <1>3 DEF Gds!Name

\* The name of a save is a temporary name.
LEMMA NameIsName ==
    ASSUME GdsTypes, SuffixesOwn, NEW i \in Instances, NEW k \in GdsKeys,
            save[i][k].step # "none"
    PROVE  Gds!Name(i, k) \in GdsKeys \X Gds!TmpSuffixes
<1>1. setting.seed[i] \in Gds!Range(setting.seed)
  BY MoreSettings
<1> QED
  BY <1>1 DEF Gds!Name, SuffixesOwn, Gds!TmpSuffixes

-----------------------------------------------------------------------------
LEMMA GdsInitIInv == ASSUME Gds!Init PROVE GdsIInv
<1>1. PICK order \in Gds!SetToSeqs(setting.old) :
         /\ inodes = [n \in DOMAIN order |-> [meta |-> "old", payload |-> TRUE]]
         /\ data = [k \in GdsKeys |-> IF k \in setting.old
                                   THEN CHOOSE n \in DOMAIN order : order[n] = k ELSE 0]
  BY DEF Gds!Init
<1>2. setting.old \subseteq GdsKeys /\ IsFiniteSet(setting.old) /\ setting \in Gds!Settings
  BY GdsAssumption, FS_Subset DEF Gds!Init, Gds!Settings
<1>3. order \in Seq(setting.old) /\ Gds!Range(order) = setting.old
  BY <1>2, EnumerationIsAll, GdsSequences
<1>5. DOMAIN order = 1..Len(order) /\ Len(order) \in Nat
  BY <1>3
<1>4. inodes \in Seq(GdsFiles) /\ Len(inodes) = Len(order)
  <2>1. inodes \in [1..Len(order) -> GdsFiles]
    BY <1>1, <1>5 DEF GdsFiles
  <2> QED
    BY <1>5, <2>1, SeqDef
<1>6. ASSUME NEW k \in GdsKeys
      PROVE  data[k] \in 0..Len(inodes) /\ (data[k] # 0 => inodes[data[k]] = [meta |-> "old",
                  payload |-> TRUE])
  <2>1. CASE k \in setting.old
    <3>1. \E n \in DOMAIN order : order[n] = k
      BY <1>3, <2>1 DEF Gds!Range
    <3>2. data[k] \in DOMAIN order
      BY <1>1, <2>1, <3>1
    <3> QED
      BY <1>1, <1>4, <1>5, <3>2
  <2>2. CASE k \notin setting.old
    BY <1>1, <1>4, <1>5, <2>2
  <2> QED
    BY <2>1, <2>2
<1>7. GdsTypes
  <2>1. tmp \in [GdsKeys \X Gds!TmpSuffixes -> 0..Len(inodes)]
    BY <1>4, <1>5 DEF Gds!Init
  <2>2. data \in [GdsKeys -> 0..Len(inodes)]
    BY <1>1, <1>6
  <2> QED
    BY <1>2, <1>4, <2>1, <2>2 DEF Gds!Init, GdsTypes, Gds!Fresh, Gds!NoSave, SaveSteps
<1>8. SuffixesOwn /\ NamesApart /\ SavesWrite
  BY DEF Gds!Init, SuffixesOwn, NamesApart, SavesWrite, Gds!Fresh, Gds!NoSave
<1>9. PathsWhole /\ KnownHasPath
  BY <1>6 DEF Gds!Init, PathsWhole, KnownHasPath, Gds!Whole, Gds!InHotCache, Gds!Fresh,
          Gds!NoSave
<1> QED
  BY <1>7, <1>8, <1>9 DEF GdsIInv, GdsInv

-----------------------------------------------------------------------------
(* The steps of a save.                                                    *)

\* The rest of the state, and what a save does not touch of it.
LEMMA GdsSaveKeepsRest ==
    ASSUME GdsTypes, Gds!SaveKeeps,
           inodes' \in Seq(GdsFiles), Len(inodes) <= Len(inodes'),
           tmp' \in [GdsKeys \X Gds!TmpSuffixes -> 0..Len(inodes')],
           data' \in [GdsKeys -> 0..Len(inodes')],
           save' \in [Instances -> [GdsKeys -> [step : SaveSteps,
                             suffix : Gds!TmpSuffixes \union {<<0, 0>>}, inode : Nat]]]
    PROVE  GdsTypes' /\ (Gds!SuffixesDiffer' <=> Gds!SuffixesDiffer)
<1>1. Gds!TmpSuffixes' = Gds!TmpSuffixes /\ setting' = setting
  BY DEF Gds!SaveKeeps, Gds!counters, Gds!TmpSuffixes
<1>2. setting' \in Gds!Settings /\ hot_cache' = hot_cache /\ drawn' = drawn
  BY <1>1 DEF Gds!SaveKeeps, GdsTypes
<1> QED
  BY <1>1, <1>2 DEF GdsTypes, Gds!SuffixesDiffer


\* A step of the save of k by i that stays with its suffix.
StepOf(i, k, step, file) ==
    save' = [save EXCEPT ![i][k] = [save[i][k] EXCEPT !.step = step, !.inode = file]]

\* What such a step does to the table of saves.
LEMMA StepOfSave ==
    ASSUME GdsTypes, SuffixesOwn, Gds!SaveKeeps, NEW i \in Instances, NEW k \in GdsKeys,
           save[i][k].step # "none", NEW step \in SaveSteps, NEW file \in Nat, StepOf(i, k,
                   step, file)
    PROVE  /\ save' \in [Instances -> [GdsKeys -> [step : SaveSteps,
                                suffix : Gds!TmpSuffixes \union {<<0, 0>>}, inode : Nat]]]
           /\ save'[i][k].step = step /\ save'[i][k].inode = file
           /\ \A j \in Instances, l \in GdsKeys :
                /\ save'[j][l].suffix = save[j][l].suffix /\ Gds!Name(j, l)' = Gds!Name(j, l)
                /\ j # i \/ l # k => save'[j][l] = save[j][l]
           /\ SuffixesOwn'
<1> DEFINE Saves == [step : SaveSteps, suffix : Gds!TmpSuffixes \union {<<0, 0>>}, inode : Nat]
<1>r. PICK r : r = [save[i][k] EXCEPT !.step = step, !.inode = file]
  OBVIOUS
<1>a. save \in [Instances -> [GdsKeys -> Saves]] /\ save[i][k] \in Saves
  BY DEF GdsTypes
<1>b. r \in Saves
  BY <1>r, <1>a
<1>c. save' = [save EXCEPT ![i][k] = r]
  BY <1>r DEF StepOf
<1> HIDE DEF Saves
<1>1. /\ save' \in [Instances -> [GdsKeys -> Saves]] /\ save'[i][k] = r
      /\ \A j \in Instances, l \in GdsKeys : j # i \/ l # k => save'[j][l] = save[j][l]
  BY <1>a, <1>b, <1>c
<1>2. /\ save'[i][k].step = step /\ save'[i][k].inode = file
      /\ save'[i][k].suffix = save[i][k].suffix
  BY <1>r, <1>1, <1>a DEF Saves
<1>3. \A j \in Instances, l \in GdsKeys : save'[j][l].suffix = save[j][l].suffix
  BY <1>1, <1>2
<1>4. \A j \in Instances, l \in GdsKeys : Gds!Name(j, l)' = Gds!Name(j, l)
  BY <1>3 DEF Gds!Name
<1>5. setting' = setting
  BY DEF Gds!SaveKeeps, Gds!counters
<1>6. ASSUME NEW j \in Instances, NEW l \in GdsKeys, save'[j][l].step # "none"
      PROVE  save'[j][l].suffix \in {setting'.seed[j]} \X (1..MaxDraws)
  <2>1. save[j][l].step # "none"
    BY <1>1, <1>6
  <2>2. save[j][l].suffix \in {setting.seed[j]} \X (1..MaxDraws)
    BY <2>1 DEF SuffixesOwn
  <2> QED
    BY <1>3, <1>5, <2>2
<1>7. SuffixesOwn'
  BY <1>6 DEF SuffixesOwn
<1> QED
  BY <1>1, <1>2, <1>3, <1>4, <1>7 DEF Saves

\* The files that stand at a path, or are another save's, are not touched.
LEMMA OpenStep ==
    ASSUME GdsIInv, NEW i \in Instances, NEW k \in GdsKeys, Gds!Open(i, k)
    PROVE  GdsIInv'
<1> PICK n : n = Gds!Name(i, k)
  OBVIOUS
<1> PICK x : x = tmp'[n]
  OBVIOUS
<1>1. /\ GdsTypes /\ SuffixesOwn /\ save[i][k].step = "open" /\ Gds!SaveKeeps /\ data' = data
      /\ StepOf(i, k, "meta", x)
      /\ IF tmp[n] = 0
         THEN inodes' = Append(inodes, Gds!Empty) /\ tmp' = [tmp EXCEPT ![n] = Len(inodes) + 1]
         ELSE inodes' = [inodes EXCEPT ![tmp[n]] = Gds!Empty] /\ tmp' = tmp
  BY DEF GdsIInv, Gds!Open, Gds!Saving, StepOf, GdsTypes
<1>2. n \in GdsKeys \X Gds!TmpSuffixes
  BY <1>1, NameIsName
<1>3. /\ inodes \in Seq(GdsFiles) /\ Len(inodes) \in Nat /\ Gds!Empty \in GdsFiles
      /\ tmp \in [GdsKeys \X Gds!TmpSuffixes -> 0..Len(inodes)]
              /\ data \in [GdsKeys -> 0..Len(inodes)]
  BY <1>1 DEF GdsTypes, Gds!Empty, GdsFiles
<1>4. /\ inodes' \in Seq(GdsFiles) /\ Len(inodes') \in Nat /\ Len(inodes) <= Len(inodes')
      /\ x \in 1..Len(inodes')
      /\ tmp' \in [GdsKeys \X Gds!TmpSuffixes -> 0..Len(inodes')]
      /\ \A m \in GdsKeys \X Gds!TmpSuffixes : m # n => tmp'[m] = tmp[m]
      /\ \A f \in 1..Len(inodes) : f # x => inodes'[f] = inodes[f]
      /\ tmp[n] = 0 => x = Len(inodes) + 1
      /\ tmp[n] # 0 => x = tmp[n]
  <2>1. CASE tmp[n] = 0
    <3>1. inodes' = Append(inodes, Gds!Empty) /\ tmp' = [tmp EXCEPT ![n] = Len(inodes) + 1]
      BY <1>1, <2>1
    <3>2. x = Len(inodes) + 1 /\ Len(inodes') = Len(inodes) + 1
      BY <1>2, <1>3, <3>1
    <3>3. inodes' \in Seq(GdsFiles) /\ \A f \in 1..Len(inodes) : inodes'[f] = inodes[f]
      BY <1>3, <3>1
    <3>4. tmp' \in [GdsKeys \X Gds!TmpSuffixes -> 0..(Len(inodes) + 1)]
      BY <1>2, <1>3, <3>1
    <3> QED
      BY <1>2, <1>3, <2>1, <3>1, <3>2, <3>3, <3>4
  <2>2. CASE tmp[n] # 0
    <3>1. inodes' = [inodes EXCEPT ![x] = Gds!Empty] /\ tmp' = tmp /\ x = tmp[n]
      BY <1>1, <2>2
    <3>2. x \in 1..Len(inodes)
      BY <1>2, <1>3, <2>2, <3>1
    <3>3. inodes' \in Seq(GdsFiles) /\ Len(inodes') = Len(inodes)
      BY <1>3, <3>1, <3>2
    <3>4. \A f \in 1..Len(inodes) : f # x => inodes'[f] = inodes[f]
      BY <1>3, <3>1
    <3> QED
      BY <1>3, <2>2, <3>1, <3>2, <3>3, <3>4
  <2> QED
    BY <2>1, <2>2
<1>5. data' \in [GdsKeys -> 0..Len(inodes')]
  BY <1>1, <1>3, <1>4
<1>6. /\ save' \in [Instances -> [GdsKeys -> [step : SaveSteps,
                                suffix : Gds!TmpSuffixes \union {<<0, 0>>}, inode : Nat]]]
      /\ save'[i][k].step = "meta" /\ save'[i][k].inode = x
      /\ \A j \in Instances, l \in GdsKeys :
                /\ Gds!Name(j, l)' = Gds!Name(j, l)
                /\ j # i \/ l # k => save'[j][l] = save[j][l]
      /\ SuffixesOwn'
  BY <1>1, <1>4, StepOfSave DEF SaveSteps
<1>7. GdsTypes' /\ (Gds!SuffixesDiffer' <=> Gds!SuffixesDiffer)
  BY <1>1, <1>4, <1>5, <1>6, GdsSaveKeepsRest
<1>8. ASSUME Gds!SuffixesDiffer PROVE GdsInv'
  <2>1. NamesApart /\ SavesWrite /\ PathsWhole /\ KnownHasPath
    BY <1>8 DEF GdsIInv, GdsInv
  <2>2. /\ \A m \in GdsKeys \X Gds!TmpSuffixes : m # n => tmp[m] # x
        /\ \A l \in GdsKeys : data[l] # x
    BY <1>2, <1>3, <1>4, <2>1 DEF NamesApart
  <2>3. Gds!TmpSuffixes' = Gds!TmpSuffixes
    BY <1>1 DEF Gds!SaveKeeps, Gds!counters, Gds!TmpSuffixes
  <2>4. NamesApart'
    <3>1. ASSUME NEW l \in GdsKeys \X Gds!TmpSuffixes, NEW m \in GdsKeys \X Gds!TmpSuffixes,
                 tmp'[l] # 0, tmp'[l] = tmp'[m]
          PROVE  l = m
      BY <1>4, <2>1, <2>2, <3>1 DEF NamesApart
    <3>2. ASSUME NEW m \in GdsKeys \X Gds!TmpSuffixes, NEW l \in GdsKeys, tmp'[m] # 0
          PROVE  tmp'[m] # data'[l]
      BY <1>1, <1>4, <2>1, <2>2, <3>2 DEF NamesApart
    <3> QED
      BY <2>3, <3>1, <3>2 DEF NamesApart
  <2>5. PathsWhole'
    BY <1>1, <1>3, <1>4, <2>1, <2>2 DEF PathsWhole, Gds!Whole
  <2>6. KnownHasPath'
    <3>1. hot_cache' = hot_cache
      BY <1>1 DEF Gds!SaveKeeps
    <3>2. \A j \in Instances, l \in GdsKeys : save'[j][l].step = "insert"
            => save[j][l].step = "insert"
      BY <1>6
    <3> QED
      BY <1>1, <2>1, <3>1, <3>2 DEF KnownHasPath, Gds!InHotCache
  <2>7. ASSUME NEW j \in Instances, NEW l \in GdsKeys,
               save'[j][l].step \in {"meta", "cufile", "payload", "rename"}
        PROVE  /\ tmp'[Gds!Name(j, l)] # 0 /\ save'[j][l].inode = tmp'[Gds!Name(j, l)]
               /\ save'[j][l].step \in {"cufile", "payload", "rename"} =>
                    inodes'[save'[j][l].inode].meta = "cur"
               /\ save'[j][l].step = "rename" => inodes'[save'[j][l].inode].payload
    <3>1. CASE j = i /\ l = k
      BY <1>4, <1>6, <3>1
    <3>2. CASE j # i \/ l # k
      <4>1. save'[j][l] = save[j][l]
        BY <1>6, <3>2
      <4>2. Gds!Name(j, l) \in GdsKeys \X Gds!TmpSuffixes /\ Gds!Name(j, l) # n
        BY <1>1, <1>8, <2>7, <3>2, <4>1, NamesDiffer, NameIsName
      <4>3. tmp'[Gds!Name(j, l)] = tmp[Gds!Name(j, l)] /\ tmp[Gds!Name(j, l)] # x
        BY <1>4, <2>2, <4>2
      <4>4. tmp[Gds!Name(j, l)] # 0 /\ save[j][l].inode = tmp[Gds!Name(j, l)]
        BY <2>1, <2>7, <4>1 DEF SavesWrite
      <4>5. inodes'[save[j][l].inode] = inodes[save[j][l].inode]
        BY <1>3, <1>4, <4>2, <4>3, <4>4
      <4> QED
        BY <2>1, <2>7, <4>1, <4>3, <4>4, <4>5 DEF SavesWrite
    <3> QED
      BY <3>1, <3>2
  <2>8. SavesWrite'
    BY <1>6, <2>7 DEF SavesWrite
  <2> QED
    BY <2>4, <2>5, <2>6, <2>8 DEF GdsInv
<1> QED
  BY <1>6, <1>7, <1>8 DEF GdsIInv

\* Writing to a file takes nothing away of it.
Grows(f, g) ==
    /\ f.payload => g.payload
    /\ f.meta # "none" => g.meta # "none"
    /\ f.meta = "cur" => g.meta = "cur"

FilesGrow == /\ inodes' \in Seq(GdsFiles) /\ Len(inodes') = Len(inodes)
             /\ \A f \in 1..Len(inodes) : Grows(inodes[f], inodes'[f])
             /\ UNCHANGED <<tmp, data, setting>>

\* When files only grow, paths and names stay as they are.
LEMMA GrowingFiles ==
    ASSUME GdsTypes, FilesGrow
    PROVE  /\ tmp' \in [GdsKeys \X Gds!TmpSuffixes -> 0..Len(inodes')]
                /\ data' \in [GdsKeys -> 0..Len(inodes')]
           /\ Gds!TmpSuffixes' = Gds!TmpSuffixes
           /\ NamesApart => NamesApart'
           /\ PathsWhole => PathsWhole'
<1>1. Gds!TmpSuffixes' = Gds!TmpSuffixes
  BY DEF FilesGrow, Gds!TmpSuffixes
<1>2. NamesApart => NamesApart'
  BY <1>1 DEF FilesGrow, NamesApart
<1>3. ASSUME PathsWhole, NEW k \in GdsKeys, data'[k] # 0 PROVE Gds!Whole(k)'
  <2>1. data'[k] = data[k] /\ data[k] \in 1..Len(inodes)
    BY <1>3 DEF FilesGrow, GdsTypes
  <2>2. Gds!Whole(k)
    BY <1>3, <2>1 DEF PathsWhole
  <2>3. Grows(inodes[data[k]], inodes'[data[k]])
    BY <2>1 DEF FilesGrow
  <2> QED
    BY <2>1, <2>2, <2>3 DEF Gds!Whole, Grows
<1>4. PathsWhole => PathsWhole'
  BY <1>3 DEF PathsWhole
<1> QED
  BY <1>1, <1>2, <1>4 DEF FilesGrow, GdsTypes

\* A step of a save that writes to its file only.
LEMMA GrowingStep ==
    ASSUME GdsIInv, FilesGrow, Gds!SaveKeeps, NEW i \in Instances, NEW k \in GdsKeys,
           save[i][k].step # "none", NEW step \in SaveSteps \ {"insert", "none", "open"},
           NEW file \in Nat, StepOf(i, k, step, file),
           Gds!SuffixesDiffer /\ GdsInv /\ step \in {"meta", "cufile", "payload", "rename"} =>
             /\ tmp[Gds!Name(i, k)] # 0 /\ file = tmp[Gds!Name(i, k)]
             /\ step \in {"cufile", "payload", "rename"} => inodes'[file].meta = "cur"
             /\ step = "rename" => inodes'[file].payload
    PROVE  GdsIInv'
<1>1. GdsTypes /\ SuffixesOwn
  BY DEF GdsIInv
<1>2. /\ save' \in [Instances -> [GdsKeys -> [step : SaveSteps,
                                suffix : Gds!TmpSuffixes \union {<<0, 0>>}, inode : Nat]]]
      /\ save'[i][k].step = step /\ save'[i][k].inode = file
      /\ \A j \in Instances, l \in GdsKeys :
                /\ Gds!Name(j, l)' = Gds!Name(j, l)
                /\ j # i \/ l # k => save'[j][l] = save[j][l]
      /\ SuffixesOwn'
  BY <1>1, StepOfSave DEF SaveSteps
<1>3. GdsTypes' /\ (Gds!SuffixesDiffer' <=> Gds!SuffixesDiffer)
  <2>1. inodes' \in Seq(GdsFiles) /\ Len(inodes) <= Len(inodes')
    BY <1>1 DEF FilesGrow, GdsTypes
  <2> QED
    BY <1>1, <1>2, <2>1, GrowingFiles, GdsSaveKeepsRest
<1>4. ASSUME Gds!SuffixesDiffer PROVE GdsInv'
  <2>1. NamesApart /\ SavesWrite /\ PathsWhole /\ KnownHasPath /\ GdsInv
    BY <1>4 DEF GdsIInv, GdsInv
  <2>2. NamesApart' /\ PathsWhole'
    BY <1>1, <2>1, GrowingFiles
  <2>3. KnownHasPath'
    <3>1. hot_cache' = hot_cache /\ data' = data
      BY DEF Gds!SaveKeeps, FilesGrow
    <3>2. \A j \in Instances, l \in GdsKeys : save'[j][l].step = "insert"
            => save[j][l].step = "insert"
      BY <1>2
    <3> QED
      BY <2>1, <3>1, <3>2 DEF KnownHasPath, Gds!InHotCache
  <2>4. ASSUME NEW j \in Instances, NEW l \in GdsKeys,
               save'[j][l].step \in {"meta", "cufile", "payload", "rename"}
        PROVE  /\ tmp'[Gds!Name(j, l)] # 0 /\ save'[j][l].inode = tmp'[Gds!Name(j, l)]
               /\ save'[j][l].step \in {"cufile", "payload", "rename"} =>
                    inodes'[save'[j][l].inode].meta = "cur"
               /\ save'[j][l].step = "rename" => inodes'[save'[j][l].inode].payload
    <3>1. tmp' = tmp
      BY DEF FilesGrow
    <3>2. CASE j = i /\ l = k
      BY <1>2, <1>4, <2>1, <2>4, <3>1, <3>2
    <3>3. CASE j # i \/ l # k
      <4>1. save'[j][l] = save[j][l]
        BY <1>2, <3>3
      <4>2. tmp[Gds!Name(j, l)] # 0 /\ save[j][l].inode = tmp[Gds!Name(j, l)]
        BY <2>1, <2>4, <4>1 DEF SavesWrite
      <4>3. save[j][l].inode \in 1..Len(inodes)
        <5>1. save[j][l].step # "none" /\ Gds!Name(j, l) \in GdsKeys \X Gds!TmpSuffixes
          BY <1>1, <2>4, <4>1, NameIsName
        <5>2. tmp[Gds!Name(j, l)] \in 0 .. Len(inodes)
          BY <1>1, <5>1 DEF GdsTypes
        <5>3. Len(inodes) \in Nat
          BY <1>1, LenProperties DEF GdsTypes
        <5> QED
          BY ONLY <4>2, <5>2, <5>3
      <4>4. Grows(inodes[save[j][l].inode], inodes'[save[j][l].inode])
        BY <4>3 DEF FilesGrow
      <4> QED
        BY <2>1, <2>4, <3>1, <4>1, <4>2, <4>4 DEF SavesWrite, Grows
    <3> QED
      BY <3>2, <3>3
  <2>5. SavesWrite'
    BY <1>2, <2>4 DEF SavesWrite
  <2> QED
    BY <2>2, <2>3, <2>5 DEF GdsInv
<1> QED
  BY <1>2, <1>3, <1>4 DEF GdsIInv

\* One file is written to.
LEMMA OneFile ==
    ASSUME NEW s \in Seq(GdsFiles), NEW x \in Nat, NEW r, x \in 1..Len(s) => r \in GdsFiles
    PROVE  /\ [s EXCEPT ![x] = r] \in Seq(GdsFiles) /\ Len([s EXCEPT ![x] = r]) = Len(s)
           /\ \A f \in 1..Len(s) : [s EXCEPT ![x] = r][f] = IF f = x THEN r ELSE s[f]
<1>1. CASE x \in 1..Len(s)
  BY <1>1
<1>2. CASE x \notin 1..Len(s)
  <2>1. [s EXCEPT ![x] = r] = s
    BY <1>2
  <2> QED
    BY <1>2, <2>1
<1> QED
  BY <1>1, <1>2

LEMMA MetaOrPayload ==
    ASSUME NEW s \in Seq(GdsFiles), NEW x \in 1..Len(s)
    PROVE  /\ [s[x] EXCEPT !.meta = "cur"] \in GdsFiles
                /\ [s[x] EXCEPT !.meta = "cur"].meta = "cur"
           /\ [s[x] EXCEPT !.meta = "cur"].payload = s[x].payload
           /\ [s[x] EXCEPT !.payload = TRUE] \in GdsFiles
                   /\ [s[x] EXCEPT !.payload = TRUE].payload
           /\ [s[x] EXCEPT !.payload = TRUE].meta = s[x].meta
<1>1. PICK f \in GdsFiles : f = s[x]
  OBVIOUS
<1>2. /\ [f EXCEPT !.meta = "cur"] \in GdsFiles /\ [f EXCEPT !.meta = "cur"].meta = "cur"
      /\ [f EXCEPT !.meta = "cur"].payload = f.payload
  BY DEF GdsFiles
<1>3. /\ [f EXCEPT !.payload = TRUE] \in GdsFiles /\ [f EXCEPT !.payload = TRUE].payload
      /\ [f EXCEPT !.payload = TRUE].meta = f.meta
  BY DEF GdsFiles
<1> QED
  BY <1>1, <1>2, <1>3

LEMMA WriteMetadataStep ==
    ASSUME GdsIInv, NEW i \in Instances, NEW k \in GdsKeys, Gds!WriteMetadata(i, k)
    PROVE  GdsIInv'
<1> PICK x : x = save[i][k].inode
  OBVIOUS
<1>1. /\ GdsTypes /\ SuffixesOwn /\ save[i][k].step = "meta" /\ Gds!SaveKeeps
      /\ inodes' = [inodes EXCEPT ![x].meta = "cur"] /\ UNCHANGED <<tmp, data, setting>>
      /\ x \in Nat
  BY DEF GdsIInv, Gds!WriteMetadata, Gds!Saving, Gds!SaveKeeps, Gds!counters, GdsTypes
<1>2. StepOf(i, k, "cufile", x)
  BY DEF Gds!WriteMetadata, Gds!Moves, StepOf, GdsIInv, GdsTypes
<1>3. inodes \in Seq(GdsFiles) /\ Len(inodes) \in Nat
  BY <1>1 DEF GdsTypes
<1>4. FilesGrow /\ (x \in 1..Len(inodes) => inodes'[x].meta = "cur")
  <2>1. /\ inodes' \in Seq(GdsFiles) /\ Len(inodes') = Len(inodes)
        /\ \A f \in 1..Len(inodes) : /\ inodes'[f].payload = inodes[f].payload
                                     /\ inodes'[f].meta = IF f = x THEN "cur" ELSE inodes[f].meta
    <3>1. PICK r : r = [inodes[x] EXCEPT !.meta = "cur"]
      OBVIOUS
    <3>2. x \in 1..Len(inodes) => r \in GdsFiles /\ r.meta = "cur"
            /\ r.payload = inodes[x].payload
      BY <1>3, <3>1, MetaOrPayload
    <3>3. PICK t : t = [inodes EXCEPT ![x] = r]
      OBVIOUS
    <3>4. /\ t \in Seq(GdsFiles) /\ Len(t) = Len(inodes)
          /\ \A f \in 1..Len(inodes) : t[f] = IF f = x THEN r ELSE inodes[f]
      BY <1>1, <1>3, <3>2, <3>3, OneFile
    <3>5. inodes' = t
      BY <1>1, <3>1, <3>3
    <3> QED
      BY <3>2, <3>4, <3>5
  <2> QED
    BY SMTT(40), <1>1, <2>1 DEF FilesGrow, Grows
<1>5. ASSUME Gds!SuffixesDiffer, GdsInv
      PROVE  tmp[Gds!Name(i, k)] # 0 /\ x = tmp[Gds!Name(i, k)] /\ inodes'[x].meta = "cur"
  <2>1. tmp[Gds!Name(i, k)] # 0 /\ x = tmp[Gds!Name(i, k)]
    BY <1>1, <1>5 DEF GdsInv, SavesWrite
  <2>2. x \in 1..Len(inodes)
    BY <1>1, <2>1, NameIsName DEF GdsTypes
  <2> QED
    BY <1>4, <2>1, <2>2
<1> QED
  BY <1>1, <1>2, <1>4, <1>5, GrowingStep DEF SaveSteps

LEMMA OpenCuFileStep ==
    ASSUME GdsIInv, NEW i \in Instances, NEW k \in GdsKeys, Gds!OpenCuFile(i, k)
    PROVE  GdsIInv'
<1> PICK x, step : x = tmp[Gds!Name(i, k)] /\ step = IF x = 0 THEN "raised" ELSE "payload"
  OBVIOUS
<1>1. /\ GdsTypes /\ SuffixesOwn /\ save[i][k].step = "cufile" /\ Gds!SaveKeeps
      /\ UNCHANGED <<inodes, tmp, data, setting>>
  BY DEF GdsIInv, Gds!OpenCuFile, Gds!Saving, Gds!SaveKeeps, Gds!counters, Gds!files
<1>2. x \in Nat
  BY <1>1, NameIsName DEF GdsTypes
<1>3. StepOf(i, k, step, x)
  BY DEF Gds!OpenCuFile, StepOf, GdsIInv, GdsTypes
<1>4. FilesGrow
  BY <1>1 DEF FilesGrow, Grows, GdsTypes
<1>5. ASSUME Gds!SuffixesDiffer, GdsInv PROVE x # 0 /\ inodes'[x].meta = "cur"
  BY <1>1, <1>5 DEF GdsInv, SavesWrite
<1> QED
  BY <1>1, <1>2, <1>3, <1>4, <1>5, GrowingStep DEF SaveSteps

LEMMA WritePayloadStep ==
    ASSUME GdsIInv, NEW i \in Instances, NEW k \in GdsKeys, Gds!WritePayload(i, k)
    PROVE  GdsIInv'
<1> PICK x : x = save[i][k].inode
  OBVIOUS
<1>1. /\ GdsTypes /\ SuffixesOwn /\ save[i][k].step = "payload" /\ Gds!SaveKeeps
      /\ inodes' = [inodes EXCEPT ![x].payload = TRUE] /\ UNCHANGED <<tmp, data, setting>>
      /\ x \in Nat
  BY DEF GdsIInv, Gds!WritePayload, Gds!Saving, Gds!SaveKeeps, Gds!counters, GdsTypes
<1>2. StepOf(i, k, "rename", x)
  BY DEF Gds!WritePayload, Gds!Moves, StepOf, GdsIInv, GdsTypes
<1>3. inodes \in Seq(GdsFiles) /\ Len(inodes) \in Nat
  BY <1>1 DEF GdsTypes
<1>4. FilesGrow /\ (x \in 1..Len(inodes) => inodes'[x].meta = inodes[x].meta
        /\ inodes'[x].payload)
  <2>1. /\ inodes' \in Seq(GdsFiles) /\ Len(inodes') = Len(inodes)
        /\ \A f \in 1..Len(inodes) : /\ inodes'[f].meta = inodes[f].meta
                                     /\ inodes'[f].payload = IF f = x THEN TRUE ELSE inodes[f].payload
    <3>1. PICK r : r = [inodes[x] EXCEPT !.payload = TRUE]
      OBVIOUS
    <3>2. x \in 1..Len(inodes) => r \in GdsFiles /\ r.payload = TRUE /\ r.meta = inodes[x].meta
      BY <1>3, <3>1, MetaOrPayload
    <3>3. PICK t : t = [inodes EXCEPT ![x] = r]
      OBVIOUS
    <3>4. /\ t \in Seq(GdsFiles) /\ Len(t) = Len(inodes)
          /\ \A f \in 1..Len(inodes) : t[f] = IF f = x THEN r ELSE inodes[f]
      BY <1>1, <1>3, <3>2, <3>3, OneFile
    <3>5. inodes' = t
      BY <1>1, <3>1, <3>3
    <3> QED
      BY <3>2, <3>4, <3>5
  <2> QED
    BY <1>1, <2>1 DEF FilesGrow, Grows
<1>5. ASSUME Gds!SuffixesDiffer, GdsInv
      PROVE  /\ tmp[Gds!Name(i, k)] # 0 /\ x = tmp[Gds!Name(i, k)]
             /\ inodes'[x].meta = "cur" /\ inodes'[x].payload
  <2>1. tmp[Gds!Name(i, k)] # 0 /\ x = tmp[Gds!Name(i, k)] /\ inodes[x].meta = "cur"
    BY <1>1, <1>5 DEF GdsInv, SavesWrite
  <2>2. x \in 1..Len(inodes)
    BY <1>1, <2>1, NameIsName DEF GdsTypes
  <2> QED
    BY <1>4, <2>1, <2>2
<1> QED
  BY <1>1, <1>2, <1>4, <1>5, GrowingStep DEF SaveSteps

\* A whole file gets to its path, under a name that nobody writes to any more.
LEMMA RenameStep ==
    ASSUME GdsIInv, NEW i \in Instances, NEW k \in GdsKeys, Gds!Rename(i, k)
    PROVE  GdsIInv'
<1> PICK n, x, old : n = Gds!Name(i, k) /\ x = tmp[n] /\ old = save[i][k].inode
  OBVIOUS
<1>1. /\ GdsTypes /\ SuffixesOwn /\ save[i][k].step = "rename" /\ Gds!SaveKeeps
      /\ UNCHANGED <<inodes, setting>> /\ old \in Nat
  BY DEF GdsIInv, Gds!Rename, Gds!Saving, Gds!SaveKeeps, Gds!counters, GdsTypes
<1>2. n \in GdsKeys \X Gds!TmpSuffixes /\ x \in 0..Len(inodes) /\ Len(inodes) \in Nat
  BY <1>1, NameIsName DEF GdsTypes
<1>3. CASE x = 0
  <2>1. StepOf(i, k, "raised", old) /\ UNCHANGED <<tmp, data>>
    BY <1>3 DEF Gds!Rename, Gds!Moves, StepOf, GdsIInv, GdsTypes
  <2>2. FilesGrow
    BY <1>1, <2>1 DEF FilesGrow, Grows, GdsTypes
  <2> QED
    BY <1>1, <2>1, <2>2, GrowingStep DEF SaveSteps
<1>4. CASE x # 0
  <2>1. /\ StepOf(i, k, "insert", old)
        /\ data' = [data EXCEPT ![k] = x] /\ tmp' = [tmp EXCEPT ![n] = 0]
    BY <1>4 DEF Gds!Rename, Gds!Moves, StepOf, GdsIInv, GdsTypes
  <2>2. /\ data' \in [GdsKeys -> 0..Len(inodes)]
          /\ tmp' \in [GdsKeys \X Gds!TmpSuffixes -> 0..Len(inodes)]
        /\ data'[k] = x /\ \A l \in GdsKeys : l # k => data'[l] = data[l]
        /\ tmp'[n] = 0 /\ \A m \in GdsKeys \X Gds!TmpSuffixes : m # n => tmp'[m] = tmp[m]
    BY <1>1, <1>2, <2>1 DEF GdsTypes
  <2>3. /\ save' \in [Instances -> [GdsKeys -> [step : SaveSteps,
                                  suffix : Gds!TmpSuffixes \union {<<0, 0>>}, inode : Nat]]]
        /\ save'[i][k].step = "insert"
        /\ \A j \in Instances, l \in GdsKeys :
                  /\ Gds!Name(j, l)' = Gds!Name(j, l)
                  /\ j # i \/ l # k => save'[j][l] = save[j][l]
        /\ SuffixesOwn'
    BY <1>1, <2>1, StepOfSave DEF SaveSteps
  <2>4. GdsTypes' /\ (Gds!SuffixesDiffer' <=> Gds!SuffixesDiffer)
    <3>1. inodes' \in Seq(GdsFiles) /\ Len(inodes) <= Len(inodes') /\ Len(inodes') = Len(inodes)
      BY <1>1, <1>2 DEF GdsTypes
    <3> QED
      BY <1>1, <2>2, <2>3, <3>1, GdsSaveKeepsRest
  <2>5. ASSUME Gds!SuffixesDiffer PROVE GdsInv'
    <3>1. NamesApart /\ SavesWrite /\ PathsWhole /\ KnownHasPath
      BY <2>5 DEF GdsIInv, GdsInv
    <3>2. x = old /\ inodes[x].meta = "cur" /\ inodes[x].payload
      BY <1>1, <3>1 DEF SavesWrite
    <3>3. Gds!TmpSuffixes' = Gds!TmpSuffixes
      BY <1>1 DEF Gds!TmpSuffixes
    <3>4. NamesApart'
      <4>1. ASSUME NEW l \in GdsKeys \X Gds!TmpSuffixes, NEW m \in GdsKeys \X Gds!TmpSuffixes,
                   tmp'[l] # 0, tmp'[l] = tmp'[m]
            PROVE  l = m
        BY <2>2, <3>1, <4>1 DEF NamesApart
      <4>2. ASSUME NEW m \in GdsKeys \X Gds!TmpSuffixes, NEW l \in GdsKeys, tmp'[m] # 0
            PROVE  tmp'[m] # data'[l]
        BY <1>2, <2>2, <3>1, <4>2 DEF NamesApart
      <4> QED
        BY <3>3, <4>1, <4>2 DEF NamesApart
    <3>5. PathsWhole'
      <4>1. ASSUME NEW l \in GdsKeys, data'[l] # 0 PROVE Gds!Whole(l)'
        BY <1>1, <1>4, <2>2, <3>1, <3>2, <4>1 DEF PathsWhole, Gds!Whole
      <4> QED
        BY <4>1 DEF PathsWhole
    <3>6. KnownHasPath'
      <4>1. hot_cache' = hot_cache
        BY <1>1 DEF Gds!SaveKeeps
      <4>2. ASSUME NEW j \in Instances, NEW l \in GdsKeys,
                   Gds!InHotCache(j, l) \/ save'[j][l].step = "insert"
            PROVE  data'[l] # 0
        <5>1. CASE l = k
          BY <1>4, <2>2, <5>1
        <5>2. CASE l # k
          <6>1. save'[j][l] = save[j][l] /\ data'[l] = data[l]
            BY <2>2, <2>3, <5>2
          <6> QED
            BY <3>1, <4>2, <6>1 DEF KnownHasPath
        <5> QED
          BY <5>1, <5>2
      <4> QED
        BY <4>1, <4>2 DEF KnownHasPath, Gds!InHotCache
    <3>7. ASSUME NEW j \in Instances, NEW l \in GdsKeys,
                 save'[j][l].step \in {"meta", "cufile", "payload", "rename"}
          PROVE  /\ tmp'[Gds!Name(j, l)] # 0 /\ save'[j][l].inode = tmp'[Gds!Name(j, l)]
                 /\ save'[j][l].step \in {"cufile", "payload", "rename"} =>
                      inodes'[save'[j][l].inode].meta = "cur"
                 /\ save'[j][l].step = "rename" => inodes'[save'[j][l].inode].payload
      <4>1. j # i \/ l # k
        BY <2>3, <3>7
      <4>2. save'[j][l] = save[j][l]
        BY <2>3, <4>1
      <4>3. Gds!Name(j, l) \in GdsKeys \X Gds!TmpSuffixes /\ Gds!Name(j, l) # n
        BY <1>1, <2>5, <3>7, <4>1, <4>2, NamesDiffer, NameIsName
      <4>4. tmp'[Gds!Name(j, l)] = tmp[Gds!Name(j, l)]
        BY <2>2, <4>3
      <4> QED
        BY <1>1, <3>1, <3>7, <4>2, <4>4 DEF SavesWrite
    <3>8. SavesWrite'
      BY <2>3, <3>7 DEF SavesWrite
    <3> QED
      BY <3>4, <3>5, <3>6, <3>8 DEF GdsInv
  <2> QED
    BY <2>3, <2>4, <2>5 DEF GdsIInv
<1> QED
  BY <1>3, <1>4

-----------------------------------------------------------------------------
(* The steps that leave the files alone.                                   *)
LEMMA FilesKept ==
    ASSUME GdsIInv, UNCHANGED <<inodes, tmp, data, setting>>,
           hot_cache' \in [Instances -> SUBSET (GdsKeys \X {"own", "cut"})],
           drawn' \in [Instances -> Nat],
           save' \in [Instances -> [GdsKeys -> [step : SaveSteps,
                             suffix : Gds!TmpSuffixes \union {<<0, 0>>}, inode : Nat]]],
           \A i \in Instances, k \in GdsKeys :
             \/ save'[i][k] = save[i][k]
             \/ save'[i][k].step = "none"
             \/ /\ save'[i][k].step = "open"
                /\ save'[i][k].suffix \in {setting.seed[i]} \X (1..MaxDraws),
           Gds!SuffixesDiffer /\ GdsInv =>
             \A i \in Instances, k \in GdsKeys : Gds!InHotCache(i, k)' => data[k] # 0
    PROVE  GdsIInv'
<1>1. Gds!TmpSuffixes' = Gds!TmpSuffixes /\ (Gds!SuffixesDiffer' <=> Gds!SuffixesDiffer)
  BY DEF Gds!TmpSuffixes, Gds!SuffixesDiffer
<1>2. GdsTypes'
  BY <1>1 DEF GdsIInv, GdsTypes
<1>3. SuffixesOwn'
  <2>1. ASSUME NEW j \in Instances, NEW l \in GdsKeys, save'[j][l].step # "none"
        PROVE  save'[j][l].suffix \in {setting.seed[j]} \X (1..MaxDraws)
    <3>1. CASE save'[j][l] = save[j][l]
      BY <2>1, <3>1 DEF GdsIInv, SuffixesOwn
    <3> QED
      BY <2>1, <3>1
  <2> QED
    BY <2>1 DEF SuffixesOwn
<1>4. ASSUME Gds!SuffixesDiffer PROVE GdsInv'
  <2>1. GdsInv /\ NamesApart /\ SavesWrite /\ PathsWhole /\ KnownHasPath
    BY <1>4 DEF GdsIInv, GdsInv
  <2>2. NamesApart' /\ PathsWhole'
    BY <1>1, <2>1 DEF NamesApart, PathsWhole, Gds!Whole
  <2>3. KnownHasPath'
    BY SMTT(20), <1>4, <2>1 DEF KnownHasPath
  <2>4. SavesWrite'
    <3>1. ASSUME NEW j \in Instances, NEW l \in GdsKeys,
                 save'[j][l].step \in {"meta", "cufile", "payload", "rename"}
          PROVE  /\ tmp'[Gds!Name(j, l)'] # 0 /\ save'[j][l].inode = tmp'[Gds!Name(j, l)']
                 /\ save'[j][l].step \in {"cufile", "payload", "rename"} =>
                      inodes'[save'[j][l].inode].meta = "cur"
                 /\ save'[j][l].step = "rename" => inodes'[save'[j][l].inode].payload
      <4>1. save'[j][l] = save[j][l]
        BY <3>1
      <4>2. Gds!Name(j, l)' = Gds!Name(j, l)
        BY <4>1 DEF Gds!Name
      <4> QED
        BY <2>1, <3>1, <4>1, <4>2 DEF SavesWrite
    <3> QED
      BY <3>1 DEF SavesWrite
  <2> QED
    BY <2>2, <2>3, <2>4 DEF GdsInv
<1> QED
  BY <1>1, <1>2, <1>3, <1>4 DEF GdsIInv

\* A save that ends: its key is in the hot cache, and its file at the path.
LEMMA InsertStep ==
    ASSUME GdsIInv, NEW i \in Instances, NEW k \in GdsKeys, Gds!Insert(i, k)
    PROVE  GdsIInv'
<1>1. /\ UNCHANGED <<inodes, tmp, data, setting, drawn>> /\ GdsTypes
      /\ save[i][k].step = "insert" /\ Gds!NoSave.step = "none"
      /\ save' = [save EXCEPT ![i][k] = Gds!NoSave]
      /\ hot_cache' = [hot_cache EXCEPT ![i] = @ \union {<<k, "own">>}]
  BY DEF GdsIInv, Gds!Insert, Gds!Saving, Gds!files, Gds!counters, Gds!NoSave
<1>2. Gds!NoSave \in [step : SaveSteps, suffix : Gds!TmpSuffixes \union {<<0, 0>>}, inode : Nat]
  BY DEF Gds!NoSave, SaveSteps
<1>3. /\ save' \in [Instances -> [GdsKeys -> [step : SaveSteps,
                             suffix : Gds!TmpSuffixes \union {<<0, 0>>}, inode : Nat]]]
      /\ save'[i][k] = Gds!NoSave
      /\ \A j \in Instances, l \in GdsKeys : j # i \/ l # k => save'[j][l] = save[j][l]
  BY <1>1, <1>2 DEF GdsTypes
<1>4. /\ hot_cache' \in [Instances -> SUBSET (GdsKeys \X {"own", "cut"})]
      /\ \A j \in Instances, l \in GdsKeys :
           <<l, "own">> \in hot_cache'[j] => <<l, "own">> \in hot_cache[j] \/ (j = i /\ l = k)
  BY <1>1 DEF GdsTypes
<1>5. ASSUME Gds!SuffixesDiffer, GdsInv, NEW j \in Instances, NEW l \in GdsKeys,
              Gds!InHotCache(j, l)'
      PROVE  data[l] # 0
  BY <1>1, <1>4, <1>5 DEF GdsInv, KnownHasPath, Gds!InHotCache
<1> QED
  BY <1>1, <1>3, <1>4, <1>5, FilesKept DEF GdsTypes

LEMMA SaveMetadataStep ==
    ASSUME GdsIInv, NEW i \in Instances, NEW k \in GdsKeys, Gds!SaveMetadata(i, k)
    PROVE  GdsIInv'
<1>1. UNCHANGED <<inodes, tmp, data, setting, drawn, hot_cache, save>> /\ GdsTypes
  BY DEF GdsIInv, Gds!SaveMetadata, Gds!counters
<1> QED
  BY <1>1, FilesKept DEF GdsTypes, GdsInv, KnownHasPath, Gds!InHotCache

\* What the scan finds is not under a key that is looked up.
LEMMA ScanStep ==
    ASSUME GdsIInv, NEW i \in Instances, Gds!Scan(i)
    PROVE  GdsIInv'
<1>1. PICK found \in SUBSET GdsKeys :
        hot_cache' = [hot_cache EXCEPT ![i] = @ \union {Gds!ScannedEntry(k) : k \in found}]
  BY DEF Gds!Scan
<1>2. UNCHANGED <<inodes, tmp, data, setting, drawn, save>> /\ GdsTypes
  BY DEF GdsIInv, Gds!Scan, Gds!files, Gds!counters
<1>3. /\ hot_cache' \in [Instances -> SUBSET (GdsKeys \X {"own", "cut"})]
      /\ \A j \in Instances, l \in GdsKeys :
           <<l, "own">> \in hot_cache'[j] => <<l, "own">> \in hot_cache[j]
  BY <1>1, <1>2 DEF GdsTypes, Gds!ScannedEntry
<1>4. ASSUME Gds!SuffixesDiffer, GdsInv, NEW j \in Instances, NEW l \in GdsKeys,
              Gds!InHotCache(j, l)'
      PROVE  data[l] # 0
  BY <1>3, <1>4 DEF GdsInv, KnownHasPath, Gds!InHotCache
<1> QED
  BY <1>2, <1>3, <1>4, FilesKept DEF GdsTypes

\* A crash leaves the files as they are: what was being saved stays under its
\* temporary name.
LEMMA CrashStep ==
    ASSUME GdsIInv, NEW i \in Instances, Gds!Crash(i)
    PROVE  GdsIInv'
<1>1. /\ UNCHANGED <<inodes, tmp, data, setting, drawn>> /\ GdsTypes
      /\ hot_cache' = [hot_cache EXCEPT ![i] = {}]
      /\ save' = [save EXCEPT ![i] = [k \in GdsKeys |-> Gds!NoSave]]
  BY DEF GdsIInv, Gds!Crash, Gds!files, Gds!Fresh
<1>2. Gds!NoSave \in [step : SaveSteps, suffix : Gds!TmpSuffixes \union {<<0, 0>>}, inode : Nat]
      /\ Gds!NoSave.step = "none"
  BY DEF Gds!NoSave, SaveSteps
<1>3. /\ hot_cache' \in [Instances -> SUBSET (GdsKeys \X {"own", "cut"})]
      /\ \A j \in Instances, l \in GdsKeys :
           <<l, "own">> \in hot_cache'[j] => <<l, "own">> \in hot_cache[j]
  BY <1>1 DEF GdsTypes
<1>4. /\ save' \in [Instances -> [GdsKeys -> [step : SaveSteps,
                             suffix : Gds!TmpSuffixes \union {<<0, 0>>}, inode : Nat]]]
      /\ \A j \in Instances, l \in GdsKeys :
            save'[j][l] = save[j][l] \/ save'[j][l].step = "none"
  BY <1>1, <1>2 DEF GdsTypes
<1>5. ASSUME Gds!SuffixesDiffer, GdsInv, NEW j \in Instances, NEW l \in GdsKeys,
              Gds!InHotCache(j, l)'
      PROVE  data[l] # 0
  BY <1>3, <1>5 DEF GdsInv, KnownHasPath, Gds!InHotCache
<1> QED
  BY <1>1, <1>3, <1>4, <1>5, FilesKept DEF GdsTypes

LEMMA RestartStep ==
    ASSUME GdsIInv, NEW i \in Instances, Gds!Restart(i)
    PROVE  GdsIInv'
<1>1. /\ UNCHANGED <<inodes, tmp, data, setting, hot_cache, save>> /\ GdsTypes
      /\ drawn' \in [Instances -> Nat]
  BY DEF GdsIInv, Gds!Restart, Gds!files, Gds!counters, GdsTypes
<1> QED
  BY <1>1, FilesKept DEF GdsTypes, GdsInv, KnownHasPath, Gds!InHotCache

\* contains enters what it finds at the path.
LEMMA LookupStep ==
    ASSUME GdsIInv, NEW i \in Instances, NEW k \in GdsKeys, Gds!Lookup(i, k)
    PROVE  GdsIInv'
<1>1. UNCHANGED <<inodes, tmp, data, setting, drawn, save>> /\ GdsTypes
  BY DEF GdsIInv, Gds!Lookup, Gds!files, Gds!counters
<1>2. \/ hot_cache' = hot_cache
      \/ data[k] # 0 /\ hot_cache' = [hot_cache EXCEPT ![i] = @ \union {<<k, "own">>}]
  BY DEF Gds!Lookup, Gds!TryToReadMetadata
<1>3. /\ hot_cache' \in [Instances -> SUBSET (GdsKeys \X {"own", "cut"})]
      /\ \A j \in Instances, l \in GdsKeys : <<l, "own">> \in hot_cache'[j] =>
           <<l, "own">> \in hot_cache[j] \/ data[l] # 0
  <2>1. CASE hot_cache' = hot_cache
    BY <1>1, <2>1 DEF GdsTypes
  <2>2. CASE data[k] # 0 /\ hot_cache' = [hot_cache EXCEPT ![i] = @ \union {<<k, "own">>}]
    <3>1. /\ hot_cache' \in [Instances -> SUBSET (GdsKeys \X {"own", "cut"})]
          /\ hot_cache'[i] = hot_cache[i] \union {<<k, "own">>}
          /\ \A j \in Instances : j # i => hot_cache'[j] = hot_cache[j]
      BY <1>1, <2>2 DEF GdsTypes
    <3> QED
      BY <2>2, <3>1
  <2> QED
    BY <1>2, <2>1, <2>2
<1>4. ASSUME Gds!SuffixesDiffer, GdsInv, NEW j \in Instances, NEW l \in GdsKeys,
              Gds!InHotCache(j, l)'
      PROVE  data[l] # 0
  BY <1>3, <1>4 DEF GdsInv, KnownHasPath, Gds!InHotCache
<1> QED
  BY <1>1, <1>3, <1>4, FilesKept DEF GdsTypes

LEMMA PutStep ==
    ASSUME GdsIInv, NEW i \in Instances, NEW k \in GdsKeys, Gds!Put(i, k)
    PROVE  GdsIInv'
<1>1. UNCHANGED <<inodes, tmp, data, setting, hot_cache>> /\ GdsTypes
  BY DEF GdsIInv, Gds!Put, Gds!files, Gds!counters
<1>2. CASE UNCHANGED <<save, drawn>>
  BY <1>1, <1>2, FilesKept DEF GdsTypes, GdsInv, KnownHasPath, Gds!InHotCache
<1>3. CASE drawn[i] < MaxDraws /\ drawn' = [drawn EXCEPT ![i] = @ + 1]
  <2>1. PICK n : n = drawn[i] + 1
    OBVIOUS
  <2>2. n \in 1..MaxDraws /\ drawn' \in [Instances -> Nat]
    BY <1>1, <1>3, <2>1, MoreSettings DEF GdsTypes
  <2>3. PICK r : r = [step |-> "open", inode |-> 0, suffix |-> <<setting.seed[i], n>>]
    OBVIOUS
  <2>4. CASE save' = save
    BY <1>1, <2>2, <2>4, FilesKept DEF GdsTypes, GdsInv, KnownHasPath, Gds!InHotCache
  <2>5. CASE save' = [save EXCEPT ![i][k] = r]
    <3>1. setting.seed[i] \in Gds!Range(setting.seed)
      BY <1>1, MoreSettings
    <3>2. r \in [step : SaveSteps, suffix : Gds!TmpSuffixes \union {<<0, 0>>}, inode : Nat]
      BY <2>2, <2>3, <3>1 DEF SaveSteps, Gds!TmpSuffixes
    <3>3. /\ save' \in [Instances -> [GdsKeys -> [step : SaveSteps,
                             suffix : Gds!TmpSuffixes \union {<<0, 0>>}, inode : Nat]]]
          /\ save'[i][k] = r
          /\ \A j \in Instances, l \in GdsKeys : j # i \/ l # k => save'[j][l] = save[j][l]
      BY <1>1, <2>5, <3>2 DEF GdsTypes
    <3>4. r.step = "open" /\ r.suffix \in {setting.seed[i]} \X (1..MaxDraws)
      BY <2>2, <2>3
    <3> QED
      BY <1>1, <2>2, <3>3, <3>4, FilesKept DEF GdsTypes, GdsInv, KnownHasPath, Gds!InHotCache
  <2> QED
    BY <2>1, <2>3, <2>4, <2>5 DEF Gds!Put
<1> QED
  BY <1>2, <1>3 DEF Gds!Put

LEMMA LoadErrorStep ==
    ASSUME GdsIInv, NEW i \in Instances, NEW k \in GdsKeys, Gds!LoadError(i, k)
    PROVE  GdsIInv'
<1>1. /\ UNCHANGED <<inodes, tmp, data, setting, drawn, save>> /\ GdsTypes
      /\ hot_cache' = [hot_cache EXCEPT ![i] = @ \ {<<k, "own">>}]
  BY DEF GdsIInv, Gds!LoadError, Gds!files
<1>2. /\ hot_cache' \in [Instances -> SUBSET (GdsKeys \X {"own", "cut"})]
      /\ \A j \in Instances, l \in GdsKeys :
           <<l, "own">> \in hot_cache'[j] => <<l, "own">> \in hot_cache[j]
  BY <1>1 DEF GdsTypes
<1>3. ASSUME Gds!SuffixesDiffer, GdsInv, NEW j \in Instances, NEW l \in GdsKeys,
              Gds!InHotCache(j, l)'
      PROVE  data[l] # 0
  BY <1>2, <1>3 DEF GdsInv, KnownHasPath, Gds!InHotCache
<1> QED
  BY <1>1, <1>2, <1>3, FilesKept DEF GdsTypes

LEMMA GdsStepIInv == ASSUME GdsIInv, [Gds!Next]_(Gds!vars) PROVE GdsIInv'
<1>1. CASE UNCHANGED Gds!vars
  BY <1>1, FilesKept DEF Gds!vars, GdsIInv, GdsTypes, GdsInv, KnownHasPath, Gds!InHotCache
<1>2. ASSUME NEW i \in Instances, NEW k \in GdsKeys, Gds!SaveStep(i, k) PROVE GdsIInv'
  BY <1>2, OpenStep, WriteMetadataStep, OpenCuFileStep, WritePayloadStep, RenameStep, InsertStep
     DEF Gds!SaveStep
<1> QED
  BY <1>1, <1>2, ScanStep, CrashStep, RestartStep, LookupStep, PutStep, SaveMetadataStep,
     LoadErrorStep DEF Gds!Next

\* A step of the run is a step, or none, of the GDS backend.
LEMMA GdsRuns == [MCNext]_all => [Gds!Next]_(Gds!vars)
BY DEF MCNext, all, gvars, Gds!vars

\* A save of an instance goes on with the file that it opened under a name of its
\* own, and a path names a whole file, through crashes and restarts.
THEOREM GdsIInvInvariant == MCSpec => []GdsIInv
<1>1. MCInit => GdsIInv
  BY GdsInitIInv DEF MCInit
<1>2. GdsIInv /\ [MCNext]_all => GdsIInv'
  BY GdsStepIInv, GdsRuns
<1> QED
  BY <1>1, <1>2, PTL DEF MCSpec

-----------------------------------------------------------------------------
\* The file of a chunk that an instance knows is whole: it is renamed to its
\* path when it has been written, and nobody writes to it there, whatever
\* instance crashes between two steps of its save.
THEOREM AdvertisedIsWholeHolds == MCSpec => []AdvertisedIsWhole
<1>1. GdsIInv => AdvertisedIsWhole
  BY DEF AdvertisedIsWhole, GdsIInv, GdsInv, Gds!AdvertisedIsWhole, PathsWhole, KnownHasPath
<1> QED
  BY <1>1, GdsIInvInvariant, PTL

\* A path that has a file keeps one.
LEMMA PathStays ==
    ASSUME GdsIInv, [Gds!Next]_(Gds!vars), NEW k \in GdsKeys, data[k] # 0
    PROVE  data'[k] # 0
<1>1. ASSUME NEW i \in Instances, NEW l \in GdsKeys, Gds!Rename(i, l) PROVE data'[k] # 0
  BY <1>1 DEF Gds!Rename, GdsIInv, GdsTypes
<1>2. ASSUME NEW i \in Instances, NEW l \in GdsKeys, Gds!SaveStep(i, l), ~Gds!Rename(i, l)
      PROVE  data' = data
  BY <1>2 DEF Gds!SaveStep, Gds!Open, Gds!WriteMetadata, Gds!OpenCuFile, Gds!WritePayload,
          Gds!Insert, Gds!files
<1>3. \/ data' = data
      \/ \E i \in Instances, l \in GdsKeys : Gds!SaveStep(i, l)
  BY DEF Gds!Next, Gds!Scan, Gds!Crash, Gds!Restart, Gds!Lookup, Gds!Put, Gds!SaveMetadata,
          Gds!LoadError, Gds!files, Gds!vars
<1> QED
  BY <1>1, <1>2, <1>3

\* A file that is whole stays so.
THEOREM StoredStaysHolds == MCSpec => Gds!StoredStays
<1>1. ASSUME GdsIInv, GdsIInv', [Gds!Next]_(Gds!vars)
      PROVE  [Gds!SuffixesDiffer => \A k \in GdsKeys : Gds!Whole(k) => Gds!Whole(k)']_(Gds!vars)
  <2>1. Gds!SuffixesDiffer => Gds!SuffixesDiffer'
    <3>1. ASSUME NEW i \in Instances, NEW k \in GdsKeys, Gds!SaveStep(i, k)
                  PROVE setting' = setting
      BY <3>1 DEF Gds!SaveStep, Gds!Open, Gds!WriteMetadata, Gds!OpenCuFile, Gds!WritePayload,
              Gds!Rename, Gds!Insert,
             Gds!SaveKeeps, Gds!counters
    <3>2. ASSUME NEW i \in Instances, Gds!Scan(i) \/ Gds!Crash(i) \/ Gds!Restart(i)
                  PROVE setting' = setting
      BY <3>2 DEF Gds!Scan, Gds!Crash, Gds!Restart, Gds!counters
    <3>3. ASSUME NEW i \in Instances, NEW k \in GdsKeys,
                 Gds!Lookup(i, k) \/ Gds!Put(i, k) \/ Gds!SaveMetadata(i,
                         k) \/ Gds!LoadError(i, k)
          PROVE  setting' = setting
      BY <3>3 DEF Gds!Lookup, Gds!Put, Gds!SaveMetadata, Gds!LoadError, Gds!counters
    <3>4. setting' = setting
      BY <1>1, <3>1, <3>2, <3>3 DEF Gds!Next, Gds!vars
    <3> QED
      BY <3>4 DEF Gds!SuffixesDiffer
  <2>2. ASSUME Gds!SuffixesDiffer, NEW k \in GdsKeys, Gds!Whole(k) PROVE Gds!Whole(k)'
    <3>1. data'[k] # 0
      BY <1>1, <2>2, PathStays DEF Gds!Whole
    <3>2. PathsWhole'
      BY <1>1, <2>1, <2>2 DEF GdsIInv, GdsInv
    <3> QED
      BY <3>1, <3>2 DEF PathsWhole
  <2> QED
    BY <2>2
<1> QED
  BY <1>1, GdsRuns, GdsIInvInvariant, PTL DEF Gds!StoredStays, MCSpec

\* What an engine finds to be absent is not there in the current version: it
\* looks at the file, and not only at what it remembers of the time before a
\* restart.
THEOREM LookupFindsStoredHolds == MCSpec => LookupFindsStored
<1>1. ASSUME [Gds!Next]_(Gds!vars), GdsIInv
      PROVE  [\A i \in Instances : \A k \in missed'[i] \ missed[i] :
                ~(Gds!Whole(k) /\ inodes[data[k]].meta = "cur")]_(Gds!vars)
  <2>1. ASSUME NEW i \in Instances, NEW k \in GdsKeys, Gds!Lookup(i, k),
               NEW j \in Instances, NEW l \in missed'[j] \ missed[j]
        PROVE  ~(Gds!Whole(l) /\ inodes[data[l]].meta = "cur")
    <3>1. missed' = [missed EXCEPT ![i] = @ \union {k}] /\ Gds!TryToReadMetadata(k) = "absent"
      BY <2>1 DEF Gds!Lookup
    <3>2. l = k
      BY <2>1, <3>1
    <3>3. ~(Gds!Whole(k) /\ inodes[data[k]].meta = "cur")
      BY <3>1 DEF Gds!TryToReadMetadata, Gds!Whole, Gds!GdsUnpacks, Gds!WekaUnpacks
    <3> QED
      BY <3>2, <3>3
  <2>2. ASSUME NEW i \in Instances, NEW k \in GdsKeys,
               Gds!SaveStep(i, k) \/ Gds!SaveMetadata(i, k) \/ Gds!LoadError(i, k)
        PROVE  missed' = missed
    BY <2>2 DEF Gds!SaveStep, Gds!Open, Gds!WriteMetadata, Gds!OpenCuFile, Gds!WritePayload,
            Gds!Rename, Gds!Insert,
           Gds!SaveKeeps, Gds!SaveMetadata, Gds!LoadError
  <2>3. ASSUME NEW i \in Instances, Gds!Scan(i) \/ Gds!Restart(i) PROVE missed' = missed
    BY <2>3 DEF Gds!Scan, Gds!Restart
  <2>4. ASSUME NEW i \in Instances, Gds!Crash(i), NEW j \in Instances
        PROVE  missed'[j] \ missed[j] = {}
    BY <2>4 DEF Gds!Crash, Gds!Fresh
  <2>5. ASSUME NEW i \in Instances, NEW k \in GdsKeys, Gds!Put(i, k), NEW j \in Instances
        PROVE  missed'[j] \ missed[j] = {}
    BY <2>5 DEF Gds!Put
  <2> QED
    BY <1>1, <2>1, <2>2, <2>3, <2>4, <2>5 DEF Gds!Next
<1> QED
  BY <1>1, GdsRuns, GdsIInvInvariant, PTL DEF LookupFindsStored, Gds!LookupFindsStored, MCSpec

=============================================================================
