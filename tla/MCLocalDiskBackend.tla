-------------------------- MODULE MCLocalDiskBackend --------------------------
(***************************************************************************)
(* The two backends that keep chunks in files. The one for a local disk    *)
(* has two workloads: an instance that serves, and one whose chunks are    *)
(* also removed by a controller, which makes critical sections fail and    *)
(* may leave disk_lock held for ever. Or, when gds is set, the GDS or Weka *)
(* backend of two instances that share a directory.                        *)
(***************************************************************************)
EXTENDS LocalDiskBackend

CONSTANTS engine, scheduler, controller, k1
CONSTANTS GdsKeys, Instances, Backends, Seeds, MaxDraws, MaxCrashes, MaxErrors

VARIABLES gds,      \* is it the GDS or Weka backend, in this behaviour?
          removing  \* if not, does the controller remove chunks?
VARIABLES setting, inodes, tmp, data, metaFile, up, hot_cache, missed, save, tasks, drawn,
          crashes, errors

gvars == <<setting, inodes, tmp, data, metaFile, up, hot_cache, missed, save, tasks, drawn,
           crashes, errors>>
all == <<vars, gds, removing, gvars>>

\* Each chunk is stored once, while the scheduler's lookups pin chunks.
ServingOps == engine :> {"store", "retrieve", "prefetch", "unpin"}
              @@ scheduler :> {"pin"} @@ controller :> {}

RemoveOps == engine :> {"store", "retrieve"}
             @@ scheduler :> {} @@ controller :> {"remove"}

\* Two instances on devices of one name, or of two.
MCSeeds == {<<1, 1>>, <<1, 2>>}

OneByte == [k \in Keys |-> 1]

R == INSTANCE LocalDiskBackend WITH Ops <- RemoveOps, StoreOnce <- FALSE
Gds == INSTANCE GdsBackend WITH Keys <- GdsKeys

\* Of the constants of GdsBackend.
ASSUME GdsAssumption ==
  /\ IsFiniteSet(GdsKeys) /\ {MaxDraws, MaxCrashes, MaxErrors} \subseteq Nat
  /\ Backends \subseteq {"gds", "weka"} /\ Seeds \subseteq [Instances -> Nat]

\* The backend that is not run has one initial state, and stays there.
MCInit ==
  /\ Init /\ Gds!Init
  /\ \/ gds = TRUE /\ removing = FALSE
     \/ gds = FALSE /\ removing \in BOOLEAN /\ setting = CHOOSE s \in Gds!Settings : TRUE

MCNext ==
  /\ UNCHANGED <<gds, removing>>
  /\ \/ ~gds /\ ~removing /\ Next   /\ UNCHANGED gvars
     \/ ~gds /\  removing /\ R!Next /\ UNCHANGED gvars
     \/  gds /\ Gds!Next /\ UNCHANGED vars

\* Fairness is assumed of the serving instance only.
Serving(A) == ~gds /\ ~removing /\ A /\ UNCHANGED <<gds, removing, gvars>>
MCSpec == /\ MCInit /\ [][MCNext]_all
          /\ \A t \in Threads : WF_all(Serving(Proceed(t)))
          /\ \A i \in Slots : SF_all(Serving(LoopStep(i)))

\* Nothing is removed: what the evictor of LocalDiskBackend believes is what is
\* on disk or on its way there.  (A removal does not tell the evictor.)
SizeIsExactServing == ~removing => SizeIsExact

\* Nothing is removed: every accepted put ends and leaves put_tasks, so that the
\* chunk can be stored again.  (A removal that fails leaves disk_lock held.)  The
\* chunks are interchangeable, all of one byte: what holds of k1 holds of each.
SaveEndsServing ==
  k1 \in Range(put_tasks) /\ ~removing ~> k1 \notin Range(put_tasks)

\* The file of a chunk that an instance of the GDS backend knows is whole,
\* whatever crashed.
AdvertisedIsWhole == Gds!AdvertisedIsWhole

\* What an engine with the GDS backend finds to be absent, and stores again, is
\* not there in the current version: a restart forgets the entries, and not the
\* chunks.
LookupFindsStored == Gds!LookupFindsStored
=============================================================================
