----------------------------- MODULE GdsBackend -----------------------------
(***************************************************************************)
(* GdsBackend and its original, WekaGdsBackend (MTDS/v1/storage_backend):  *)
(* each chunk is a file in a shared file system, with a second file that   *)
(* has only its metadata, for the scan at startup. Several instances of    *)
(* the engine share the directory, and may crash and restart. Files are    *)
(* never removed.                                                          *)
(*                                                                         *)
(* A file is an inode, so that a rename of a path does not disturb whoever *)
(* has it open. A chunk is saved under a temporary name with a random      *)
(* suffix, whose generator is seeded with the name of the device.          *)
(***************************************************************************)
EXTENDS Integers, Sequences, FiniteSets, SequencesExt, Functions

CONSTANTS
    Keys, Instances,
    Backends,     \* "gds", "weka"
    Seeds,        \* what the seeds of the instances' temporary names may be: functions
    MaxDraws,     \* saves of one instance between restarts
    MaxCrashes, MaxErrors

\* Which backend, the seed of each instance's suffixes, and the keys with files
\* of another metadata version.
Settings == [backend : Backends, seed : Seeds, old : SUBSET Keys]

VARIABLES
    setting,
    inodes,     \* files: [meta ("none", "cur", "old"), payload]
    tmp,        \* <<key, suffix>> -> the file of that temporary name, or 0
    data,       \* key -> the file at its path, or 0
    metaFile,   \* key -> its metadata file: "none", "cur" or "old"
    up,         \* instance -> "starting" (_scan_metadata is to run), "up" or "down"
    hot_cache,  \* instance -> its entries, each <<key, "own">>, or <<key, "cut">>
                \* when the name is not the one the key is looked up by
    missed,     \* instance -> keys that its engine has found to be absent, to store
    save,       \* instance -> key -> its save: [step, suffix, inode]
    tasks,      \* instance -> save_metadata_tasks
    drawn,      \* instance -> suffixes drawn
    crashes, errors

vars == <<setting, inodes, tmp, data, metaFile, up, hot_cache, missed, save, tasks, drawn,
          crashes, errors>>
files == <<inodes, tmp, data, metaFile>>
memory == <<up, hot_cache, missed, save, tasks, drawn>>
counters == <<setting, crashes, errors>>

TmpSuffixes == Range(setting.seed) \X (1..MaxDraws)
NoSave == [step |-> "none", suffix |-> <<0, 0>>, inode |-> 0]

\* submit_put_task adds the key, and only a save that ends takes it out.
PutTasks(i) == {k \in Keys : save[i][k].step # "none"}

\* The rest of the backend's state is that of a new process.
Fresh == [missed |-> {}, save |-> [k \in Keys |-> NoSave], tasks |-> {}, hot_cache |-> {}]

Init ==
    /\ setting \in Settings
    /\ \E order \in SetToSeqs(setting.old) :
          /\ inodes = [n \in DOMAIN order |-> [meta |-> "old", payload |-> TRUE]]
          /\ data = [k \in Keys |-> IF k \in setting.old THEN CHOOSE n \in DOMAIN order : order[n] = k ELSE 0]
    /\ metaFile = [k \in Keys |-> IF k \in setting.old THEN "old" ELSE "none"]
    /\ tmp = [name \in Keys \X TmpSuffixes |-> 0]
    /\ up = [i \in Instances |-> "starting"]
    /\ hot_cache = [i \in Instances |-> Fresh.hot_cache]
    /\ missed = [i \in Instances |-> Fresh.missed]
    /\ save = [i \in Instances |-> Fresh.save]
    /\ tasks = [i \in Instances |-> Fresh.tasks]
    /\ drawn = [i \in Instances |-> 0]
    /\ crashes = 0 /\ errors = 0

-----------------------------------------------------------------------------
(* Startup *)

\* _read_metadata under the key that the file's name yields. [:-14] leaves a
\* rest of the suffix in it (of ".weka1.metadata", which is 15 long, the dot).
ScannedEntry(k) == <<k, "cut">>

\* _scan_metadata_subdir of Weka ignores files of another version.
WekaScans == {k \in Keys : metaFile[k] = "cur"}

\* The one of GDS raises for such a file, and reads no more of that directory.
GdsScans(found) == found \subseteq WekaScans
                   /\ ((\A k \in Keys : metaFile[k] # "old") => found = WekaScans)

\* _scan_metadata runs in the event loop, after __init__.
Scan(i) ==
    /\ up[i] = "starting"
    /\ up' = [up EXCEPT ![i] = "up"]
    /\ \E found \in SUBSET Keys :
          /\ IF setting.backend = "weka" THEN found = WekaScans ELSE GdsScans(found)
          /\ hot_cache' = [hot_cache EXCEPT ![i] = @ \union {ScannedEntry(k) : k \in found}]
    /\ UNCHANGED <<files, missed, save, tasks, drawn, counters>>

Crash(i) ==
    /\ up[i] # "down" /\ crashes < MaxCrashes
    /\ crashes' = crashes + 1
    /\ up' = [up EXCEPT ![i] = "down"]
    /\ hot_cache' = [hot_cache EXCEPT ![i] = Fresh.hot_cache]
    /\ missed' = [missed EXCEPT ![i] = Fresh.missed]
    /\ save' = [save EXCEPT ![i] = Fresh.save]
    /\ tasks' = [tasks EXCEPT ![i] = Fresh.tasks]
    /\ UNCHANGED <<files, drawn, setting, errors>>

\* __init__: the generator starts anew.
Restart(i) ==
    /\ up[i] = "down"
    /\ up' = [up EXCEPT ![i] = "starting"]
    /\ drawn' = [drawn EXCEPT ![i] = 0]
    /\ UNCHANGED <<files, hot_cache, missed, save, tasks, counters>>

-----------------------------------------------------------------------------
(* contains, and the store of what it misses *)

InHotCache(i, k) == <<k, "own">> \in hot_cache[i]

\* unpack_metadata of the file at the path: what contains makes of it. GDS
\* raises another error for another version than the one that is caught.
GdsUnpacks(f) == IF f.meta = "cur" THEN "found" ELSE "raised"
WekaUnpacks(f) == CASE f.meta = "cur" -> "found"
                    [] f.meta = "none" /\ ~f.payload -> "raised"  \* an empty file
                    [] OTHER -> "absent"

\* _try_to_read_metadata
TryToReadMetadata(k) ==
    IF data[k] = 0 THEN "absent"
    ELSE IF setting.backend = "gds" THEN GdsUnpacks(inodes[data[k]]) ELSE WekaUnpacks(inodes[data[k]])

Lookup(i, k) ==
    /\ up[i] # "down"
    /\ ~InHotCache(i, k)
    /\ \/ /\ TryToReadMetadata(k) = "found"
          /\ hot_cache' = [hot_cache EXCEPT ![i] = @ \union {<<k, "own">>}] /\ UNCHANGED missed
       \/ /\ TryToReadMetadata(k) = "absent"
          /\ missed' = [missed EXCEPT ![i] = @ \union {k}] /\ UNCHANGED hot_cache
    /\ UNCHANGED <<files, up, save, tasks, drawn, counters>>

\* StorageManager.put drops what is being put. submit_put_task, and the start
\* of its coroutine, which draws the suffix.
Put(i, k) ==
    /\ k \in missed[i]
    /\ missed' = [missed EXCEPT ![i] = @ \ {k}]
    /\ \/ k \in PutTasks(i) /\ UNCHANGED <<save, drawn>>
       \/ /\ k \notin PutTasks(i) /\ drawn[i] < MaxDraws
          /\ drawn' = [drawn EXCEPT ![i] = @ + 1]
          /\ save' = [save EXCEPT ![i][k] = [step |-> "open", inode |-> 0,
                                             suffix |-> <<setting.seed[i], drawn[i] + 1>>]]
    /\ UNCHANGED <<files, up, hot_cache, tasks, counters>>

-----------------------------------------------------------------------------
(* _save_gds_cufile, in a thread of its own *)

Name(i, k) == <<k, save[i][k].suffix>>
Saving(i, k, step) == save[i][k].step = step
Moves(i, k, step) == save' = [save EXCEPT ![i][k].step = step]
SaveKeeps == UNCHANGED <<up, hot_cache, missed, tasks, drawn, counters>>

Empty == [meta |-> "none", payload |-> FALSE]

\* open(tmp_path, "wb") creates the file, or truncates the one of that name.
Open(i, k) ==
    /\ Saving(i, k, "open")
    /\ IF tmp[Name(i, k)] = 0
       THEN inodes' = Append(inodes, Empty) /\ tmp' = [tmp EXCEPT ![Name(i, k)] = Len(inodes) + 1]
       ELSE inodes' = [inodes EXCEPT ![tmp[Name(i, k)]] = Empty] /\ UNCHANGED tmp
    /\ save' = [save EXCEPT ![i][k].step = "meta", ![i][k].inode = tmp'[Name(i, k)]]
    /\ UNCHANGED <<data, metaFile>> /\ SaveKeeps

\* The file is renamed before it is written.
WriteMetadataAndRename(i, k) ==
    /\ Saving(i, k, "meta")
    /\ inodes' = [inodes EXCEPT ![save[i][k].inode].meta = "cur"]
    /\ data' = [data EXCEPT ![k] = save[i][k].inode]
    /\ Moves(i, k, "cufile")
    /\ UNCHANGED <<tmp, metaFile>> /\ SaveKeeps

WriteMetadata(i, k) ==
    /\ Saving(i, k, "meta")
    /\ inodes' = [inodes EXCEPT ![save[i][k].inode].meta = "cur"]
    /\ Moves(i, k, "cufile")
    /\ UNCHANGED <<tmp, data, metaFile>> /\ SaveKeeps

\* The file is opened again by its name, which another instance with the same
\* suffix may have taken away. Nobody catches the error: the key stays in
\* put_tasks, and the chunk in memory.
OpenCuFile(i, k) ==
    /\ Saving(i, k, "cufile")
    /\ save' = [save EXCEPT ![i][k].step = IF tmp[Name(i, k)] = 0 THEN "raised" ELSE "payload",
                            ![i][k].inode = tmp[Name(i, k)]]
    /\ UNCHANGED files /\ SaveKeeps

WritePayload(i, k) ==
    /\ Saving(i, k, "payload")
    /\ inodes' = [inodes EXCEPT ![save[i][k].inode].payload = TRUE]
    /\ Moves(i, k, "rename")
    /\ UNCHANGED <<tmp, data, metaFile>> /\ SaveKeeps

Rename(i, k) ==
    /\ Saving(i, k, "rename")
    /\ IF tmp[Name(i, k)] = 0 THEN Moves(i, k, "raised") /\ UNCHANGED <<tmp, data>>
       ELSE /\ data' = [data EXCEPT ![k] = tmp[Name(i, k)]]
            /\ tmp' = [tmp EXCEPT ![Name(i, k)] = 0]
            /\ Moves(i, k, "insert")
    /\ UNCHANGED <<inodes, metaFile>> /\ SaveKeeps

\* insert_key, the task that saves the metadata, the end of the put task.
Insert(i, k) ==
    /\ Saving(i, k, "insert")
    /\ hot_cache' = [hot_cache EXCEPT ![i] = @ \union {<<k, "own">>}]
    /\ tasks' = [tasks EXCEPT ![i] = @ \union {k}]
    /\ save' = [save EXCEPT ![i][k] = NoSave]
    /\ UNCHANGED <<files, up, missed, drawn, counters>>

\* save_metadata renames too.
SaveMetadata(i, k) ==
    /\ k \in tasks[i]
    /\ metaFile' = [metaFile EXCEPT ![k] = "cur"]
    /\ tasks' = [tasks EXCEPT ![i] = @ \ {k}]
    /\ UNCHANGED <<inodes, tmp, data, up, hot_cache, missed, save, drawn, counters>>

-----------------------------------------------------------------------------
(* Loads *)

\* get_blocking in the engine's thread, or a prefetch in the event loop's: a
\* file that is read, or is too short, leaves everything as it was; when the
\* read fails, the entry goes. (When the load of the other thread has removed
\* it, pop raises.)
LoadError(i, k) ==
    /\ InHotCache(i, k) /\ errors < MaxErrors
    /\ errors' = errors + 1
    /\ hot_cache' = [hot_cache EXCEPT ![i] = @ \ {<<k, "own">>}]
    /\ UNCHANGED <<files, up, missed, save, tasks, drawn, setting, crashes>>

-----------------------------------------------------------------------------

SaveStep(i, k) == \/ Open(i, k) \/ WriteMetadata(i, k) \/ OpenCuFile(i, k) \/ WritePayload(i, k)
                  \/ Rename(i, k) \/ Insert(i, k)

Next ==
    \E i \in Instances :
        \/ Scan(i) \/ Crash(i) \/ Restart(i)
        \/ \E k \in Keys : \/ Lookup(i, k) \/ Put(i, k) \/ SaveStep(i, k) \/ SaveMetadata(i, k)
                            \/ LoadError(i, k)

\* The threads that save, and the event loop, run.
Fairness == \A i \in Instances : \A k \in Keys : WF_vars(SaveStep(i, k)) /\ WF_vars(SaveMetadata(i, k))

Spec == Init /\ [][Next]_vars /\ Fairness

-----------------------------------------------------------------------------
(* Properties *)

Whole(k) == data[k] # 0 /\ inodes[data[k]].payload /\ inodes[data[k]].meta # "none"

\* The instances draw different suffixes, as they do on devices of different
\* names. (Two hosts that both use cuda:0 draw the same ones; what that costs
\* is a hazard.)
SuffixesDiffer == IsInjective(setting.seed)

\* The file of a chunk that an instance knows is whole, whatever crashed.
AdvertisedIsWhole ==
    SuffixesDiffer => \A i \in Instances, k \in Keys : InHotCache(i, k) => Whole(k)

\* A file that is whole stays so: nobody writes to a path that others read.
StoredStays == [][SuffixesDiffer => \A k \in Keys : Whole(k) => Whole(k)']_vars

\* What an engine finds to be absent, and stores again, is not there in the
\* current version: a restart forgets the entries, and not the chunks.
LookupFindsStored ==
    [][\A i \in Instances : \A k \in missed'[i] \ missed[i] :
          ~(Whole(k) /\ inodes[data[k]].meta = "cur")]_vars

\* A put task ends.
PutTaskEnds ==
    SuffixesDiffer => \A i \in Instances, k \in Keys : (k \in PutTasks(i)) ~> (k \notin PutTasks(i))

\* The scan at startup finds entries that can be looked up. Does not hold (README,
\* section 6).
ScannedIsFound == \A i \in Instances : \A e \in hot_cache[i] : e[2] = "own"
=============================================================================
