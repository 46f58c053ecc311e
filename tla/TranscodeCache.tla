--------------------------- MODULE TranscodeCache ----------------------------
(***************************************************************************)
(* The transcoding cache: utils/cache/file_caches.go and spread_fs.go with *)
(* the reader of core/stream/media_streamer.go, which takes a slot of      *)
(* core/stream/limiter.go for every ffmpeg it starts.                      *)
(*                                                                         *)
(* A Get that misses makes an entry and copies the transcoder's output to  *)
(* its file in the background, while readers follow; a marker beside the   *)
(* file says that it is complete, and after a restart only marked files    *)
(* are adopted.  The entries are numbered as they are made; files and      *)
(* markers have the name of their key, so the entries of a key share them. *)
(*                                                                         *)
(* fscache, the library below, is external.  Remove() takes the entry out  *)
(* of its map, waits until the writer and the readers have closed, and     *)
(* then removes the file by its name.                                      *)
(***************************************************************************)
EXTENDS Naturals, FiniteSets

CONSTANTS
  Keys, NoKey,   \* NoKey: of a request that is served without the cache
  Users, Anonymous,
  MaxConcurrent, MaxPerUser,  \* caps of the limiter, both set
  MaxEntries,    \* bound: entries made
  MaxReaders,    \* bound: readers of an entry
  MaxFaults      \* bound: crashes, and files that others delete

VARIABLES
  registered,    \* the entry fscache has for a key, or 0
  keyOf, userOf, \* of an entry: its key, and the user whose request made it
  at,            \* of an entry: where its writer is
  readers,       \* of an entry: the readers that are open
  removing,      \* of an entry: how far its removal is
  data, marker,  \* on disk: the entry whose file a key has, or 0; the keys with a marker
  sentinel,      \* on disk: the files of an earlier version have been migrated
  perUser, global,  \* the slots that are taken
  running, ready,  \* the process is up, and has loaded the cache
  made, faults,
  whole,         \* history: entries whose file was written in full
  doubtful       \* history: entries that have a marker they did not set

entries == <<keyOf, userOf, readers, removing>>
disk == <<data, marker, sentinel>>
slots == <<perUser, global>>
process == <<running, ready>>
history == <<whole, doubtful>>
vars == <<registered, entries, at, disk, slots, process, made, faults, history>>

Entry == 1..MaxEntries
Places ==
  {"none", "opening", "limiting", "starting", "refused", "copying", "copied", "failed", "marked",
   "closed", "unclosed", "emptied", "cancelled", "dropped"}

Init ==
  /\ registered = [k \in Keys |-> 0] /\ at = [n \in Entry |-> "none"]
  /\ keyOf = [n \in Entry |-> NoKey] /\ userOf = [n \in Entry |-> Anonymous]
  /\ readers = [n \in Entry |-> 0] /\ removing = [n \in Entry |-> "no"]
  /\ data = [k \in Keys |-> 0] /\ marker = {} /\ sentinel = FALSE
  /\ perUser = [u \in Users |-> 0] /\ global = 0
  /\ running = TRUE /\ ready = FALSE /\ made = 0 /\ faults = 0
  /\ whole = {} /\ doubtful = {}

GoTo(n, place) == at' = [at EXCEPT ![n] = place]

-----------------------------------------------------------------------------
\* Get() of a key that fscache has: a reader of the entry.
GetHit(k) ==
  LET n == registered[k] IN
  /\ ready /\ n # 0 /\ data[k] # 0 /\ readers[n] < MaxReaders
  /\ readers' = [readers EXCEPT ![n] = @ + 1]
  /\ UNCHANGED <<registered, keyOf, userOf, removing, at, disk, slots, process, made, faults,
                 history>>

\* Remove() of fscache: the entry leaves the map, its files go later.
Unregister(k) ==
  /\ registered' = [registered EXCEPT ![k] = 0]
  /\ removing' = IF registered[k] = 0 THEN removing
                 ELSE [removing EXCEPT ![registered[k]] = "waiting"]

\* Get() of an entry whose file has gone: it is invalidated, and Get() tries again.
GetLost(k) ==
  /\ ready /\ registered[k] # 0 /\ data[k] = 0
  /\ Unregister(k)
  /\ UNCHANGED <<keyOf, userOf, readers, at, disk, slots, process, made, faults, history>>

\* Get() of a key that fscache does not have: an entry with a fresh file and a reader.
GetMiss(k, u) ==
  /\ ready /\ registered[k] = 0 /\ made < MaxEntries /\ made' = made + 1
  /\ registered' = [registered EXCEPT ![k] = made'] /\ data' = [data EXCEPT ![k] = made']
  /\ keyOf' = [keyOf EXCEPT ![made'] = k] /\ userOf' = [userOf EXCEPT ![made'] = u]
  /\ readers' = [readers EXCEPT ![made'] = 1] /\ GoTo(made', "opening")
  /\ doubtful' = IF k \in marker THEN doubtful \cup {made'} ELSE doubtful
  /\ UNCHANGED <<removing, marker, sentinel, slots, process, faults, whole>>

\* Get() before the cache is ready: the output of the transcoder itself.
GetDirect(u) ==
  /\ running /\ ~ready /\ made < MaxEntries /\ made' = made + 1
  /\ userOf' = [userOf EXCEPT ![made'] = u] /\ GoTo(made', "opening")
  /\ UNCHANGED <<registered, keyOf, readers, removing, disk, slots, process, faults, history>>

\* The reader of the request itself is not handed out yet.
Opening(n) == at[n] \in {"opening", "limiting", "starting", "refused"}

\* A reader leaves, at the end of the entry or before.
ReaderLeaves(n) ==
  /\ readers[n] > (IF Opening(n) THEN 1 ELSE 0) /\ readers' = [readers EXCEPT ![n] = @ - 1]
  /\ UNCHANGED <<registered, keyOf, userOf, removing, at, disk, slots, process, made, faults,
                 history>>

\* A reader finds a clean end behind what was written once the writer has closed, not
\* when it was cancelled.
EndsCleanly(n) == readers[n] > 0 /\ at[n] \in {"closed", "unclosed", "emptied"}

-----------------------------------------------------------------------------
\* There is no command for the format.
NoCommand(n) ==
  /\ at[n] = "opening" /\ GoTo(n, "refused")
  /\ UNCHANGED <<registered, entries, disk, slots, process, made, faults, history>>

\* Acquire(): a slot of the user first; anonymous users have no cap of their own.
AcquirePerUser(n) ==
  /\ at[n] = "opening"
  /\ LET u == userOf[n] IN
     \/ u = Anonymous /\ GoTo(n, "limiting") /\ UNCHANGED perUser
     \/ /\ u # Anonymous /\ perUser[u] < MaxPerUser
        /\ perUser' = [perUser EXCEPT ![u] = @ + 1] /\ GoTo(n, "limiting")
     \/ /\ u # Anonymous /\ perUser[u] >= MaxPerUser
        /\ GoTo(n, "refused") /\ UNCHANGED perUser
  /\ UNCHANGED <<registered, entries, disk, global, process, made, faults, history>>

\* releasePerUser()
ReleasePerUser(n) ==
  perUser' = IF userOf[n] = Anonymous THEN perUser ELSE [perUser EXCEPT ![userOf[n]] = @ - 1]

\* Mutant: the slot of the user is kept when there is none of the process.
AcquireGlobalKeeping(n) ==
  /\ at[n] = "limiting"
  /\ IF global < MaxConcurrent
     THEN global' = global + 1 /\ GoTo(n, "starting")
     ELSE GoTo(n, "refused") /\ UNCHANGED global
  /\ UNCHANGED <<registered, entries, disk, perUser, process, made, faults, history>>

\* Acquire(): then a slot of the process.
AcquireGlobal(n) ==
  /\ at[n] = "limiting"
  /\ IF global < MaxConcurrent
     THEN global' = global + 1 /\ GoTo(n, "starting") /\ UNCHANGED perUser
     ELSE ReleasePerUser(n) /\ GoTo(n, "refused") /\ UNCHANGED global
  /\ UNCHANGED <<registered, entries, disk, process, made, faults, history>>

\* The release function of a slot; a second call does nothing.
Release(n) == global' = global - 1 /\ ReleasePerUser(n)

\* The transcoder starts, or fails to.
Transcode(n) ==
  /\ at[n] = "starting"
  /\ \/ GoTo(n, "copying") /\ UNCHANGED slots
     \/ Release(n) /\ GoTo(n, "refused")
  /\ UNCHANGED <<registered, entries, disk, process, made, faults, history>>

\* Get(): without a transcoder the reader and the writer are closed, the entry empty.
CloseRefused(n) ==
  /\ at[n] = "refused"
  /\ IF keyOf[n] = NoKey
     THEN GoTo(n, "dropped") /\ UNCHANGED readers
     ELSE GoTo(n, "emptied") /\ readers' = [readers EXCEPT ![n] = @ - 1]
  /\ UNCHANGED <<registered, keyOf, userOf, removing, disk, slots, process, made, faults,
                 history>>

-----------------------------------------------------------------------------
\* copyAndClose(): the copy ends, in full or with an error, such as the end of the
\* request when it drives ffmpeg; the source is closed, which releases the slot.
CopyEnds(n) ==
  /\ at[n] = "copying" /\ keyOf[n] # NoKey /\ Release(n)
  /\ \/ GoTo(n, "copied") /\ whole' = whole \cup {n}
     \/ GoTo(n, "failed") /\ UNCHANGED whole
  /\ UNCHANGED <<registered, entries, disk, process, made, faults, doubtful>>

\* CachedStream.Close() of a request that is served without the cache.
CloseDirect(n) ==
  /\ at[n] = "copying" /\ keyOf[n] = NoKey /\ Release(n) /\ GoTo(n, "dropped")
  /\ UNCHANGED <<registered, entries, disk, process, made, faults, history>>

\* markComplete(): the marker of the key, unless it cannot be written.
MarkComplete(n) ==
  /\ at[n] = "copied" /\ GoTo(n, "marked")
  /\ \/ /\ marker' = marker \cup {keyOf[n]}
        /\ doubtful' = doubtful \cup ({data[keyOf[n]]} \ {0, n})
     \/ UNCHANGED <<marker, doubtful>>
  /\ UNCHANGED <<registered, entries, data, sentinel, slots, process, made, faults, whole>>

\* copyAndClose(): the writer is closed; its readers reach the end also when closing
\* the file fails.
CloseWriter(n) ==
  /\ at[n] = "marked" /\ (GoTo(n, "closed") \/ GoTo(n, "unclosed"))
  /\ UNCHANGED <<registered, entries, disk, slots, process, made, faults, history>>

\* CloseWithError(): the readers fail with the cause, and are closed.
CloseWithError(n) ==
  /\ at[n] = "failed" /\ GoTo(n, "cancelled")
  /\ readers' = [readers EXCEPT ![n] = 0]
  /\ UNCHANGED <<registered, keyOf, userOf, removing, disk, slots, process, made, faults,
                 history>>

\* Mutant: only an entry whose copy failed is invalidated.
InvalidateFailed(n) ==
  /\ at[n] = "cancelled" /\ GoTo(n, "dropped")
  /\ Unregister(keyOf[n])
  /\ UNCHANGED <<keyOf, userOf, readers, disk, slots, process, made, faults, history>>

\* invalidate(): the entry the key has by now is removed.
Invalidate(n) ==
  /\ at[n] \in {"unclosed", "emptied", "cancelled"} /\ GoTo(n, "dropped")
  /\ Unregister(keyOf[n])
  /\ UNCHANGED <<keyOf, userOf, readers, disk, slots, process, made, faults, history>>

-----------------------------------------------------------------------------
\* The writer of the entry and its readers have closed.
Unused(n) == readers[n] = 0 /\ at[n] \in {"closed", "unclosed", "emptied", "cancelled", "dropped"}

\* Remove() of the file system: the marker, then the file, of the name.
RemoveMarker(n) ==
  /\ removing[n] = "waiting" /\ Unused(n)
  /\ removing' = [removing EXCEPT ![n] = "unmarked"] /\ marker' = marker \ {keyOf[n]}
  /\ UNCHANGED <<registered, keyOf, userOf, readers, at, data, sentinel, slots, process, made,
                 faults, history>>

RemoveData(n) ==
  /\ removing[n] = "unmarked"
  /\ removing' = [removing EXCEPT ![n] = "removed"] /\ data' = [data EXCEPT ![keyOf[n]] = 0]
  /\ UNCHANGED <<registered, keyOf, userOf, readers, at, marker, sentinel, slots, process, made,
                 faults, history>>

\* Scrub(): an entry not in use goes, with the map locked.
Scrub(k) ==
  /\ ready /\ registered[k] # 0 /\ Unused(registered[k]) /\ data[k] # 0
  /\ registered' = [registered EXCEPT ![k] = 0]
  /\ marker' = marker \ {k} /\ data' = [data EXCEPT ![k] = 0]
  /\ UNCHANGED <<entries, at, sentinel, slots, process, made, faults, history>>

\* The process dies: what is not on disk is gone.
Crash ==
  /\ running /\ faults < MaxFaults /\ faults' = faults + 1
  /\ running' = FALSE /\ ready' = FALSE
  /\ registered' = [k \in Keys |-> 0]
  /\ at' = [n \in Entry |-> IF at[n] = "none" THEN "none" ELSE "dropped"]
  /\ readers' = [n \in Entry |-> 0] /\ removing' = [n \in Entry |-> "no"]
  /\ perUser' = [u \in Users |-> 0] /\ global' = 0
  /\ UNCHANGED <<keyOf, userOf, disk, made, history>>

\* Mutant: every file found is adopted.
AdoptedAlways(k) == TRUE

\* Reload(): a marked file is adopted, an unmarked one is a partial of a crash.
Adopted(k) == k \in marker

\* The process starts; the cache is loaded in the background.
Restart ==
  /\ ~running /\ running' = TRUE
  /\ UNCHANGED <<registered, entries, at, disk, slots, ready, made, faults, history>>

\* The entry of a file that is adopted has no writer.
Adopt(files) ==
  /\ registered' = [k \in Keys |-> IF k \in files THEN data[k] ELSE 0]
  /\ at' = [n \in Entry |-> IF \E k \in files : data[k] = n THEN "closed" ELSE at[n]]

Files == {k \in Keys : data[k] # 0}

\* Reload(): the files are adopted or discarded, markers without a file removed; the
\* files whose marker cannot be read are left alone.
Reload ==
  /\ running /\ ~ready /\ ready' = TRUE /\ sentinel
  /\ \E unread \in SUBSET marker : Adopt({k \in Files \ unread : Adopted(k)})
  /\ data' = [k \in Keys |-> IF Adopted(k) THEN data[k] ELSE 0]
  /\ marker' = marker \cap Files
  /\ UNCHANGED <<entries, sentinel, slots, running, made, faults, history>>

\* Reload() without the sentinel: unmarked files are taken for those of an earlier
\* version, and are marked and adopted; then the sentinel is written.  The writes may
\* fail.
Migrate ==
  /\ running /\ ~ready /\ ready' = TRUE /\ ~sentinel
  /\ Adopt(Files)
  /\ \E failed \in SUBSET (Files \ marker) : marker' = Files \ failed
  /\ doubtful' = doubtful \cup {data[k] : k \in Files \ marker} /\ sentinel' \in BOOLEAN
  /\ UNCHANGED <<entries, data, slots, running, made, faults, whole>>

\* A file is deleted behind the cache's back.
Vanish(k) ==
  /\ data[k] # 0 /\ data' = [data EXCEPT ![k] = 0]
  /\ faults < MaxFaults /\ faults' = faults + 1
  /\ UNCHANGED <<registered, entries, at, marker, sentinel, slots, process, made, history>>

-----------------------------------------------------------------------------
Opens(n) ==
  AcquirePerUser(n) \/ AcquireGlobal(n) \/ Transcode(n) \/ CloseRefused(n)

Writes(n) ==
  \/ CopyEnds(n) \/ CloseDirect(n) \/ MarkComplete(n)
  \/ CloseWriter(n) \/ CloseWithError(n) \/ Invalidate(n)

Removes(n) == RemoveMarker(n) \/ RemoveData(n)

Next ==
  \/ \E k \in Keys : \/ GetHit(k) \/ GetLost(k) \/ Scrub(k) \/ Vanish(k)
                    \/ \E u \in Users : GetMiss(k, u)
  \/ \E u \in Users : GetDirect(u)
  \/ \E n \in Entry : ReaderLeaves(n) \/ NoCommand(n) \/ Opens(n) \/ Writes(n) \/ Removes(n)
  \/ Crash \/ Restart \/ Reload \/ Migrate

Spec == Init /\ [][Next]_vars

\* The goroutines run, and ffmpeg ends or is ended.
FairSpec == Spec /\ \A n \in Entry : WF_vars(Opens(n) \/ Writes(n))

-----------------------------------------------------------------------------
\* Every variable keeps its type.
TypeOK ==
  /\ registered \in [Keys -> 0..made] /\ data \in [Keys -> 0..made]
  /\ keyOf \in [Entry -> Keys \cup {NoKey}] /\ userOf \in [Entry -> Users]
  /\ at \in [Entry -> Places] /\ made \in 0..MaxEntries /\ faults \in 0..MaxFaults
  /\ readers \in [Entry -> 0..MaxReaders]
  /\ removing \in [Entry -> {"no", "waiting", "unmarked", "removed"}]
  /\ marker \subseteq Keys /\ {whole, doubtful} \subseteq SUBSET Entry
  /\ {sentinel, running, ready} \subseteq BOOLEAN /\ (ready => running)

\* What counts as complete was written in full, whenever the process died: a marked
\* file, and an entry that is served to its end.  The exception is an entry that found
\* the marker of an earlier one, that got it from the writer of an earlier one, or that
\* was migrated.
CompleteIsWhole ==
  \A k \in Keys :
    /\ k \in marker /\ data[k] # 0 => data[k] \in whole \cup doubtful
    /\ registered[k] # 0 /\ at[registered[k]] = "closed" =>
         registered[k] \in whole \cup doubtful

\* No reader drains a truncated entry to a clean end, whatever becomes of the entry
\* meanwhile.  An entry that never had a transcoder does end cleanly, and is empty.
CleanEndIsWhole ==
  \A n \in Entry : EndsCleanly(n) => n \in whole \cup doubtful \/ at[n] = "emptied"

\* The entries that have a slot of the process, and those of a user that have one.
Transcoding == {n \in Entry : at[n] \in {"starting", "copying"}}
TranscodingFor(u) ==
  {n \in Entry : userOf[n] = u /\ at[n] \in {"limiting", "starting", "copying"}}

\* The slots taken are those of the transcodes under way, within both caps: no order
\* of refusals, failures and crashes loses a slot or frees one twice.
WithinLimits ==
  /\ global = Cardinality(Transcoding) /\ global <= MaxConcurrent
  /\ \A u \in Users \ {Anonymous} :
       perUser[u] = Cardinality(TranscodingFor(u)) /\ perUser[u] <= MaxPerUser

\* An entry that could not be filled does not stay: later requests of its key start
\* afresh.
FailedIsForgotten ==
  \A n \in Entry : at[n] \in {"refused", "failed"} ~> \A k \in Keys : registered[k] # n
=============================================================================
