---------------------------- MODULE ArtworkStore ----------------------------
(***************************************************************************)
(* The artwork image store: core/artwork/image_store.go with the persist   *)
(* step of processor.go and the prune job of prune.go, over the artwork    *)
(* and item_artwork tables of persistence/artwork_repository.go.           *)
(*                                                                         *)
(* An image is known by its hash.  Its row holds the MIME type, which is   *)
(* the one its decoder reports or, without a decoder, a generic one; the   *)
(* file of an image that no library file backs is stored under the         *)
(* extension of that type.  Rows and files are older than the grace window *)
(* of prune or not.  Temporary files are left out.                         *)
(***************************************************************************)
EXTENDS Naturals, FiniteSets

CONSTANTS
  Items, Hashes, NoHash

ASSUME ArtworkStoreAssumption == NoHash \notin Hashes

VARIABLES
  decodable,          \* hashes of images the server has a decoder for
  files, oldFiles,    \* files of the store, and those older than the grace window
  mime, oldRows,      \* MIME type in each image's row, and the rows that are old
  item, stored,       \* item_artwork: hash, and whether the store holds its bytes
  gone,               \* items whose entity was removed
  job, jobHash, jobStored, jobMime,      \* the acquisition of each item
  pruning, cutoffFiles, mimes, toSweep,  \* the prune job and what it has read
  unswept             \* history: files the sweep could not remove or did not get to

table == <<mime, oldRows, item, stored>>
store == <<files, oldFiles>>
acquisition == <<job, jobHash, jobStored, jobMime>>
prune == <<pruning, cutoffFiles, mimes, toSweep, unswept>>
vars == <<decodable, store, table, gone, acquisition, prune>>

Mimes == {"generic", "typed"}
Files == Hashes \X Mimes        \* a file's extension follows from the MIME type

Init ==
  /\ decodable \in SUBSET Hashes
  /\ files = {} /\ oldFiles = {} /\ oldRows = {}
  /\ mime = [h \in Hashes |-> "none"]
  /\ item = [i \in Items |-> NoHash] /\ stored = [i \in Items |-> FALSE]
  /\ gone = {}
  /\ job = [i \in Items |-> "idle"] /\ jobHash = [i \in Items |-> NoHash]
  /\ jobStored = [i \in Items |-> FALSE] /\ jobMime = [i \in Items |-> "generic"]
  /\ pruning = "idle" /\ cutoffFiles = {} /\ toSweep = {} /\ unswept = {}
  /\ mimes = [h \in Hashes |-> "none"]

-----------------------------------------------------------------------------
(* Acquisition of an item's image. *)

\* acquire() returns, and its local variables with it.
Return(i) ==
  /\ job' = [job EXCEPT ![i] = "idle"] /\ jobHash' = [jobHash EXCEPT ![i] = NoHash]
  /\ jobStored' = [jobStored EXCEPT ![i] = FALSE] /\ jobMime' = [jobMime EXCEPT ![i] = "generic"]

\* acquire(): the type of a known image is reused, unless it is the generic one;
\* then, as for a new image, it is decoded.
MimeOf(h) == IF mime[h] = "typed" \/ h \in decodable THEN "typed" ELSE "generic"

\* Only bytes off the disk are accepted without a decoder: for bytes off the
\* network the acquisition fails.
Acquire(i, h, s) ==
  /\ job[i] = "idle"
  /\ job' = [job EXCEPT ![i] = "acquired"] /\ jobHash' = [jobHash EXCEPT ![i] = h]
  /\ jobStored' = [jobStored EXCEPT ![i] = s]
  /\ jobMime' = [jobMime EXCEPT ![i] = MimeOf(h)]
  /\ UNCHANGED <<decodable, store, table, gone, prune>>

\* Mutant: persist() does not take the prune lock.
AlwaysFree == TRUE

PruneLockFree == pruning = "idle"

\* persist() takes the read side of the prune lock ...
Lock(i) ==
  /\ job[i] = "acquired" /\ PruneLockFree
  /\ job' = [job EXCEPT ![i] = "locked"]
  /\ UNCHANGED <<decodable, store, table, gone, jobHash, jobStored, jobMime, prune>>

\* isFileBacked(): a library or upload file is not copied.
Places(i) == jobStored[i]

\* ... places the bytes, touching a file that is there already ...
PlaceBytes(i) ==
  /\ job[i] = "locked" /\ job' = [job EXCEPT ![i] = "placed"]
  /\ LET f == IF Places(i) THEN {<<jobHash[i], jobMime[i]>>} ELSE {}
     IN files' = files \cup f /\ oldFiles' = oldFiles \ f
  /\ UNCHANGED <<decodable, table, gone, jobHash, jobStored, jobMime, prune>>

\* ... commits the image's row, as of now ...
PutImage(i) ==
  /\ job[i] = "placed" /\ job' = [job EXCEPT ![i] = "committed"]
  /\ mime' = [mime EXCEPT ![jobHash[i]] = jobMime[i]]
  /\ oldRows' = oldRows \ {jobHash[i]}
  /\ UNCHANGED <<decodable, store, item, stored, gone, jobHash, jobStored, jobMime, prune>>

\* ... and the item's, and releases the lock.
PutItemArtwork(i) ==
  /\ job[i] = "committed" /\ Return(i)
  /\ item' = [item EXCEPT ![i] = jobHash[i]]
  /\ stored' = [stored EXCEPT ![i] = jobStored[i]]
  /\ UNCHANGED <<decodable, store, mime, oldRows, gone, prune>>

\* Any step may fail, and leaves what the earlier ones did.
AcquireFails(i) ==
  /\ job[i] # "idle" /\ Return(i)
  /\ UNCHANGED <<decodable, store, table, gone, prune>>

\* writeAbsent() or DeleteForItems(), neither under the prune lock.
ClearItem(i) ==
  /\ item[i] # NoHash
  /\ item' = [item EXCEPT ![i] = NoHash] /\ stored' = [stored EXCEPT ![i] = FALSE]
  /\ UNCHANGED <<decodable, store, mime, oldRows, gone, acquisition, prune>>

-----------------------------------------------------------------------------
(* The rest of the world. *)

\* The item's entity is removed, or imported again with the same id.
EntityChanges(i) ==
  /\ gone' = IF i \in gone THEN gone \ {i} ELSE gone \cup {i}
  /\ UNCHANGED <<decodable, store, table, acquisition, prune>>

\* The grace window of a file or a row passes.
FileAges(f) ==
  /\ f \in files \ oldFiles /\ oldFiles' = oldFiles \cup {f}
  /\ UNCHANGED <<decodable, files, table, gone, acquisition, prune>>

RowAges(h) ==
  /\ mime[h] # "none" /\ h \notin oldRows /\ oldRows' = oldRows \cup {h}
  /\ UNCHANGED <<decodable, store, mime, item, stored, gone, acquisition, prune>>

PruneReturns ==
  /\ pruning' = "idle" /\ cutoffFiles' = {} /\ toSweep' = {} /\ unswept' = {}
  /\ mimes' = [h \in Hashes |-> "none"]

\* The server stops, and starts again, with the same decoders.
Restart ==
  /\ job' = [i \in Items |-> "idle"] /\ jobHash' = [i \in Items |-> NoHash]
  /\ jobStored' = [i \in Items |-> FALSE] /\ jobMime' = [i \in Items |-> "generic"]
  /\ PruneReturns
  /\ UNCHANGED <<decodable, store, table, gone>>

-----------------------------------------------------------------------------
(* prune(), under the write side of the lock. *)

Persisting == {i \in Items : job[i] \in {"locked", "placed", "committed"}}

RunPrune ==
  /\ pruning = "idle" /\ Persisting = {}
  /\ pruning' = "items"
  /\ UNCHANGED <<decodable, store, table, gone, acquisition, cutoffFiles, mimes, toSweep, unswept>>

\* The state of removed entities goes.
PurgeDanglingItems ==
  /\ pruning = "items" /\ pruning' = "orphans"
  /\ item' = [i \in Items |-> IF i \in gone THEN NoHash ELSE item[i]]
  /\ stored' = [i \in Items |-> stored[i] /\ i \notin gone]
  /\ UNCHANGED <<decodable, store, mime, oldRows, gone, acquisition, cutoffFiles, mimes, toSweep, unswept>>

Orphans == {h \in oldRows : \A i \in Items : item[i] # h}

\* The cutoff is fixed, and the old rows that no item refers to go.
PurgeOrphans ==
  /\ pruning = "orphans" /\ pruning' = "mimes"
  /\ cutoffFiles' = oldFiles
  /\ mime' = [h \in Hashes |-> IF h \in Orphans THEN "none" ELSE mime[h]]
  /\ oldRows' = oldRows \ Orphans
  /\ UNCHANGED <<decodable, store, item, stored, gone, acquisition, mimes, toSweep, unswept>>

\* The rows that are left are read once, before the store is walked.
GetMimeByHash ==
  /\ pruning = "mimes" /\ pruning' = "sweep"
  /\ mimes' = mime /\ toSweep' = files
  /\ UNCHANGED <<decodable, store, table, gone, acquisition, cutoffFiles, unswept>>

\* Mutant: an unknown hash has the generic type.
KeepUnknown(f) == mimes[f[1]] = f[2] \/ (mimes[f[1]] = "none" /\ f[2] = "generic")

Keep(f) == mimes[f[1]] = f[2]

\* Sweep() visits a file; files newer than the cutoff are always kept, and one
\* that cannot be removed is passed over.
Sweep(f) ==
  /\ pruning = "sweep" /\ f \in toSweep
  /\ toSweep' = toSweep \ {f}
  /\ LET stray == IF f \in cutoffFiles /\ ~Keep(f) THEN {f} ELSE {}
     IN \/ files' = files \ stray /\ oldFiles' = oldFiles \ stray /\ UNCHANGED unswept
        \/ unswept' = unswept \cup stray /\ UNCHANGED store
  /\ UNCHANGED <<decodable, table, gone, acquisition, pruning, cutoffFiles, mimes>>

\* Something that the walk was about to visit has vanished: the walk ends there,
\* and the sweep succeeds.
WalkCutShort ==
  /\ pruning = "sweep" /\ toSweep # {}
  /\ toSweep' = {} /\ unswept' = unswept \cup toSweep
  /\ UNCHANGED <<decodable, store, table, gone, acquisition, pruning, cutoffFiles, mimes>>

PruneEnds ==
  /\ pruning = "sweep" /\ toSweep = {} /\ PruneReturns
  /\ UNCHANGED <<decodable, store, table, gone, acquisition>>

PruneFails ==
  /\ pruning # "idle" /\ PruneReturns
  /\ UNCHANGED <<decodable, store, table, gone, acquisition>>

-----------------------------------------------------------------------------
Next ==
  \/ \E i \in Items, h \in Hashes, s \in BOOLEAN : Acquire(i, h, s)
  \/ \E i \in Items : \/ Lock(i) \/ PlaceBytes(i) \/ PutImage(i) \/ PutItemArtwork(i)
                      \/ AcquireFails(i) \/ ClearItem(i) \/ EntityChanges(i)
  \/ \E f \in Files : FileAges(f) \/ Sweep(f)
  \/ \E h \in Hashes : RowAges(h)
  \/ Restart \/ RunPrune \/ PurgeDanglingItems \/ PurgeOrphans \/ GetMimeByHash
  \/ WalkCutShort \/ PruneEnds \/ PruneFails

Spec == Init /\ [][Next]_vars

-----------------------------------------------------------------------------
\* The types of the variables; old files exist and old rows are rows.
TypeOK ==
  /\ decodable \subseteq Hashes
  /\ files \subseteq Files /\ oldFiles \subseteq files
  /\ mime \in [Hashes -> Mimes \cup {"none"}] /\ oldRows \subseteq {h \in Hashes : mime[h] # "none"}
  /\ item \in [Items -> Hashes \cup {NoHash}] /\ stored \in [Items -> BOOLEAN]
  /\ gone \subseteq Items
  /\ job \in [Items -> {"idle", "acquired", "locked", "placed", "committed"}]
  /\ jobHash \in [Items -> Hashes \cup {NoHash}]
  /\ jobStored \in [Items -> BOOLEAN] /\ jobMime \in [Items -> Mimes]
  /\ pruning \in {"idle", "items", "orphans", "mimes", "sweep"}
  /\ cutoffFiles \subseteq Files /\ toSweep \subseteq Files /\ unswept \subseteq Files
  /\ mimes \in [Hashes -> Mimes \cup {"none"}]

\* Every item's image has its row, and the file that serveHash() would open for
\* it if the bytes are in the store: no prune, failure or restart between the
\* writes of an acquisition takes away what another item, or the acquisition
\* itself, is about to refer to.
Servable ==
  \A i \in Items : item[i] # NoHash =>
    /\ mime[item[i]] # "none"
    /\ stored[i] => <<item[i], mime[item[i]]>> \in files

\* A prune that completes has reclaimed every file that was older than its
\* cutoff and that no row speaks for, "the files of the rows just removed"
\* included, but for those that Sweep() could not remove ("One unremovable file
\* must not strand the rest of the store") and those behind the point where the
\* walk met something that had vanished.
PruneReclaims ==
  [][PruneEnds => \A f \in (files \cap cutoffFiles) \ unswept : mime[f[1]] = f[2]]_vars
=============================================================================
