----------------------------- MODULE LibraryScan -----------------------------
(***************************************************************************)
(* One library scan after another against a changing file system: how      *)
(* scanner/scanner.go starts, resumes and ends a scan, and how phase 1     *)
(* (phase_1_folders.go, walk_dir_tree.go, folder_entry.go) decides which   *)
(* folders to import and which to mark missing.  A scan may be selective,  *)
(* may fail in the middle, and the process may crash; what is in the       *)
(* library and folder tables survives.  ScanMaintenance shows that scans   *)
(* do not overlap, so there is one scan at a time here.                    *)
(*                                                                         *)
(* A folder stands for the files in it and content is their version.  In   *)
(* the database, hash is the version the stored hash describes, 0 if it    *)
(* describes none (hash() mixes what loadDir saw with what the files are   *)
(* when it is called); tracks is the version whose tags were imported and  *)
(* modTime the version of the stored modification time, 0 for a folder     *)
(* without available tracks; fresh is the outcome of the only comparison   *)
(* made on the folder's time, updTime >= LastScanStartedAt.                *)
(***************************************************************************)
EXTENDS Naturals, FiniteSets

CONSTANTS
  Libs, Folders,
  LibOf,      \* LibOf[f]: the library of folder f
  ParentOf,   \* ParentOf[f]: the folder above f, NoFolder for a library's root
  NoFolder,
  NewLibs,    \* libraries that no scan has ever finished
  Events,     \* what the environment may do, see Allowed
  MaxPid,     \* bound: PID configurations
  MaxEdits,   \* bound: versions of a folder's files
  MaxFaults   \* bound: failures and crashes

Children(f) == {g \in Folders : ParentOf[g] = f}

\* A folder and all that is below it: the least set with f that is closed under Children.
Subtree(f) ==
  {g \in Folders :
     \A S \in SUBSET Folders : f \in S /\ (\A h \in S : Children(h) \subseteq S) => g \in S}

\* Folders form trees, each within a library and below a root.
ASSUME LibraryScanAssumption ==
  /\ LibOf \in [Folders -> Libs]
  /\ NoFolder \notin Folders
  /\ ParentOf \in [Folders -> Folders \cup {NoFolder}]
  /\ \A f \in Folders : \A g \in Children(f) : LibOf[g] = LibOf[f] /\ f \notin Subtree(g)
  /\ \A f \in Folders : \E r \in Folders : ParentOf[r] = NoFolder /\ f \in Subtree(r)
  /\ NewLibs \subseteq Libs
  /\ MaxPid \in Nat \ {0} /\ MaxEdits \in Nat \ {0} /\ MaxFaults \in Nat

VARIABLES
  exists, content,              \* the file system
  row, hash, tracks, modTime, trackPid, fresh,   \* the folder and media_file tables
  started, fullScanInProgress, everScanned, scannedPid, pid,  \* the library table
  phase,        \* of the running scan
  scope,        \* folders the scan covers
  selective,    \* isSelectiveScan()
  requested,    \* the caller asked for a full scan
  fullScan,     \* state.fullScan
  prep,         \* libraries still to prepare
  jobs,         \* state.libraries: the libraries prepared
  failedLibs,   \* libraries without a scan job
  jobPid,       \* the PID configuration loaded with each library
  jobFull,      \* job.lib.FullScanInProgress
  lastUpdates,  \* folders of the job not yet found by the walk
  stage,        \* where each folder is in the phase's pipeline
  seen,         \* version found by loadDir
  read, stat,   \* versions of the tags and of the file times read, or 0
  owed,         \* history: folders a requested full scan has not re-imported yet
  unseen,       \* history: folders that, since the scan began, were absent or below
                \* one that could not be listed
  faults        \* faults injected so far

disk == <<exists, content>>
db == <<row, hash, tracks, modTime, trackPid, fresh>>
lib == <<started, fullScanInProgress, everScanned, scannedPid>>
job == <<scope, selective, requested, fullScan, prep, jobs, failedLibs, jobPid, jobFull>>
progress == <<lastUpdates, stage, seen, read, stat>>
vars == <<disk, db, lib, pid, phase, job, progress, owed, unseen, faults>>

Allowed(e) == e \in Events
Of(l) == {f \in Folders : LibOf[f] = l}

Known(f) == LibOf[f] \notin NewLibs
Nowhere == [f \in Folders |-> "none"]
Zero == [f \in Folders |-> 0]

Init ==
  /\ exists = [f \in Folders |-> TRUE] /\ content = [f \in Folders |-> 1]
  /\ row = [f \in Folders |-> IF Known(f) THEN "present" ELSE "none"]
  /\ hash = [f \in Folders |-> IF Known(f) THEN 1 ELSE 0]
  /\ tracks = hash /\ modTime = hash /\ trackPid = hash
  /\ fresh = [f \in Folders |-> FALSE]
  /\ started = [l \in Libs |-> FALSE] /\ fullScanInProgress = [l \in Libs |-> FALSE]
  /\ everScanned = [l \in Libs |-> l \notin NewLibs]
  /\ scannedPid = [l \in Libs |-> IF l \in NewLibs THEN 0 ELSE 1] /\ pid = [l \in Libs |-> 1]
  /\ phase = "idle" /\ scope = {} /\ selective = FALSE /\ requested = FALSE /\ fullScan = FALSE
  /\ prep = {} /\ jobs = {} /\ failedLibs = {}
  /\ jobPid = [l \in Libs |-> 0] /\ jobFull = [l \in Libs |-> FALSE]
  /\ lastUpdates = {} /\ stage = Nowhere /\ seen = Zero /\ read = Zero /\ stat = Zero
  /\ owed = {} /\ unseen = {} /\ faults = 0

Fault == faults < MaxFaults /\ faults' = faults + 1

-----------------------------------------------------------------------------
(* Library.NeedsPIDRescan for the PID configuration p of library l. *)
NeedsPIDRescan(l, p) == everScanned[l] /\ scannedPid[l] # p

\* scanFolders(): an interrupted full scan turns the scan into a full one.
ForcedFull(ls) == \E l \in ls : ~NeedsPIDRescan(l, pid[l]) /\ fullScanInProgress[l]

\* A full scan over an interrupted quick one, and a selective scan over an
\* interrupted full one, are started only where Events says so.
Unhindered(full, targets, ls) ==
  /\ full /\ ~Allowed("upgrade") =>
       \A l \in ls : started[l] => fullScanInProgress[l] \/ NeedsPIDRescan(l, pid[l])
  /\ targets # {} => \/ Allowed("partial")
                     \/ Allowed("selective") /\ \A l \in ls : ~fullScanInProgress[l]

\* scanFolders(): the libraries are loaded and the kind of scan is settled.
StartScan(full, targets) ==
  LET ls == IF targets = {} THEN Libs ELSE {LibOf[f] : f \in targets}
      covered == IF targets = {} THEN Folders ELSE UNION {Subtree(f) : f \in targets}
  IN /\ phase = "idle"
     /\ Unhindered(full, targets, ls)
     /\ phase' = "prepare"
     /\ scope' = covered /\ selective' = (targets # {})
     /\ requested' = full /\ fullScan' = (full \/ ForcedFull(ls))
     /\ prep' = ls /\ jobs' = {}
     /\ jobPid' = pid /\ UNCHANGED failedLibs
     /\ unseen' = {f \in Folders : ~exists[f]}
     /\ UNCHANGED <<disk, db, lib, pid, jobFull, progress, owed, faults>>

\* The folders of library l that a requested full scan has still to re-import.
Owes(l, fr) == IF requested THEN {f \in Of(l) \cap scope : row[f] = "present" /\ ~fr[f]} ELSE {}

\* Mutant: a changed PID configuration does not restart the scan.
MustBeginIfNew(l) == ~started[l]

\* prepareLibrariesForScan(): the libraries whose scan is begun anew.
MustBegin(l) == ~started[l] \/ NeedsPIDRescan(l, jobPid[l])

\* Mutant: a scan is recorded as full only for a changed PID configuration.
BeginsFullForPid(l) == NeedsPIDRescan(l, jobPid[l])

\* prepareLibrariesForScan(): whether the scan is recorded as a full one.
BeginsFull(l) == fullScan \/ NeedsPIDRescan(l, jobPid[l])

\* libraryRepository.ScanBegin: its time is newer than every folder's.
ScanBegin(l) ==
  LET stale == [f \in Folders |-> IF LibOf[f] = l THEN FALSE ELSE fresh[f]]
  IN /\ phase = "prepare" /\ l \in prep /\ MustBegin(l)
     /\ started' = [started EXCEPT ![l] = TRUE]
     /\ fullScanInProgress' = [fullScanInProgress EXCEPT ![l] = BeginsFull(l)]
     /\ fresh' = stale
     /\ prep' = prep \ {l}
     /\ owed' = owed \cup Owes(l, stale)
     /\ UNCHANGED <<disk, row, hash, tracks, modTime, trackPid, everScanned, scannedPid, pid, phase,
                    scope, selective, requested, fullScan, failedLibs, jobFull, progress, unseen>>

\* prepareLibrariesForScan(): ScanBegin, and the library is loaded again.
BeginLibrary(l) ==
  /\ ScanBegin(l)
  /\ jobPid' = [jobPid EXCEPT ![l] = pid[l]] /\ jobs' = jobs \cup {l}
  /\ UNCHANGED faults

\* prepareLibrariesForScan(): ScanBegin went well but the library is not loaded
\* again, and is left out.
ReloadFails(l) ==
  /\ ScanBegin(l) /\ Fault
  /\ UNCHANGED <<jobPid, jobs>>

\* prepareLibrariesForScan(): the interrupted scan of the library is resumed.
ResumeLibrary(l) ==
  /\ phase = "prepare" /\ l \in prep /\ ~MustBegin(l)
  /\ prep' = prep \ {l} /\ jobs' = jobs \cup {l}
  /\ owed' = owed \cup Owes(l, fresh)
  /\ UNCHANGED <<disk, db, lib, pid, phase, scope, selective, requested, fullScan, failedLibs, jobPid,
                 jobFull, progress, unseen, faults>>

\* prepareLibrariesForScan(): ScanBegin failed, the library is left out.
BeginFails(l) ==
  /\ phase = "prepare" /\ l \in prep /\ MustBegin(l) /\ Fault
  /\ prep' = prep \ {l}
  /\ UNCHANGED <<disk, db, lib, pid, phase, scope, selective, requested, fullScan, jobs, failedLibs,
                 jobPid, jobFull, progress, owed, unseen>>

Idle ==
  /\ phase' = "idle" /\ scope' = {} /\ selective' = FALSE /\ requested' = FALSE /\ fullScan' = FALSE
  /\ prep' = {} /\ jobs' = {} /\ failedLibs' = {}
  /\ jobPid' = [l \in Libs |-> 0] /\ jobFull' = [l \in Libs |-> FALSE]
  /\ lastUpdates' = {} /\ stage' = Nowhere /\ seen' = Zero /\ read' = Zero /\ stat' = Zero
  /\ unseen' = {}

\* "no libraries available for scanning".
NoLibraries ==
  /\ phase = "prepare" /\ prep = {} /\ jobs = {}
  /\ Idle
  /\ UNCHANGED <<disk, db, lib, pid, owed, faults>>

\* newScanJob() fails for some libraries: in quick scans, or in full ones too.
JobsFail == Fault /\ (Allowed("badfull") \/ (Allowed("badlib") /\ ~fullScan))

\* createPhaseFolders(), newScanJob(): the stored folders in scope are loaded and
\* the walk starts from the root of the library or from the target folders; a
\* library whose folders or storage cannot be loaded gets no job, and the scan goes
\* on without it.
CreateJobs ==
  /\ phase = "prepare" /\ prep = {} /\ jobs # {}
  /\ phase' = "walk"
  /\ \/ failedLibs' = {} /\ UNCHANGED faults
     \/ failedLibs' \in SUBSET jobs \ {{}} /\ JobsFail
  /\ jobFull' = [l \in Libs |->
        l \in jobs /\ (fullScanInProgress[l] \/ fullScan \/ NeedsPIDRescan(l, jobPid[l]))]
  /\ LET found == {f \in scope : LibOf[f] \in jobs \ failedLibs'}
     IN /\ lastUpdates' = {f \in found : row[f] = "present"}
        /\ stage' = [f \in Folders |->
              IF f \in found /\ ParentOf[f] \notin scope THEN "walk" ELSE "none"]
  /\ UNCHANGED <<disk, db, lib, pid, scope, selective, requested, fullScan, prep, jobs, jobPid,
                 seen, read, stat, owed, unseen>>

-----------------------------------------------------------------------------
(* Phase 1.  A folder goes through the stages walk (to be loaded), loaded,  *)
(* queued (outdated), parsed (its tags are read) and processed.            *)

Enter(f, from, to) == phase = "walk" /\ stage[f] = from /\ stage' = [stage EXCEPT ![f] = to]

\* Mutant: a folder the walk finds stays in lastUpdates.
popLastUpdateKeeps(f) == lastUpdates

popLastUpdate(f) == lastUpdates \ {f}

\* walkFolder(), loadDir(): the folder is found and its children are walked.
LoadDir(f) ==
  /\ phase = "walk" /\ stage[f] = "walk" /\ exists[f]
  /\ lastUpdates' = popLastUpdate(f)
  /\ stage' = [g \in Folders |->
        IF g = f THEN "loaded"
        ELSE IF g \in Children(f) /\ exists[g] THEN "walk" ELSE stage[g]]
  /\ seen' = [seen EXCEPT ![f] = content[f]]
  /\ UNCHANGED <<disk, db, lib, pid, phase, job, read, stat, owed, unseen, faults>>

\* walkDirTree(), loadDir(): the folder is gone and stays in lastUpdates.
LoadDirGone(f) ==
  /\ Enter(f, "walk", "none") /\ ~exists[f]
  /\ UNCHANGED <<disk, db, lib, pid, phase, job, lastUpdates, seen, read, stat, owed, unseen, faults>>

\* loadDir(): a file of the folder disappears while it is listed; the folder has
\* been taken out of lastUpdates and walkFolder returns without its children.
LoadDirFails(f) ==
  /\ Enter(f, "walk", "none") /\ exists[f] /\ Allowed("vanish")
  /\ lastUpdates' = popLastUpdate(f)
  /\ unseen' = unseen \cup (Subtree(f) \ {f})
  /\ UNCHANGED <<disk, db, lib, pid, phase, job, seen, read, stat, owed, faults>>

\* Mutant: hash() of the files as they are now, without the time loadDir saw.
currentHashOnly(f) == IF exists[f] THEN content[f] ELSE 0

\* hash() when the files are looked at again after loadDir.
currentHash(f) == IF exists[f] /\ seen[f] = content[f] THEN content[f] ELSE 0

\* Mutant: a full scan looks at the hash alone.
isOutdatedByHash(f) == row[f] # "present" \/ hash[f] # currentHash(f)

\* isOutdated(): a folder without a row, or with a missing one, has no prevHash.
isOutdated(f) ==
  \/ jobFull[LibOf[f]] /\ ~fresh[f]
  \/ row[f] # "present"
  \/ hash[f] # currentHash(f) \/ currentHash(f) = 0

\* producer(): the folder is passed on if it is outdated.
Produce(f) ==
  /\ IF isOutdated(f)
     THEN Enter(f, "loaded", "queued") /\ UNCHANGED seen
     ELSE Enter(f, "loaded", "none") /\ seen' = [seen EXCEPT ![f] = 0]
  /\ UNCHANGED <<disk, db, lib, pid, phase, job, lastUpdates, read, stat, owed, unseen, faults>>

\* processFolder(): the files are new, were missing or are newer, or all are
\* taken in a full scan.
filesToImport(f) == jobFull[LibOf[f]] \/ tracks[f] = 0 \/ content[f] > modTime[f]

\* processFolder(), and ReadTags as far as the extractor's Parse.
ProcessFolder(f) ==
  /\ exists[f]
  /\ IF filesToImport(f)
     THEN Enter(f, "queued", "parsed") /\ read' = [read EXCEPT ![f] = content[f]]
     ELSE Enter(f, "queued", "processed") /\ UNCHANGED read
  /\ UNCHANGED <<disk, db, lib, pid, phase, job, lastUpdates, seen, stat, owed, unseen, faults>>

\* processFolder(): the files are gone or their tags cannot be read; the entry
\* goes on without tracks.
ProcessFolderFails(f) ==
  /\ Enter(f, "queued", "processed")
  /\ exists[f] => Allowed("tagerror")
  /\ UNCHANGED <<disk, db, lib, pid, phase, job, lastUpdates, seen, read, stat, owed, unseen, faults>>

\* localFS.ReadTags(): the files' times are read after the tags.
StatFiles(f) ==
  /\ Enter(f, "parsed", "processed")
  /\ stat' = [stat EXCEPT ![f] = IF exists[f] THEN content[f] ELSE 0]
  /\ read' = [read EXCEPT ![f] = IF exists[f] THEN read[f] ELSE 0]
  /\ UNCHANGED <<disk, db, lib, pid, phase, job, lastUpdates, seen, owed, unseen, faults>>

\* persistChanges(), persistFolder(), one transaction: toFolder() computes the
\* hash again.
PersistFolder(f) ==
  /\ Enter(f, "processed", "none")
  /\ row' = [row EXCEPT ![f] = "present"]
  /\ fresh' = [fresh EXCEPT ![f] = TRUE]
  /\ hash' = [hash EXCEPT ![f] = currentHash(f)]
  /\ IF read[f] = 0
     THEN UNCHANGED <<tracks, modTime, trackPid>>
     ELSE /\ tracks' = [tracks EXCEPT ![f] = read[f]]
          /\ modTime' = [modTime EXCEPT ![f] = stat[f]]
          /\ trackPid' = [trackPid EXCEPT ![f] = jobPid[LibOf[f]]]
  /\ owed' = IF jobFull[LibOf[f]] /\ read[f] # 0 THEN owed \ {f} ELSE owed
  /\ seen' = [seen EXCEPT ![f] = 0]
  /\ read' = [read EXCEPT ![f] = 0] /\ stat' = [stat EXCEPT ![f] = 0]
  /\ UNCHANGED <<disk, lib, pid, phase, job, lastUpdates, unseen, faults>>

\* Every folder went through the pipeline: the phase ended without an error.
Walked == \A f \in Folders : stage[f] = "none"

\* phaseFolders.finalize(nil), one transaction: the folders the walk did not find,
\* and their tracks, are missing.
Finalize ==
  /\ phase = "walk" /\ Walked
  /\ row' = [f \in Folders |-> IF f \in lastUpdates THEN "missing" ELSE row[f]]
  /\ tracks' = [f \in Folders |-> IF f \in lastUpdates THEN 0 ELSE tracks[f]]
  /\ owed' = owed \ lastUpdates
  /\ phase' = "later" /\ lastUpdates' = {}
  /\ UNCHANGED <<disk, hash, modTime, trackPid, fresh, lib, pid, job, stage, seen, read, stat, unseen,
                 faults>>

\* A stage or a later phase returns an error: the scan stops, ScanEnd is not run.
ScanFails ==
  /\ phase # "idle" /\ Fault
  /\ Idle
  /\ UNCHANGED <<disk, db, lib, pid, owed>>

\* libraryRepository.ScanEnd clears full_scan_in_progress.
StillFull(l) == fullScanInProgress[l] /\ l \notin jobs

\* runUpdateLibraries(): the libraries whose PID configuration was applied.
AppliesPID(l) == l \in jobs \ failedLibs /\ ~selective

\* runUpdateLibraries(), one transaction: ScanEnd and SetScannedPID.
UpdateLibraries ==
  /\ phase = "later"
  /\ started' = [l \in Libs |-> started[l] /\ l \notin jobs]
  /\ fullScanInProgress' = [l \in Libs |-> StillFull(l)]
  /\ everScanned' = [l \in Libs |-> everScanned[l] \/ l \in jobs]
  /\ scannedPid' = [l \in Libs |-> IF AppliesPID(l) THEN jobPid[l] ELSE scannedPid[l]]
  /\ Idle
  /\ UNCHANGED <<disk, db, pid, owed, faults>>

-----------------------------------------------------------------------------
\* The files of the folder change; between the reading of their tags and of their
\* times only where Events says so.
Edit(f) ==
  /\ exists[f] /\ content[f] < MaxEdits
  /\ stage[f] # "parsed" \/ Allowed("race")
  /\ content' = [content EXCEPT ![f] = content[f] + 1]
  /\ UNCHANGED <<exists, db, lib, pid, phase, job, progress, owed, unseen, faults>>

Delete(f) ==
  /\ Allowed("delete") /\ exists[f]
  /\ exists' = [g \in Folders |-> exists[g] /\ g \notin Subtree(f)]
  /\ unseen' = unseen \cup Subtree(f)
  /\ UNCHANGED <<content, db, lib, pid, phase, job, progress, owed, faults>>

\* The folder comes back as it was (a remount, a move undone), but not between the
\* processing and the persisting of its entry.
Restore(f) ==
  /\ ~exists[f] /\ stage[f] # "processed" /\ (ParentOf[f] \in Folders => exists[ParentOf[f]])
  /\ exists' = [exists EXCEPT ![f] = TRUE]
  /\ UNCHANGED <<content, db, lib, pid, phase, job, progress, owed, unseen, faults>>

\* The PID configuration of a library is edited.
ChangePid(l) ==
  /\ \E p \in 1..MaxPid :
       /\ p > pid[l] \/ (p # pid[l] /\ Allowed("revert"))
       /\ pid' = [pid EXCEPT ![l] = p]
  /\ UNCHANGED <<disk, db, lib, phase, job, progress, owed, unseen, faults>>

Next ==
  \/ \E full \in BOOLEAN :
       StartScan(full, {}) \/ \E f \in Folders : StartScan(full, {f})
  \/ \E l \in Libs :
       BeginLibrary(l) \/ ReloadFails(l) \/ ResumeLibrary(l) \/ BeginFails(l) \/ ChangePid(l)
  \/ NoLibraries \/ CreateJobs \/ Finalize \/ ScanFails \/ UpdateLibraries
  \/ \E f \in Folders :
       \/ LoadDir(f) \/ LoadDirGone(f) \/ LoadDirFails(f) \/ Produce(f)
       \/ ProcessFolder(f) \/ ProcessFolderFails(f) \/ StatFiles(f) \/ PersistFolder(f)
       \/ Edit(f) \/ Delete(f) \/ Restore(f)

Spec == Init /\ [][Next]_vars

\* The scan keeps running, and scans are started again and again: on a schedule,
\* at startup after an interrupted one, and by the watcher.
Fairness ==
  /\ SF_vars(StartScan(FALSE, {}))
  /\ \A l \in Libs : WF_vars(BeginLibrary(l)) /\ WF_vars(ResumeLibrary(l))
  /\ WF_vars(NoLibraries) /\ WF_vars(CreateJobs) /\ WF_vars(Finalize) /\ WF_vars(UpdateLibraries)
  /\ \A f \in Folders :
       WF_vars(LoadDir(f) \/ LoadDirGone(f) \/ Produce(f) \/ ProcessFolder(f) \/ ProcessFolderFails(f)
                 \/ StatFiles(f) \/ PersistFolder(f))

FairSpec == Spec /\ Fairness

-----------------------------------------------------------------------------
\* The tables, the running scan and its pipeline keep their types, and no version
\* that was read is newer than the files.
TypeOK ==
  /\ exists \in [Folders -> BOOLEAN] /\ content \in [Folders -> Nat \ {0}]
  /\ row \in [Folders -> {"none", "present", "missing"}] /\ fresh \in [Folders -> BOOLEAN]
  /\ {hash, tracks, modTime, trackPid, seen, read, stat} \subseteq [Folders -> Nat]
  /\ \A f \in Folders : {hash[f], tracks[f], modTime[f], seen[f], read[f], stat[f]} \subseteq 0..content[f]
  /\ {started, fullScanInProgress, everScanned, jobFull} \subseteq [Libs -> BOOLEAN]
  /\ {scannedPid, pid, jobPid} \subseteq [Libs -> 0..MaxPid]
  /\ phase \in {"idle", "prepare", "walk", "later"}
  /\ {selective, requested, fullScan} \subseteq BOOLEAN
  /\ {scope, lastUpdates, owed, unseen} \subseteq SUBSET Folders
  /\ {prep, jobs, failedLibs} \subseteq SUBSET Libs
  /\ stage \in [Folders -> {"none", "walk", "loaded", "queued", "parsed", "processed"}]
  /\ faults \in 0..MaxFaults

\* A requested full scan is not forgotten: as long as the tags of a folder have not
\* been read again, either the running scan will do it or the next scan is a full one,
\* because the library is flagged or its PID configuration was changed.  ScanEnd
\* clears the flag even where the scan left folders out, so this is only so while full
\* scans can open the libraries and read what is in them (no badfull, vanish, delete
\* or tagerror), no scan covers an interrupted one in part (partial, upgrade) and no
\* earlier PID configuration returns (revert).
FullScanRemembered ==
  \A f \in owed :
    \/ fullScanInProgress[LibOf[f]]
    \/ NeedsPIDRescan(LibOf[f], pid[LibOf[f]])
    \/ phase # "idle" /\ f \in scope /\ LibOf[f] \in jobs /\ (phase = "walk" => jobFull[LibOf[f]])

\* ... and it is eventually finished.
FullScanFinishes == \A f \in Folders : f \in owed ~> f \notin owed

\* When no scan of a library is under way or interrupted and its PID is taken to
\* be up to date, every track in it was imported under that PID.
PIDApplied ==
  \A f \in Folders :
    LET l == LibOf[f]
    IN ~started[l] /\ ~NeedsPIDRescan(l, pid[l]) /\ tracks[f] # 0 => trackPid[f] = pid[l]

\* A folder that quick scans will skip as unchanged has its current files
\* imported.
SkippedIsImported ==
  \A f \in Folders : row[f] = "present" /\ exists[f] /\ hash[f] = content[f]
                       => tracks[f] = content[f]

\* A folder is marked missing only if at some moment of the scan it was absent or
\* hidden below a folder that could not be listed: not because the scan failed or
\* was selective.
MissingWasUnseen ==
  [][\A f \in Folders : row[f] = "present" /\ row'[f] = "missing" => f \in unseen]_vars
=============================================================================
