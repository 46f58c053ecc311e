-------------------------- MODULE LibraryScanProofs --------------------------
(***************************************************************************)
(* Proofs about LibraryScan, for any libraries, folder trees, events and   *)
(* bounds that each theorem names.                                         *)
(***************************************************************************)
EXTENDS LibraryScan, TLAPS

\* A set of folders that holds what is below its members.
Closed(S) == \A h \in S : Children(h) \subseteq S

\* The subtree of a folder is closed, and is the least closed set with the folder.
LEMMA SubtreeLeast ==
  ASSUME NEW f \in Folders
  PROVE  /\ f \in Subtree(f) /\ Subtree(f) \subseteq Folders /\ Closed(Subtree(f))
         /\ \A S \in SUBSET Folders : f \in S /\ Closed(S) => Subtree(f) \subseteq S
<1>1. Subtree(f) \subseteq Folders
  BY Zenon DEF Subtree
<1>2. f \in Subtree(f)
  BY Zenon DEF Subtree
<1>3. ASSUME NEW h \in Subtree(f), NEW g \in Children(h)
      PROVE  g \in Subtree(f)
  <2>1. g \in Folders
    BY Zenon DEF Children
  <2>2. ASSUME NEW S \in SUBSET Folders, f \in S, \A k \in S : Children(k) \subseteq S
        PROVE  g \in S
    <3>1. h \in S
      BY Zenon, <2>2 DEF Subtree
    <3>2. QED
      BY Zenon, <2>2, <3>1
  <2>3. QED
    BY Zenon, <2>1, <2>2 DEF Subtree
<1>4. ASSUME NEW S \in SUBSET Folders, f \in S, Closed(S)
      PROVE  Subtree(f) \subseteq S
  BY Zenon, <1>4 DEF Subtree, Closed
<1>5. QED
  BY Zenon, <1>1, <1>2, <1>3, <1>4 DEF Closed

\* What is below a folder is below one of its children, and so is its own parent.
LEMMA BelowChild ==
  ASSUME NEW f \in Folders, NEW g \in Subtree(f), g # f
  PROVE  /\ \E c \in Children(f) : g \in Subtree(c)
         /\ ParentOf[g] \in Subtree(f)
<1> DEFINE S == {f} \cup UNION {Subtree(c) : c \in Children(f)}
           T == {f} \cup {h \in Subtree(f) : ParentOf[h] \in Subtree(f)}
<1>1. S \in SUBSET Folders /\ T \in SUBSET Folders
  BY SubtreeLeast DEF Children
<1>2. Closed(S)
  <2> SUFFICES ASSUME NEW h \in S, NEW k \in Children(h) PROVE k \in S
    BY Zenon DEF Closed
  <2>1. CASE h = f
    BY Zenon, <2>1, SubtreeLeast DEF Children
  <2>2. ASSUME NEW c \in Children(f), h \in Subtree(c)
        PROVE  k \in S
    <3>1. c \in Folders
      BY Zenon DEF Children
    <3>2. k \in Subtree(c)
      BY Zenon, <2>2, <3>1, SubtreeLeast DEF Closed
    <3>3. QED
      BY Zenon, <3>2
  <2>3. QED
    BY Zenon, <2>1, <2>2
<1>3. Closed(T)
  <2> SUFFICES ASSUME NEW h \in T, NEW k \in Children(h) PROVE k \in T
    BY Zenon DEF Closed
  <2>1. h \in Subtree(f) /\ Closed(Subtree(f))
    BY Zenon, SubtreeLeast
  <2>2. k \in Subtree(f) /\ ParentOf[k] = h
    BY Zenon, <2>1 DEF Closed, Children
  <2>3. QED
    BY Zenon, <2>1, <2>2
<1>4. Subtree(f) \subseteq S /\ Subtree(f) \subseteq T
  BY Zenon, <1>1, <1>2, <1>3, SubtreeLeast
<1>5. QED
  BY Zenon, <1>4

\* The folders above a folder.
Above(g) == {u \in Folders : g \in Subtree(u)} \ {g}

\* The subtree of a folder's subtree.
LEMMA SubtreeInside ==
  ASSUME NEW f \in Folders, NEW g \in Subtree(f)
  PROVE  Subtree(g) \subseteq Subtree(f)
BY Zenon, SubtreeLeast

\* A child has its parent above it, and what is above the parent; nothing is above
\* itself or above what is above it.
LEMMA AboveChild ==
  ASSUME NEW f \in Folders, NEW c \in Children(f)
  PROVE  /\ c \in Folders /\ c # f /\ LibOf[c] = LibOf[f]
         /\ Above(c) = Above(f) \cup {f}
         /\ c \notin Above(f)
<1>1. c \in Folders /\ ParentOf[c] = f /\ LibOf[c] = LibOf[f] /\ f \notin Subtree(c)
  BY Zenon, LibraryScanAssumption DEF Children
<1>2. c # f /\ c \in Subtree(f)
  BY Zenon, <1>1, SubtreeLeast DEF Closed
<1>3. c \notin Above(f)
  BY Zenon, <1>1 DEF Above
<1>4. ASSUME NEW u \in Above(c)
      PROVE  u \in Above(f) \cup {f}
  <2>1. u \in Folders /\ c \in Subtree(u) /\ u # c
    BY Zenon DEF Above
  <2>2. f \in Subtree(u)
    BY Zenon, <1>1, <2>1, BelowChild
  <2>3. QED
    BY Zenon, <2>1, <2>2 DEF Above
<1>5. ASSUME NEW u \in Above(f) \cup {f}
      PROVE  u \in Above(c)
  <2>1. u \in Folders /\ f \in Subtree(u)
    BY Zenon, SubtreeLeast DEF Above
  <2>2. c \in Subtree(u)
    BY Zenon, <2>1, SubtreeLeast DEF Closed
  <2>3. u # c
    BY Zenon, <1>2, <1>3
  <2>4. QED
    BY Zenon, <2>1, <2>2, <2>3 DEF Above
<1>6. QED
  BY Zenon, <1>1, <1>2, <1>3, <1>4, <1>5

-----------------------------------------------------------------------------
(* Types. *)

Bits == [Libs -> BOOLEAN]
DiskType == exists \in [Folders -> BOOLEAN] /\ content \in [Folders -> Nat \ {0}]
TableType ==
  /\ row \in [Folders -> {"none", "present", "missing"}] /\ fresh \in [Folders -> BOOLEAN]
  /\ hash \in [Folders -> Nat] /\ tracks \in [Folders -> Nat] /\ modTime \in [Folders -> Nat]
  /\ trackPid \in [Folders -> Nat]
LibType ==
  /\ started \in Bits /\ fullScanInProgress \in Bits /\ everScanned \in Bits
  /\ scannedPid \in [Libs -> 0..MaxPid] /\ pid \in [Libs -> 0..MaxPid]
JobType ==
  /\ phase \in {"idle", "prepare", "walk", "later"}
  /\ selective \in BOOLEAN /\ requested \in BOOLEAN /\ fullScan \in BOOLEAN
  /\ scope \in SUBSET Folders /\ unseen \in SUBSET Folders /\ owed \in SUBSET Folders
  /\ prep \in SUBSET Libs /\ jobs \in SUBSET Libs /\ failedLibs \in SUBSET Libs
  /\ jobPid \in [Libs -> 0..MaxPid] /\ jobFull \in Bits
  /\ faults \in 0..MaxFaults
PipeType ==
  /\ lastUpdates \in SUBSET Folders
  /\ stage \in [Folders -> {"none", "walk", "loaded", "queued", "parsed", "processed"}]
  /\ seen \in [Folders -> Nat] /\ read \in [Folders -> Nat] /\ stat \in [Folders -> Nat]
Types == DiskType /\ TableType /\ LibType /\ JobType /\ PipeType

\* No version that was read is newer than the files.
Versions ==
  \A f \in Folders :
    /\ hash[f] <= content[f] /\ tracks[f] <= content[f] /\ modTime[f] <= content[f]
    /\ seen[f] <= content[f] /\ read[f] <= content[f] /\ stat[f] <= content[f]

\* The parts make up the type invariant.
LEMMA TypeParts == Types /\ Versions => TypeOK
<1> SUFFICES ASSUME Types, Versions PROVE TypeOK
  BY Zenon
<1>1. {hash, tracks, modTime, trackPid, seen, read, stat} \subseteq [Folders -> Nat]
  BY Zenon DEF Types, TableType, PipeType
<1>2. ASSUME NEW f \in Folders
      PROVE  {hash[f], tracks[f], modTime[f], seen[f], read[f], stat[f]} \subseteq 0..content[f]
  BY DEF Types, Versions, DiskType, TableType, PipeType
<1>3. {started, fullScanInProgress, everScanned, jobFull} \subseteq [Libs -> BOOLEAN]
  BY Zenon DEF Types, LibType, JobType, Bits
<1>4. {scannedPid, pid, jobPid} \subseteq [Libs -> 0..MaxPid]
  BY Zenon DEF Types, LibType, JobType
<1>5. /\ {selective, requested, fullScan} \subseteq BOOLEAN
      /\ {scope, lastUpdates, owed, unseen} \subseteq SUBSET Folders
      /\ {prep, jobs, failedLibs} \subseteq SUBSET Libs
  BY Zenon DEF Types, JobType, PipeType
<1>6. QED
  BY <1>1, <1>2, <1>3, <1>4, <1>5, Zenon DEF TypeOK, Types, DiskType, TableType, PipeType, JobType

\* The steps of a scan other than those of the pipeline, and those of the pipeline
PrepareStep(l) == BeginLibrary(l) \/ ReloadFails(l) \/ ResumeLibrary(l) \/ BeginFails(l)
WalkStep(f) == LoadDir(f) \/ LoadDirGone(f) \/ LoadDirFails(f)
ImportStep(f) == Produce(f) \/ ProcessFolder(f) \/ ProcessFolderFails(f) \/ StatFiles(f)

\* Every step is of one of these kinds.
LEMMA Steps ==
  ASSUME [Next]_vars
  PROVE  \/ \E full \in BOOLEAN : StartScan(full, {}) \/ \E f \in Folders : StartScan(full, {f})
         \/ \E l \in Libs : PrepareStep(l)
         \/ \E l \in Libs : ChangePid(l)
         \/ NoLibraries \/ CreateJobs \/ Finalize \/ ScanFails \/ UpdateLibraries
         \/ \E f \in Folders : WalkStep(f) \/ ImportStep(f) \/ PersistFolder(f)
         \/ \E f \in Folders : Edit(f) \/ Delete(f) \/ Restore(f)
         \/ UNCHANGED vars
BY Zenon DEF Next, PrepareStep, WalkStep, ImportStep

\* What the start of a scan leaves alone
LEMMA StartFrame ==
  ASSUME NEW full, NEW targets, StartScan(full, targets)
  PROVE  UNCHANGED <<disk, db, lib, pid, jobFull, failedLibs, progress, owed, faults>>
BY Zenon DEF StartScan

\* The preparation of a library
LEMMA PrepareFrame ==
  ASSUME NEW l \in Libs, PrepareStep(l)
  PROVE  UNCHANGED <<disk, row, hash, tracks, modTime, trackPid, everScanned, scannedPid, pid, phase,
                     scope, selective, requested, fullScan, failedLibs, jobFull, progress, unseen>>
BY Zenon DEF PrepareStep, BeginLibrary, ReloadFails, ScanBegin, ResumeLibrary, BeginFails, db, lib

\* The steps that end a scan
LEMMA IdleFrame ==
  ASSUME NoLibraries \/ ScanFails \/ UpdateLibraries
  PROVE  Idle /\ UNCHANGED <<disk, db, pid, owed>>
BY Zenon DEF NoLibraries, ScanFails, UpdateLibraries

\* The walk
LEMMA WalkFrame ==
  ASSUME NEW f \in Folders, WalkStep(f)
  PROVE  UNCHANGED <<disk, db, lib, pid, phase, job, read, stat, owed, faults>>
BY Zenon DEF WalkStep, LoadDir, LoadDirGone, LoadDirFails

\* The import of a folder up to its transaction
LEMMA ImportFrame ==
  ASSUME NEW f \in Folders, ImportStep(f)
  PROVE  UNCHANGED <<disk, db, lib, pid, phase, job, lastUpdates, owed, unseen, faults>>
BY Zenon DEF ImportStep, Produce, ProcessFolder, ProcessFolderFails, StatFiles

\* Changes of the file system
LEMMA DiskFrame ==
  ASSUME NEW f \in Folders, Edit(f) \/ Delete(f) \/ Restore(f)
  PROVE  UNCHANGED <<db, lib, pid, phase, job, progress, owed, faults>>
BY Zenon DEF Edit, Delete, Restore

\* The file system changes by its own steps only.
LEMMA OnlyDisk ==
  ASSUME [Next]_vars
  PROVE  UNCHANGED disk \/ \E f \in Folders : Edit(f) \/ Delete(f) \/ Restore(f)
<1>1. ASSUME NEW l \in Libs, ChangePid(l) PROVE UNCHANGED disk
  BY Zenon, <1>1 DEF ChangePid
<1>2. CASE CreateJobs \/ Finalize
  BY Zenon, <1>2 DEF CreateJobs, Finalize
<1>3. ASSUME NEW f \in Folders, PersistFolder(f) PROVE UNCHANGED disk
  BY Zenon, <1>3 DEF PersistFolder
<1>4. CASE UNCHANGED vars
  BY Zenon, <1>4 DEF vars
<1>5. QED
  BY Zenon, <1>1, <1>2, <1>3, <1>4, Steps, StartFrame, PrepareFrame, IdleFrame, WalkFrame, ImportFrame

\* The file system keeps its type, and versions only grow.
LEMMA DiskStep ==
  ASSUME DiskType, [Next]_vars
  PROVE  DiskType' /\ \A f \in Folders : content[f] <= content'[f]
<1> USE DEF DiskType, disk
<1>1. CASE UNCHANGED disk
  BY <1>1
<1>2. ASSUME NEW f \in Folders, Edit(f)
      PROVE  DiskType' /\ \A g \in Folders : content[g] <= content'[g]
  BY <1>2 DEF Edit
<1>3. ASSUME NEW f \in Folders, Delete(f) \/ Restore(f)
      PROVE  DiskType' /\ \A g \in Folders : content[g] <= content'[g]
  <2>1. exists' \in [Folders -> BOOLEAN]
    BY Zenon, <1>3 DEF Delete, Restore
  <2>2. UNCHANGED content
    BY Zenon, <1>3 DEF Delete, Restore
  <2>3. QED
    BY <2>1, <2>2
<1>4. QED
  BY Zenon, <1>1, <1>2, <1>3, OnlyDisk

\* What the hash of a folder's files describes is a version they have had.
LEMMA HashIsVersion ==
  ASSUME DiskType, NEW f \in Folders
  PROVE  currentHash(f) \in Nat /\ currentHash(f) <= content[f]
BY DEF DiskType, currentHash

\* The tables change when a scan begins, when a folder is persisted and at the end of
\* the phase only.
LEMMA OnlyTables ==
  ASSUME [Next]_vars
  PROVE  \/ UNCHANGED <<row, hash, tracks, modTime, trackPid>>
         \/ Finalize \/ \E f \in Folders : PersistFolder(f)
<1> USE DEF db
<1>1. ASSUME NEW l \in Libs, ChangePid(l) PROVE UNCHANGED db
  BY Zenon, <1>1 DEF ChangePid
<1>2. CASE CreateJobs
  BY Zenon, <1>2 DEF CreateJobs
<1>3. CASE UNCHANGED vars
  BY Zenon, <1>3 DEF vars
<1>4. QED
  BY Zenon, <1>1, <1>2, <1>3, Steps, StartFrame, PrepareFrame, IdleFrame, WalkFrame, ImportFrame, DiskFrame

\* The comparison with the start of the scan changes with the two.
LEMMA OnlyFresh ==
  ASSUME [Next]_vars
  PROVE  \/ UNCHANGED fresh
         \/ (\E l \in Libs : ScanBegin(l)) \/ \E f \in Folders : PersistFolder(f)
<1> USE DEF db
<1>1. ASSUME NEW l \in Libs, ChangePid(l) PROVE UNCHANGED db
  BY Zenon, <1>1 DEF ChangePid
<1>2. CASE CreateJobs \/ Finalize
  BY Zenon, <1>2 DEF CreateJobs, Finalize
<1>3. CASE UNCHANGED vars
  BY Zenon, <1>3 DEF vars
<1>4. ASSUME NEW l \in Libs, PrepareStep(l) PROVE UNCHANGED fresh \/ ScanBegin(l)
  BY Zenon, <1>4 DEF PrepareStep, BeginLibrary, ReloadFails, ResumeLibrary, BeginFails
<1>5. QED
  BY Zenon, <1>1, <1>2, <1>3, <1>4, Steps, StartFrame, IdleFrame, WalkFrame, ImportFrame, DiskFrame

\* The tables keep their types.
LEMMA TableStep == Types /\ [Next]_vars => TableType'
<1> SUFFICES ASSUME Types, [Next]_vars PROVE TableType'
  BY Zenon
<1>1. fresh' \in [Folders -> BOOLEAN]
  <2>1. ASSUME NEW l \in Libs, ScanBegin(l) PROVE fresh' \in [Folders -> BOOLEAN]
    <3>1. fresh \in [Folders -> BOOLEAN]
      BY Zenon DEF Types, TableType
    <3>2. QED
      BY Zenon, <2>1, <3>1 DEF ScanBegin
  <2>2. ASSUME NEW f \in Folders, PersistFolder(f) PROVE fresh' \in [Folders -> BOOLEAN]
    BY Zenon, <2>2 DEF PersistFolder, Types, TableType
  <2>3. QED
    BY Zenon, <2>1, <2>2, OnlyFresh DEF Types, TableType
<1>2. CASE UNCHANGED <<row, hash, tracks, modTime, trackPid>>
  BY Zenon, <1>1, <1>2 DEF Types, TableType
<1>3. CASE Finalize
  <2>1. /\ row' \in [Folders -> {"none", "present", "missing"}] /\ tracks' \in [Folders -> Nat]
        /\ UNCHANGED <<hash, modTime, trackPid>>
    BY Zenon, <1>3 DEF Finalize, Types, TableType
  <2>2. QED
    BY Zenon, <1>1, <2>1 DEF Types, TableType
<1>4. ASSUME NEW f \in Folders, PersistFolder(f) PROVE TableType'
  <2>1. /\ row' \in [Folders -> {"none", "present", "missing"}] /\ hash' \in [Folders -> Nat]
    BY Zenon, <1>4, HashIsVersion DEF PersistFolder, Types, TableType
  <2>2. /\ read[f] \in Nat /\ stat[f] \in Nat /\ jobPid[LibOf[f]] \in Nat
    BY LibraryScanAssumption DEF Types, PipeType, JobType
  <2>3. tracks' \in [Folders -> Nat] /\ modTime' \in [Folders -> Nat] /\ trackPid' \in [Folders -> Nat]
    BY Zenon, <1>4, <2>2 DEF PersistFolder, Types, TableType
  <2>4. QED
    BY Zenon, <1>1, <2>1, <2>3 DEF TableType
<1>5. QED
  BY Zenon, <1>2, <1>3, <1>4, OnlyTables

\* The library table changes when a scan begins or ends.
LEMMA OnlyLibs ==
  ASSUME [Next]_vars
  PROVE  UNCHANGED lib \/ UpdateLibraries \/ \E l \in Libs : ScanBegin(l)
<1>1. ASSUME NEW l \in Libs, ChangePid(l) PROVE UNCHANGED lib
  BY Zenon, <1>1 DEF ChangePid
<1>2. CASE CreateJobs \/ Finalize \/ NoLibraries \/ ScanFails
  BY Zenon, <1>2 DEF CreateJobs, Finalize, NoLibraries, ScanFails
<1>3. CASE UNCHANGED vars
  BY Zenon, <1>3 DEF vars
<1>4. ASSUME NEW l \in Libs, PrepareStep(l) PROVE UNCHANGED lib \/ ScanBegin(l)
  BY Zenon, <1>4 DEF PrepareStep, BeginLibrary, ReloadFails, ResumeLibrary, BeginFails
<1>5. ASSUME NEW f \in Folders, PersistFolder(f) PROVE UNCHANGED lib
  BY Zenon, <1>5 DEF PersistFolder
<1>6. QED
  BY Zenon, <1>1, <1>2, <1>3, <1>4, <1>5, Steps, StartFrame, WalkFrame, ImportFrame, DiskFrame

\* The PID configuration is edited by its own step.
LEMMA OnlyPid ==
  ASSUME [Next]_vars
  PROVE  UNCHANGED pid \/ \E l \in Libs : ChangePid(l)
<1>1. CASE CreateJobs \/ Finalize
  BY Zenon, <1>1 DEF CreateJobs, Finalize
<1>2. ASSUME NEW f \in Folders, PersistFolder(f) PROVE UNCHANGED pid
  BY Zenon, <1>2 DEF PersistFolder
<1>3. CASE UNCHANGED vars
  BY Zenon, <1>3 DEF vars
<1>4. QED
  BY Zenon, <1>1, <1>2, <1>3, Steps, StartFrame, PrepareFrame, IdleFrame, WalkFrame, ImportFrame, DiskFrame

\* The library table keeps its type.
LEMMA LibStep == Types /\ [Next]_vars => LibType'
<1> SUFFICES ASSUME Types, [Next]_vars PROVE LibType'
  BY Zenon
<1>1. pid' \in [Libs -> 0..MaxPid]
  <2>1. ASSUME NEW l \in Libs, ChangePid(l) PROVE pid' \in [Libs -> 0..MaxPid]
    <3>1. PICK p \in 1..MaxPid : pid' = [pid EXCEPT ![l] = p]
      BY Zenon, <2>1 DEF ChangePid
    <3>2. p \in 0..MaxPid
      BY LibraryScanAssumption
    <3>3. QED
      BY Zenon, <3>1, <3>2 DEF Types, LibType
  <2>2. QED
    BY Zenon, <2>1, OnlyPid DEF Types, LibType
<1>2. CASE UNCHANGED lib
  BY Zenon, <1>1, <1>2 DEF lib, Types, LibType
<1>3. CASE UpdateLibraries
  <2>1. /\ started' \in Bits /\ fullScanInProgress' \in Bits /\ everScanned' \in Bits
    BY Zenon, <1>3 DEF UpdateLibraries, StillFull, Types, LibType, Bits
  <2>2. scannedPid' \in [Libs -> 0..MaxPid]
    BY Zenon, <1>3 DEF UpdateLibraries, Types, LibType, JobType
  <2>3. QED
    BY Zenon, <1>1, <2>1, <2>2 DEF LibType
<1>4. ASSUME NEW l \in Libs, ScanBegin(l) PROVE LibType'
  <2>1. BeginsFull(l) \in BOOLEAN
    BY Zenon DEF BeginsFull, NeedsPIDRescan, Types, JobType
  <2>2. /\ started' \in Bits /\ fullScanInProgress' \in Bits /\ UNCHANGED <<everScanned, scannedPid>>
    BY Zenon, <1>4, <2>1 DEF ScanBegin, Types, LibType, Bits
  <2>3. QED
    BY Zenon, <1>1, <2>2 DEF Types, LibType
<1>5. QED
  BY Zenon, <1>2, <1>3, <1>4, OnlyLibs

\* A scan at rest has the types of one.
LEMMA IdleTypes ==
  ASSUME Idle
  PROVE  /\ phase' = "idle" /\ selective' = FALSE /\ requested' = FALSE /\ fullScan' = FALSE
         /\ scope' = {} /\ unseen' = {} /\ prep' = {} /\ jobs' = {} /\ failedLibs' = {}
         /\ jobPid' \in [Libs -> 0..MaxPid] /\ jobFull' \in Bits /\ PipeType'
<1>1. 0 \in 0..MaxPid
  BY LibraryScanAssumption
<1>2. /\ jobPid' \in [Libs -> 0..MaxPid] /\ jobFull' \in Bits
  BY Zenon, <1>1 DEF Idle, Bits
<1>3. PipeType'
  BY Zenon DEF Idle, PipeType, Nowhere, Zero
<1>4. QED
  BY Zenon, <1>2, <1>3 DEF Idle

\* The libraries that a scan covers are libraries.
LEMMA ScopeTypes ==
  ASSUME NEW full \in BOOLEAN, NEW targets \in SUBSET Folders, StartScan(full, targets), Types
  PROVE  /\ scope' \in SUBSET Folders /\ prep' \in SUBSET Libs
         /\ unseen' \in SUBSET Folders /\ fullScan' \in BOOLEAN
<1>1. /\ scope' = IF targets = {} THEN Folders ELSE UNION {Subtree(f) : f \in targets}
      /\ prep' = IF targets = {} THEN Libs ELSE {LibOf[f] : f \in targets}
      /\ unseen' = {f \in Folders : ~exists[f]} /\ fullScan' = (full \/ ForcedFull(prep'))
  BY Zenon DEF StartScan
<1>2. \A f \in Folders : Subtree(f) \in SUBSET Folders /\ LibOf[f] \in Libs
  BY Zenon, SubtreeLeast, LibraryScanAssumption
<1>3. scope' \in SUBSET Folders
  BY Zenon, <1>1, <1>2
<1>4. prep' \in SUBSET Libs
  BY Zenon, <1>1, <1>2
<1>5. QED
  BY Zenon, <1>1, <1>3, <1>4 DEF ForcedFull

\* The running scan keeps its types.
LEMMA JobStep == Types /\ [Next]_vars => JobType'
<1> SUFFICES ASSUME Types, [Next]_vars PROVE JobType'
  BY Zenon
<1>f. faults \in 0..MaxFaults /\ (Fault => faults' \in 0..MaxFaults)
  BY LibraryScanAssumption DEF Fault, Types, JobType
<1>1. ASSUME NEW full \in BOOLEAN, NEW targets \in SUBSET Folders, StartScan(full, targets)
      PROVE  JobType'
  <2>1. /\ phase' = "prepare" /\ selective' \in BOOLEAN /\ requested' = full /\ jobs' = {}
        /\ jobPid' = pid /\ UNCHANGED <<failedLibs, jobFull, owed, faults>>
    BY Zenon, <1>1 DEF StartScan
  <2>2. QED
    BY Zenon, <1>1, <2>1, ScopeTypes DEF Types, JobType, LibType
<1>2. ASSUME NEW l \in Libs, PrepareStep(l) PROVE JobType'
  <2>1. owed' \in SUBSET Folders
    <3>1. \A fr : Owes(l, fr) \in SUBSET Folders
      BY Zenon DEF Owes, Of
    <3>2. QED
      BY Zenon, <1>2, <3>1
      DEF PrepareStep, BeginLibrary, ReloadFails, ScanBegin, ResumeLibrary, BeginFails, Types, JobType
  <2>2. prep' \in SUBSET Libs /\ jobs' \in SUBSET Libs
    BY Zenon, <1>2
    DEF PrepareStep, BeginLibrary, ReloadFails, ScanBegin, ResumeLibrary, BeginFails, Types, JobType
  <2>3. jobPid' \in [Libs -> 0..MaxPid] /\ faults' \in 0..MaxFaults
    <3>1. /\ UNCHANGED jobPid \/ jobPid' = [jobPid EXCEPT ![l] = pid[l]]
          /\ UNCHANGED faults \/ Fault
      BY Zenon, <1>2 DEF PrepareStep, BeginLibrary, ReloadFails, ResumeLibrary, BeginFails
    <3>2. QED
      BY Zenon, <1>f, <3>1 DEF Types, JobType, LibType
  <2>4. QED
    BY Zenon, <1>2, <2>1, <2>2, <2>3, PrepareFrame DEF Types, JobType
<1>3. CASE NoLibraries \/ ScanFails \/ UpdateLibraries
  <2>1. Idle /\ UNCHANGED owed /\ faults' \in 0..MaxFaults
    BY Zenon, <1>f, <1>3 DEF NoLibraries, ScanFails, UpdateLibraries
  <2>2. QED
    BY Zenon, <2>1, IdleTypes DEF Types, JobType
<1>4. CASE CreateJobs
  <2>1. failedLibs' \in SUBSET jobs /\ faults' \in 0..MaxFaults
    BY Zenon, <1>f, <1>4 DEF CreateJobs, JobsFail
  <2>2. jobFull' \in Bits
    BY Zenon, <1>4 DEF CreateJobs, Bits
  <2>3. /\ phase' = "walk"
        /\ UNCHANGED <<scope, selective, requested, fullScan, prep, jobs, jobPid, owed, unseen>>
    BY Zenon, <1>4 DEF CreateJobs
  <2>4. QED
    BY Zenon, <2>1, <2>2, <2>3 DEF Types, JobType
<1>5. CASE Finalize
  <2>1. phase' = "later" /\ owed' \in SUBSET owed /\ UNCHANGED <<job, unseen, faults>>
    BY Zenon, <1>5 DEF Finalize
  <2>2. QED
    BY Zenon, <2>1 DEF Types, JobType, job
<1>6. ASSUME NEW f \in Folders, WalkStep(f) PROVE JobType'
  <2>1. UNCHANGED unseen \/ unseen' = unseen \cup (Subtree(f) \ {f})
    BY Zenon, <1>6 DEF WalkStep, LoadDir, LoadDirGone, LoadDirFails
  <2>2. unseen' \in SUBSET Folders
    BY Zenon, <2>1, SubtreeLeast DEF Types, JobType
  <2>3. QED
    BY Zenon, <1>6, <2>2, WalkFrame DEF Types, JobType, job
<1>7. ASSUME NEW f \in Folders, ImportStep(f) PROVE JobType'
  BY Zenon, <1>7, ImportFrame DEF Types, JobType, job
<1>8. ASSUME NEW f \in Folders, PersistFolder(f) PROVE JobType'
  <2>1. owed' \in SUBSET owed /\ UNCHANGED <<phase, job, unseen, faults>>
    BY Zenon, <1>8 DEF PersistFolder
  <2>2. QED
    BY Zenon, <2>1 DEF Types, JobType, job
<1>9. ASSUME NEW f \in Folders, Edit(f) \/ Delete(f) \/ Restore(f) PROVE JobType'
  <2>1. unseen' \in SUBSET Folders
    BY Zenon, <1>9, SubtreeLeast DEF Edit, Delete, Restore, Types, JobType
  <2>2. QED
    BY Zenon, <1>9, <2>1, DiskFrame DEF Types, JobType, job
<1>10. CASE UNCHANGED vars \/ \E l \in Libs : ChangePid(l)
  <2>1. UNCHANGED <<phase, job, owed, unseen, faults>>
    BY Zenon, <1>10 DEF vars, ChangePid
  <2>2. QED
    BY Zenon, <2>1 DEF Types, JobType, job
<1>11. QED
  BY Zenon, <1>1, <1>2, <1>3, <1>4, <1>5, <1>6, <1>7, <1>8, <1>9, <1>10, Steps

\* The pipeline keeps its types, and the versions in it are versions of the files.
LEMMA PipeStep == Types /\ Versions /\ [Next]_vars => PipeType' /\ Versions'
<1> SUFFICES ASSUME Types, Versions, [Next]_vars PROVE PipeType' /\ Versions'
  BY Zenon
<1>d. DiskType /\ TableType /\ PipeType /\ DiskType' /\ \A f \in Folders : content[f] <= content'[f]
  BY Zenon, DiskStep DEF Types
<1>1. CASE UNCHANGED <<progress, hash, tracks, modTime>>
  <2>1. PipeType'
    BY Zenon, <1>d, <1>1 DEF PipeType, progress
  <2>2. Versions'
    BY <1>d, <1>1 DEF Versions, progress, PipeType, TableType, DiskType
  <2>3. QED
    BY Zenon, <2>1, <2>2
<1>2. CASE NoLibraries \/ ScanFails \/ UpdateLibraries
  <2>1. /\ Idle /\ PipeType' /\ UNCHANGED <<content, hash, tracks, modTime>>
        /\ seen' = Zero /\ read' = Zero /\ stat' = Zero
    BY Zenon, <1>2, IdleFrame, IdleTypes DEF Idle, disk, db
  <2>2. Versions'
    BY <1>d, <2>1 DEF Versions, Zero, DiskType
  <2>3. QED
    BY Zenon, <2>1, <2>2
<1>3. CASE CreateJobs
  <2>1. /\ lastUpdates' \in SUBSET scope /\ UNCHANGED <<content, hash, tracks, modTime, seen, read, stat>>
    BY Zenon, <1>3 DEF CreateJobs, disk, db
  <2>2. stage' \in [Folders -> {"none", "walk", "loaded", "queued", "parsed", "processed"}]
    BY Zenon, <1>3 DEF CreateJobs
  <2>3. QED
    BY Zenon, <1>d, <2>1, <2>2 DEF Types, JobType, PipeType, Versions
<1>4. CASE Finalize
  <2>1. /\ lastUpdates' = {} /\ UNCHANGED <<content, hash, modTime, stage, seen, read, stat>>
        /\ tracks' = [f \in Folders |-> IF f \in lastUpdates THEN 0 ELSE tracks[f]]
    BY Zenon, <1>4 DEF Finalize, disk
  <2>2. \A f \in Folders : tracks'[f] = 0 \/ tracks'[f] = tracks[f]
    BY Zenon, <2>1
  <2>3. Versions'
    BY <1>d, <2>1, <2>2 DEF Versions, DiskType
  <2>4. QED
    BY Zenon, <1>d, <2>1, <2>3 DEF PipeType
<1>5. ASSUME NEW f \in Folders, WalkStep(f) PROVE PipeType' /\ Versions'
  <2>1. /\ UNCHANGED <<content, hash, tracks, modTime, read, stat>>
    BY Zenon, <1>5, WalkFrame DEF disk, db
  <2>2. lastUpdates' \in SUBSET lastUpdates /\ (UNCHANGED seen \/ seen' = [seen EXCEPT ![f] = content[f]])
    BY Zenon, <1>5 DEF WalkStep, LoadDir, LoadDirGone, LoadDirFails, popLastUpdate
  <2>3. stage' \in [Folders -> {"none", "walk", "loaded", "queued", "parsed", "processed"}]
    BY Zenon, <1>d, <1>5 DEF WalkStep, LoadDir, LoadDirGone, LoadDirFails, Enter, PipeType
  <2>4. PipeType'
    BY Zenon, <1>d, <2>1, <2>2, <2>3 DEF PipeType, DiskType
  <2>5. \A g \in Folders : seen'[g] = seen[g] \/ seen'[g] = content[g]
    BY Zenon, <1>d, <2>2 DEF PipeType
  <2>6. Versions'
    BY Zenon, <1>d, <2>1, <2>5 DEF Versions, DiskType
  <2>7. QED
    BY Zenon, <2>4, <2>6
<1>6. ASSUME NEW f \in Folders, ImportStep(f) PROVE PipeType' /\ Versions'
  <2>1. UNCHANGED <<content, hash, tracks, modTime, lastUpdates>>
    BY Zenon, <1>6, ImportFrame DEF disk, db
  <2>2. PICK to \in {"none", "queued", "parsed", "processed"} : stage' = [stage EXCEPT ![f] = to]
    BY Zenon, <1>6 DEF ImportStep, Produce, ProcessFolder, ProcessFolderFails, StatFiles, Enter
  <2>3. /\ UNCHANGED seen \/ seen' = [seen EXCEPT ![f] = 0]
        /\ \E v \in {content[f], read[f], 0} : UNCHANGED read \/ read' = [read EXCEPT ![f] = v]
        /\ \E v \in {content[f], 0} : UNCHANGED stat \/ stat' = [stat EXCEPT ![f] = v]
    BY Zenon, <1>6 DEF ImportStep, Produce, ProcessFolder, ProcessFolderFails, StatFiles
  <2>4. PipeType'
    BY <1>d, <2>1, <2>2, <2>3 DEF PipeType, DiskType
  <2>5. \A g \in Folders : /\ seen'[g] \in {seen[g], 0} /\ read'[g] \in {read[g], content[g], 0}
                           /\ stat'[g] \in {stat[g], content[g], 0}
    BY Zenon, <1>d, <2>3 DEF PipeType
  <2>6. Versions'
    BY <1>d, <2>1, <2>5 DEF Versions, DiskType
  <2>7. QED
    BY Zenon, <2>4, <2>6
<1>7. ASSUME NEW f \in Folders, PersistFolder(f) PROVE PipeType' /\ Versions'
  <2>1. /\ UNCHANGED <<content, lastUpdates>> /\ stage' = [stage EXCEPT ![f] = "none"]
        /\ seen' = [seen EXCEPT ![f] = 0] /\ read' = [read EXCEPT ![f] = 0]
        /\ stat' = [stat EXCEPT ![f] = 0] /\ hash' = [hash EXCEPT ![f] = currentHash(f)]
        /\ UNCHANGED tracks \/ tracks' = [tracks EXCEPT ![f] = read[f]]
        /\ UNCHANGED modTime \/ modTime' = [modTime EXCEPT ![f] = stat[f]]
    BY Zenon, <1>7 DEF PersistFolder, Enter, disk
  <2>2. PipeType'
    BY Zenon, <1>d, <2>1 DEF PipeType
  <2>3. \A g \in Folders : /\ seen'[g] \in {seen[g], 0} /\ read'[g] \in {read[g], 0}
                           /\ stat'[g] \in {stat[g], 0} /\ tracks'[g] \in {tracks[g], read[g]}
                           /\ modTime'[g] \in {modTime[g], stat[g]}
                           /\ hash'[g] \in {hash[g], currentHash(g)}
    BY <1>d, <2>1 DEF PipeType, TableType
  <2>4. Versions'
    BY <1>d, <2>1, <2>3, HashIsVersion DEF Versions, DiskType
  <2>5. QED
    BY Zenon, <2>2, <2>4
<1>8. ASSUME \/ \E full \in BOOLEAN : StartScan(full, {}) \/ \E f \in Folders : StartScan(full, {f})
             \/ \E l \in Libs : PrepareStep(l) \/ ChangePid(l)
             \/ \E f \in Folders : Edit(f) \/ Delete(f) \/ Restore(f)
             \/ UNCHANGED vars
      PROVE  UNCHANGED <<progress, hash, tracks, modTime>>
  BY Zenon, <1>8, StartFrame, PrepareFrame, DiskFrame DEF ChangePid, vars, db
<1>9. QED
  BY Zenon, <1>1, <1>2, <1>3, <1>4, <1>5, <1>6, <1>7, <1>8, Steps

\* Types and versions hold throughout.
LEMMA TypesStep == Types /\ Versions /\ [Next]_vars => (Types /\ Versions)'
<1> SUFFICES ASSUME Types, Versions, [Next]_vars PROVE (Types /\ Versions)'
  BY Zenon
<1>1. DiskType'
  BY Zenon, DiskStep DEF Types
<1>2. QED
  BY Zenon, <1>1, TableStep, LibStep, JobStep, PipeStep DEF Types

\* ... and hold at the start.
LEMMA TypesInit == Init => Types /\ Versions
<1> SUFFICES ASSUME Init PROVE Types /\ Versions
  BY Zenon
<1>1. DiskType /\ TableType
  BY DEF Init, DiskType, TableType
<1>2. 0 \in 0..MaxPid /\ 1 \in 0..MaxPid /\ 0 \in 0..MaxFaults
  BY LibraryScanAssumption
<1>3. LibType /\ JobType
  BY Zenon, <1>2 DEF Init, LibType, JobType, Bits
<1>4. PipeType
  BY Zenon DEF Init, PipeType, Zero, Nowhere
<1>5. Versions
  BY DEF Init, Versions, Zero
<1>6. QED
  BY Zenon, <1>1, <1>3, <1>4, <1>5 DEF Types

\* Through scans, crashes, PID changes and changes of the file system the tables and
\* the pipeline keep their types, and nothing stored is newer than the files.
THEOREM TypeCorrect == Spec => []TypeOK
BY TypesInit, TypesStep, TypeParts, PTL DEF Spec

-----------------------------------------------------------------------------
(* The walk. *)

\* A folder is in the pipeline only while phase 1 walks its library.
Staged ==
  \A f \in Folders : stage[f] # "none" => phase = "walk" /\ LibOf[f] \in jobs \ failedLibs

\* Below a folder that has yet to be loaded nothing has entered the pipeline.
Downwards == \A g \in Folders : stage[g] # "none" => \A u \in Above(g) : stage[u] # "walk"

\* A scan covers whole subtrees.
WholeTrees == phase # "idle" => Closed(scope)

WalkInv == Staged /\ Downwards /\ WholeTrees

\* When a folder is loaded, nothing below it has been.
LEMMA ChildrenUntouched ==
  ASSUME Types, WalkInv, NEW f \in Folders, stage[f] = "walk", NEW c \in Children(f)
  PROVE  stage[c] = "none"
<1>1. c \in Folders /\ f \in Above(c)
  BY AboveChild
<1>2. QED
  BY Zenon, <1>1 DEF WalkInv, Downwards

\* A step that only moves folders on, or out of the pipeline
LEMMA MovesOn ==
  ASSUME Types, WalkInv, UNCHANGED <<phase, scope, jobs, failedLibs>>,
         \A g \in Folders : /\ stage'[g] # "none" => stage[g] # "none"
                            /\ stage'[g] = "walk" => stage[g] = "walk"
  PROVE  WalkInv'
<1>1. Staged' /\ WholeTrees'
  BY Zenon DEF WalkInv, Staged, WholeTrees, Closed
<1>2. Downwards'
  BY Zenon DEF WalkInv, Downwards, Above
<1>3. QED
  BY Zenon, <1>1, <1>2 DEF WalkInv

\* The walk goes down the trees: every step keeps the invariant.
LEMMA WalkStepKeeps == Types /\ WalkInv /\ [Next]_vars => WalkInv'
<1> SUFFICES ASSUME Types, WalkInv, [Next]_vars PROVE WalkInv'
  BY Zenon
<1>p. stage \in [Folders -> {"none", "walk", "loaded", "queued", "parsed", "processed"}]
  BY Zenon DEF Types, PipeType
<1>1. CASE UNCHANGED <<stage, phase, scope, jobs, failedLibs>>
  BY Zenon, <1>1, MovesOn
<1>2. ASSUME NEW full \in BOOLEAN, NEW targets \in SUBSET Folders, StartScan(full, targets)
      PROVE  WalkInv'
  <2>1. phase = "idle" /\ UNCHANGED stage
    BY Zenon, <1>2 DEF StartScan, progress
  <2>2. \A f \in Folders : stage[f] = "none"
    BY Zenon, <2>1 DEF WalkInv, Staged
  <2>3. scope' = IF targets = {} THEN Folders ELSE UNION {Subtree(f) : f \in targets}
    BY Zenon, <1>2 DEF StartScan
  <2>4. Closed(scope')
    <3>1. CASE targets = {}
      BY Zenon, <2>3, <3>1 DEF Closed, Children
    <3>2. CASE targets # {}
      <4> SUFFICES ASSUME NEW h \in scope', NEW k \in Children(h) PROVE k \in scope'
        BY Zenon DEF Closed
      <4>1. PICK f \in targets : h \in Subtree(f)
        BY Zenon, <2>3, <3>2
      <4>2. k \in Subtree(f)
        BY Zenon, <4>1, SubtreeLeast DEF Closed
      <4>3. QED
        BY Zenon, <2>3, <3>2, <4>2
    <3>3. QED
      BY Zenon, <3>1, <3>2
  <2>5. QED
    BY Zenon, <2>1, <2>2, <2>4 DEF WalkInv, Staged, Downwards, WholeTrees, Closed
<1>3. ASSUME NEW l \in Libs, PrepareStep(l) PROVE WalkInv'
  <2>1. phase = "prepare" /\ UNCHANGED <<stage, phase, scope>>
    BY Zenon, <1>3, PrepareFrame
    DEF PrepareStep, BeginLibrary, ReloadFails, ScanBegin, ResumeLibrary, BeginFails, progress
  <2>2. \A f \in Folders : stage[f] = "none"
    BY Zenon, <2>1 DEF WalkInv, Staged
  <2>3. QED
    BY Zenon, <2>1, <2>2 DEF WalkInv, Staged, Downwards, WholeTrees, Closed
<1>4. CASE NoLibraries \/ ScanFails \/ UpdateLibraries
  <2>1. stage' = Nowhere /\ phase' = "idle"
    BY Zenon, <1>4, IdleFrame DEF Idle
  <2>2. QED
    BY Zenon, <2>1 DEF WalkInv, Staged, Downwards, WholeTrees, Nowhere
<1>5. CASE CreateJobs
  <2> DEFINE found == {f \in scope : LibOf[f] \in jobs \ failedLibs'}
  <2>1. /\ phase = "prepare" /\ phase' = "walk" /\ UNCHANGED <<scope, jobs>>
        /\ \A f \in Folders : stage'[f] = IF f \in found /\ ParentOf[f] \notin scope THEN "walk" ELSE "none"
    BY Zenon, <1>5 DEF CreateJobs
  <2>2. Closed(scope) /\ scope \subseteq Folders
    BY Zenon, <2>1 DEF WalkInv, WholeTrees, Types, JobType
  <2>3. Staged'
    BY Zenon, <2>1 DEF Staged
  <2>4. ASSUME NEW g \in Folders, stage'[g] # "none", NEW u \in Above(g)
        PROVE  stage'[u] # "walk"
    <3>1. ParentOf[g] \notin scope /\ u \in Folders /\ g \in Subtree(u) /\ g # u
      BY Zenon, <2>1, <2>4 DEF Above
    <3>2. ParentOf[g] \in Subtree(u)
      BY Zenon, <3>1, BelowChild
    <3>3. u \in scope => Subtree(u) \subseteq scope
      BY Zenon, <2>2, <3>1, SubtreeLeast
    <3>4. QED
      BY Zenon, <2>1, <3>1, <3>2, <3>3
  <2>5. QED
    BY Zenon, <2>1, <2>2, <2>3, <2>4 DEF WalkInv, Downwards, WholeTrees, Closed
<1>6. CASE Finalize
  <2>1. phase = "walk" /\ phase' = "later" /\ UNCHANGED <<stage, scope>>
        /\ \A f \in Folders : stage[f] = "none"
    BY Zenon, <1>6 DEF Finalize, Walked, job
  <2>2. QED
    BY Zenon, <2>1 DEF WalkInv, Staged, Downwards, WholeTrees, Closed
<1>7. ASSUME NEW f \in Folders, LoadDir(f) PROVE WalkInv'
  <2>1. /\ phase = "walk" /\ stage[f] = "walk" /\ UNCHANGED <<phase, scope, jobs, failedLibs>>
        /\ \A g \in Folders : stage'[g] = IF g = f THEN "loaded"
                                ELSE IF g \in Children(f) /\ exists[g] THEN "walk" ELSE stage[g]
    BY Zenon, <1>7 DEF LoadDir, job
  <2>2. Staged'
    <3>1. LibOf[f] \in jobs \ failedLibs /\ \A g \in Children(f) : LibOf[g] = LibOf[f]
      BY Zenon, <2>1, AboveChild DEF WalkInv, Staged
    <3>2. QED
      BY Zenon, <2>1, <3>1 DEF WalkInv, Staged
  <2>3. \A u \in Folders : stage'[u] = "walk" => (stage[u] = "walk" /\ u # f) \/ u \in Children(f)
    BY Zenon, <2>1
  <2>4. ASSUME NEW g \in Folders, stage'[g] # "none", NEW u \in Above(g)
        PROVE  stage'[u] # "walk"
    <3>1. u \in Folders /\ g \in Subtree(u) /\ g # u
      BY Zenon DEF Above
    <3>2. \A v \in Above(f) : v \in Folders /\ stage[v] # "walk" /\ v \notin Children(f) /\ v # f
      BY Zenon, <2>1, AboveChild DEF WalkInv, Downwards, Above
    <3>3. CASE g = f
      BY Zenon, <2>3, <3>2, <3>3
    <3>4. CASE g \in Children(f)
      <4>1. u = f \/ u \in Above(f)
        BY <3>4, AboveChild
      <4>2. stage'[f] = "loaded"
        BY Zenon, <2>1
      <4>3. QED
        BY Zenon, <2>3, <3>1, <3>2, <4>1, <4>2
    <3>5. CASE g # f /\ g \notin Children(f)
      <4>1. stage[g] # "none"
        BY Zenon, <2>1, <2>4, <3>5
      <4>2. \A v \in Above(g) : stage[v] # "walk"
        BY Zenon, <4>1 DEF WalkInv, Downwards
      <4>3. u \notin Children(f)
        <5>1. ASSUME u \in Children(f) PROVE f \in Above(g)
          <6>1. u \in Subtree(f)
            BY Zenon, <5>1, SubtreeLeast DEF Closed
          <6>2. g \in Subtree(f)
            BY Zenon, <3>1, <6>1, SubtreeInside
          <6>3. QED
            BY Zenon, <3>5, <6>2 DEF Above
        <5>2. QED
          BY Zenon, <2>1, <4>2, <5>1
      <4>4. QED
        BY Zenon, <2>3, <3>1, <4>2, <4>3
    <3>6. QED
      BY Zenon, <3>3, <3>4, <3>5
  <2>5. QED
    BY Zenon, <2>1, <2>2, <2>4 DEF WalkInv, Downwards, WholeTrees, Closed
<1>8. ASSUME NEW f \in Folders, LoadDirGone(f) \/ LoadDirFails(f) \/ ImportStep(f) \/ PersistFolder(f)
      PROVE  WalkInv'
  <2>1. UNCHANGED <<phase, scope, jobs, failedLibs>>
    BY Zenon, <1>8, ImportFrame DEF LoadDirGone, LoadDirFails, PersistFolder, job
  <2>2. PICK to \in {"none", "queued", "parsed", "processed"} :
          stage[f] # "none" /\ stage' = [stage EXCEPT ![f] = to]
    BY Zenon, <1>8 DEF LoadDirGone, LoadDirFails, PersistFolder, ImportStep, Produce, ProcessFolder,
                ProcessFolderFails, StatFiles, Enter
  <2>3. \A g \in Folders : /\ stage'[g] # "none" => stage[g] # "none"
                           /\ stage'[g] = "walk" => stage[g] = "walk"
    BY Zenon, <1>p, <2>2
  <2>4. QED
    BY Zenon, <2>1, <2>3, MovesOn
<1>9. ASSUME \/ \E l \in Libs : ChangePid(l)
             \/ \E f \in Folders : Edit(f) \/ Delete(f) \/ Restore(f)
             \/ UNCHANGED vars
      PROVE  UNCHANGED <<stage, phase, scope, jobs, failedLibs>>
  BY Zenon, <1>9, DiskFrame DEF ChangePid, vars, progress, job
<1>10. QED
  BY Zenon, <1>1, <1>2, <1>3, <1>4, <1>5, <1>6, <1>7, <1>8, <1>9, Steps DEF WalkStep


\* ... and it holds at the start.
LEMMA WalkInit == Init => WalkInv
BY Zenon DEF Init, Nowhere, WalkInv, Staged, Downwards, WholeTrees

\* Everything holds that the other invariants rest on.
Base == Types /\ Versions /\ WalkInv

\* They hold at the start
LEMMA BaseInit == Init => Base
BY Zenon, TypesInit, WalkInit DEF Base

\* ... and every step keeps them.
LEMMA BaseStep == Base /\ [Next]_vars => Base'
BY Zenon, TypesStep, WalkStepKeeps DEF Base

\* In every reachable state the types are right and the walk goes down the trees.
THEOREM BaseHolds == Spec => []Base
BY BaseInit, BaseStep, PTL DEF Spec

-----------------------------------------------------------------------------
(* What a quick scan skips is imported. *)

\* A hash that describes the files was stored with their tags; the stored times are
\* those of the imported tags; and what is in the pipeline will keep it so.
Imported(f) ==
  /\ row[f] = "present" /\ hash[f] = content[f] => tracks[f] = content[f]
  /\ tracks[f] # 0 => tracks[f] = modTime[f]
  /\ stage[f] = "parsed" => read[f] = content[f]
  /\ stage[f] \notin {"parsed", "processed"} => read[f] = 0
  /\ stage[f] = "processed" =>
       \/ read[f] # 0 /\ stat[f] = read[f] /\ seen[f] <= read[f]
       \/ read[f] = 0 /\ (~exists[f] \/ (tracks[f] # 0 /\ seen[f] <= modTime[f]))

ImportInv == \A f \in Folders : Imported(f)

\* A step that leaves the folder alone, or takes its files away
LEMMA ImportedKept ==
  ASSUME NEW f \in Folders, Imported(f), exists'[f] => exists[f],
         row'[f] = row[f], hash'[f] = hash[f], tracks'[f] = tracks[f], modTime'[f] = modTime[f],
         content'[f] = content[f], stage'[f] = stage[f], seen'[f] = seen[f], read'[f] = read[f],
         stat'[f] = stat[f]
  PROVE  Imported(f)'
BY Zenon DEF Imported

\* A step that moves the folder among the stages before its tags are read
LEMMA ImportedEarly ==
  ASSUME NEW f \in Folders, Imported(f),
         row'[f] = row[f], hash'[f] = hash[f], tracks'[f] = tracks[f], modTime'[f] = modTime[f],
         content'[f] = content[f], stage'[f] \notin {"parsed", "processed"}, read'[f] = 0
  PROVE  Imported(f)'
BY Zenon DEF Imported

\* Changes of the file system, where the tags are not read while the files change
LEMMA ImportedDisk ==
  ASSUME Base, ImportInv, "race" \notin Events, NEW f \in Folders, Edit(f) \/ Delete(f) \/ Restore(f)
  PROVE  ImportInv'
<1> SUFFICES ASSUME NEW g \in Folders PROVE Imported(g)'
  BY Zenon DEF ImportInv
<1>1. UNCHANGED <<row, hash, tracks, modTime, stage, seen, read, stat>>
  BY Zenon, DiskFrame DEF db, progress
<1>2. Imported(g) /\ exists \in [Folders -> BOOLEAN] /\ content \in [Folders -> Nat \ {0}]
  BY Zenon DEF ImportInv, Base, Types, DiskType
<1>3. CASE Edit(f)
  <2>1. UNCHANGED exists /\ content' = [content EXCEPT ![f] = content[f] + 1] /\ stage[f] # "parsed"
    BY Zenon, <1>3 DEF Edit, Allowed
  <2>2. CASE g # f
    BY Zenon, <1>1, <1>2, <2>1, <2>2, ImportedKept
  <2>3. CASE g = f
    <3>1. hash[g] \in Nat /\ content[g] \in Nat /\ hash[g] <= content[g] /\ content'[g] = content[g] + 1
      BY Zenon, <1>2, <2>1, <2>3 DEF Base, Types, TableType, Versions
    <3>2. hash'[g] # content'[g]
      BY <1>1, <3>1
    <3>3. QED
      BY Zenon, <1>1, <1>2, <2>1, <2>3, <3>2 DEF Imported
  <2>4. QED
    BY Zenon, <2>2, <2>3
<1>4. CASE Delete(f)
  <2>1. UNCHANGED content /\ (exists'[g] => exists[g])
    BY Zenon, <1>2, <1>4 DEF Delete
  <2>2. QED
    BY Zenon, <1>1, <1>2, <2>1, ImportedKept
<1>5. CASE Restore(f)
  <2>1. UNCHANGED content /\ stage[f] # "processed" /\ (g # f => exists'[g] = exists[g])
    BY Zenon, <1>2, <1>5 DEF Restore
  <2>2. QED
    BY <1>1, <1>2, <2>1 DEF Imported
<1>6. QED
  BY Zenon, <1>3, <1>4, <1>5

\* The import of a folder, where its tags can be read
LEMMA ImportedPipe ==
  ASSUME Base, ImportInv, "tagerror" \notin Events, NEW f \in Folders, ImportStep(f)
  PROVE  ImportInv'
<1> SUFFICES ASSUME NEW g \in Folders PROVE Imported(g)'
  BY Zenon DEF ImportInv
<1>1. UNCHANGED <<exists, content, row, hash, tracks, modTime>>
  BY Zenon, ImportFrame DEF db, disk
<1>2. Imported(g) /\ Imported(f)
  BY Zenon DEF ImportInv
<1>3. /\ stage \in [Folders -> {"none", "walk", "loaded", "queued", "parsed", "processed"}]
      /\ seen \in [Folders -> Nat] /\ read \in [Folders -> Nat] /\ stat \in [Folders -> Nat]
      /\ content[f] \in Nat \ {0} /\ seen[f] <= content[f] /\ modTime[f] \in Nat
  BY Zenon DEF Base, Types, PipeType, DiskType, TableType, Versions
<1>4. CASE g # f
  <2>1. stage'[g] = stage[g] /\ seen'[g] = seen[g] /\ read'[g] = read[g] /\ stat'[g] = stat[g]
    BY Zenon, <1>3, <1>4
    DEF ImportStep, Produce, ProcessFolder, ProcessFolderFails, StatFiles, Enter
  <2>2. QED
    BY Zenon, <1>1, <1>2, <2>1, ImportedKept
<1>5. CASE Produce(f)
  <2>1. stage[f] = "loaded" /\ stage'[f] \in {"queued", "none"} /\ read'[f] = read[f]
    BY Zenon, <1>3, <1>5 DEF Produce, Enter
  <2>2. read[f] = 0
    BY Zenon, <1>2, <2>1 DEF Imported
  <2>3. Imported(f)'
    BY Zenon, <1>1, <1>2, <2>1, <2>2, ImportedEarly
  <2>4. QED
    BY Zenon, <1>4, <2>3
<1>6. CASE ProcessFolder(f)
  <2>1. stage[f] = "queued" /\ read[f] = 0 /\ seen'[f] = seen[f]
    BY Zenon, <1>2, <1>6 DEF ProcessFolder, Enter, Imported
  <2>2. CASE filesToImport(f)
    <3>1. stage'[f] = "parsed" /\ read'[f] = content[f]
      BY Zenon, <1>3, <1>6, <2>2 DEF ProcessFolder, Enter
    <3>2. QED
      BY Zenon, <1>1, <1>2, <1>4, <3>1 DEF Imported
  <2>3. CASE ~filesToImport(f)
    <3>1. stage'[f] = "processed" /\ read'[f] = read[f]
      BY Zenon, <1>3, <1>6, <2>3 DEF ProcessFolder, Enter
    <3>2. tracks[f] # 0 /\ seen[f] <= modTime[f]
      BY <1>3, <2>3 DEF filesToImport
    <3>3. QED
      BY Zenon, <1>1, <1>2, <1>4, <2>1, <3>1, <3>2 DEF Imported
  <2>4. QED
    BY Zenon, <2>2, <2>3
<1>7. CASE ProcessFolderFails(f)
  <2>1. stage[f] = "queued" /\ stage'[f] = "processed" /\ read'[f] = read[f] /\ ~exists[f]
    BY Zenon, <1>3, <1>7 DEF ProcessFolderFails, Enter, Allowed
  <2>2. QED
    BY Zenon, <1>1, <1>2, <1>4, <2>1 DEF Imported
<1>8. CASE StatFiles(f)
  <2>1. /\ stage[f] = "parsed" /\ stage'[f] = "processed" /\ seen'[f] = seen[f]
        /\ read[f] = content[f]
        /\ IF exists[f] THEN stat'[f] = content[f] /\ read'[f] = content[f] ELSE read'[f] = 0
    BY Zenon, <1>2, <1>3, <1>8 DEF StatFiles, Enter, Imported
  <2>2. QED
    BY Zenon, <1>1, <1>2, <1>3, <1>4, <2>1 DEF Imported
<1>9. QED
  BY Zenon, <1>5, <1>6, <1>7, <1>8 DEF ImportStep

\* The transaction that stores a folder
LEMMA ImportedPersist ==
  ASSUME Base, ImportInv, NEW f \in Folders, PersistFolder(f)
  PROVE  ImportInv'
<1> SUFFICES ASSUME NEW g \in Folders PROVE Imported(g)'
  BY Zenon DEF ImportInv
<1>1. UNCHANGED <<exists, content>>
  BY Zenon DEF PersistFolder, disk
<1>2. Imported(g) /\ Imported(f)
  BY Zenon DEF ImportInv
<1>3. /\ row \in [Folders -> {"none", "present", "missing"}]
      /\ hash \in [Folders -> Nat] /\ tracks \in [Folders -> Nat] /\ modTime \in [Folders -> Nat]
  BY Zenon DEF Base, Types, TableType
<1>4. /\ stage \in [Folders -> {"none", "walk", "loaded", "queued", "parsed", "processed"}]
      /\ seen \in [Folders -> Nat] /\ read \in [Folders -> Nat] /\ stat \in [Folders -> Nat]
  BY Zenon DEF Base, Types, PipeType
<1>5. /\ content[f] \in Nat \ {0} /\ seen[f] <= content[f] /\ modTime[f] <= content[f]
      /\ read[f] <= content[f]
  BY Zenon DEF Base, Types, DiskType, Versions
<1>6. CASE g # f
  <2>1. /\ stage'[g] = stage[g] /\ seen'[g] = seen[g] /\ read'[g] = read[g] /\ stat'[g] = stat[g]
    BY Zenon, <1>4, <1>6 DEF PersistFolder, Enter
  <2>2. /\ row'[g] = row[g] /\ hash'[g] = hash[g] /\ tracks'[g] = tracks[g] /\ modTime'[g] = modTime[g]
    BY Zenon, <1>3, <1>6 DEF PersistFolder
  <2>3. QED
    BY Zenon, <1>1, <1>2, <2>1, <2>2, ImportedKept
<1>7. CASE g = f
  <2>1. /\ stage[f] = "processed" /\ stage'[f] = "none" /\ read'[f] = 0 /\ hash'[f] = currentHash(f)
    BY Zenon, <1>3, <1>4 DEF PersistFolder, Enter
  <2>2. IF read[f] = 0 THEN tracks'[f] = tracks[f] /\ modTime'[f] = modTime[f]
                       ELSE tracks'[f] = read[f] /\ modTime'[f] = stat[f]
    BY Zenon, <1>3 DEF PersistFolder
  <2>3. currentHash(f) = content[f] => exists[f] /\ seen[f] = content[f]
    BY Zenon, <1>5 DEF currentHash
  <2>4. tracks'[f] # 0 => tracks'[f] = modTime'[f]
    BY Zenon, <1>2, <2>1, <2>2 DEF Imported
  <2>5. ASSUME exists[f], seen[f] = content[f] PROVE tracks'[f] = content[f]
    <3>1. CASE read[f] # 0
      <4>1. seen[f] <= read[f]
        BY Zenon, <1>2, <2>1, <3>1 DEF Imported
      <4>2. QED
        BY <1>4, <1>5, <2>2, <2>5, <3>1, <4>1
    <3>2. CASE read[f] = 0
      <4>1. tracks[f] = modTime[f] /\ seen[f] <= modTime[f]
        BY Zenon, <1>2, <2>1, <2>5, <3>2 DEF Imported
      <4>2. QED
        BY <1>3, <1>5, <2>2, <2>5, <3>2, <4>1
    <3>3. QED
      BY Zenon, <3>1, <3>2
  <2>6. QED
    BY Zenon, <1>1, <1>7, <2>1, <2>3, <2>4, <2>5 DEF Imported
<1>8. QED
  BY Zenon, <1>6, <1>7

\* Every step keeps it.
LEMMA ImportedStep ==
  ASSUME Base, ImportInv, "race" \notin Events, "tagerror" \notin Events, [Next]_vars
  PROVE  ImportInv'
<1>t. stage \in [Folders -> {"none", "walk", "loaded", "queued", "parsed", "processed"}]
  BY Zenon DEF Base, Types, PipeType
<1>1. CASE UNCHANGED <<exists, content, row, hash, tracks, modTime, progress>>
  BY Zenon, <1>1, ImportedKept DEF ImportInv, progress
<1>2. ASSUME UNCHANGED <<content, row, hash, tracks, modTime>>,
             \A f \in Folders : stage'[f] \notin {"parsed", "processed"} /\ read'[f] = 0
      PROVE  ImportInv'
  BY Zenon, <1>2, ImportedEarly DEF ImportInv
<1>3. CASE NoLibraries \/ ScanFails \/ UpdateLibraries
  <2>1. UNCHANGED <<content, row, hash, tracks, modTime>> /\ stage' = Nowhere /\ read' = Zero
    BY Zenon, <1>3, IdleFrame DEF Idle, db, disk
  <2>2. QED
    BY Zenon, <1>2, <2>1 DEF Nowhere, Zero
<1>4. CASE CreateJobs
  <2>1. /\ UNCHANGED <<content, row, hash, tracks, modTime, read>> /\ phase = "prepare"
        /\ \A f \in Folders : stage'[f] \in {"walk", "none"}
    BY Zenon, <1>4 DEF CreateJobs, db, disk
  <2>2. \A f \in Folders : stage[f] = "none"
    BY Zenon, <2>1 DEF Base, WalkInv, Staged
  <2>3. QED
    BY Zenon, <1>2, <2>1, <2>2 DEF ImportInv, Imported
<1>5. CASE Finalize
  <2>1. /\ UNCHANGED <<exists, content, hash, modTime, stage, seen, read, stat>>
        /\ \A f \in Folders : /\ stage[f] = "none"
                              /\ row'[f] = IF f \in lastUpdates THEN "missing" ELSE row[f]
                              /\ tracks'[f] = IF f \in lastUpdates THEN 0 ELSE tracks[f]
    BY Zenon, <1>5 DEF Finalize, Walked, disk
  <2>2. QED
    BY Zenon, <2>1 DEF ImportInv, Imported
<1>6. ASSUME NEW f \in Folders, WalkStep(f) PROVE ImportInv'
  <2>1. UNCHANGED <<exists, content, row, hash, tracks, modTime, read, stat>>
    BY Zenon, <1>6, WalkFrame DEF db, disk
  <2> SUFFICES ASSUME NEW g \in Folders PROVE Imported(g)'
    BY Zenon DEF ImportInv
  <2>2. \/ stage'[g] = stage[g] /\ seen'[g] = seen[g]
        \/ stage[g] \in {"walk", "none"} /\ stage'[g] \in {"walk", "loaded", "none"}
    <3>1. CASE LoadDir(f)
      <4>1. /\ stage[f] = "walk" /\ stage'[f] = "loaded"
            /\ g # f => seen'[g] = seen[g]
            /\ g # f /\ g \notin Children(f) => stage'[g] = stage[g]
            /\ g # f /\ g \in Children(f) => stage'[g] \in {"walk", stage[g]}
        BY Zenon, <3>1 DEF LoadDir, Base, Types, PipeType
      <4>2. g \in Children(f) => stage[g] = "none"
        BY Zenon, <4>1, ChildrenUntouched DEF Base
      <4>3. QED
        BY Zenon, <4>1, <4>2
    <3>2. CASE LoadDirGone(f) \/ LoadDirFails(f)
      BY Zenon, <1>t, <3>2 DEF LoadDirGone, LoadDirFails, Enter
    <3>3. QED
      BY Zenon, <1>6, <3>1, <3>2 DEF WalkStep
  <2>3. Imported(g)
    BY Zenon DEF ImportInv
  <2>4. stage[g] \in {"walk", "none"} => read[g] = 0
    BY Zenon, <2>3 DEF Imported
  <2>5. QED
    BY Zenon, <2>1, <2>2, <2>3, <2>4, ImportedKept, ImportedEarly
<1>7. ASSUME \/ \E full \in BOOLEAN : StartScan(full, {}) \/ \E f \in Folders : StartScan(full, {f})
             \/ \E l \in Libs : PrepareStep(l)
             \/ \E l \in Libs : ChangePid(l)
             \/ UNCHANGED vars
      PROVE  UNCHANGED <<exists, content, row, hash, tracks, modTime, progress>>
  BY Zenon, <1>7, StartFrame, PrepareFrame DEF ChangePid, vars, db, disk
<1>8. QED
  BY Zenon, <1>1, <1>3, <1>4, <1>5, <1>6, <1>7, Steps, ImportedDisk, ImportedPipe, ImportedPersist

\* A folder that quick scans skip as unchanged has its current files imported, if its
\* files do not change between the reading of their tags and of their times and tags
\* that cannot be read are left out.
THEOREM SkippedAreImported ==
  ASSUME "race" \notin Events, "tagerror" \notin Events
  PROVE  Spec => []SkippedIsImported
<1>1. Init => ImportInv
  BY Zenon DEF Init, Known, Nowhere, Zero, ImportInv, Imported
<1>2. Base /\ ImportInv /\ [Next]_vars => ImportInv'
  BY Zenon, ImportedStep
<1>3. ImportInv => SkippedIsImported
  BY Zenon DEF ImportInv, Imported, SkippedIsImported
<1>4. QED
  BY <1>1, <1>2, <1>3, BaseHolds, PTL DEF Spec


-----------------------------------------------------------------------------
(* What is marked missing was out of sight. *)

\* What exists has everything above it.
Rooted == \A g \in Folders : exists[g] => \A u \in Above(g) : exists[u]

\* What was never out of sight during the scan exists, and the walk has found it or
\* has still to load it or a folder above it.
InSight == phase # "idle" => \A f \in Folders \ unseen : exists[f]
Awaited(f) == \E u \in {f} \cup Above(f) : stage[u] = "walk"
ToBeFound == phase = "walk" => \A f \in lastUpdates \ unseen : Awaited(f)

SeenInv == Rooted /\ InSight /\ ToBeFound

\* In each tree the walk starts above, or at, every folder that the scan covers.
LEMMA WalkStartsAbove ==
  ASSUME NEW S \in SUBSET Folders, NEW f \in S
  PROVE  \E u \in {f} \cup Above(f) : u \in S /\ ParentOf[u] \notin S /\ LibOf[u] = LibOf[f]
<1> DEFINE Starts(h) == \E u \in {h} \cup Above(h) : u \in S /\ ParentOf[u] \notin S /\ LibOf[u] = LibOf[h]
           T == {h \in Folders : h \in S => Starts(h)}
<1>1. PICK r \in Folders : ParentOf[r] = NoFolder /\ f \in Subtree(r)
  BY Zenon, LibraryScanAssumption
<1>2. r \in T
  BY Zenon, <1>1, LibraryScanAssumption
<1>3. Closed(T)
  <2> SUFFICES ASSUME NEW h \in T, NEW k \in Children(h) PROVE k \in T
    BY Zenon DEF Closed
  <2>1. k \in Folders /\ LibOf[k] = LibOf[h] /\ Above(k) = Above(h) \cup {h}
    BY Zenon, AboveChild
  <2>2. CASE h \in S
    BY Zenon, <2>1, <2>2
  <2>3. CASE h \notin S
    <3>1. ParentOf[k] = h
      BY Zenon DEF Children
    <3>2. k \in S => Starts(k)
      BY Zenon, <2>3, <3>1
    <3>3. QED
      BY Zenon, <2>1, <3>2
  <2>4. QED
    BY Zenon, <2>2, <2>3
<1>4. f \in T
  BY Zenon, <1>1, <1>2, <1>3, SubtreeLeast
<1>5. QED
  BY Zenon, <1>4

\* What is above a root is nothing.
LEMMA AboveRoot ==
  ASSUME NEW f \in Folders, ParentOf[f] \notin Folders
  PROVE  Above(f) = {}
<1>1. ASSUME NEW u \in Above(f) PROVE FALSE
  <2>1. u \in Folders /\ f \in Subtree(u) /\ f # u
    BY Zenon DEF Above
  <2>2. QED
    BY Zenon, <2>1, BelowChild, SubtreeLeast
<1>2. QED
  BY Zenon, <1>1

\* The file system stays a tree.
LEMMA RootedStep == Types /\ Rooted /\ [Next]_vars => Rooted'
<1> SUFFICES ASSUME Types, Rooted, [Next]_vars PROVE Rooted'
  BY Zenon
<1>t. exists \in [Folders -> BOOLEAN]
  BY Zenon DEF Types, DiskType
<1>1. CASE UNCHANGED exists
  BY Zenon, <1>1 DEF Rooted
<1>2. ASSUME NEW f \in Folders, Delete(f) PROVE Rooted'
  <2> SUFFICES ASSUME NEW g \in Folders, exists'[g], NEW u \in Above(g) PROVE exists'[u]
    BY Zenon DEF Rooted
  <2>1. u \in Folders /\ g \in Subtree(u)
    BY Zenon DEF Above
  <2>2. exists[g] /\ g \notin Subtree(f) /\ (exists[u] /\ u \notin Subtree(f) => exists'[u])
    BY Zenon, <1>2, <2>1 DEF Delete
  <2>3. exists[u]
    BY Zenon, <2>2 DEF Rooted
  <2>4. u \notin Subtree(f)
    BY Zenon, <2>1, <2>2, SubtreeInside
  <2>5. QED
    BY Zenon, <2>2, <2>3, <2>4
<1>3. ASSUME NEW f \in Folders, Restore(f) PROVE Rooted'
  <2> SUFFICES ASSUME NEW g \in Folders, exists'[g], NEW u \in Above(g) PROVE exists'[u]
    BY Zenon DEF Rooted
  <2>0. u \in Folders
    BY Zenon DEF Above
  <2>1. /\ exists' = [exists EXCEPT ![f] = TRUE]
        /\ ParentOf[f] \in Folders => exists[ParentOf[f]]
    BY Zenon, <1>3 DEF Restore
  <2>2. CASE g # f
    BY Zenon, <1>t, <2>0, <2>1, <2>2 DEF Rooted
  <2>3. CASE g = f
    <3>1. ParentOf[f] \in Folders
      BY Zenon, <2>3, AboveRoot
    <3>2. f \in Children(ParentOf[f])
      BY Zenon DEF Children
    <3>3. u = ParentOf[f] \/ u \in Above(ParentOf[f])
      BY <2>3, <3>1, <3>2, AboveChild
    <3>4. exists[u]
      BY Zenon, <2>1, <3>1, <3>3 DEF Rooted
    <3>5. QED
      BY Zenon, <1>t, <2>0, <2>1, <3>4
  <2>4. QED
    BY Zenon, <2>2, <2>3
<1>4. ASSUME NEW f \in Folders, Edit(f) PROVE UNCHANGED exists
  BY Zenon, <1>4 DEF Edit
<1>5. QED
  BY Zenon, <1>1, <1>2, <1>3, <1>4, OnlyDisk DEF disk

\* The history variable: during a scan it only grows, with what disappears.
LEMMA UnseenGrows ==
  ASSUME Types, [Next]_vars, phase # "idle", phase' # "idle"
  PROVE  unseen \subseteq unseen' /\ \A f \in Folders \ unseen' : exists[f] => exists'[f]
<1>1. CASE UNCHANGED <<unseen, exists>>
  BY Zenon, <1>1
<1>2. ASSUME NEW f \in Folders, Delete(f) \/ Restore(f) \/ Edit(f)
      PROVE  unseen \subseteq unseen' /\ \A g \in Folders \ unseen' : exists[g] => exists'[g]
  BY Zenon, <1>2 DEF Delete, Restore, Edit, Types, DiskType
<1>3. ASSUME NEW f \in Folders, WalkStep(f)
      PROVE  unseen \subseteq unseen' /\ UNCHANGED exists
  BY Zenon, <1>3 DEF WalkStep, LoadDir, LoadDirGone, LoadDirFails, disk
<1>4. ASSUME NEW full \in BOOLEAN, NEW targets, StartScan(full, targets) PROVE FALSE
  BY Zenon, <1>4 DEF StartScan
<1>5. CASE NoLibraries \/ ScanFails \/ UpdateLibraries
  BY Zenon, <1>5, IdleFrame DEF Idle
<1>6. CASE CreateJobs \/ Finalize \/ UNCHANGED vars
  BY Zenon, <1>6 DEF CreateJobs, Finalize, disk, vars
<1>7. ASSUME NEW l \in Libs, ChangePid(l) PROVE UNCHANGED <<unseen, exists>>
  BY Zenon, <1>7 DEF ChangePid, disk
<1>8. ASSUME NEW l \in Libs, PrepareStep(l) PROVE UNCHANGED <<unseen, exists>>
  BY Zenon, <1>8, PrepareFrame DEF disk
<1>9. ASSUME NEW f \in Folders, ImportStep(f) \/ PersistFolder(f) PROVE UNCHANGED <<unseen, exists>>
  BY Zenon, <1>9, ImportFrame DEF PersistFolder, disk
<1>10. QED
  BY Zenon, <1>1, <1>2, <1>3, <1>4, <1>5, <1>6, <1>7, <1>8, <1>9, Steps

\* What was never out of sight exists.
LEMMA InSightStep == Types /\ InSight /\ [Next]_vars => InSight'
<1> SUFFICES ASSUME Types, InSight, [Next]_vars, phase' # "idle" PROVE InSight'
  BY Zenon DEF InSight
<1>1. CASE phase # "idle"
  BY Zenon, <1>1, UnseenGrows DEF InSight
<1>2. CASE phase = "idle"
  <2>1. ASSUME NEW full \in BOOLEAN, NEW targets, StartScan(full, targets) PROVE InSight'
    BY Zenon, <2>1 DEF StartScan, InSight, disk
  <2>2. ASSUME ~\E full \in BOOLEAN : StartScan(full, {}) \/ \E f \in Folders : StartScan(full, {f})
        PROVE  phase' = "idle"
    <3>1. ASSUME NEW l \in Libs, PrepareStep(l) PROVE FALSE
      BY Zenon, <1>2, <3>1
      DEF PrepareStep, BeginLibrary, ReloadFails, ScanBegin, ResumeLibrary, BeginFails
    <3>2. CASE NoLibraries \/ ScanFails \/ UpdateLibraries
      BY Zenon, <3>2, IdleFrame DEF Idle
    <3>3. ASSUME CreateJobs \/ Finalize PROVE FALSE
      BY Zenon, <1>2, <3>3 DEF CreateJobs, Finalize
    <3>4. ASSUME NEW f \in Folders, WalkStep(f) \/ ImportStep(f) \/ PersistFolder(f) PROVE FALSE
      BY Zenon, <1>2, <3>4
      DEF WalkStep, LoadDir, LoadDirGone, LoadDirFails, ImportStep, Produce, ProcessFolder,
          ProcessFolderFails, StatFiles, PersistFolder, Enter
    <3>5. ASSUME \/ \E l \in Libs : ChangePid(l)
                 \/ \E f \in Folders : Edit(f) \/ Delete(f) \/ Restore(f)
                 \/ UNCHANGED vars
          PROVE  UNCHANGED phase
      BY Zenon, <3>5, DiskFrame DEF ChangePid, vars
    <3>6. QED
      BY Zenon, <1>2, <2>2, <3>1, <3>2, <3>3, <3>4, <3>5, Steps
  <2>3. QED
    BY Zenon, <2>1, <2>2
<1>3. QED
  BY Zenon, <1>1, <1>2

\* A step that leaves the folders still to be loaded as they are
LEMMA AwaitedKept ==
  ASSUME Types, SeenInv, unseen \subseteq unseen', UNCHANGED <<phase, lastUpdates>>,
         \A g \in Folders : stage[g] = "walk" => stage'[g] = "walk"
  PROVE  ToBeFound'
<1> SUFFICES ASSUME phase = "walk", NEW f \in lastUpdates \ unseen PROVE Awaited(f)'
  BY Zenon DEF ToBeFound
<1>1. PICK u \in {f} \cup Above(f) : stage[u] = "walk"
  BY Zenon DEF SeenInv, ToBeFound, Awaited
<1>2. u \in Folders
  BY Zenon DEF Above, Types, PipeType
<1>3. QED
  BY Zenon, <1>1, <1>2 DEF Awaited

\* The walk
LEMMA AwaitedWalk ==
  ASSUME Types, SeenInv, NEW g \in Folders, WalkStep(g), lastUpdates \subseteq Folders
  PROVE  ToBeFound'
<1>1. /\ phase = "walk" /\ stage[g] = "walk" /\ lastUpdates' \subseteq lastUpdates
      /\ unseen \subseteq unseen'
  BY Zenon DEF WalkStep, LoadDir, LoadDirGone, LoadDirFails, Enter, popLastUpdate
<1> SUFFICES ASSUME NEW f \in lastUpdates' \ unseen' PROVE Awaited(f)'
  BY Zenon DEF ToBeFound
<1>2. f \in Folders /\ exists[f] /\ \A u \in Above(f) : u \in Folders /\ exists[u]
  BY Zenon, <1>1 DEF SeenInv, InSight, Rooted, Above
<1>3. PICK u \in {f} \cup Above(f) : stage[u] = "walk"
  BY Zenon, <1>1 DEF SeenInv, ToBeFound, Awaited
<1>4. CASE LoadDir(g)
  <2>1. /\ f # g
        /\ \A h \in Folders : stage'[h] = IF h = g THEN "loaded"
                                ELSE IF h \in Children(g) /\ exists[h] THEN "walk" ELSE stage[h]
    BY Zenon, <1>4 DEF LoadDir, popLastUpdate
  <2>2. CASE u # g
    BY Zenon, <1>2, <1>3, <2>1, <2>2 DEF Awaited
  <2>3. CASE u = g
    <3>1. f \in Subtree(g)
      BY Zenon, <1>3, <2>1, <2>3 DEF Above
    <3>2. PICK c \in Children(g) : f \in Subtree(c)
      BY Zenon, <2>1, <3>1, BelowChild
    <3>3. c \in Folders /\ c # g
      BY Zenon, AboveChild
    <3>4. c \in {f} \cup Above(f)
      BY Zenon, <3>2, <3>3 DEF Above
    <3>5. stage'[c] = "walk"
      BY Zenon, <1>2, <2>1, <3>3, <3>4
    <3>6. QED
      BY Zenon, <3>4, <3>5 DEF Awaited
  <2>4. QED
    BY Zenon, <2>2, <2>3
<1>5. CASE LoadDirGone(g)
  <2>1. ~exists[g] /\ stage' = [stage EXCEPT ![g] = "none"]
    BY Zenon, <1>5 DEF LoadDirGone, Enter
  <2>2. u # g
    BY Zenon, <1>2, <1>3, <2>1
  <2>3. QED
    BY Zenon, <1>2, <1>3, <2>1, <2>2 DEF Awaited, Types, PipeType
<1>6. CASE LoadDirFails(g)
  <2>1. stage' = [stage EXCEPT ![g] = "none"] /\ f # g /\ f \notin Subtree(g)
    BY Zenon, <1>6 DEF LoadDirFails, Enter, popLastUpdate
  <2>2. u # g
    BY Zenon, <1>3, <2>1 DEF Above
  <2>3. QED
    BY Zenon, <1>2, <1>3, <2>1, <2>2 DEF Awaited, Types, PipeType
<1>7. QED
  BY Zenon, <1>4, <1>5, <1>6 DEF WalkStep

\* Every step keeps it.
LEMMA AwaitedStep == Types /\ SeenInv /\ [Next]_vars => ToBeFound'
<1> SUFFICES ASSUME Types, SeenInv, [Next]_vars PROVE ToBeFound'
  BY Zenon
<1>t. /\ stage \in [Folders -> {"none", "walk", "loaded", "queued", "parsed", "processed"}]
      /\ lastUpdates \subseteq Folders /\ scope \subseteq Folders
  BY Zenon DEF Types, PipeType, JobType
<1>1. CASE phase' # "walk"
  BY Zenon, <1>1 DEF ToBeFound
<1>2. CASE CreateJobs
  <2>1. /\ UNCHANGED scope
        /\ \A f \in Folders : stage'[f] = IF f \in scope /\ LibOf[f] \in jobs \ failedLibs' /\ ParentOf[f] \notin scope
                                            THEN "walk" ELSE "none"
        /\ \A f \in lastUpdates' : f \in scope /\ LibOf[f] \in jobs \ failedLibs'
    BY Zenon, <1>t, <1>2 DEF CreateJobs
  <2> SUFFICES ASSUME NEW f \in lastUpdates' PROVE Awaited(f)'
    BY Zenon DEF ToBeFound
  <2>2. PICK u \in {f} \cup Above(f) : u \in scope /\ ParentOf[u] \notin scope /\ LibOf[u] = LibOf[f]
    BY Zenon, <1>t, <2>1, WalkStartsAbove
  <2>3. stage'[u] = "walk"
    BY Zenon, <1>t, <2>1, <2>2
  <2>4. QED
    BY Zenon, <2>3 DEF Awaited
<1>3. ASSUME NEW f \in Folders, ImportStep(f) \/ PersistFolder(f) PROVE ToBeFound'
  <2>1. UNCHANGED <<phase, unseen, lastUpdates>>
    BY Zenon, <1>3, ImportFrame DEF PersistFolder
  <2>2. PICK to \in {"none", "queued", "parsed", "processed"} :
          stage[f] # "walk" /\ stage' = [stage EXCEPT ![f] = to]
    BY Zenon, <1>3
    DEF PersistFolder, ImportStep, Produce, ProcessFolder, ProcessFolderFails, StatFiles, Enter
  <2>3. \A g \in Folders : stage[g] = "walk" => stage'[g] = "walk"
    BY Zenon, <1>t, <2>2
  <2>4. QED
    BY Zenon, <2>1, <2>3, AwaitedKept
<1>4. ASSUME \/ \E l \in Libs : PrepareStep(l) \/ ChangePid(l)
             \/ \E f \in Folders : Edit(f) \/ Delete(f) \/ Restore(f)
             \/ UNCHANGED vars
      PROVE  UNCHANGED <<phase, progress>> /\ unseen \subseteq unseen'
  <2>1. ASSUME NEW f \in Folders, Edit(f) \/ Delete(f) \/ Restore(f) PROVE unseen \subseteq unseen'
    BY Zenon, <2>1 DEF Edit, Delete, Restore
  <2>2. QED
    BY Zenon, <1>4, <2>1, PrepareFrame, DiskFrame DEF ChangePid, vars
<1>5. ASSUME UNCHANGED <<phase, progress>>, unseen \subseteq unseen' PROVE ToBeFound'
  BY Zenon, <1>5, AwaitedKept DEF progress
<1>6. ASSUME \/ \E full \in BOOLEAN : StartScan(full, {}) \/ \E f \in Folders : StartScan(full, {f})
             \/ NoLibraries \/ Finalize \/ ScanFails \/ UpdateLibraries
      PROVE  phase' # "walk"
  BY Zenon, <1>6, IdleFrame DEF StartScan, Finalize, Idle
<1>7. QED
  BY Zenon, <1>t, <1>1, <1>2, <1>3, <1>4, <1>5, <1>6, Steps, AwaitedWalk

\* Only the end of phase 1 marks folders missing: those the walk did not find.
LEMMA OnlyFinalizeMisses ==
  ASSUME Types, [Next]_vars, NEW f \in Folders, row[f] = "present", row'[f] = "missing"
  PROVE  Finalize /\ f \in lastUpdates
<1>1. ASSUME NEW g \in Folders, PersistFolder(g) PROVE FALSE
  BY Zenon, <1>1 DEF PersistFolder, Types, TableType
<1>2. Finalize
  BY Zenon, <1>1, OnlyTables
<1>3. QED
  BY Zenon, <1>2 DEF Finalize

\* A folder is marked missing only if at some moment of the scan it was absent, or
\* below a folder that could not be listed; whatever changes, fails or is selective.
THEOREM MissingOnlyUnseen == Spec => MissingWasUnseen
<1>1. Init => SeenInv
  BY Zenon DEF Init, SeenInv, Rooted, InSight, ToBeFound, Above
<1>2. Base /\ SeenInv /\ [Next]_vars => SeenInv'
  BY Zenon, RootedStep, InSightStep, AwaitedStep DEF Base, SeenInv
<1>3. ASSUME Base, SeenInv, [Next]_vars
      PROVE  [\A f \in Folders : row[f] = "present" /\ row'[f] = "missing" => f \in unseen]_vars
  <2> SUFFICES ASSUME NEW f \in Folders, row[f] = "present", row'[f] = "missing" PROVE f \in unseen
    BY Zenon
  <2>1. phase = "walk" /\ f \in lastUpdates /\ \A g \in Folders : stage[g] = "none"
    BY Zenon, <1>3, OnlyFinalizeMisses DEF Base, Finalize, Walked
  <2>2. ~Awaited(f)
    BY Zenon, <2>1 DEF Awaited, Above
  <2>3. QED
    BY Zenon, <1>3, <2>1, <2>2 DEF SeenInv, ToBeFound
<1>4. QED
  BY <1>1, <1>2, <1>3, BaseHolds, PTL DEF Spec, MissingWasUnseen


-----------------------------------------------------------------------------
(* Readable libraries whose configuration moves forward. *)

\* No folder disappears or cannot be read, and no earlier configuration returns.
Sound == "delete" \notin Events /\ "tagerror" \notin Events /\ "revert" \notin Events

\* Then folders stay, a full scan reads the tags of what it processes, and the
\* configuration a scan applies is at least as new as the one applied last.
AllThere == \A f \in Folders : exists[f]
FullReads ==
  \A f \in Folders : stage[f] \in {"parsed", "processed"} /\ jobFull[LibOf[f]] => read[f] # 0
InOrder ==
  \A l \in Libs :
    /\ scannedPid[l] <= pid[l]
    /\ phase # "idle" => scannedPid[l] <= jobPid[l] /\ jobPid[l] <= pid[l]
SoundInv == AllThere /\ FullReads /\ InOrder

\* The types of the PID configurations
LEMMA PidTypes ==
  ASSUME Base
  PROVE  /\ \A l \in Libs : pid[l] \in Nat /\ scannedPid[l] \in Nat /\ jobPid[l] \in Nat
         /\ \A f \in Folders : LibOf[f] \in Libs
BY LibraryScanAssumption DEF Base, Types, LibType, JobType

\* The folders stay where they are.
LEMMA ThereStep ==
  ASSUME AllThere, Sound, [Next]_vars
  PROVE  AllThere'
<1>1. ASSUME NEW f \in Folders, Edit(f) \/ Delete(f) \/ Restore(f) PROVE UNCHANGED exists
  BY Zenon, <1>1 DEF AllThere, Edit, Delete, Restore, Allowed, Sound
<1>2. QED
  BY Zenon, <1>1, OnlyDisk DEF AllThere, disk

\* What a full scan processes has been read.
LEMMA ReadsStep ==
  ASSUME Base, AllThere, FullReads, Sound, [Next]_vars
  PROVE  FullReads'
<1>t. /\ stage \in [Folders -> {"none", "walk", "loaded", "queued", "parsed", "processed"}]
      /\ read \in [Folders -> Nat]
  BY Zenon DEF Base, Types, PipeType
<1>1. CASE UNCHANGED <<stage, read, jobFull>>
  BY Zenon, <1>1 DEF FullReads
<1>2. CASE \A f \in Folders : stage'[f] \in {"none", "walk"}
  BY Zenon, <1>2 DEF FullReads
<1>3. ASSUME NEW f \in Folders, WalkStep(f) PROVE FullReads'
  <2>1. /\ UNCHANGED <<read, jobFull>>
        /\ \A g \in Folders : stage'[g] \in {stage[g], "loaded", "walk", "none"}
    BY Zenon, <1>3, <1>t, WalkFrame DEF job, WalkStep, LoadDir, LoadDirGone, LoadDirFails, Enter
  <2>2. QED
    BY Zenon, <2>1 DEF FullReads
<1>4. ASSUME NEW f \in Folders, ImportStep(f) PROVE FullReads'
  <2>0. UNCHANGED jobFull /\ exists[f] /\ content[f] # 0
    BY Zenon, <1>4, ImportFrame DEF job, AllThere, Base, Types, DiskType
  <2>1. CASE Produce(f)
    <3>1. UNCHANGED read /\ \A g \in Folders : stage'[g] \in {stage[g], "queued", "none"}
      BY Zenon, <1>t, <2>1 DEF Produce, Enter
    <3>2. QED
      BY Zenon, <2>0, <3>1 DEF FullReads
  <2>2. CASE ProcessFolder(f)
    <3>1. /\ \A g \in Folders \ {f} : stage'[g] = stage[g] /\ read'[g] = read[g]
          /\ jobFull[LibOf[f]] => read'[f] = content[f]
      BY Zenon, <1>t, <2>2 DEF ProcessFolder, filesToImport, Enter
    <3>2. QED
      BY Zenon, <2>0, <3>1 DEF FullReads
  <2>3. ~ProcessFolderFails(f)
    BY Zenon, <2>0 DEF ProcessFolderFails, Sound, Allowed
  <2>4. CASE StatFiles(f)
    <3>1. /\ stage[f] = "parsed" /\ \A g \in Folders : read'[g] = read[g]
          /\ \A g \in Folders \ {f} : stage'[g] = stage[g]
      BY Zenon, <1>t, <2>0, <2>4 DEF StatFiles, Enter
    <3>2. QED
      BY Zenon, <2>0, <3>1 DEF FullReads
  <2>5. QED
    BY Zenon, <1>4, <2>1, <2>2, <2>3, <2>4 DEF ImportStep
<1>5. ASSUME NEW f \in Folders, PersistFolder(f) PROVE FullReads'
  <2>1. /\ UNCHANGED jobFull /\ stage'[f] = "none"
        /\ \A g \in Folders \ {f} : stage'[g] = stage[g] /\ read'[g] = read[g]
    BY Zenon, <1>5, <1>t DEF PersistFolder, Enter, job
  <2>2. QED
    BY Zenon, <2>1 DEF FullReads
<1>6. ASSUME NoLibraries \/ ScanFails \/ UpdateLibraries \/ CreateJobs
      PROVE  \A f \in Folders : stage'[f] \in {"none", "walk"}
  BY Zenon, <1>6, IdleFrame DEF Idle, Nowhere, CreateJobs
<1>7. ASSUME \/ \E full \in BOOLEAN : StartScan(full, {}) \/ \E f \in Folders : StartScan(full, {f})
             \/ Finalize
             \/ \E l \in Libs : PrepareStep(l) \/ ChangePid(l)
             \/ \E f \in Folders : Edit(f) \/ Delete(f) \/ Restore(f)
             \/ UNCHANGED vars
      PROVE  UNCHANGED <<stage, read, jobFull>>
  BY Zenon, <1>7, StartFrame, PrepareFrame, DiskFrame DEF Finalize, ChangePid, vars, job, progress
<1>8. QED
  BY Zenon, <1>1, <1>2, <1>3, <1>4, <1>5, <1>6, <1>7, Steps

\* The configurations move forward.
LEMMA OrderStep ==
  ASSUME Base, InOrder, Sound, [Next]_vars
  PROVE  InOrder'
<1>1. CASE UNCHANGED <<scannedPid, pid, phase, jobPid>>
  BY Zenon, <1>1 DEF InOrder
<1>2. ASSUME NEW l \in Libs, ChangePid(l) PROVE InOrder'
  <2>1. PICK p \in 1..MaxPid : p > pid[l] /\ pid' = [pid EXCEPT ![l] = p]
    BY Zenon, <1>2 DEF ChangePid, Sound, Allowed
  <2>2. \A k \in Libs : pid'[k] \in Nat /\ pid[k] <= pid'[k]
    BY <2>1, PidTypes DEF Base, Types, LibType
  <2>3. UNCHANGED <<scannedPid, phase, jobPid>>
    BY Zenon, <1>2 DEF ChangePid, lib, job
  <2>4. QED
    BY <2>2, <2>3, PidTypes DEF InOrder
<1>3. ASSUME NEW full, NEW targets, StartScan(full, targets) PROVE InOrder'
  <2>1. UNCHANGED <<scannedPid, pid>> /\ jobPid' = pid
    BY Zenon, <1>3 DEF StartScan, lib
  <2>2. QED
    BY <2>1, PidTypes DEF InOrder
<1>4. ASSUME NEW l \in Libs, PrepareStep(l) PROVE InOrder'
  <2>1. /\ UNCHANGED <<scannedPid, pid, phase>> /\ phase = "prepare"
        /\ \A k \in Libs : jobPid'[k] \in {jobPid[k], pid[k]}
    BY Zenon, <1>4, PrepareFrame
    DEF PrepareStep, BeginLibrary, ReloadFails, ScanBegin, ResumeLibrary, BeginFails, Base, Types, JobType
  <2>2. QED
    BY <2>1, PidTypes DEF InOrder
<1>5. CASE NoLibraries \/ ScanFails \/ UpdateLibraries
  <2>1. /\ phase' = "idle" /\ UNCHANGED pid
        /\ \A l \in Libs : scannedPid'[l] = scannedPid[l] \/ (phase # "idle" /\ scannedPid'[l] = jobPid[l])
    BY Zenon, <1>5, IdleFrame DEF Idle, NoLibraries, ScanFails, UpdateLibraries, lib
  <2>2. QED
    BY Zenon, <2>1 DEF InOrder
<1>6. CASE CreateJobs \/ Finalize
  <2>1. UNCHANGED <<scannedPid, pid, jobPid>> /\ phase # "idle"
    BY Zenon, <1>6 DEF CreateJobs, Finalize, lib, job
  <2>2. QED
    BY Zenon, <2>1 DEF InOrder
<1>7. ASSUME \/ \E f \in Folders : WalkStep(f) \/ ImportStep(f) \/ PersistFolder(f)
             \/ \E f \in Folders : Edit(f) \/ Delete(f) \/ Restore(f)
             \/ UNCHANGED vars
      PROVE  UNCHANGED <<scannedPid, pid, phase, jobPid>>
  BY Zenon, <1>7, WalkFrame, ImportFrame, DiskFrame DEF PersistFolder, vars, lib, job
<1>8. QED
  BY Zenon, <1>1, <1>2, <1>3, <1>4, <1>5, <1>6, <1>7, Steps

\* Every step keeps them
LEMMA SoundStep ==
  ASSUME Base, SoundInv, Sound, [Next]_vars
  PROVE  SoundInv'
BY Zenon, ThereStep, ReadsStep, OrderStep DEF SoundInv

\* ... and they hold at the start.
LEMMA SoundInit == Init => SoundInv
<1> SUFFICES ASSUME Init PROVE SoundInv
  BY Zenon
<1>1. AllThere /\ FullReads
  BY Zenon DEF Init, Nowhere, AllThere, FullReads
<1>2. \A l \in Libs : phase = "idle" /\ pid[l] = 1 /\ scannedPid[l] \in {0, 1}
  BY Zenon DEF Init
<1>3. InOrder
  BY <1>2 DEF InOrder
<1>4. QED
  BY Zenon, <1>1, <1>3 DEF SoundInv

-----------------------------------------------------------------------------
(* A requested full scan is remembered. *)

\* The environment in which it is: a full scan opens its libraries and lists and reads
\* the folders, and no scan covers an interrupted full one in part.
FullEvents ==
  /\ Sound /\ "vanish" \notin Events /\ "badfull" \notin Events
  /\ "partial" \notin Events /\ "upgrade" \notin Events

\* The running scan applies a new configuration to library l.
Renews(l) == NeedsPIDRescan(l, jobPid[l])

\* The flag is set by a scan's start only; a requested scan is a full one and begins or
\* resumes full scans only; and a quick scan meets the flag, and fails to open
\* libraries, only where ...
FlagStarted == \A l \in Libs : fullScanInProgress[l] => started[l]
RequestIsFull == requested => fullScan
NoUpgrade ==
  phase = "prepare" /\ requested =>
    \A l \in prep : started[l] => fullScanInProgress[l] \/ Renews(l)
QuickRenews == ~fullScan => \A l \in prep \cup jobs : fullScanInProgress[l] => Renews(l)
FullOpens == phase \in {"walk", "later"} /\ failedLibs # {} => ~fullScan

\* A changed configuration makes the next scan of library l full, and the running one.
Behind(l) == NeedsPIDRescan(l, pid[l]) /\ (l \in prep \cup jobs => Renews(l))

\* The folders still to be re-imported are older than the scan, and their library is
\* flagged or behind its configuration.  A scan of their library covers them, or leaves
\* the configuration for the next one; it is full, and they are in its pipeline or have
\* yet to be found.
OwedFlagged ==
  \A f \in owed : /\ row[f] = "present" /\ ~fresh[f]
                  /\ fullScanInProgress[LibOf[f]] \/ Behind(LibOf[f])
OwedCovered ==
  \A f \in owed : LibOf[f] \in prep \cup jobs => f \in scope \/ (selective /\ Renews(LibOf[f]))
OwedIsFull == phase = "walk" => \A f \in owed : LibOf[f] \in jobs => jobFull[LibOf[f]]
OwedAhead ==
  phase = "walk" => \A f \in owed : f \in scope /\ LibOf[f] \in jobs \ failedLibs =>
    f \in lastUpdates \/ stage[f] \in {"loaded", "queued", "parsed", "processed"}
OwedDone == phase = "later" => \A f \in owed : ~(f \in scope /\ LibOf[f] \in jobs \ failedLibs)

FlagInv ==
  /\ FlagStarted /\ RequestIsFull /\ NoUpgrade /\ QuickRenews /\ FullOpens
  /\ OwedFlagged /\ OwedCovered /\ OwedIsFull /\ OwedAhead /\ OwedDone

\* What is owed is in a library.
LEMMA OwedTypes ==
  ASSUME Base
  PROVE  owed \subseteq Folders /\ \A f \in owed : LibOf[f] \in Libs
BY Zenon, LibraryScanAssumption DEF Base, Types, JobType

\* The start of a scan
LEMMA FlagStart ==
  ASSUME Base, FlagInv, FullEvents,
         NEW full \in BOOLEAN, NEW targets \in SUBSET Folders, StartScan(full, targets)
  PROVE  FlagInv'
<1> DEFINE ls == IF targets = {} THEN Libs ELSE {LibOf[f] : f \in targets}
<1>1. UNCHANGED <<row, fresh, started, fullScanInProgress, everScanned, scannedPid, pid, jobFull, failedLibs,
                  lastUpdates, stage, owed>>
  BY Zenon, StartFrame DEF db, lib, progress
<1>2. /\ phase' = "prepare" /\ requested' = full /\ prep' = ls /\ jobs' = {} /\ jobPid' = pid
      /\ Unhindered(full, targets, ls) /\ fullScan' = (full \/ ForcedFull(ls))
      /\ selective' = (targets # {}) /\ (targets = {} => scope' = Folders)
  BY Zenon DEF StartScan
<1>3. /\ \A l : NeedsPIDRescan(l, pid[l])' <=> NeedsPIDRescan(l, pid[l])
      /\ \A l : Renews(l)' <=> NeedsPIDRescan(l, pid[l])
  BY Zenon, <1>1, <1>2 DEF Renews, NeedsPIDRescan
<1>4. FlagStarted' /\ RequestIsFull' /\ FullOpens' /\ OwedIsFull' /\ OwedAhead' /\ OwedDone'
  BY Zenon, <1>1, <1>2
  DEF FlagInv, FlagStarted, RequestIsFull, FullOpens, OwedIsFull, OwedAhead, OwedDone
<1>5. NoUpgrade'
  <2>1. full => \A l \in ls : started[l] => fullScanInProgress[l] \/ NeedsPIDRescan(l, pid[l])
    BY Zenon, <1>2 DEF Unhindered, Allowed, FullEvents
  <2>2. QED
    BY Zenon, <1>1, <1>2, <1>3, <2>1 DEF NoUpgrade
<1>6. QuickRenews'
  BY Zenon, <1>1, <1>2, <1>3 DEF QuickRenews, ForcedFull
<1>7. OwedFlagged'
  BY Zenon, <1>1, <1>3 DEF FlagInv, OwedFlagged, Behind
<1>8. OwedCovered'
  <2>1. targets # {} => \A l \in ls : ~fullScanInProgress[l]
    BY Zenon, <1>2 DEF Unhindered, Allowed, FullEvents
  <2>2. \A f \in owed : fullScanInProgress[LibOf[f]] \/ NeedsPIDRescan(LibOf[f], pid[LibOf[f]])
    BY Zenon DEF FlagInv, OwedFlagged, Behind
  <2>3. QED
    BY Zenon, <1>1, <1>2, <1>3, <2>1, <2>2, OwedTypes DEF OwedCovered
<1>9. QED
  BY Zenon, <1>4, <1>5, <1>6, <1>7, <1>8 DEF FlagInv

\* What a full scan owes a library
LEMMA OwesWhat ==
  ASSUME NEW l \in Libs, NEW fr, NEW f \in Owes(l, fr)
  PROVE  requested /\ f \in Folders /\ LibOf[f] = l /\ f \in scope /\ row[f] = "present" /\ ~fr[f]
BY Zenon DEF Owes, Of

\* A library that the scan begins anew
LEMMA FlagBegin ==
  ASSUME Base, SoundInv, FlagInv, NEW l \in Libs, ScanBegin(l),
         jobs' \subseteq jobs \cup {l}, \A k \in Libs \ {l} : jobPid'[k] = jobPid[k],
         jobPid'[l] \in {jobPid[l], pid[l]}
  PROVE  FlagInv'
<1>1. /\ UNCHANGED <<row, everScanned, scannedPid, pid, phase, scope, selective, requested, fullScan,
                     failedLibs, jobFull, lastUpdates, stage>>
      /\ phase = "prepare" /\ l \in prep /\ MustBegin(l) /\ prep' = prep \ {l}
      /\ \A f \in Folders : fresh'[f] = IF LibOf[f] = l THEN FALSE ELSE fresh[f]
      /\ owed' = owed \cup Owes(l, fresh')
  BY Zenon DEF ScanBegin, progress
<1>2. \A k \in Libs : /\ started'[k] = IF k = l THEN TRUE ELSE started[k]
                      /\ fullScanInProgress'[k] = IF k = l THEN BeginsFull(l) ELSE fullScanInProgress[k]
  BY Zenon DEF ScanBegin, Base, Types, LibType, Bits
<1>3. /\ \A k \in Libs \ {l} : Renews(k)' <=> Renews(k)
      /\ \A k \in Libs : NeedsPIDRescan(k, pid[k])' <=> NeedsPIDRescan(k, pid[k])
  BY Zenon, <1>1 DEF Renews, NeedsPIDRescan
<1>4. Renews(l) => Renews(l)'
  <2>1. scannedPid[l] # jobPid[l] => scannedPid[l] # pid[l]
    BY <1>1, PidTypes DEF SoundInv, InOrder
  <2>2. QED
    BY Zenon, <1>1, <2>1 DEF Renews, NeedsPIDRescan
<1>5. prep \subseteq Libs /\ jobs \subseteq Libs
  BY Zenon DEF Base, Types, JobType
<1>6. RequestIsFull' /\ FullOpens' /\ OwedIsFull' /\ OwedAhead' /\ OwedDone'
  BY Zenon, <1>1 DEF FlagInv, RequestIsFull, FullOpens, OwedIsFull, OwedAhead, OwedDone
<1>7. FlagStarted' /\ NoUpgrade'
  BY Zenon, <1>1, <1>2, <1>3, <1>5 DEF FlagInv, FlagStarted, NoUpgrade
<1>8. BeginsFull(l) <=> fullScan \/ Renews(l)
  BY Zenon DEF BeginsFull, Renews
<1>9. QuickRenews'
  <2> SUFFICES ASSUME ~fullScan, NEW k \in prep' \cup jobs', fullScanInProgress'[k] PROVE Renews(k)'
    BY Zenon, <1>1 DEF QuickRenews
  <2>1. CASE k = l
    BY Zenon, <1>2, <1>4, <1>8, <2>1
  <2>2. CASE k # l
    <3>1. k \in Libs /\ k \in prep \cup jobs
      BY Zenon, <1>1, <1>5, <2>2
    <3>2. QED
      BY Zenon, <1>2, <1>3, <2>2, <3>1 DEF FlagInv, QuickRenews
  <2>3. QED
    BY Zenon, <2>1, <2>2
<1>10. ASSUME NEW f \in owed
       PROVE  /\ row[f] = "present" /\ ~fresh'[f]
              /\ fullScanInProgress'[LibOf[f]] \/ Behind(LibOf[f])'
              /\ LibOf[f] \in prep' \cup jobs' => f \in scope \/ (selective /\ Renews(LibOf[f])')
  <2>1. f \in Folders /\ LibOf[f] \in Libs
    BY Zenon, OwedTypes
  <2>2. /\ row[f] = "present" /\ ~fresh[f]
        /\ fullScanInProgress[LibOf[f]] \/ Behind(LibOf[f])
        /\ LibOf[f] \in prep \cup jobs => f \in scope \/ (selective /\ Renews(LibOf[f]))
    BY Zenon DEF FlagInv, OwedFlagged, OwedCovered
  <2>3. CASE LibOf[f] = l
    <3>1. fullScanInProgress[l] => Renews(l)
      BY Zenon, <1>1 DEF FlagInv, FlagStarted, MustBegin, Renews
    <3>2. Renews(l)
      BY Zenon, <1>1, <2>2, <2>3, <3>1 DEF Behind
    <3>3. QED
      BY Zenon, <1>1, <1>2, <1>4, <1>8, <2>1, <2>2, <2>3, <3>2
  <2>4. CASE LibOf[f] # l
    BY Zenon, <1>1, <1>2, <1>3, <2>1, <2>2, <2>4 DEF Behind
  <2>5. QED
    BY Zenon, <2>3, <2>4
<1>11. ASSUME NEW f \in Owes(l, fresh')
       PROVE  row[f] = "present" /\ ~fresh'[f] /\ fullScanInProgress'[LibOf[f]] /\ f \in scope
  <2>1. requested /\ LibOf[f] = l /\ f \in scope /\ row[f] = "present" /\ ~fresh'[f]
    BY OwesWhat
  <2>2. QED
    BY Zenon, <1>2, <1>8, <2>1 DEF FlagInv, RequestIsFull
<1>12. OwedFlagged' /\ OwedCovered'
  BY Zenon, <1>1, <1>10, <1>11 DEF OwedFlagged, OwedCovered
<1>13. QED
  BY Zenon, <1>6, <1>7, <1>9, <1>12 DEF FlagInv

\* The preparation of a library
LEMMA FlagPrepare ==
  ASSUME Base, SoundInv, FlagInv, NEW l \in Libs, PrepareStep(l)
  PROVE  FlagInv'
<1>1. CASE BeginLibrary(l) \/ ReloadFails(l)
  <2>1. /\ ScanBegin(l) /\ jobs' \subseteq jobs \cup {l} /\ jobPid'[l] \in {jobPid[l], pid[l]}
        /\ \A k \in Libs \ {l} : jobPid'[k] = jobPid[k]
    BY Zenon, <1>1 DEF BeginLibrary, ReloadFails, Base, Types, JobType
  <2>2. QED
    BY Zenon, <2>1, FlagBegin
<1>2. CASE ResumeLibrary(l) \/ BeginFails(l)
  <2>1. /\ UNCHANGED <<row, fresh, started, fullScanInProgress, everScanned, scannedPid, pid, phase, scope,
                       selective, requested, fullScan, failedLibs, jobPid, jobFull, lastUpdates, stage>>
        /\ phase = "prepare" /\ l \in prep /\ prep' = prep \ {l} /\ jobs' \subseteq jobs \cup {l}
        /\ owed' = owed \/ (owed' = owed \cup Owes(l, fresh) /\ ~MustBegin(l))
    BY Zenon, <1>2 DEF ResumeLibrary, BeginFails, lib, db, progress
  <2>2. /\ \A k : Renews(k)' <=> Renews(k)
        /\ \A k : NeedsPIDRescan(k, pid[k])' <=> NeedsPIDRescan(k, pid[k])
        /\ prep' \subseteq prep /\ prep' \cup jobs' \subseteq prep \cup jobs
    BY Zenon, <2>1 DEF Renews, NeedsPIDRescan
  <2>3. FlagStarted' /\ RequestIsFull' /\ NoUpgrade' /\ QuickRenews' /\ FullOpens'
    BY Zenon, <2>1, <2>2
    DEF FlagInv, FlagStarted, RequestIsFull, NoUpgrade, QuickRenews, FullOpens
  <2>4. OwedIsFull' /\ OwedAhead' /\ OwedDone'
    BY Zenon, <2>1 DEF OwedIsFull, OwedAhead, OwedDone
  <2>5. requested /\ ~MustBegin(l) => fullScanInProgress[l]
    BY Zenon, <2>1 DEF MustBegin, Renews, FlagInv, NoUpgrade
  <2>6. \A f \in owed' \ owed : /\ row[f] = "present" /\ ~fresh[f] /\ f \in scope
                                /\ fullScanInProgress[LibOf[f]]
    BY <2>1, <2>5, OwesWhat
  <2>7. OwedFlagged'
    BY Zenon, <2>1, <2>2, <2>6 DEF FlagInv, OwedFlagged, Behind
  <2>8. OwedCovered'
    BY Zenon, <2>1, <2>2, <2>6 DEF FlagInv, OwedCovered
  <2>9. QED
    BY Zenon, <2>3, <2>4, <2>7, <2>8 DEF FlagInv
<1>3. QED
  BY Zenon, <1>1, <1>2 DEF PrepareStep

\* Loading the stored folders
LEMMA FlagCreate ==
  ASSUME Base, FlagInv, FullEvents, CreateJobs
  PROVE  FlagInv'
<1>1. /\ phase = "prepare" /\ prep = {} /\ phase' = "walk"
      /\ UNCHANGED <<row, fresh, started, fullScanInProgress, everScanned, scannedPid, pid, scope, selective,
                     requested, fullScan, prep, jobs, jobPid, owed>>
      /\ lastUpdates' = {f \in scope : LibOf[f] \in jobs \ failedLibs' /\ row[f] = "present"}
      /\ \A l \in jobs \cap Libs : fullScanInProgress[l] \/ Renews(l) => jobFull'[l]
      /\ failedLibs' = {} \/ JobsFail
  BY Zenon DEF CreateJobs, db, lib, Renews
<1>2. FlagStarted' /\ RequestIsFull' /\ NoUpgrade' /\ QuickRenews'
  BY Zenon, <1>1
  DEF FlagInv, FlagStarted, RequestIsFull, NoUpgrade, QuickRenews, Renews, NeedsPIDRescan
<1>3. FullOpens'
  BY Zenon, <1>1 DEF FullOpens, JobsFail, FullEvents, Allowed
<1>4. OwedFlagged' /\ OwedCovered' /\ OwedDone'
  BY Zenon, <1>1 DEF FlagInv, OwedFlagged, OwedCovered, OwedDone, Behind, Renews, NeedsPIDRescan
<1>5. OwedIsFull'
  BY Zenon, <1>1, OwedTypes DEF FlagInv, OwedFlagged, Behind, OwedIsFull
<1>6. OwedAhead'
  BY Zenon, <1>1 DEF FlagInv, OwedFlagged, OwedAhead
<1>7. QED
  BY Zenon, <1>2, <1>3, <1>4, <1>5, <1>6 DEF FlagInv

\* The end of a scan
LEMMA FlagIdle ==
  ASSUME Base, SoundInv, FlagInv, NoLibraries \/ ScanFails \/ UpdateLibraries
  PROVE  FlagInv'
<1>1. /\ UNCHANGED <<row, fresh, pid, owed>> /\ phase' = "idle" /\ requested' = FALSE
      /\ prep' = {} /\ jobs' = {}
  BY Zenon, IdleFrame DEF Idle, db
<1>2. /\ RequestIsFull' /\ NoUpgrade' /\ QuickRenews' /\ FullOpens'
      /\ OwedCovered' /\ OwedIsFull' /\ OwedAhead' /\ OwedDone'
  BY Zenon, <1>1
  DEF RequestIsFull, NoUpgrade, QuickRenews, FullOpens, OwedCovered, OwedIsFull, OwedAhead, OwedDone
<1>3. CASE UNCHANGED lib
  BY Zenon, <1>1, <1>2, <1>3 DEF FlagInv, FlagStarted, OwedFlagged, Behind, NeedsPIDRescan, lib
<1>4. CASE UpdateLibraries
  <2>1. /\ phase = "later"
        /\ \A l \in Libs : /\ started'[l] = (started[l] /\ l \notin jobs)
                           /\ fullScanInProgress'[l] = (fullScanInProgress[l] /\ l \notin jobs)
                           /\ everScanned[l] => everScanned'[l]
                           /\ l \notin jobs \/ l \in failedLibs \/ selective => scannedPid'[l] = scannedPid[l]
    BY Zenon, <1>4 DEF UpdateLibraries, StillFull, AppliesPID
  <2>2. FlagStarted'
    BY Zenon, <2>1 DEF FlagInv, FlagStarted
  <2>3. ASSUME NEW f \in owed, ~fullScanInProgress'[LibOf[f]]
        PROVE  NeedsPIDRescan(LibOf[f], pid[LibOf[f]])'
    <3> DEFINE l == LibOf[f]
    <3>1. l \in Libs /\ (fullScanInProgress[l] \/ Behind(l))
      BY Zenon, OwedTypes DEF FlagInv, OwedFlagged
    <3>2. CASE l \notin jobs
      BY Zenon, <1>1, <2>1, <2>3, <3>1, <3>2 DEF Behind, NeedsPIDRescan
    <3>3. CASE l \in jobs
      <4>1. (l \in failedLibs \/ selective) /\ Renews(l)
        <5>1. CASE f \in scope
          <6>1. l \in failedLibs /\ ~fullScan
            BY Zenon, <2>1, <3>3, <5>1 DEF FlagInv, OwedDone, FullOpens
          <6>2. QED
            BY Zenon, <3>1, <3>3, <6>1 DEF FlagInv, QuickRenews, Behind
        <5>2. CASE f \notin scope
          BY Zenon, <3>3, <5>2 DEF FlagInv, OwedCovered
        <5>3. QED
          BY Zenon, <5>1, <5>2
      <4>2. scannedPid'[l] = scannedPid[l] /\ everScanned'[l] /\ scannedPid[l] # jobPid[l]
        BY Zenon, <2>1, <3>1, <4>1 DEF Renews, NeedsPIDRescan
      <4>3. scannedPid[l] # pid[l]
        BY <2>1, <3>1, <4>2, PidTypes DEF SoundInv, InOrder
      <4>4. QED
        BY Zenon, <1>1, <4>2, <4>3 DEF NeedsPIDRescan
    <3>4. QED
      BY Zenon, <3>2, <3>3
  <2>4. OwedFlagged'
    BY Zenon, <1>1, <2>3 DEF FlagInv, OwedFlagged, Behind
  <2>5. QED
    BY Zenon, <1>2, <2>2, <2>4 DEF FlagInv
<1>5. QED
  BY Zenon, <1>3, <1>4 DEF NoLibraries, ScanFails

\* Phase 1: what is owed is not lost on the way.
LEMMA FlagWalk ==
  ASSUME Base, SoundInv, FlagInv, FullEvents,
         NEW f \in Folders, WalkStep(f) \/ ImportStep(f) \/ PersistFolder(f)
  PROVE  FlagInv'
<1>1. /\ UNCHANGED <<lib, pid, phase, job>> /\ phase = "walk" /\ owed' \subseteq owed
  BY Zenon, WalkFrame, ImportFrame
  DEF WalkStep, LoadDir, LoadDirGone, LoadDirFails, ImportStep, Produce, ProcessFolder,
      ProcessFolderFails, StatFiles, PersistFolder, Enter
<1>2. /\ \A l : Renews(l)' <=> Renews(l)
      /\ \A l : Behind(l)' <=> Behind(l)
  BY Zenon, <1>1 DEF lib, job, Renews, Behind, NeedsPIDRescan
<1>3. /\ FlagStarted' /\ RequestIsFull' /\ NoUpgrade' /\ QuickRenews' /\ FullOpens'
      /\ OwedCovered' /\ OwedIsFull' /\ OwedDone'
  BY Zenon, <1>1, <1>2
  DEF lib, job, FlagInv, FlagStarted, RequestIsFull, NoUpgrade, QuickRenews, FullOpens, OwedCovered,
      OwedIsFull, OwedDone
<1>4. /\ stage \in [Folders -> {"none", "walk", "loaded", "queued", "parsed", "processed"}]
      /\ row \in [Folders -> {"none", "present", "missing"}] /\ fresh \in [Folders -> BOOLEAN]
      /\ owed \subseteq Folders
  BY Zenon DEF Base, Types, PipeType, TableType, JobType
<1>5. ASSUME f \in owed, stage[f] # "none" PROVE jobFull[LibOf[f]] /\ ~fresh[f]
  <2>1. LibOf[f] \in jobs
    BY Zenon, <1>5 DEF Base, WalkInv, Staged
  <2>2. QED
    BY Zenon, <1>1, <1>5, <2>1 DEF FlagInv, OwedFlagged, OwedIsFull
<1>6. ASSUME PersistFolder(f) PROVE f \notin owed'
  <2>1. stage[f] = "processed" /\ owed' = IF jobFull[LibOf[f]] /\ read[f] # 0 THEN owed \ {f} ELSE owed
    BY Zenon, <1>6 DEF PersistFolder, Enter
  <2>2. QED
    BY Zenon, <1>5, <2>1 DEF SoundInv, FullReads
<1>7. OwedFlagged'
  <2>1. CASE UNCHANGED <<row, fresh>>
    BY Zenon, <1>1, <1>2, <2>1 DEF lib, FlagInv, OwedFlagged
  <2>2. CASE PersistFolder(f)
    <3>1. \A g \in Folders \ {f} : row'[g] = row[g] /\ fresh'[g] = fresh[g]
      BY Zenon, <1>4, <2>2 DEF PersistFolder
    <3>2. QED
      BY Zenon, <1>1, <1>2, <1>4, <1>6, <2>2, <3>1 DEF lib, FlagInv, OwedFlagged
  <2>3. QED
    BY Zenon, <2>1, <2>2, WalkFrame, ImportFrame DEF db
<1>8. OwedAhead'
  <2> DEFINE Late == {"loaded", "queued", "parsed", "processed"}
  <2> SUFFICES ASSUME NEW g \in owed', g \in scope, LibOf[g] \in jobs \ failedLibs
               PROVE  g \in lastUpdates' \/ stage'[g] \in Late
    BY Zenon, <1>1 DEF job, OwedAhead
  <2>1. g \in Folders /\ (g \in lastUpdates \/ stage[g] \in Late)
    BY Zenon, <1>1, <1>4 DEF FlagInv, OwedAhead
  <2>2. CASE LoadDir(f)
    <3>1. /\ stage[f] = "walk" /\ lastUpdates' = lastUpdates \ {f} /\ stage'[f] = "loaded"
          /\ g # f /\ g \notin Children(f) => stage'[g] = stage[g]
      BY Zenon, <2>1, <2>2 DEF LoadDir, popLastUpdate
    <3>2. g \in Children(f) => stage[g] = "none"
      BY Zenon, <3>1, ChildrenUntouched DEF Base
    <3>3. QED
      BY Zenon, <2>1, <3>1, <3>2
  <2>3. CASE LoadDirGone(f)
    BY Zenon, <1>4, <2>1, <2>3 DEF LoadDirGone, Enter
  <2>4. ~LoadDirFails(f)
    BY Zenon DEF LoadDirFails, Allowed, FullEvents
  <2>5. CASE Produce(f)
    <3>1. stage[f] = "loaded" /\ UNCHANGED lastUpdates
      BY Zenon, <2>5 DEF Produce, Enter
    <3>2. f \in owed => isOutdated(f)
      BY Zenon, <1>5, <3>1 DEF isOutdated
    <3>3. \/ stage' = [stage EXCEPT ![f] = "queued"]
          \/ ~isOutdated(f) /\ stage' = [stage EXCEPT ![f] = "none"]
      BY Zenon, <2>5 DEF Produce, Enter
    <3>4. QED
      BY Zenon, <1>1, <1>4, <2>1, <3>1, <3>2, <3>3
  <2>6. CASE ProcessFolder(f) \/ ProcessFolderFails(f) \/ StatFiles(f)
    <3>1. PICK to \in {"parsed", "processed"} : stage' = [stage EXCEPT ![f] = to] /\ UNCHANGED lastUpdates
      BY Zenon, <2>6 DEF ProcessFolder, ProcessFolderFails, StatFiles, Enter
    <3>2. QED
      BY Zenon, <1>4, <2>1, <3>1
  <2>7. CASE PersistFolder(f)
    <3>1. stage' = [stage EXCEPT ![f] = "none"] /\ UNCHANGED lastUpdates
      BY Zenon, <2>7 DEF PersistFolder, Enter
    <3>2. QED
      BY Zenon, <1>4, <1>6, <2>1, <2>7, <3>1
  <2>8. QED
    BY Zenon, <2>2, <2>3, <2>4, <2>5, <2>6, <2>7 DEF WalkStep, ImportStep
<1>9. QED
  BY Zenon, <1>3, <1>7, <1>8 DEF FlagInv

\* Every step keeps it.
LEMMA FlagStep ==
  ASSUME Base, SoundInv, FlagInv, FullEvents, [Next]_vars
  PROVE  FlagInv'
<1>1. ASSUME UNCHANGED <<row, fresh, lib, phase, job, lastUpdates, stage, owed>>,
             \A l \in Libs : NeedsPIDRescan(l, pid[l]) => NeedsPIDRescan(l, pid[l])'
      PROVE  FlagInv'
  <2>1. \A l : Renews(l)' <=> Renews(l)
    BY Zenon, <1>1 DEF lib, job, Renews, NeedsPIDRescan
  <2>2. FlagStarted' /\ RequestIsFull' /\ NoUpgrade' /\ QuickRenews' /\ FullOpens'
    BY Zenon, <1>1, <2>1
    DEF lib, job, FlagInv, FlagStarted, RequestIsFull, NoUpgrade, QuickRenews, FullOpens
  <2>3. OwedFlagged'
    BY Zenon, <1>1, <2>1, OwedTypes DEF lib, job, FlagInv, OwedFlagged, Behind
  <2>4. OwedCovered' /\ OwedIsFull' /\ OwedAhead' /\ OwedDone'
    BY Zenon, <1>1, <2>1 DEF job, FlagInv, OwedCovered, OwedIsFull, OwedAhead, OwedDone
  <2>5. QED
    BY Zenon, <2>2, <2>3, <2>4 DEF FlagInv
<1>2. CASE Finalize
  <2>1. /\ UNCHANGED <<fresh, lib, pid, job>> /\ phase = "walk" /\ phase' = "later"
        /\ owed' = owed \ lastUpdates
        /\ \A f \in Folders : stage[f] = "none" /\ (f \notin lastUpdates => row'[f] = row[f])
    BY Zenon, <1>2 DEF Finalize, Walked
  <2>2. /\ \A l : Renews(l)' <=> Renews(l)
        /\ \A l : Behind(l)' <=> Behind(l)
    BY Zenon, <2>1 DEF lib, job, Renews, Behind, NeedsPIDRescan
  <2>3. /\ FlagStarted' /\ RequestIsFull' /\ NoUpgrade' /\ QuickRenews' /\ FullOpens'
        /\ OwedIsFull' /\ OwedAhead'
    BY Zenon, <2>1, <2>2
    DEF lib, job, FlagInv, FlagStarted, RequestIsFull, NoUpgrade, QuickRenews, FullOpens, OwedIsFull,
        OwedAhead
  <2>4. OwedFlagged' /\ OwedCovered'
    BY Zenon, <2>1, <2>2, OwedTypes DEF lib, job, FlagInv, OwedFlagged, OwedCovered
  <2>5. OwedDone'
    BY Zenon, <2>1, OwedTypes DEF job, FlagInv, OwedAhead, OwedDone
  <2>6. QED
    BY Zenon, <2>3, <2>4, <2>5 DEF FlagInv
<1>3. ASSUME (\E f \in Folders : Edit(f) \/ Delete(f) \/ Restore(f)) \/ UNCHANGED vars
      PROVE  FlagInv'
  <2>1. UNCHANGED <<row, fresh, lib, pid, phase, job, lastUpdates, stage, owed>>
    BY Zenon, <1>3, DiskFrame DEF vars, db, progress
  <2>2. QED
    BY Zenon, <1>1, <2>1 DEF lib, NeedsPIDRescan
<1>4. ASSUME NEW l \in Libs, ChangePid(l) PROVE FlagInv'
  <2>1. UNCHANGED <<row, fresh, lib, phase, job, lastUpdates, stage, owed>>
    BY Zenon, <1>4 DEF ChangePid, db, progress
  <2>2. PICK p \in 1..MaxPid : p > pid[l] /\ pid' = [pid EXCEPT ![l] = p]
    BY Zenon, <1>4 DEF ChangePid, Allowed, FullEvents, Sound
  <2>3. pid'[l] > pid[l] /\ \A k \in Libs \ {l} : pid'[k] = pid[k]
    BY Zenon, <2>2 DEF Base, Types, LibType
  <2>4. scannedPid[l] # pid'[l]
    BY <2>2, <2>3, PidTypes DEF SoundInv, InOrder, Base, Types, LibType
  <2>5. QED
    BY Zenon, <1>1, <2>1, <2>3, <2>4 DEF lib, NeedsPIDRescan
<1>5. ASSUME NEW full \in BOOLEAN, StartScan(full, {}) \/ \E f \in Folders : StartScan(full, {f})
      PROVE  FlagInv'
  BY Zenon, <1>5, FlagStart
<1>6. QED
  BY Zenon, <1>2, <1>3, <1>4, <1>5, FlagPrepare, FlagCreate, FlagIdle, FlagWalk, Steps

\* A requested full scan is not forgotten: a folder that it has not read again is in a
\* library whose next scan is a full one, however scans fail or crash, if full scans
\* open their libraries and list and read the folders in them, no scan covers an
\* interrupted full one in part, and no earlier PID configuration returns.
THEOREM FullScanIsRemembered ==
  ASSUME FullEvents
  PROVE  Spec => []FullScanRemembered
<1>1. Init => FlagInv
  BY Zenon
  DEF Init, FlagInv, FlagStarted, RequestIsFull, NoUpgrade, QuickRenews, FullOpens, OwedFlagged,
      OwedCovered, OwedIsFull, OwedAhead, OwedDone
<1>2. Base /\ SoundInv /\ FlagInv /\ [Next]_vars => SoundInv' /\ FlagInv'
  BY Zenon, SoundStep, FlagStep DEF FullEvents
<1>3. FlagInv => FullScanRemembered
  BY Zenon DEF FlagInv, OwedFlagged, Behind, FullScanRemembered
<1>4. QED
  BY <1>1, <1>2, <1>3, SoundInit, BaseHolds, PTL DEF Spec


-----------------------------------------------------------------------------
(* A changed PID configuration is applied to every track. *)

\* Every library has been scanned.
AllScanned == \A l \in Libs : everScanned[l]

\* Stored tracks are of stored folders, and under the applied configuration if it is
\* the current one.
UnderPid ==
  \A f \in Folders : tracks[f] # 0 =>
    row[f] = "present" /\ (scannedPid[LibOf[f]] = pid[LibOf[f]] => trackPid[f] = pid[LibOf[f]])

\* The running scan changes the configuration of library l.
Changes(l) == l \in jobs /\ scannedPid[l] # jobPid[l]

\* Such a scan imports everything: what it has stored is under its configuration, and
\* it is full.
FreshUnderPid ==
  \A f \in Folders : Changes(LibOf[f]) /\ fresh[f] /\ tracks[f] # 0 => trackPid[f] = jobPid[LibOf[f]]
ChangeIsFull == phase = "walk" => \A l \in Libs : Changes(l) => jobFull[l]

\* A scan of whole libraries meets every folder with tracks.
WholeScope == phase # "idle" /\ ~selective => scope = Folders
Remains(f) == Changes(LibOf[f]) /\ LibOf[f] \notin failedLibs /\ tracks[f] # 0 /\ trackPid[f] # jobPid[LibOf[f]]
PidAhead ==
  phase = "walk" /\ ~selective =>
    \A f \in Folders : Remains(f) => f \in lastUpdates \/ stage[f] # "none"
PidDone == phase = "later" /\ ~selective => \A f \in Folders : ~Remains(f)

PidInv ==
  /\ AllScanned /\ UnderPid /\ FreshUnderPid /\ ChangeIsFull
  /\ WholeScope /\ PidAhead /\ PidDone

PidEvents == Sound /\ "vanish" \notin Events

\* A step that leaves the tables and the scan alone
LEMMA PidKept ==
  ASSUME PidInv, AllScanned', UnderPid',
         UNCHANGED <<tracks, trackPid, fresh, scannedPid, phase, job, stage, read, lastUpdates>>
  PROVE  PidInv'
<1>1. \A l \in Libs : Changes(l)' = Changes(l)
  BY Zenon DEF Changes, job
<1>2. FreshUnderPid' /\ ChangeIsFull' /\ WholeScope'
  BY Zenon DEF Changes, PidInv, FreshUnderPid, ChangeIsFull, WholeScope, job
<1>3. PidAhead' /\ PidDone'
  BY Zenon DEF Changes, PidInv, PidAhead, PidDone, Remains, job
<1>4. QED
  BY Zenon, <1>2, <1>3 DEF PidInv

\* A new PID configuration
LEMMA PidChange ==
  ASSUME Base, SoundInv, PidInv, PidEvents, NEW l \in Libs, ChangePid(l)
  PROVE  PidInv'
<1>1. UNCHANGED <<row, tracks, trackPid, fresh, everScanned, scannedPid, phase, job, stage, read,
                  lastUpdates>>
  BY Zenon DEF ChangePid, db, lib, progress
<1>2. PICK p \in 1..MaxPid : p > pid[l] /\ pid' = [pid EXCEPT ![l] = p]
  BY Zenon DEF ChangePid, PidEvents, Sound, Allowed
<1>3. pid'[l] > pid[l] /\ pid'[l] \in Nat /\ \A k \in Libs \ {l} : pid'[k] = pid[k]
  BY <1>2 DEF Base, Types, LibType
<1>4. scannedPid[l] # pid'[l]
  BY <1>3, PidTypes DEF SoundInv, InOrder
<1>5. AllScanned' /\ UnderPid'
  BY Zenon, <1>1, <1>3, <1>4, PidTypes DEF PidInv, AllScanned, UnderPid
<1>6. QED
  BY Zenon, <1>1, <1>5, PidKept

\* The start of a scan
LEMMA PidStart ==
  ASSUME Base, PidInv, NEW full \in BOOLEAN, NEW targets, StartScan(full, targets)
  PROVE  PidInv'
<1>1. /\ UNCHANGED <<row, tracks, trackPid, everScanned, scannedPid, pid, jobFull, stage, read>>
      /\ phase' = "prepare" /\ jobs' = {} /\ jobPid' = pid
      /\ selective' = (targets # {}) /\ (targets = {} => scope' = Folders)
  BY Zenon DEF StartScan, db, lib, progress
<1>2. AllScanned'
  BY Zenon, <1>1 DEF PidInv, AllScanned
<1>3. UnderPid'
  BY Zenon, <1>1 DEF PidInv, UnderPid
<1>4. FreshUnderPid' /\ ChangeIsFull' /\ WholeScope' /\ PidAhead' /\ PidDone'
  BY Zenon, <1>1 DEF FreshUnderPid, Changes, ChangeIsFull, WholeScope, PidAhead, PidDone
<1>5. QED
  BY Zenon, <1>2, <1>3, <1>4 DEF PidInv

\* The preparation of a library
LEMMA PidPrepare ==
  ASSUME Base, PidInv, NEW l \in Libs, PrepareStep(l)
  PROVE  PidInv'
<1>1. /\ UNCHANGED <<row, tracks, trackPid, everScanned, scannedPid, pid, phase, scope, selective, jobFull,
                     stage, read>>
      /\ phase = "prepare"
  BY Zenon, PrepareFrame
  DEF progress, PrepareStep, BeginLibrary, ReloadFails, ScanBegin, ResumeLibrary, BeginFails
<1>2. AllScanned' /\ UnderPid' /\ WholeScope' /\ ChangeIsFull' /\ PidAhead' /\ PidDone'
  BY Zenon, <1>1 DEF PidInv, AllScanned, UnderPid, WholeScope, ChangeIsFull, PidAhead, PidDone
<1>3. /\ jobPid \in [Libs -> 0..MaxPid] /\ fresh \in [Folders -> BOOLEAN]
  BY Zenon DEF Base, Types, JobType, TableType
<1>4. CASE BeginLibrary(l) \/ ReloadFails(l)
  <2>1. /\ \A k \in Libs \ {l} : jobPid'[k] = jobPid[k] /\ (k \in jobs' => k \in jobs)
        /\ \A f \in Folders : fresh'[f] = IF LibOf[f] = l THEN FALSE ELSE fresh[f]
    BY Zenon, <1>3, <1>4 DEF BeginLibrary, ReloadFails, ScanBegin
  <2>2. FreshUnderPid'
    BY Zenon, <1>1, <2>1, PidTypes DEF PidInv, FreshUnderPid, Changes
  <2>3. QED
    BY Zenon, <1>2, <2>2 DEF PidInv
<1>5. CASE ResumeLibrary(l) \/ BeginFails(l)
  <2>1. /\ UNCHANGED <<jobPid, fresh>>
        /\ \/ jobs' = jobs
           \/ jobs' = jobs \cup {l} /\ ~MustBegin(l)
    BY Zenon, <1>5 DEF ResumeLibrary, BeginFails, db
  <2>2. ~MustBegin(l) => scannedPid[l] = jobPid[l]
    BY Zenon DEF MustBegin, NeedsPIDRescan, PidInv, AllScanned
  <2>3. FreshUnderPid'
    BY Zenon, <1>1, <2>1, <2>2 DEF PidInv, FreshUnderPid, Changes
  <2>4. QED
    BY Zenon, <1>2, <2>3 DEF PidInv
<1>6. QED
  BY Zenon, <1>4, <1>5 DEF PrepareStep

\* Loading the stored folders
LEMMA PidCreate ==
  ASSUME Base, PidInv, CreateJobs
  PROVE  PidInv'
<1>1. /\ UNCHANGED <<row, tracks, trackPid, fresh, everScanned, scannedPid, pid, scope, selective, jobs, jobPid>>
      /\ phase = "prepare" /\ phase' = "walk"
      /\ \A f \in Folders : stage'[f] \in {"walk", "none"}
      /\ \A k \in jobs \cap Libs : NeedsPIDRescan(k, jobPid[k]) => jobFull'[k]
      /\ lastUpdates' = {f \in scope : LibOf[f] \in jobs \ failedLibs' /\ row[f] = "present"}
  BY Zenon DEF CreateJobs, db, lib
<1>2. AllScanned' /\ UnderPid' /\ FreshUnderPid' /\ WholeScope'
  BY Zenon, <1>1 DEF PidInv, AllScanned, UnderPid, FreshUnderPid, WholeScope, Changes
<1>3. PidDone'
  BY Zenon, <1>1 DEF PidDone
<1>4. ChangeIsFull'
  BY Zenon, <1>1 DEF ChangeIsFull, Changes, NeedsPIDRescan, PidInv, AllScanned
<1>5. PidAhead'
  <2> SUFFICES ASSUME ~selective, NEW f \in Folders, Remains(f)' PROVE f \in lastUpdates'
    BY Zenon, <1>1 DEF PidAhead
  <2>1. f \in scope /\ row[f] = "present" /\ LibOf[f] \in jobs \ failedLibs'
    BY Zenon, <1>1 DEF Remains, Changes, PidInv, WholeScope, UnderPid
  <2>2. QED
    BY Zenon, <1>1, <2>1
<1>6. QED
  BY Zenon, <1>2, <1>3, <1>4, <1>5 DEF PidInv

\* The walk
LEMMA PidWalk ==
  ASSUME Base, SoundInv, PidInv, PidEvents, NEW f \in Folders, WalkStep(f)
  PROVE  PidInv'
<1>1. UNCHANGED <<row, tracks, trackPid, fresh, everScanned, scannedPid, pid, phase, job, read>>
  BY Zenon, WalkFrame DEF db, lib
<1>2. AllScanned' /\ UnderPid' /\ FreshUnderPid' /\ ChangeIsFull' /\ WholeScope' /\ PidDone'
  <2>1. AllScanned' /\ UnderPid' /\ WholeScope'
    BY Zenon, <1>1 DEF job, PidInv, AllScanned, UnderPid, WholeScope
  <2>2. FreshUnderPid' /\ ChangeIsFull' /\ PidDone'
    BY Zenon, <1>1 DEF job, PidInv, FreshUnderPid, ChangeIsFull, PidDone, Remains, Changes
  <2>3. QED
    BY Zenon, <2>1, <2>2
<1>3. LoadDir(f)
  BY Zenon DEF WalkStep, LoadDirGone, LoadDirFails, SoundInv, AllThere, PidEvents, Allowed
<1>4. /\ lastUpdates' = lastUpdates \ {f} /\ stage'[f] = "loaded"
      /\ \A g \in Folders \ {f} : stage'[g] \in {stage[g], "walk"}
  BY Zenon, <1>3 DEF LoadDir, popLastUpdate
<1>5. PidAhead'
  <2>1. \A g \in Folders : Remains(g)' = Remains(g)
    BY Zenon, <1>1 DEF job, Remains, Changes
  <2>2. QED
    BY Zenon, <1>1, <1>4, <2>1 DEF job, PidInv, PidAhead
<1>6. QED
  BY Zenon, <1>2, <1>5 DEF PidInv

\* The import of a folder
LEMMA PidImport ==
  ASSUME Base, SoundInv, PidInv, PidEvents, NEW f \in Folders, ImportStep(f)
  PROVE  PidInv'
<1>1. UNCHANGED <<content, row, tracks, trackPid, fresh, everScanned, scannedPid, pid, phase, job, lastUpdates>>
  BY Zenon, ImportFrame DEF db, lib, disk
<1>2. AllScanned' /\ UnderPid' /\ WholeScope'
  BY Zenon, <1>1 DEF job, PidInv, AllScanned, UnderPid, WholeScope
<1>3. FreshUnderPid' /\ ChangeIsFull' /\ PidDone'
  BY Zenon, <1>1 DEF job, PidInv, FreshUnderPid, ChangeIsFull, PidDone, Remains, Changes
<1>4. \A g \in Folders : Remains(g)' = Remains(g)
  BY Zenon, <1>1 DEF job, Remains, Changes
<1>t. /\ stage \in [Folders -> {"none", "walk", "loaded", "queued", "parsed", "processed"}]
      /\ phase = "walk"
  BY Zenon
  DEF Base, Types, PipeType, ImportStep, Produce, ProcessFolder, ProcessFolderFails, StatFiles, Enter
<1>5. PICK to \in {"none", "queued", "parsed", "processed"} : stage' = [stage EXCEPT ![f] = to]
  BY Zenon DEF ImportStep, Produce, ProcessFolder, ProcessFolderFails, StatFiles, Enter
<1>6. ASSUME to = "none" PROVE ~isOutdated(f) /\ stage[f] = "loaded"
  BY Zenon, <1>t, <1>5, <1>6
  DEF ImportStep, Produce, ProcessFolder, ProcessFolderFails, StatFiles, Enter
<1>7. PidAhead'
  <2>1. ASSUME to = "none" PROVE ~Remains(f)
    <3>1. ~(jobFull[LibOf[f]] /\ ~fresh[f])
      BY Zenon, <1>6, <2>1 DEF isOutdated
    <3>2. Changes(LibOf[f]) => jobFull[LibOf[f]]
      BY Zenon, <1>t, PidTypes DEF PidInv, ChangeIsFull
    <3>3. QED
      BY Zenon, <3>1, <3>2 DEF Remains, PidInv, FreshUnderPid
  <2>2. QED
    BY Zenon, <1>1, <1>4, <1>5, <1>t, <2>1 DEF job, PidInv, PidAhead
<1>8. QED
  BY Zenon, <1>2, <1>3, <1>7 DEF PidInv

\* The transaction that stores a folder
LEMMA PidPersist ==
  ASSUME Base, SoundInv, PidInv, NEW f \in Folders, PersistFolder(f)
  PROVE  PidInv'
<1> DEFINE l == LibOf[f]
<1>1. /\ UNCHANGED <<everScanned, scannedPid, pid, phase, job, lastUpdates>>
      /\ phase = "walk" /\ stage[f] = "processed"
  BY Zenon DEF PersistFolder, Enter, lib
<1>2. AllScanned' /\ ChangeIsFull' /\ WholeScope' /\ PidDone'
  BY Zenon, <1>1 DEF job, PidInv, AllScanned, ChangeIsFull, WholeScope, PidDone, Changes
<1>3. /\ row'[f] = "present" /\ stage'[f] = "none"
      /\ IF read[f] = 0 THEN tracks'[f] = tracks[f] /\ trackPid'[f] = trackPid[f]
                        ELSE trackPid'[f] = jobPid[l]
  BY Zenon DEF PersistFolder, Enter, Base, Types, TableType, PipeType
<1>4. \A g \in Folders \ {f} : /\ row'[g] = row[g] /\ tracks'[g] = tracks[g] /\ trackPid'[g] = trackPid[g]
                               /\ fresh'[g] = fresh[g]
  BY Zenon DEF PersistFolder, Base, Types, TableType
<1>5. \A g \in Folders \ {f} : stage'[g] = stage[g] /\ read'[g] = read[g]
  BY Zenon DEF PersistFolder, Enter, Base, Types, PipeType
<1>6. l \in jobs /\ l \notin failedLibs /\ l \in Libs
  BY Zenon, <1>1, PidTypes DEF Base, WalkInv, Staged
<1>7. read[f] = 0 => ~Changes(l)
  BY Zenon, <1>1, <1>6 DEF PidInv, ChangeIsFull, SoundInv, FullReads
<1>8. \A k \in Libs : Changes(k)' = Changes(k)
  BY Zenon, <1>1 DEF job, Changes
<1>9. UnderPid'
  <2>1. scannedPid[l] = pid[l] => jobPid[l] = pid[l]
    <3>1. scannedPid[l] <= jobPid[l] /\ jobPid[l] <= pid[l]
      BY Zenon, <1>1, <1>6 DEF SoundInv, InOrder
    <3>2. pid[l] \in Nat /\ jobPid[l] \in Nat
      BY Zenon, <1>6, PidTypes
    <3>3. QED
      BY <3>1, <3>2
  <2>2. tracks'[f] # 0 => (scannedPid[l] = pid[l] => trackPid'[f] = pid[l])
    BY Zenon, <1>3, <2>1 DEF PidInv, UnderPid
  <2>3. QED
    BY Zenon, <1>1, <1>3, <1>4, <2>2 DEF PidInv, UnderPid
<1>10. FreshUnderPid'
  <2>1. Changes(l) => trackPid'[f] = jobPid[l]
    BY Zenon, <1>3, <1>7
  <2>2. QED
    BY Zenon, <1>1, <1>4, <1>8, <2>1, PidTypes DEF job, PidInv, FreshUnderPid
<1>11. PidAhead'
  <2>1. ~Remains(f)'
    BY Zenon, <1>1, <1>3, <1>6, <1>7, <1>8 DEF job, Remains
  <2>2. \A g \in Folders \ {f} : Remains(g)' = Remains(g)
    BY Zenon, <1>1, <1>4, <1>8, PidTypes DEF job, Remains
  <2>3. QED
    BY Zenon, <1>1, <1>5, <2>1, <2>2 DEF job, PidInv, PidAhead
<1>12. QED
  BY Zenon, <1>2, <1>9, <1>10, <1>11 DEF PidInv

\* The end of phase 1
LEMMA PidFinalize ==
  ASSUME Base, PidInv, Finalize
  PROVE  PidInv'
<1>1. /\ UNCHANGED <<trackPid, fresh, everScanned, scannedPid, pid, job, stage, read>>
      /\ phase = "walk" /\ phase' = "later"
      /\ \A f \in Folders : /\ stage[f] = "none"
                            /\ tracks'[f] = IF f \in lastUpdates THEN 0 ELSE tracks[f]
                            /\ f \notin lastUpdates => row'[f] = row[f]
  BY Zenon DEF Finalize, Walked, lib
<1>2. AllScanned' /\ ChangeIsFull' /\ WholeScope' /\ PidAhead'
  BY Zenon, <1>1 DEF job, PidInv, AllScanned, ChangeIsFull, WholeScope, PidAhead
<1>3. UnderPid'
  BY Zenon, <1>1 DEF PidInv, UnderPid
<1>4. FreshUnderPid'
  BY Zenon, <1>1 DEF job, PidInv, FreshUnderPid, Changes
<1>5. PidDone'
  BY Zenon, <1>1 DEF job, PidInv, PidAhead, PidDone, Remains, Changes
<1>6. QED
  BY Zenon, <1>2, <1>3, <1>4, <1>5 DEF PidInv

\* The end of a scan
LEMMA PidIdle ==
  ASSUME Base, PidInv, NoLibraries \/ ScanFails \/ UpdateLibraries
  PROVE  PidInv'
<1>1. /\ UNCHANGED <<row, tracks, trackPid, pid>> /\ phase' = "idle" /\ jobs' = {}
  BY Zenon, IdleFrame DEF Idle, db
<1>2. FreshUnderPid' /\ ChangeIsFull' /\ WholeScope' /\ PidAhead' /\ PidDone'
  BY Zenon, <1>1 DEF FreshUnderPid, Changes, ChangeIsFull, WholeScope, PidAhead, PidDone
<1>3. CASE UNCHANGED <<everScanned, scannedPid>>
  BY Zenon, <1>1, <1>2, <1>3 DEF PidInv, AllScanned, UnderPid
<1>4. CASE UpdateLibraries
  <2>1. /\ phase = "later"
        /\ \A l \in Libs :
             /\ everScanned[l] => everScanned'[l]
             /\ scannedPid'[l] = IF l \in jobs \ failedLibs /\ ~selective THEN jobPid[l] ELSE scannedPid[l]
    BY Zenon, <1>4 DEF UpdateLibraries, AppliesPID
  <2>2. AllScanned'
    BY Zenon, <1>1, <2>1, PidTypes DEF PidInv, AllScanned
  <2>3. UnderPid'
    <3> SUFFICES ASSUME NEW f \in Folders, tracks[f] # 0, scannedPid'[LibOf[f]] = pid[LibOf[f]]
                 PROVE  trackPid[f] = pid[LibOf[f]]
      BY Zenon, <1>1 DEF PidInv, UnderPid
    <3>1. CASE scannedPid'[LibOf[f]] = scannedPid[LibOf[f]]
      BY Zenon, <3>1 DEF PidInv, UnderPid
    <3>2. CASE scannedPid'[LibOf[f]] # scannedPid[LibOf[f]]
      <4>1. /\ LibOf[f] \in jobs \ failedLibs /\ ~selective
            /\ jobPid[LibOf[f]] = pid[LibOf[f]] /\ Changes(LibOf[f])
        BY Zenon, <2>1, <3>2, PidTypes DEF Changes
      <4>2. ~Remains(f)
        BY Zenon, <2>1, <4>1 DEF PidInv, PidDone
      <4>3. QED
        BY Zenon, <4>1, <4>2 DEF Remains
    <3>3. QED
      BY Zenon, <3>1, <3>2
  <2>4. QED
    BY Zenon, <1>2, <2>2, <2>3 DEF PidInv
<1>5. QED
  BY Zenon, <1>3, <1>4 DEF NoLibraries, ScanFails, lib

\* Every step keeps it.
LEMMA PidStep ==
  ASSUME Base, SoundInv, PidInv, PidEvents, [Next]_vars
  PROVE  PidInv'
<1>1. ASSUME (\E f \in Folders : Edit(f) \/ Delete(f) \/ Restore(f)) \/ UNCHANGED vars
      PROVE  PidInv'
  <2>1. UNCHANGED <<row, tracks, trackPid, fresh, everScanned, scannedPid, pid, phase, job, stage, read,
                    lastUpdates>>
    BY Zenon, <1>1, DiskFrame DEF vars, db, lib, progress
  <2>2. AllScanned' /\ UnderPid'
    BY Zenon, <2>1 DEF job, PidInv, AllScanned, UnderPid
  <2>3. QED
    BY Zenon, <2>1, <2>2, PidKept
<1>2. ASSUME NEW full \in BOOLEAN, StartScan(full, {}) \/ \E f \in Folders : StartScan(full, {f})
      PROVE  PidInv'
  BY Zenon, <1>2, PidStart
<1>3. QED
  BY Zenon, <1>1, <1>2, PidChange, PidPrepare, PidCreate, PidWalk, PidImport, PidPersist, PidFinalize,
     PidIdle, Steps

\* When a library's PID configuration is taken to be applied, every track of it was
\* imported under it, however scans failed, crashed, were selective or were overtaken
\* by another change; for libraries scanned before, while folders are not deleted, can
\* be listed and read, and no earlier configuration returns.
THEOREM PIDIsApplied ==
  ASSUME NewLibs = {}, PidEvents
  PROVE  Spec => []PIDApplied
<1>1. Init => PidInv
  <2> SUFFICES ASSUME Init PROVE PidInv
    BY Zenon
  <2>0. \A f \in Folders : LibOf[f] \in Libs
    BY Zenon, LibraryScanAssumption
  <2>1. AllScanned
    BY Zenon DEF Init, AllScanned
  <2>2. UnderPid
    BY Zenon, <2>0 DEF Init, Known, UnderPid
  <2>3. FreshUnderPid /\ ChangeIsFull /\ WholeScope /\ PidAhead /\ PidDone
    BY Zenon DEF Init, FreshUnderPid, ChangeIsFull, WholeScope, PidAhead, PidDone
  <2>4. QED
    BY Zenon, <2>1, <2>2, <2>3 DEF PidInv
<1>2. Base /\ SoundInv /\ PidInv /\ [Next]_vars => SoundInv' /\ PidInv'
  BY Zenon, SoundStep, PidStep DEF PidEvents
<1>3. Base /\ PidInv => PIDApplied
  BY Zenon, PidTypes DEF PidInv, AllScanned, UnderPid, PIDApplied, NeedsPIDRescan
<1>4. QED
  BY <1>1, <1>2, <1>3, SoundInit, BaseHolds, PTL DEF Spec
=============================================================================
