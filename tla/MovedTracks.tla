----------------------------- MODULE MovedTracks -----------------------------
(***************************************************************************)
(* Phase 2 of a scan, scanner/phase_2_missing_tracks.go: tracks that were  *)
(* not found again are matched with files that are new, and keep their ID, *)
(* and all that refers to it, at the new place.  core/maintenance.go does  *)
(* the same on request, and deletes missing tracks, from another process.  *)
(*                                                                         *)
(* The tracks are those of one PID before its library prefix, so there is  *)
(* a group of them for each library.  A file is named by the ID of the row *)
(* it was imported with.  A group goes through two stages, which work side *)
(* by side: the first looks for the missing tracks in their own library,   *)
(* the second, if that found nothing, in the others.  What they found may  *)
(* have changed when they move a row.                                      *)
(***************************************************************************)
EXTENDS Naturals, FiniteSets

CONSTANTS
  TrackIDs,       \* the rows after phase 1
  Libraries,      \* 1..n, in the order of the scan
  TrackLib, Created, Base, Album,  \* of a file, or its row
  Contents,       \* what tags may be, as far as Equals() compares it
  Tagged,         \* the tags that have a MusicBrainz ID
  ScanStarted,    \* rows created later are new
  NoRow, NoMove,
  MaxErrors, MaxRemaps  \* bounds: errors and crashes, calls of RemapMissingFile

VARIABLES
  tags, files,    \* the tags of each file, and the files that exist; they do not change
  media,          \* media_file: the file of an ID and whether it is missing, or NoRow
  place, missing, matched, todo, used,  \* of a group: its stage and what is left to do
  move,           \* the move that a stage or RemapMissingFile is about to make
  processedAlbumAnnotations,
  status,         \* running, failing (the producer), halted (the first stage) or over
  reassigned,     \* history: albums that got the annotations of an earlier one
  contested,      \* history: files that two movers were after at the same time
  errors, remaps

groups == <<place, missing, matched, todo, used>>
bounds == <<errors, remaps>>
vars ==
  <<tags, files, media, groups, move, processedAlbumAnnotations, status, reassigned, contested,
    bounds>>

Stages == {"first", "second"}
Movers == Stages \cup {"remap"}

Present(i) == media[i] # NoRow /\ ~media[i].missing
IsMissing(i) == media[i] # NoRow /\ media[i].missing

Fresh ==
  /\ place = [l \in Libraries |-> "new"]
  /\ missing = [l \in Libraries |-> {}] /\ matched = [l \in Libraries |-> {}]
  /\ todo = [l \in Libraries |-> {}] /\ used = [l \in Libraries |-> {}]

\* Phase 1 has marked some old rows as missing and imported the new ones.
Init ==
  /\ tags \in Contents
  /\ files \in {d \in SUBSET TrackIDs : \A i \in TrackIDs : Created[i] > ScanStarted => i \in d}
  /\ media = [i \in TrackIDs |-> [file |-> i, missing |-> i \notin files]]
  /\ Fresh /\ status = "running" /\ move = [v \in Movers |-> NoMove]
  /\ processedAlbumAnnotations = {} /\ reassigned = {} /\ contested = {}
  /\ errors = 0 /\ remaps = 0

Equals(i, j) == tags[i] = tags[j]
IsEquivalent(i, j) == Base[i] = Base[j]

-----------------------------------------------------------------------------
\* The rows of the library that are missing or new; the PID is the same.
GetMissingAndMatching(l) ==
  {i \in TrackIDs : /\ media[i] # NoRow /\ TrackLib[media[i].file] = l
                    /\ IsMissing(i) \/ Created[i] > ScanStarted}

\* produce(): the group of the next library; without missing tracks there is none.
Produce(l) ==
  /\ status = "running" /\ place[l] = "new" /\ \A k \in Libraries : k < l => place[k] # "new"
  /\ LET gone == {i \in GetMissingAndMatching(l) : IsMissing(i)}
     IN /\ missing' = [missing EXCEPT ![l] = gone] /\ todo' = [todo EXCEPT ![l] = gone]
        /\ matched' = [matched EXCEPT ![l] = GetMissingAndMatching(l) \ gone]
        /\ place' = [place EXCEPT ![l] = IF gone = {} THEN "done" ELSE "first"]
  /\ UNCHANGED <<tags, files, media, used, move, processedAlbumAnnotations, status, reassigned,
                 contested, bounds>>

\* The next move of v gives the file f of the row t to the ID m.
Plan(v, m, t, f) ==
  move' = [move EXCEPT ![v] = [missing |-> m, target |-> t, file |-> f,
                               claimed |-> FALSE, reassign |-> FALSE]]

\* Mutant: a matched track is used again.
UnusedAll(l) == matched[l]

\* The matched tracks that have not been used.
Unused(l) == matched[l] \ used[l]

\* processMissingTracks(): the tracks that m may have become.
Matches(l, m) ==
  LET exact == {t \in Unused(l) : Equals(m, t)} IN
  IF exact # {} THEN exact
  ELSE IF Cardinality(missing[l]) = 1 /\ Cardinality(matched[l]) = 1 THEN Unused(l)
  ELSE {t \in Unused(l) : IsEquivalent(m, t)}

\* processMissingTracks(): the next missing track of the group.
ProcessMissing(l, m) ==
  /\ status \in {"running", "failing"} /\ move["first"] = NoMove
  /\ place[l] = "first" /\ \A k \in Libraries : k < l => place[k] # "first"
  /\ m \in todo[l] /\ todo' = [todo EXCEPT ![l] = todo[l] \ {m}]
  /\ \/ Matches(l, m) = {} /\ UNCHANGED <<move, used>>
     \/ \E t \in Matches(l, m) : /\ Plan("first", m, t, t)
                                 /\ used' = [used EXCEPT ![l] = used[l] \cup {t}]
  /\ UNCHANGED <<tags, files, media, place, missing, matched, processedAlbumAnnotations, status,
                 reassigned, contested, bounds>>

\* processMissingTracks() returns: a group without a match goes to the next stage,
\* which has nothing to do if there is one library.
PassOn(l) ==
  /\ status \in {"running", "failing"} /\ move["first"] = NoMove
  /\ place[l] = "first" /\ todo[l] = {}
  /\ LET next == IF used[l] = {} /\ Cardinality(Libraries) > 1 THEN "second" ELSE "done" IN
     /\ place' = [place EXCEPT ![l] = next]
     /\ todo' = [todo EXCEPT ![l] = IF next = "second" THEN missing[l] ELSE {}]
  /\ UNCHANGED <<tags, files, media, missing, matched, used, move, processedAlbumAnnotations, status,
                 reassigned, contested, bounds>>

\* FindRecentFilesBy...(): the present rows of other libraries that were created after m.
Recent(m) ==
  {i \in TrackIDs : Present(i) /\ TrackLib[media[i].file] # TrackLib[m] /\ Created[i] > Created[m]}

\* findCrossLibraryMatch() in the rows rs: the latest exact match or else the only row.
Best(m, rs) ==
  LET exact == {i \in rs : Equals(m, media[i].file)} IN
  IF exact # {} THEN {i \in exact : \A j \in exact : Created[j] <= Created[i]}
  ELSE {i \in rs : Cardinality(rs) = 1 /\ IsEquivalent(m, media[i].file)}

\* findCrossLibraryMatch(): the match among the files without a MusicBrainz ID.
Untagged(m) == Best(m, {i \in Recent(m) : tags[media[i].file] \notin Tagged})

\* findCrossLibraryMatch(): by MusicBrainz ID, if m has one, then by other properties.
FindCrossLibraryMatch(m) ==
  LET byID == Best(m, {i \in Recent(m) : tags[media[i].file] \in Tagged}) IN
  IF tags[m] \in Tagged /\ byID # {} THEN byID ELSE Untagged(m)

\* processCrossLibraryMoves(): the next missing track of the group, for which a search
\* has found the rows in found.
CrossLibrary(l, m, found) ==
  /\ status # "over" /\ move["second"] = NoMove
  /\ place[l] = "second" /\ \A k \in Libraries : k < l => place[k] # "second"
  /\ m \in todo[l] /\ todo' = [todo EXCEPT ![l] = todo[l] \ {m}]
  /\ \/ found = {} /\ UNCHANGED move
     \/ \E t \in found : Plan("second", m, t, media[t].file)
  /\ UNCHANGED <<tags, files, media, place, missing, matched, used, processedAlbumAnnotations, status,
                 reassigned, contested, remaps>>

ProcessCrossLibrary(l, m) == CrossLibrary(l, m, FindCrossLibraryMatch(m)) /\ UNCHANGED errors

\* The first search fails, and the second one does it alone, or fails as well.
CrossLibraryFails(l, m) ==
  /\ errors < MaxErrors /\ errors' = errors + 1
  /\ CrossLibrary(l, m, Untagged(m)) \/ CrossLibrary(l, m, {})

\* processCrossLibraryMoves() returns.
EndGroup(l) ==
  /\ place[l] = "second" /\ todo[l] = {} /\ move["second"] = NoMove
  /\ place' = [place EXCEPT ![l] = "done"]
  /\ UNCHANGED <<tags, files, media, missing, matched, todo, used, move, processedAlbumAnnotations,
                 status, reassigned, contested, bounds>>

-----------------------------------------------------------------------------
\* moveMatched(): claims the reassignment of the album's annotations.
Claim(v) ==
  /\ v \in Stages /\ move[v] # NoMove /\ ~move[v].claimed
  /\ LET to == Album[move[v].file]
         differs == Album[move[v].missing] # to
     IN /\ move' = [move EXCEPT ![v].claimed = TRUE,
                                ![v].reassign = differs /\ to \notin processedAlbumAnnotations]
        /\ processedAlbumAnnotations' =
             IF differs THEN processedAlbumAnnotations \cup {to} ELSE processedAlbumAnnotations
  /\ UNCHANGED <<tags, files, media, groups, status, reassigned, contested, bounds>>

\* The row that is written for the ID of a missing track.
Moved(f) == [file |-> f, missing |-> FALSE]

\* Somebody other than v is about to move the row t, too.
Wanted(v, t) ==
  \/ \E w \in Movers \ {v} : move[w] # NoMove /\ move[w].target = t
  \/ v # "first" /\ \E l \in Libraries : place[l] = "first" /\ todo[l] # {} /\ t \in Unused(l)

\* The rows of a move that have got another file since they were read.
Changed(mv) == {i \in {mv.missing, mv.target} : Present(i) /\ media[i].file # mv.file}

\* The transaction: Put() of the file under the missing ID, Delete() of its row.
MoveRow(v) ==
  LET mv == move[v] IN
  /\ media' = [media EXCEPT ![mv.missing] = Moved(mv.file), ![mv.target] = NoRow]
  /\ contested' = contested \cup (IF Wanted(v, mv.target) THEN {mv.file} ELSE {})
                            \cup {media[i].file : i \in Changed(mv)}
  /\ move' = [move EXCEPT ![v] = NoMove]

\* moveMatched(): the transaction is committed.  That the annotations could not be
\* reassigned is only logged, and the album counts as reassigned.
MoveMatched(v) ==
  /\ v \in Stages /\ move[v] # NoMove /\ move[v].claimed /\ MoveRow(v)
  /\ reassigned' = reassigned \cup (IF move[v].reassign THEN {Album[move[v].file]} ELSE {})
  /\ UNCHANGED <<tags, files, groups, processedAlbumAnnotations, status, bounds>>

\* Mutant: a failed move keeps its claim.
ReleaseNot(v) == processedAlbumAnnotations

\* moveMatched(): the claims that are left after a failure.
Release(v) ==
  IF move[v].reassign THEN processedAlbumAnnotations \ {Album[move[v].file]}
                      ELSE processedAlbumAnnotations

\* moveMatched() fails, after WithTxRetry has given up.  The first stage returns the
\* error, which ends the phase; the second goes on with its groups.
MoveFails(v) ==
  /\ v \in Stages /\ move[v] # NoMove /\ move[v].claimed
  /\ errors < MaxErrors /\ errors' = errors + 1
  /\ processedAlbumAnnotations' = Release(v)
  /\ move' = [move EXCEPT ![v] = NoMove]
  /\ status' = IF v = "first" THEN "halted" ELSE status
  /\ UNCHANGED <<tags, files, media, groups, reassigned, contested, remaps>>

\* A query of produce() fails.
ProduceFails ==
  /\ status = "running" /\ \E l \in Libraries : place[l] = "new"
  /\ errors < MaxErrors /\ errors' = errors + 1 /\ status' = "failing"
  /\ UNCHANGED <<tags, files, media, groups, move, processedAlbumAnnotations, reassigned, contested,
                 remaps>>

\* finalize(), after an error; purgeMissing() is left to the setting.
Finalize ==
  /\ move["first"] = NoMove /\ move["second"] = NoMove
  /\ \/ status \in {"failing", "halted"} /\ UNCHANGED media
     \/ /\ status = "running" /\ \A l \in Libraries : place[l] = "done"
        /\ \/ UNCHANGED media
           \/ media' = [i \in TrackIDs |-> IF IsMissing(i) THEN NoRow ELSE media[i]]
  /\ status' = "over"
  /\ UNCHANGED <<tags, files, groups, move, processedAlbumAnnotations, reassigned, contested,
                 bounds>>

\* The next scan resumes one that failed or was cut short, and the phase runs again.
Again ==
  /\ errors < MaxErrors /\ errors' = errors + 1
  /\ place' = [l \in Libraries |-> "new"]
  /\ missing' = [l \in Libraries |-> {}] /\ matched' = [l \in Libraries |-> {}]
  /\ todo' = [l \in Libraries |-> {}] /\ used' = [l \in Libraries |-> {}]
  /\ move' = [move EXCEPT !["first"] = NoMove, !["second"] = NoMove]
  /\ processedAlbumAnnotations' = {} /\ status' = "running"
  /\ UNCHANGED <<tags, files, media, reassigned, contested, remaps>>

-----------------------------------------------------------------------------
\* RemapMissingFile(): both rows are read.
RemapMissingFile(m, t) ==
  /\ remaps < MaxRemaps /\ remaps' = remaps + 1 /\ move["remap"] = NoMove
  /\ m # t /\ IsMissing(m) /\ Present(t) /\ Plan("remap", m, t, media[t].file)
  /\ UNCHANGED <<tags, files, media, groups, processedAlbumAnnotations, status, reassigned, contested,
                 errors>>

\* RemapMissingFile(): the transaction; the annotations of an album follow its last track.
Remap ==
  /\ move["remap"] # NoMove
  /\ \/ /\ MoveRow("remap")
        /\ LET from == Album[move["remap"].missing]
               to == Album[move["remap"].file]
               left == {i \in TrackIDs : media'[i] # NoRow /\ Album[media'[i].file] = from}
           IN reassigned' = reassigned \cup (IF from # to /\ left = {} THEN {to} ELSE {})
     \/ move' = [move EXCEPT !["remap"] = NoMove] /\ UNCHANGED <<media, reassigned, contested>>
  /\ UNCHANGED <<tags, files, groups, processedAlbumAnnotations, status, bounds>>

\* deleteMissing() of the tracks in ids, or of all.
DeleteMissing(ids) ==
  /\ media' = [i \in TrackIDs |-> IF i \in ids /\ IsMissing(i) THEN NoRow ELSE media[i]]
  /\ UNCHANGED <<tags, files, groups, move, processedAlbumAnnotations, status, reassigned,
                 contested, bounds>>

\* The phase is over, and the scan goes on with the next one.
Rest == status = "over" /\ UNCHANGED vars

-----------------------------------------------------------------------------
Next ==
  \/ \E l \in Libraries :
       \/ Produce(l) \/ PassOn(l) \/ EndGroup(l)
       \/ \E m \in TrackIDs :
            ProcessMissing(l, m) \/ ProcessCrossLibrary(l, m) \/ CrossLibraryFails(l, m)
  \/ \E v \in Movers : Claim(v) \/ MoveMatched(v) \/ MoveFails(v)
  \/ ProduceFails \/ Finalize \/ Again \/ Remap \/ Rest
  \/ \E m, t \in TrackIDs : RemapMissingFile(m, t)
  \/ \E ids \in (SUBSET {i \in TrackIDs : IsMissing(i)}) \ {{}} : DeleteMissing(ids)

Spec == Init /\ [][Next]_vars

-----------------------------------------------------------------------------
Move == [missing : TrackIDs, target : TrackIDs, file : TrackIDs,
         claimed : BOOLEAN, reassign : BOOLEAN]

\* No move loses a file or gives it to two tracks, in whatever order the stages, the
\* runs of the phase and RemapMissingFile look for tracks and move them.  Only a file
\* or an ID that two of them are after at the same time may come to harm.
OneRowPerFile ==
  \A f \in files \ contested :
    \E i \in TrackIDs : \A j \in TrackIDs : (Present(j) /\ media[j].file = f) <=> j = i

\* An album stays claimed only for a reassignment whose move is made or about to be, so
\* that the annotations follow with the next track if the first one cannot be moved.
ClaimIsHonoured ==
  processedAlbumAnnotations \subseteq
    reassigned \cup {Album[move[v].file] :
                       v \in {w \in Stages : move[w] # NoMove /\ move[w].reassign}}
=============================================================================
