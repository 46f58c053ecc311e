------------------------------ MODULE PhaseTwo -------------------------------
(***************************************************************************)
(* MovedTracks under names of its own, to be used beside the other modules *)
(* about scans.                                                            *)
(***************************************************************************)
CONSTANTS
  TrackIDs, Libraries, TrackLib, Created, Base, Album, Contents, Tagged, ScanStarted, NoRow, NoMove,
  MaxErrors, MaxRemaps

VARIABLES
  tags, files, media, place, missing, matched, todo, used, move, processedAlbumAnnotations, status,
  reassigned, contested, errors, remaps

movesVars ==
  <<tags, files, media, place, missing, matched, todo, used, move, processedAlbumAnnotations,
    status, reassigned, contested, errors, remaps>>

Moves == INSTANCE MovedTracks

\* MovedTracks: a file has one track, unless two movers were after it.
OneRowPerFile == Moves!OneRowPerFile
\* MovedTracks: a claimed album has got its annotations, or is about to.
ClaimIsHonoured == Moves!ClaimIsHonoured
=============================================================================
