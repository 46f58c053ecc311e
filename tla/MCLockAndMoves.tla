---------------------------- MODULE MCLockAndMoves ----------------------------
(* Two scan requests against one analysis check and one other job for the   *)
(* lock.  For MovedTracks, tracks of one PID: an old one in the first library, *)
(* two old and two new ones in the second, the new ones in another album.     *)
EXTENDS LockAndMoves

TrackLibrary == [i \in TrackIDs |-> IF i = "a1" THEN 1 ELSE 2]
TrackCreated ==
  [i \in TrackIDs |-> CASE i \in {"a1", "b1"} -> 1 [] i = "b2" -> 2 [] i = "n1" -> 4 [] OTHER -> 5]
TrackBase == [i \in TrackIDs |-> IF i \in {"b1", "n2"} THEN "one" ELSE "other"]
TrackAlbum == [i \in TrackIDs |-> IF i \in {"n1", "n2"} THEN "new" ELSE "old"]

\* All files alike, the new ones with other tags, or one old one.
TrackContents ==
  {[i \in TrackIDs |-> "tagged"],
   [i \in TrackIDs |-> IF i \in {"n1", "n2"} THEN "plain" ELSE "tagged"],
   [i \in TrackIDs |-> IF i = "b2" THEN "tagged" ELSE "plain"]}
=============================================================================
