------------------------------ MODULE ScanProofs -----------------------------
(***************************************************************************)
(* Proofs about scans.                                                     *)
(*                                                                         *)
(* MovedTracks: for any tracks and libraries, phase 2 and RemapMissingFile *)
(* keep one track for each file that they do not both want, and the claim  *)
(* of an album is honoured.                                                *)
(*                                                                         *)
(* ScanMaintenance: for any number of scan requests and maintenance jobs,  *)
(* and any pattern of failures and crashes, the lock of                    *)
(* scanner/controller.go excludes, and the request for an analysis that    *)
(* db/optimize.go stores is not lost.                                      *)
(***************************************************************************)
EXTENDS ScanMaintenance, PhaseTwo, TLAPS

\* What the proof needs of the constants of MovedTracks.
MovesConstants ==
  /\ Created \in [TrackIDs -> Nat] /\ ScanStarted \in Nat
  /\ NoRow \notin [file : TrackIDs, missing : BOOLEAN] /\ NoMove \notin Moves!Move

\* A row created by this scan.
IsNew(i) == Created[i] > ScanStarted

\* The track i has the file f.
Holds(i, f) == Moves!Present(i) /\ media[i].file = f

\* The track i has the file f after a step.
Keeps(i, f) == media'[i] # NoRow /\ ~media'[i].missing /\ media'[i].file = f

\* A move with the same rows.
SameMove(n, o) ==
  o # NoMove /\ n.missing = o.missing /\ n.target = o.target /\ n.file = o.file

\* The rows: only a file that exists is given to a track; a new row is of its own file
\* or gone, so that only old ones are missing.
RowsOK ==
  /\ media \in [TrackIDs -> [file : TrackIDs, missing : BOOLEAN] \cup {NoRow}]
  /\ \A i \in TrackIDs : Moves!Present(i) => media[i].file \in files
  /\ \A i \in TrackIDs : IsNew(i) => i \in files /\ (media[i] # NoRow => Holds(i, i))

\* The groups: what may match is new and of the library.
GroupsOK ==
  /\ place \in [Libraries -> {"new", "first", "second", "done"}]
  /\ missing \in [Libraries -> SUBSET {i \in TrackIDs : ~IsNew(i)}]
  /\ todo \in [Libraries -> SUBSET {i \in TrackIDs : ~IsNew(i)}]
  /\ matched \in [Libraries -> SUBSET {i \in TrackIDs : IsNew(i)}]
  /\ used \in [Libraries -> SUBSET TrackIDs]
  /\ \A l \in Libraries : \A t \in matched[l] : TrackLib[t] = l

\* The moves: an old row gets the file of another one.  What the first stage moves has
\* been used, in its own group.
MovesOK ==
  /\ move \in [Moves!Movers -> Moves!Move \cup {NoMove}]
  /\ \A v \in Moves!Movers : move[v] # NoMove =>
       /\ move[v].missing # move[v].target /\ ~IsNew(move[v].missing)
       /\ move[v].file \in files
  /\ move["first"] # NoMove =>
       \E l \in Libraries : /\ TrackLib[move["first"].target] = l /\ place[l] # "new"
                            /\ move["first"].target \in used[l]

\* What a mover has found is still there, unless it is contested.
TargetsOK ==
  /\ \A v \in Moves!Movers : move[v] # NoMove /\ move[v].file \notin contested =>
       Holds(move[v].target, move[v].file)
  /\ \A l \in Libraries : place[l] = "first" /\ todo[l] # {} =>
       \A t \in Moves!Unused(l) \ contested : Holds(t, t)

MovesInv == RowsOK /\ GroupsOK /\ MovesOK /\ TargetsOK /\ Moves!OneRowPerFile

\* A row that was moved is a row, and a move that is planned is one.
LEMMA RowsAndMoves ==
  ASSUME MovesConstants, NEW m \in TrackIDs, NEW t \in TrackIDs, NEW f \in TrackIDs
  PROVE  /\ \A b \in BOOLEAN : [file |-> f, missing |-> b] # NoRow
         /\ \A b \in BOOLEAN :
              [file |-> f, missing |-> b] \in [file : TrackIDs, missing : BOOLEAN]
         /\ [missing |-> m, target |-> t, file |-> f, claimed |-> FALSE, reassign |-> FALSE]
              \in Moves!Move
         /\ [missing |-> m, target |-> t, file |-> f, claimed |-> FALSE, reassign |-> FALSE]
              # NoMove
<1>1. \A b \in BOOLEAN : [file |-> f, missing |-> b] \in [file : TrackIDs, missing : BOOLEAN]
  BY Zenon
<1>2. \A b \in BOOLEAN : [file |-> f, missing |-> b] # NoRow
  BY <1>1, Zenon DEF MovesConstants
<1>3. [missing |-> m, target |-> t, file |-> f, claimed |-> FALSE, reassign |-> FALSE]
        \in Moves!Move
  BY Zenon DEF Moves!Move
<1>4. [missing |-> m, target |-> t, file |-> f, claimed |-> FALSE, reassign |-> FALSE] # NoMove
  BY <1>3, Zenon DEF MovesConstants
<1>5. QED
  BY Zenon, <1>1, <1>2, <1>3, <1>4

\* A file that is not contested has one row after a move, as it had before.
LEMMA MoveKeepsFiles ==
  ASSUME MovesConstants, MovesInv, NEW v \in Moves!Movers, move[v] # NoMove, Moves!MoveRow(v),
         UNCHANGED files
  PROVE  RowsOK' /\ Moves!OneRowPerFile'
<1> DEFINE m == move[v].missing
           t == move[v].target
           f == move[v].file
<1>1. /\ m \in TrackIDs /\ t \in TrackIDs /\ f \in TrackIDs /\ m # t /\ f \in files /\ ~IsNew(m)
      /\ media \in [TrackIDs -> [file : TrackIDs, missing : BOOLEAN] \cup {NoRow}]
  BY Zenon DEF MovesInv, MovesOK, RowsOK, Moves!Move
<1>2. /\ media' = [media EXCEPT ![m] = [file |-> f, missing |-> FALSE], ![t] = NoRow]
      /\ contested \subseteq contested'
      /\ \A i \in {m, t} : Moves!Present(i) /\ media[i].file # f => media[i].file \in contested'
  BY Zenon DEF Moves!MoveRow, Moves!Moved, Moves!Changed
<1>3. [file |-> f, missing |-> FALSE] # NoRow
  BY Zenon, <1>1, RowsAndMoves
<1>4. /\ Keeps(m, f) /\ media'[t] = NoRow
      /\ \A j \in TrackIDs \ {m, t} : media'[j] = media[j]
  BY Zenon, <1>1, <1>2, <1>3 DEF Keeps
<1> HIDE DEF m, t, f
<1>5. RowsOK'
  <2>1. media' \in [TrackIDs -> [file : TrackIDs, missing : BOOLEAN] \cup {NoRow}]
    BY Zenon, <1>1, <1>2
  <2>2. ASSUME NEW i \in TrackIDs, Moves!Present(i)'
        PROVE  media'[i].file \in files
    BY Zenon, <1>1, <1>4, <2>2 DEF MovesInv, RowsOK, Keeps, Moves!Present
  <2>3. ASSUME NEW i \in TrackIDs, IsNew(i)
        PROVE  i \in files /\ (media'[i] # NoRow => Holds(i, i)')
    BY Zenon, <1>1, <1>4, <2>3 DEF MovesInv, RowsOK, Keeps, Holds, Moves!Present
  <2>4. QED
    BY Zenon, <2>1, <2>2, <2>3 DEF RowsOK, IsNew
<1>6. ASSUME NEW g \in files \ contested'
      PROVE  \E i \in TrackIDs : \A j \in TrackIDs : Keeps(j, g) <=> j = i
  <2>1. g \in files \ contested
    BY Zenon, <1>2
  <2>2. PICK i \in TrackIDs : \A j \in TrackIDs : Holds(j, g) <=> j = i
    BY Zenon, <2>1 DEF MovesInv, Moves!OneRowPerFile, Holds
  <2>3. CASE g = f
    <3>1. Holds(t, f)
      BY Zenon, <2>1, <2>3 DEF MovesInv, TargetsOK, t, f
    <3>2. i = t
      BY Zenon, <2>2, <2>3, <3>1, <1>1
    <3>3. \A j \in TrackIDs : Keeps(j, g) <=> j = m
      BY Zenon, <1>1, <1>4, <2>2, <2>3, <3>2 DEF Holds, Keeps, Moves!Present
    <3>4. QED
      BY Zenon, <3>3, <1>1
  <2>4. CASE g # f
    <3>1. i # m /\ i # t
      BY <1>2, <2>2, <2>4 DEF Holds
    <3>2. \A j \in TrackIDs : Keeps(j, g) <=> j = i
      BY Zenon, <1>1, <1>4, <2>2, <2>4, <3>1 DEF Holds, Keeps, Moves!Present
    <3>3. QED
      BY Zenon, <3>2
  <2>5. QED
    BY Zenon, <2>3, <2>4
<1>7. QED
  BY Zenon, <1>5, <1>6 DEF Moves!OneRowPerFile, Keeps, Moves!Present

\* What the other movers have found is still there after a move, or contested.
LEMMA MoveKeepsTargets ==
  ASSUME MovesConstants, MovesInv, NEW v \in Moves!Movers, move[v] # NoMove, Moves!MoveRow(v),
         UNCHANGED <<files, Moves!groups>>
  PROVE  MovesOK' /\ TargetsOK'
<1> DEFINE m == move[v].missing
           t == move[v].target
           f == move[v].file
<1>1. /\ m \in TrackIDs /\ t \in TrackIDs /\ f \in TrackIDs /\ m # t /\ ~IsNew(m)
      /\ media \in [TrackIDs -> [file : TrackIDs, missing : BOOLEAN] \cup {NoRow}]
      /\ move \in [Moves!Movers -> Moves!Move \cup {NoMove}]
  BY Zenon DEF MovesInv, MovesOK, RowsOK, Moves!Move
<1>2. /\ media' = [media EXCEPT ![m] = [file |-> f, missing |-> FALSE], ![t] = NoRow]
      /\ move' = [move EXCEPT ![v] = NoMove]
      /\ contested \subseteq contested'
      /\ \A i \in {m, t} : Moves!Present(i) /\ media[i].file # f => media[i].file \in contested'
      /\ Moves!Wanted(v, t) => f \in contested'
  BY Zenon DEF Moves!MoveRow, Moves!Moved, Moves!Changed
<1>3. \A j \in TrackIDs \ {m, t} : media'[j] = media[j]
  BY Zenon, <1>1, <1>2
<1>4. \A w \in Moves!Movers : move'[w] # NoMove => w # v /\ move'[w] = move[w]
  BY Zenon, <1>1, <1>2
<1>5. f \notin contested => Holds(t, f)
  BY Zenon DEF MovesInv, TargetsOK
<1> HIDE DEF m, t, f
<1>6. ASSUME NEW i \in TrackIDs, NEW g \in files \ contested', Holds(i, g),
             i = t => Moves!Wanted(v, t)
      PROVE  Keeps(i, g)
  <2>1. i = t => g # f
    BY Zenon, <1>2, <1>6
  <2>2. g = f => i = t
    <3>1. ASSUME g = f PROVE Holds(t, g)
      BY Zenon, <1>2, <1>5, <1>6, <3>1
    <3>2. QED
      BY <1>1, <1>2, <1>6, <3>1 DEF MovesInv, Moves!OneRowPerFile, Holds
  <2>3. i # m /\ i # t
    BY Zenon, <1>2, <1>6, <2>1, <2>2, <1>1 DEF Holds
  <2>4. QED
    BY Zenon, <1>3, <1>6, <2>3 DEF Holds, Keeps, Moves!Present
<1>7. ASSUME NEW w \in Moves!Movers, move'[w] # NoMove, move'[w].file \notin contested'
      PROVE  Keeps(move'[w].target, move'[w].file)
  <2>1. w # v /\ move'[w] = move[w] /\ move[w] \in Moves!Move
    BY Zenon, <1>1, <1>4, <1>7
  <2>2. move[w].target = t => Moves!Wanted(v, t)
    BY Zenon, <1>7, <2>1 DEF Moves!Wanted
  <2>3. /\ Holds(move[w].target, move[w].file) /\ move[w].file \in files
        /\ move[w].target \in TrackIDs
    BY Zenon, <1>2, <1>7, <2>1 DEF MovesInv, TargetsOK, MovesOK, Moves!Move
  <2>4. QED
    BY Zenon, <1>6, <1>7, <2>1, <2>2, <2>3
<1>8. ASSUME NEW l \in Libraries, place[l] = "first", todo[l] # {},
             NEW u \in Moves!Unused(l) \ contested'
      PROVE  Keeps(u, u)
  <2>1. u \in TrackIDs /\ u \in files /\ Holds(u, u) /\ TrackLib[u] = l /\ u \notin used[l]
    BY Zenon, <1>2, <1>8 DEF MovesInv, TargetsOK, GroupsOK, RowsOK, Moves!Unused
  <2>2. u = t => v # "first"
    BY Zenon, <2>1 DEF MovesInv, MovesOK, t
  <2>3. u = t => Moves!Wanted(v, t)
    BY Zenon, <1>8, <2>2 DEF Moves!Wanted
  <2>4. QED
    BY Zenon, <1>6, <2>1, <2>3
<1>9. TargetsOK'
  BY Zenon, <1>7, <1>8 DEF TargetsOK, Holds, Keeps, Moves!Present, Moves!Unused, Moves!groups
<1>10. MovesOK'
  BY <1>1, <1>2, <1>4 DEF MovesInv, MovesOK, IsNew, Moves!groups
<1>11. QED
  BY Zenon, <1>9, <1>10

\* A move is planned for a file that is there.
LEMMA PlanKeeps ==
  ASSUME MovesConstants, MovesInv, NEW v \in Moves!Movers,
         NEW m \in TrackIDs, NEW t \in TrackIDs, NEW f \in files \cap TrackIDs,
         Moves!Plan(v, m, t, f), m # t, ~IsNew(m), f \notin contested => Holds(t, f),
         UNCHANGED <<files, media, contested>>
  PROVE  /\ move' \in [Moves!Movers -> Moves!Move \cup {NoMove}]
         /\ \A w \in Moves!Movers : move'[w] # NoMove =>
              /\ move'[w].missing # move'[w].target /\ ~IsNew(move'[w].missing)
              /\ move'[w].file \in files
              /\ move'[w].file \notin contested => Keeps(move'[w].target, move'[w].file)
         /\ \A w \in Moves!Movers \ {v} : move'[w] = move[w]
         /\ move'[v] # NoMove /\ move'[v].target = t
<1> DEFINE n == [missing |-> m, target |-> t, file |-> f, claimed |-> FALSE, reassign |-> FALSE]
<1>1. n \in Moves!Move /\ n # NoMove
  BY Zenon, RowsAndMoves
<1>2. move' = [move EXCEPT ![v] = n] /\ move \in [Moves!Movers -> Moves!Move \cup {NoMove}]
  BY Zenon DEF Moves!Plan, MovesInv, MovesOK
<1>3. n.missing = m /\ n.target = t /\ n.file = f
  BY Zenon
<1> HIDE DEF n
<1>4. /\ move' \in [Moves!Movers -> Moves!Move \cup {NoMove}] /\ move'[v] = n
      /\ \A w \in Moves!Movers \ {v} : move'[w] = move[w]
  BY Zenon, <1>1, <1>2
<1>5. ASSUME NEW w \in Moves!Movers, move'[w] # NoMove
      PROVE  /\ move'[w].missing # move'[w].target /\ ~IsNew(move'[w].missing)
             /\ move'[w].file \in files
             /\ move'[w].file \notin contested => Keeps(move'[w].target, move'[w].file)
  <2>1. CASE w = v
    BY Zenon, <1>3, <1>4, <2>1 DEF Keeps, Holds, Moves!Present
  <2>2. CASE w # v
    BY Zenon, <1>4, <1>5, <2>2 DEF MovesInv, MovesOK, TargetsOK, Keeps, Holds, Moves!Present
  <2>3. QED
    BY Zenon, <2>1, <2>2
<1>6. QED
  BY Zenon, <1>1, <1>3, <1>4, <1>5

\* Rows that are missing may be deleted.
LEMMA DeleteKeeps ==
  ASSUME MovesConstants, MovesInv, NEW ids,
         media' = [i \in TrackIDs |-> IF i \in ids /\ Moves!IsMissing(i) THEN NoRow ELSE media[i]],
         UNCHANGED <<files, move, Moves!groups, contested>>
  PROVE  MovesInv'
<1>1. /\ media' \in [TrackIDs -> [file : TrackIDs, missing : BOOLEAN] \cup {NoRow}]
      /\ \A i \in TrackIDs : media'[i] = media[i] \/ (media'[i] = NoRow /\ ~Moves!Present(i))
  BY Zenon DEF MovesInv, RowsOK, Moves!IsMissing, Moves!Present
<1>2. \A i \in TrackIDs : \A f : Keeps(i, f) <=> Holds(i, f)
  BY Zenon, <1>1 DEF Keeps, Holds, Moves!Present
<1>3. RowsOK'
  BY Zenon, <1>1 DEF MovesInv, RowsOK, IsNew, Holds, Moves!Present
<1>4. GroupsOK' /\ MovesOK'
  BY Zenon DEF MovesInv, GroupsOK, MovesOK, IsNew, Moves!groups
<1>5. TargetsOK'
  <2>1. ASSUME NEW v \in Moves!Movers, move[v] # NoMove, move[v].file \notin contested
        PROVE  Keeps(move[v].target, move[v].file)
    BY Zenon, <1>2, <2>1 DEF MovesInv, MovesOK, TargetsOK, Moves!Move
  <2>2. ASSUME NEW l \in Libraries, place[l] = "first", todo[l] # {},
               NEW t \in Moves!Unused(l) \ contested
        PROVE  Keeps(t, t)
    BY Zenon, <1>2, <2>2 DEF MovesInv, GroupsOK, TargetsOK, Moves!Unused
  <2>3. QED
    BY <2>1, <2>2 DEF TargetsOK, Holds, Keeps, Moves!Present, Moves!Unused, Moves!groups
<1>6. Moves!OneRowPerFile'
  <2>1. ASSUME NEW f \in files \ contested
        PROVE  \E i \in TrackIDs : \A j \in TrackIDs : Keeps(j, f) <=> j = i
    BY Zenon, <1>2 DEF MovesInv, Moves!OneRowPerFile, Holds
  <2>2. QED
    BY Zenon, <2>1 DEF Moves!OneRowPerFile, Keeps, Moves!Present
<1>7. QED
  BY Zenon, <1>3, <1>4, <1>5, <1>6 DEF MovesInv

\* Steps that leave the rows as they are.
LEMMA RowsUnchanged ==
  ASSUME MovesInv, UNCHANGED <<files, media, contested>>
  PROVE  RowsOK' /\ Moves!OneRowPerFile'
BY DEF MovesInv, RowsOK, Moves!OneRowPerFile, IsNew, Holds, Moves!Present

\* Every step keeps the invariant.
LEMMA MovesStep ==
  ASSUME MovesConstants, MovesInv, [Moves!Next]_(Moves!vars)
  PROVE  MovesInv'
<1>1. ASSUME NEW l \in Libraries, Moves!Produce(l)
      PROVE  MovesInv'
  <2> DEFINE gone == {i \in Moves!GetMissingAndMatching(l) : Moves!IsMissing(i)}
             found == Moves!GetMissingAndMatching(l) \ gone
  <2>1. /\ missing' = [missing EXCEPT ![l] = gone] /\ todo' = [todo EXCEPT ![l] = gone]
        /\ matched' = [matched EXCEPT ![l] = found] /\ place[l] = "new"
        /\ place' = [place EXCEPT ![l] = IF gone = {} THEN "done" ELSE "first"]
        /\ UNCHANGED <<files, media, used, move, contested>>
    BY Zenon, <1>1 DEF Moves!Produce
  <2>2. gone \subseteq {i \in TrackIDs : ~IsNew(i)}
    BY Zenon
    DEF MovesInv, RowsOK, Holds, Moves!Present, Moves!IsMissing, Moves!GetMissingAndMatching
  <2>3. /\ found \subseteq {i \in TrackIDs : IsNew(i)}
        /\ \A i \in found : Holds(i, i) /\ TrackLib[i] = l
    BY Zenon DEF MovesInv, RowsOK, Holds, Moves!Present, Moves!IsMissing, IsNew,
           Moves!GetMissingAndMatching
  <2> HIDE DEF gone, found
  <2>4. GroupsOK'
    BY Zenon, <2>1, <2>2, <2>3 DEF MovesInv, GroupsOK, IsNew
  <2>5. MovesOK'
    BY Zenon, <2>1 DEF MovesInv, GroupsOK, MovesOK, IsNew
  <2>6. TargetsOK'
    <3>1. ASSUME NEW v \in Moves!Movers, move[v] # NoMove, move[v].file \notin contested
          PROVE  Keeps(move[v].target, move[v].file)
      BY Zenon, <2>1, <3>1 DEF MovesInv, TargetsOK, Holds, Keeps, Moves!Present
    <3>2. ASSUME NEW k \in Libraries, place'[k] = "first", todo'[k] # {},
                 NEW t \in (matched'[k] \ used[k]) \ contested
          PROVE  Keeps(t, t)
      <4>1. CASE k = l
        BY Zenon, <2>1, <2>3, <3>2, <4>1 DEF MovesInv, GroupsOK, Holds, Keeps, Moves!Present
      <4>2. CASE k # l
        BY Zenon, <2>1, <3>2, <4>2
        DEF MovesInv, GroupsOK, TargetsOK, Moves!Unused, Holds, Keeps, Moves!Present
      <4>3. QED
        BY Zenon, <4>1, <4>2
    <3>3. QED
      BY Zenon, <2>1, <3>1, <3>2 DEF TargetsOK, Moves!Unused, Holds, Keeps, Moves!Present
  <2>7. QED
    BY Zenon, <2>1, <2>4, <2>5, <2>6, RowsUnchanged DEF MovesInv
<1>2. ASSUME NEW l \in Libraries, NEW m \in TrackIDs, Moves!ProcessMissing(l, m)
      PROVE  MovesInv'
  <2>1. /\ place[l] = "first" /\ m \in todo[l] /\ todo' = [todo EXCEPT ![l] = todo[l] \ {m}]
        /\ UNCHANGED <<files, media, place, missing, matched, contested>>
        /\ move["first"] = NoMove /\ ~IsNew(m)
    BY Zenon, <1>2 DEF Moves!ProcessMissing, MovesInv, GroupsOK
  <2>2. CASE UNCHANGED <<move, used>>
    <3>1. GroupsOK' /\ MovesOK'
      BY Zenon, <2>1, <2>2 DEF MovesInv, GroupsOK, MovesOK, IsNew
    <3>2. \A k \in Libraries : todo'[k] # {} => todo[k] # {}
      BY Zenon, <2>1 DEF MovesInv, GroupsOK
    <3>3. TargetsOK'
      BY <2>1, <2>2, <3>2 DEF MovesInv, TargetsOK, Holds, Moves!Present, Moves!Unused
    <3>4. QED
      BY Zenon, <2>1, <3>1, <3>3, RowsUnchanged DEF MovesInv
  <2>3. ASSUME NEW t \in Moves!Matches(l, m), Moves!Plan("first", m, t, t),
               used' = [used EXCEPT ![l] = used[l] \cup {t}]
        PROVE  MovesInv'
    <3>1. t \in Moves!Unused(l)
      BY Zenon, <2>3 DEF Moves!Matches
    <3>2. /\ t \in TrackIDs /\ IsNew(t) /\ TrackLib[t] = l /\ t \in files /\ t # m
          /\ t \notin contested => Holds(t, t)
      BY <2>1, <3>1 DEF MovesInv, GroupsOK, TargetsOK, RowsOK, Moves!Unused
    <3>3. /\ move' \in [Moves!Movers -> Moves!Move \cup {NoMove}]
          /\ \A w \in Moves!Movers : move'[w] # NoMove =>
               /\ move'[w].missing # move'[w].target /\ ~IsNew(move'[w].missing)
               /\ move'[w].file \in files
               /\ move'[w].file \notin contested => Keeps(move'[w].target, move'[w].file)
          /\ move'["first"].target = t
      BY Zenon, <2>1, <2>3, <3>2, PlanKeeps DEF Moves!Movers, Moves!Stages
    <3>4. GroupsOK'
      BY <2>1, <2>3, <3>2 DEF MovesInv, GroupsOK, IsNew
    <3>5. MovesOK'
      <4>1. place'[l] # "new" /\ t \in used'[l]
        BY Zenon, <2>1, <2>3 DEF MovesInv, GroupsOK
      <4>2. QED
        BY Zenon, <2>1, <3>2, <3>3, <4>1 DEF MovesOK, IsNew
    <3>6. \A k \in Libraries : /\ todo'[k] # {} => todo[k] # {}
                               /\ matched[k] \ used'[k] \subseteq matched[k] \ used[k]
      BY <2>1, <2>3 DEF MovesInv, GroupsOK
    <3>7. ASSUME NEW k \in Libraries, place[k] = "first", todo'[k] # {},
                 NEW u \in (matched[k] \ used'[k]) \ contested
          PROVE  Keeps(u, u)
      BY Zenon, <2>1, <3>6, <3>7 DEF MovesInv, TargetsOK, Moves!Unused, Holds, Keeps, Moves!Present
    <3>8. TargetsOK'
      BY Zenon, <2>1, <3>3, <3>7 DEF TargetsOK, Moves!Unused, Holds, Keeps, Moves!Present
    <3>9. QED
      BY Zenon, <2>1, <3>4, <3>5, <3>8, RowsUnchanged DEF MovesInv
  <2>4. QED
    BY Zenon, <1>2, <2>2, <2>3 DEF Moves!ProcessMissing
<1>3. ASSUME NEW l \in Libraries, Moves!PassOn(l) \/ Moves!EndGroup(l)
      PROVE  MovesInv'
  <2>1. /\ \E p \in {"second", "done"} : place' = [place EXCEPT ![l] = p]
        /\ todo' = todo \/ \E s \in {missing[l], {}} : todo' = [todo EXCEPT ![l] = s]
        /\ UNCHANGED <<files, media, missing, matched, used, move, contested>>
    BY Zenon, <1>3 DEF Moves!PassOn, Moves!EndGroup
  <2>2. GroupsOK'
    BY <2>1 DEF MovesInv, GroupsOK, IsNew
  <2>3. \A k \in Libraries : /\ place'[k] = "first" => place[k] = "first" /\ todo'[k] = todo[k]
                             /\ place[k] # "new" => place'[k] # "new"
    BY Zenon, <2>1 DEF MovesInv, GroupsOK
  <2>4. MovesOK'
    BY Zenon, <2>1, <2>3 DEF MovesInv, MovesOK, IsNew
  <2>5. TargetsOK'
    BY <2>1, <2>3 DEF MovesInv, TargetsOK, Holds, Moves!Present, Moves!Unused
  <2>6. QED
    BY Zenon, <2>1, <2>2, <2>4, <2>5, RowsUnchanged DEF MovesInv
<1>4. ASSUME NEW l \in Libraries, NEW m \in TrackIDs, NEW found \in SUBSET Moves!Recent(m),
             Moves!CrossLibrary(l, m, found)
      PROVE  MovesInv'
  <2>1. /\ place[l] = "second" /\ m \in todo[l] /\ todo' = [todo EXCEPT ![l] = todo[l] \ {m}]
        /\ UNCHANGED <<files, media, place, missing, matched, used, contested>> /\ ~IsNew(m)
    BY Zenon, <1>4 DEF Moves!CrossLibrary, MovesInv, GroupsOK
  <2>2. GroupsOK'
    BY Zenon, <2>1 DEF MovesInv, GroupsOK, IsNew
  <2>3. \A k \in Libraries : todo'[k] # {} => todo[k] # {}
    BY Zenon, <2>1 DEF MovesInv, GroupsOK
  <2>4. ASSUME NEW k \in Libraries, place[k] = "first", todo'[k] # {},
               NEW u \in (matched[k] \ used[k]) \ contested
        PROVE  Keeps(u, u)
    BY Zenon, <2>1, <2>3, <2>4 DEF MovesInv, TargetsOK, Moves!Unused, Holds, Keeps, Moves!Present
  <2>5. CASE UNCHANGED move
    <3>1. MovesOK'
      BY Zenon, <2>1, <2>5 DEF MovesInv, MovesOK, IsNew
    <3>2. TargetsOK'
      BY Zenon, <2>1, <2>3, <2>5 DEF MovesInv, TargetsOK, Holds, Moves!Present, Moves!Unused
    <3>3. QED
      BY Zenon, <2>1, <2>2, <3>1, <3>2, RowsUnchanged DEF MovesInv
  <2>6. ASSUME NEW t \in found, Moves!Plan("second", m, t, media[t].file)
        PROVE  MovesInv'
    <3>1. /\ t \in TrackIDs /\ Moves!Present(t) /\ Created[t] > Created[m]
          /\ media[t].file \in files \cap TrackIDs
      BY Zenon DEF Moves!Recent, MovesInv, RowsOK, Moves!Present
    <3>2. t # m
      BY <3>1 DEF MovesConstants
    <3>3. /\ move' \in [Moves!Movers -> Moves!Move \cup {NoMove}]
          /\ \A w \in Moves!Movers : move'[w] # NoMove =>
               /\ move'[w].missing # move'[w].target /\ ~IsNew(move'[w].missing)
               /\ move'[w].file \in files
               /\ move'[w].file \notin contested => Keeps(move'[w].target, move'[w].file)
          /\ move'["first"] = move["first"]
      BY Zenon, <2>1, <2>6, <3>1, <3>2, PlanKeeps DEF Moves!Movers, Moves!Stages, Holds
    <3>4. MovesOK'
      BY Zenon, <2>1, <3>3 DEF MovesInv, MovesOK, IsNew
    <3>5. TargetsOK'
      BY Zenon, <2>1, <2>4, <3>3 DEF TargetsOK, Moves!Unused, Holds, Keeps, Moves!Present
    <3>6. QED
      BY Zenon, <2>1, <2>2, <3>4, <3>5, RowsUnchanged DEF MovesInv
  <2>7. QED
    BY Zenon, <1>4, <2>5, <2>6 DEF Moves!CrossLibrary
<1>5. ASSUME NEW v \in Moves!Movers, Moves!MoveRow(v),
             Moves!MoveMatched(v) \/ (Moves!Remap /\ v = "remap")
      PROVE  MovesInv'
  <2>1. move[v] # NoMove /\ UNCHANGED <<files, Moves!groups>>
    BY Zenon, <1>5 DEF Moves!MoveMatched, Moves!Remap
  <2>2. GroupsOK'
    BY Zenon, <2>1 DEF MovesInv, GroupsOK, IsNew, Moves!groups
  <2>3. QED
    BY Zenon, <1>5, <2>1, <2>2, MoveKeepsFiles, MoveKeepsTargets DEF MovesInv
<1>6. ASSUME UNCHANGED <<files, media, Moves!groups, contested>>,
             \A w \in Moves!Movers : move'[w] = NoMove \/ SameMove(move'[w], move[w]),
             move' \in [Moves!Movers -> Moves!Move \cup {NoMove}]
      PROVE  MovesInv'
  <2>1. GroupsOK'
    BY Zenon, <1>6 DEF MovesInv, GroupsOK, IsNew, Moves!groups
  <2>2. MovesOK'
    BY Zenon, <1>6 DEF MovesInv, MovesOK, IsNew, SameMove, Moves!groups, Moves!Movers, Moves!Stages
  <2>3. TargetsOK'
    BY <1>6
    DEF MovesInv, TargetsOK, SameMove, Holds, Moves!Present, Moves!Unused, Moves!groups
  <2>4. QED
    BY Zenon, <1>6, <2>1, <2>2, <2>3, RowsUnchanged DEF MovesInv
<1>7. ASSUME NEW v \in Moves!Movers, Moves!Claim(v)
      PROVE  MovesInv'
  <2>1. move[v] \in Moves!Move /\ move \in [Moves!Movers -> Moves!Move \cup {NoMove}]
    BY Zenon, <1>7 DEF Moves!Claim, MovesInv, MovesOK
  <2>2. PICK r \in BOOLEAN :
          move' = [move EXCEPT ![v] = [[move[v] EXCEPT !.claimed = TRUE] EXCEPT !.reassign = r]]
    BY Zenon, <1>7, <2>1 DEF Moves!Claim
  <2> DEFINE e == [[move[v] EXCEPT !.claimed = TRUE] EXCEPT !.reassign = r]
  <2>3. /\ e \in Moves!Move /\ e.missing = move[v].missing
        /\ e.target = move[v].target /\ e.file = move[v].file
    BY Zenon, <2>1 DEF Moves!Move
  <2> HIDE DEF e
  <2>4. /\ move' \in [Moves!Movers -> Moves!Move \cup {NoMove}] /\ move[v] # NoMove
        /\ move'[v].missing = move[v].missing /\ move'[v].target = move[v].target
        /\ move'[v].file = move[v].file /\ \A w \in Moves!Movers \ {v} : move'[w] = move[w]
    <3>1. move' = [move EXCEPT ![v] = e] /\ move[v] # NoMove
      BY Zenon, <1>7, <2>2 DEF Moves!Claim, e
    <3>2. QED
      BY Zenon, <2>1, <2>3, <3>1
  <2>5. UNCHANGED <<files, media, Moves!groups, contested>>
    BY Zenon, <1>7 DEF Moves!Claim
  <2>6. QED
    BY Zenon, <1>6, <2>4, <2>5 DEF SameMove
<1>8. ASSUME NEW v \in Moves!Movers, UNCHANGED <<files, media, Moves!groups, contested>>,
             move' = [move EXCEPT ![v] = NoMove] \/ move' = move
      PROVE  MovesInv'
  BY Zenon, <1>6, <1>8 DEF MovesInv, MovesOK, SameMove
<1>9. CASE Moves!Again
  <2>1. /\ place' = [l \in Libraries |-> "new"] /\ missing' = [l \in Libraries |-> {}]
        /\ matched' = [l \in Libraries |-> {}] /\ todo' = [l \in Libraries |-> {}]
        /\ used' = [l \in Libraries |-> {}] /\ UNCHANGED <<files, media, contested>>
        /\ move' = [move EXCEPT !["first"] = NoMove, !["second"] = NoMove]
    BY Zenon, <1>9 DEF Moves!Again
  <2>2. /\ move' \in [Moves!Movers -> Moves!Move \cup {NoMove}] /\ move'["first"] = NoMove
        /\ \A w \in Moves!Movers : move'[w] = NoMove \/ move'[w] = move[w]
    BY Zenon, <2>1 DEF MovesInv, MovesOK, Moves!Movers, Moves!Stages
  <2>3. GroupsOK'
    BY Zenon, <2>1 DEF GroupsOK
  <2>4. MovesOK'
    BY Zenon, <2>1, <2>2 DEF MovesInv, MovesOK, IsNew
  <2>5. TargetsOK'
    BY Zenon, <2>1, <2>2 DEF MovesInv, TargetsOK, Holds, Moves!Present, Moves!Unused
  <2>6. QED
    BY Zenon, <2>1, <2>3, <2>4, <2>5, RowsUnchanged DEF MovesInv
<1>10. ASSUME NEW m \in TrackIDs, NEW t \in TrackIDs, Moves!RemapMissingFile(m, t)
       PROVE  MovesInv'
  <2>1. /\ m # t /\ Moves!IsMissing(m) /\ Moves!Present(t)
        /\ Moves!Plan("remap", m, t, media[t].file)
        /\ UNCHANGED <<files, media, Moves!groups, contested>>
    BY Zenon, <1>10 DEF Moves!RemapMissingFile
  <2>2. ~IsNew(m) /\ media[t].file \in files \cap TrackIDs
    BY Zenon, <2>1 DEF MovesInv, RowsOK, Holds, Moves!Present, Moves!IsMissing
  <2>3. /\ move' \in [Moves!Movers -> Moves!Move \cup {NoMove}]
        /\ \A w \in Moves!Movers : move'[w] # NoMove =>
             /\ move'[w].missing # move'[w].target /\ ~IsNew(move'[w].missing)
             /\ move'[w].file \in files
             /\ move'[w].file \notin contested => Keeps(move'[w].target, move'[w].file)
        /\ move'["first"] = move["first"]
    <3>1. "remap" \in Moves!Movers /\ "first" \in Moves!Movers \ {"remap"}
      BY Zenon DEF Moves!Movers, Moves!Stages
    <3>2. Holds(t, media[t].file)
      BY Zenon, <2>1 DEF Holds
    <3>3. QED
      BY Zenon, <2>1, <2>2, <3>1, <3>2, PlanKeeps
  <2>4. GroupsOK'
    BY Zenon, <2>1 DEF MovesInv, GroupsOK, IsNew, Moves!groups
  <2>5. MovesOK'
    BY Zenon, <2>1, <2>3 DEF MovesInv, MovesOK, IsNew, Moves!groups
  <2>6. TargetsOK'
    BY Zenon, <2>1, <2>3
    DEF MovesInv, TargetsOK, Moves!Unused, Holds, Keeps, Moves!Present, Moves!groups
  <2>7. QED
    BY Zenon, <2>1, <2>4, <2>5, <2>6, RowsUnchanged DEF MovesInv
<1>11. CASE Moves!Finalize
  <2>1. UNCHANGED <<files, move, Moves!groups, contested>>
    BY Zenon, <1>11 DEF Moves!Finalize
  <2>2. CASE UNCHANGED media
    BY Zenon, <1>8, <2>1, <2>2 DEF Moves!Movers
  <2>3. CASE media' = [i \in TrackIDs |-> IF Moves!IsMissing(i) THEN NoRow ELSE media[i]]
    <3>1. media' = [i \in TrackIDs |-> IF i \in TrackIDs /\ Moves!IsMissing(i) THEN NoRow ELSE media[i]]
      BY Zenon, <2>3
    <3>2. QED
      BY Zenon, <2>1, <3>1, DeleteKeeps
  <2>4. QED
    BY Zenon, <1>11, <2>2, <2>3 DEF Moves!Finalize
<1>12. ASSUME NEW ids, Moves!DeleteMissing(ids)
       PROVE  MovesInv'
  BY Zenon, <1>12, DeleteKeeps DEF Moves!DeleteMissing
<1>13. ASSUME NEW l \in Libraries, NEW m \in TrackIDs,
              Moves!ProcessCrossLibrary(l, m) \/ Moves!CrossLibraryFails(l, m)
       PROVE  MovesInv'
  <2>1. /\ Moves!Untagged(m) \in SUBSET Moves!Recent(m)
        /\ Moves!FindCrossLibraryMatch(m) \in SUBSET Moves!Recent(m)
    BY Zenon DEF Moves!Untagged, Moves!FindCrossLibraryMatch, Moves!Best
  <2>2. QED
    BY Zenon, <1>4, <1>13, <2>1 DEF Moves!ProcessCrossLibrary, Moves!CrossLibraryFails
<1>14. CASE Moves!Remap
  <2>1. CASE Moves!MoveRow("remap")
    BY Zenon, <1>5, <1>14, <2>1 DEF Moves!Movers
  <2>2. CASE move' = [move EXCEPT !["remap"] = NoMove] /\ UNCHANGED <<media, contested>>
    BY Zenon, <1>8, <1>14, <2>2 DEF Moves!Remap, Moves!Movers
  <2>3. QED
    BY Zenon, <1>14, <2>1, <2>2 DEF Moves!Remap
<1>15. ASSUME NEW v \in Moves!Movers, Moves!MoveMatched(v) \/ Moves!MoveFails(v)
       PROVE  MovesInv'
  BY Zenon, <1>5, <1>8, <1>15 DEF Moves!MoveMatched, Moves!MoveFails
<1>16. CASE Moves!ProduceFails \/ Moves!Rest \/ UNCHANGED Moves!vars
  BY Zenon, <1>8, <1>16 DEF Moves!ProduceFails, Moves!Rest, Moves!vars, Moves!Movers, Moves!groups
<1>17. QED
  BY Zenon, <1>1, <1>2, <1>3, <1>7, <1>9, <1>10, <1>11, <1>12, <1>13, <1>14, <1>15, <1>16
  DEF Moves!Next

\* The invariant holds at first.
LEMMA MovesInit ==
  ASSUME MovesConstants
  PROVE  Moves!Init => MovesInv
<1> SUFFICES ASSUME Moves!Init PROVE MovesInv
  BY Zenon
<1>1. /\ media = [i \in TrackIDs |-> [file |-> i, missing |-> i \notin files]]
      /\ files \subseteq TrackIDs /\ \A i \in TrackIDs : IsNew(i) => i \in files
  BY Zenon DEF Moves!Init, IsNew
<1>2. /\ media \in [TrackIDs -> [file : TrackIDs, missing : BOOLEAN] \cup {NoRow}]
      /\ \A i \in TrackIDs : media[i] # NoRow /\ media[i].file = i
      /\ \A i \in TrackIDs : media[i].missing <=> i \notin files
  BY Zenon, <1>1, RowsAndMoves
<1>3. \A i \in TrackIDs : \A f : Holds(i, f) <=> (i \in files /\ f = i)
  BY Zenon, <1>2 DEF Holds, Moves!Present
<1>4. RowsOK
  BY Zenon, <1>1, <1>2, <1>3 DEF RowsOK, Moves!Present
<1>5. GroupsOK /\ MovesOK /\ TargetsOK
  BY Zenon DEF Moves!Init, Moves!Fresh, GroupsOK, MovesOK, TargetsOK, Moves!Movers, Moves!Stages
<1>6. Moves!OneRowPerFile
  BY <1>1, <1>3 DEF Moves!OneRowPerFile, Holds
<1>7. QED
  BY Zenon, <1>4, <1>5, <1>6 DEF MovesInv

\* MovedTracks: no move loses a file or gives it to two tracks, unless two movers are
\* after the same rows, for any libraries, tracks, failures and requests.
THEOREM FilesKeptOnce ==
  ASSUME MovesConstants
  PROVE  Moves!Spec => []OneRowPerFile
<1>1. Moves!Init => MovesInv
  BY Zenon, MovesInit
<1>2. MovesInv /\ [Moves!Next]_(Moves!vars) => MovesInv'
  BY Zenon, MovesStep
<1>3. MovesInv => OneRowPerFile
  BY Zenon DEF MovesInv, OneRowPerFile
<1>4. QED
  BY <1>1, <1>2, <1>3, PTL DEF Moves!Spec

\* The stage v is about to reassign the annotations to the album a.
Reassigns(v, a) == move[v] # NoMove /\ move[v].reassign /\ Album[move[v].file] = a

\* A move that has not claimed its album does not reassign it.
ClaimsInv ==
  /\ move \in [Moves!Movers -> Moves!Move \cup {NoMove}]
  /\ \A v \in Moves!Movers : move[v] # NoMove /\ ~move[v].claimed => ~move[v].reassign
  /\ \A a \in processedAlbumAnnotations :
       a \in reassigned \/ \E v \in Moves!Stages : Reassigns(v, a)

\* Every step keeps it.
LEMMA ClaimsStep ==
  ASSUME MovesConstants, MovesInv, ClaimsInv, [Moves!Next]_(Moves!vars)
  PROVE  ClaimsInv'
<1>1. ASSUME UNCHANGED <<move, processedAlbumAnnotations, reassigned>>
      PROVE  ClaimsInv'
  BY Zenon, <1>1 DEF ClaimsInv, Reassigns
<1>2. ASSUME NEW v \in Moves!Movers, NEW m \in TrackIDs, NEW t \in TrackIDs, NEW f \in TrackIDs,
             Moves!Plan(v, m, t, f), move[v] = NoMove,
             UNCHANGED <<processedAlbumAnnotations, reassigned>>
      PROVE  ClaimsInv'
  <2> DEFINE n == [missing |-> m, target |-> t, file |-> f, claimed |-> FALSE, reassign |-> FALSE]
  <2>1. n \in Moves!Move /\ ~n.reassign /\ move' = [move EXCEPT ![v] = n]
    BY Zenon, <1>2, RowsAndMoves DEF Moves!Plan
  <2> HIDE DEF n
  <2>2. /\ move' \in [Moves!Movers -> Moves!Move \cup {NoMove}] /\ ~move'[v].reassign
        /\ \A w \in Moves!Movers \ {v} : move'[w] = move[w]
    BY Zenon, <2>1 DEF ClaimsInv
  <2>3. \A w \in Moves!Stages : \A a : Reassigns(w, a) => Reassigns(w, a)'
    BY Zenon, <1>2, <2>2 DEF Reassigns, Moves!Movers
  <2>4. \A a \in processedAlbumAnnotations' :
           a \in reassigned' \/ \E w \in Moves!Stages : Reassigns(w, a)'
    BY Zenon, <1>2, <2>3 DEF ClaimsInv
  <2>5. QED
    BY Zenon, <2>2, <2>4 DEF ClaimsInv
<1>3. ASSUME NEW v \in Moves!Stages, Moves!Claim(v)
      PROVE  ClaimsInv'
  <2> DEFINE to == Album[move[v].file]
             differs == Album[move[v].missing] # to
             n == [[move[v] EXCEPT !.claimed = TRUE]
                     EXCEPT !.reassign = differs /\ to \notin processedAlbumAnnotations]
  <2>1. /\ v \in Moves!Movers /\ move[v] # NoMove /\ move[v] \in Moves!Move /\ ~move[v].claimed
        /\ ~move[v].reassign
    BY Zenon, <1>3 DEF Moves!Claim, ClaimsInv, Moves!Movers
  <2>2. move' = [move EXCEPT ![v] = n] /\ UNCHANGED reassigned
    BY Zenon, <1>3 DEF Moves!Claim
  <2>3. \A a \in processedAlbumAnnotations' : a \in processedAlbumAnnotations \/ (a = to /\ differs)
    BY Zenon, <1>3 DEF Moves!Claim
  <2>4. /\ n \in Moves!Move /\ n.claimed /\ n.file = move[v].file
        /\ n.reassign <=> (differs /\ to \notin processedAlbumAnnotations)
    BY Zenon, <2>1 DEF Moves!Move
  <2>5. n # NoMove
    BY <2>4, Zenon DEF MovesConstants
  <2> HIDE DEF n
  <2>6. /\ move' \in [Moves!Movers -> Moves!Move \cup {NoMove}] /\ move'[v] = n
        /\ \A w \in Moves!Movers \ {v} : move'[w] = move[w]
    BY Zenon, <2>1, <2>2, <2>4 DEF ClaimsInv
  <2>7. \A w \in Moves!Stages : \A a : Reassigns(w, a) => Reassigns(w, a)'
    BY Zenon, <2>1, <2>6 DEF Reassigns, Moves!Movers
  <2>8. differs /\ to \notin processedAlbumAnnotations =>
          move'[v] # NoMove /\ move'[v].reassign /\ Album[move'[v].file] = to
    BY Zenon, <2>4, <2>5, <2>6
  <2>9. ASSUME NEW a \in processedAlbumAnnotations'
        PROVE  a \in reassigned' \/ \E w \in Moves!Stages : Reassigns(w, a)'
    <3>1. CASE a \in processedAlbumAnnotations
      BY Zenon, <2>2, <2>7, <3>1 DEF ClaimsInv
    <3>2. CASE a \notin processedAlbumAnnotations
      <4>1. Reassigns(v, a)'
        BY Zenon, <2>3, <2>8, <2>9, <3>2 DEF Reassigns
      <4>2. QED
        BY Zenon, <4>1
    <3>3. QED
      BY Zenon, <3>1, <3>2
  <2>10. \A w \in Moves!Movers : move'[w] # NoMove /\ ~move'[w].claimed => ~move'[w].reassign
    BY Zenon, <2>4, <2>6 DEF ClaimsInv
  <2>11. QED
    BY Zenon, <2>6, <2>9, <2>10 DEF ClaimsInv
<1>4. ASSUME NEW v \in Moves!Stages, move' = [move EXCEPT ![v] = NoMove],
             \A a \in processedAlbumAnnotations' :
               a \in processedAlbumAnnotations /\ (Reassigns(v, a) => a \in reassigned'),
             reassigned \subseteq reassigned'
      PROVE  ClaimsInv'
  <2>1. /\ move' \in [Moves!Movers -> Moves!Move \cup {NoMove}] /\ v \in Moves!Movers
        /\ \A w \in Moves!Movers : move'[w] # NoMove => w # v /\ move'[w] = move[w]
        /\ \A w \in Moves!Movers \ {v} : move'[w] = move[w]
    BY Zenon, <1>4 DEF ClaimsInv, Moves!Movers
  <2>2. \A w \in Moves!Stages \ {v} : \A a : Reassigns(w, a) => Reassigns(w, a)'
    BY Zenon, <2>1 DEF Reassigns, Moves!Movers
  <2>3. \A a \in processedAlbumAnnotations' :
           a \in reassigned' \/ \E w \in Moves!Stages : Reassigns(w, a)'
    BY Zenon, <1>4, <2>2 DEF ClaimsInv
  <2>4. QED
    BY Zenon, <2>1, <2>3 DEF ClaimsInv
<1>5. ASSUME NEW v \in Moves!Stages, Moves!MoveMatched(v)
      PROVE  ClaimsInv'
  BY Zenon, <1>4, <1>5 DEF Moves!MoveMatched, Moves!MoveRow, Reassigns, ClaimsInv
<1>6. ASSUME NEW v \in Moves!Stages, Moves!MoveFails(v)
      PROVE  ClaimsInv'
  <2>1. /\ move' = [move EXCEPT ![v] = NoMove] /\ UNCHANGED reassigned
        /\ \A a \in processedAlbumAnnotations' : a \in processedAlbumAnnotations /\ ~Reassigns(v, a)
    BY Zenon, <1>6 DEF Moves!MoveFails, Moves!Release, Reassigns
  <2>2. QED
    BY Zenon, <1>4, <2>1
<1>7. CASE Moves!Again
  <2>1. /\ processedAlbumAnnotations' = {}
        /\ move' = [move EXCEPT !["first"] = NoMove, !["second"] = NoMove]
    BY Zenon, <1>7 DEF Moves!Again
  <2>2. /\ move' \in [Moves!Movers -> Moves!Move \cup {NoMove}]
        /\ \A w \in Moves!Movers : move'[w] = NoMove \/ move'[w] = move[w]
    BY Zenon, <2>1 DEF ClaimsInv, Moves!Movers, Moves!Stages
  <2>3. QED
    BY Zenon, <2>1, <2>2 DEF ClaimsInv
<1>8. CASE Moves!Remap
  <2>1. /\ move' = [move EXCEPT !["remap"] = NoMove] /\ reassigned \subseteq reassigned'
        /\ UNCHANGED processedAlbumAnnotations
    BY Zenon, <1>8 DEF Moves!Remap, Moves!MoveRow
  <2>2. /\ move' \in [Moves!Movers -> Moves!Move \cup {NoMove}]
        /\ \A w \in Moves!Movers : move'[w] = NoMove \/ move'[w] = move[w]
        /\ \A w \in Moves!Stages : move'[w] = move[w]
    BY Zenon, <2>1 DEF ClaimsInv, Moves!Movers, Moves!Stages
  <2>3. \A w \in Moves!Stages : \A a : Reassigns(w, a) => Reassigns(w, a)'
    BY Zenon, <2>2 DEF Reassigns
  <2>4. \A a \in processedAlbumAnnotations' :
           a \in reassigned' \/ \E w \in Moves!Stages : Reassigns(w, a)'
    BY Zenon, <2>1, <2>3 DEF ClaimsInv
  <2>5. QED
    BY Zenon, <2>2, <2>4 DEF ClaimsInv
<1>9. ASSUME NEW l \in Libraries, NEW m \in TrackIDs, Moves!ProcessMissing(l, m)
      PROVE  ClaimsInv'
  <2>1. ASSUME NEW t \in Moves!Matches(l, m) PROVE t \in TrackIDs
    BY Zenon DEF Moves!Matches, Moves!Unused, MovesInv, GroupsOK
  <2>2. QED
    BY Zenon, <1>1, <1>2, <1>9, <2>1 DEF Moves!ProcessMissing, Moves!Movers, Moves!Stages
<1>10. ASSUME NEW l \in Libraries, NEW m \in TrackIDs, NEW found \in SUBSET Moves!Recent(m),
              Moves!CrossLibrary(l, m, found)
       PROVE  ClaimsInv'
  <2>1. ASSUME NEW t \in found PROVE t \in TrackIDs /\ media[t].file \in TrackIDs
    BY Zenon DEF Moves!Recent, Moves!Present, MovesInv, RowsOK
  <2>2. QED
    BY Zenon, <1>1, <1>2, <1>10, <2>1 DEF Moves!CrossLibrary, Moves!Movers, Moves!Stages
<1>11. ASSUME NEW l \in Libraries, NEW m \in TrackIDs,
              Moves!ProcessCrossLibrary(l, m) \/ Moves!CrossLibraryFails(l, m)
       PROVE  ClaimsInv'
  <2>1. /\ Moves!Untagged(m) \in SUBSET Moves!Recent(m)
        /\ Moves!FindCrossLibraryMatch(m) \in SUBSET Moves!Recent(m)
    BY Zenon DEF Moves!Untagged, Moves!FindCrossLibraryMatch, Moves!Best
  <2>2. QED
    BY Zenon, <1>10, <1>11, <2>1 DEF Moves!ProcessCrossLibrary, Moves!CrossLibraryFails
<1>12. ASSUME NEW m \in TrackIDs, NEW t \in TrackIDs, Moves!RemapMissingFile(m, t)
       PROVE  ClaimsInv'
  <2>1. media[t].file \in TrackIDs
    BY Zenon, <1>12 DEF Moves!RemapMissingFile, Moves!Present, MovesInv, RowsOK
  <2>2. QED
    BY Zenon, <1>2, <1>12, <2>1 DEF Moves!RemapMissingFile, Moves!Movers
<1>13. ASSUME NEW l \in Libraries, Moves!Produce(l) \/ Moves!PassOn(l) \/ Moves!EndGroup(l)
       PROVE  ClaimsInv'
  BY Zenon, <1>1, <1>13 DEF Moves!Produce, Moves!PassOn, Moves!EndGroup
<1>14. ASSUME NEW ids, Moves!DeleteMissing(ids)
       PROVE  ClaimsInv'
  BY Zenon, <1>1, <1>14 DEF Moves!DeleteMissing
<1>15. CASE Moves!ProduceFails \/ Moves!Finalize \/ Moves!Rest \/ UNCHANGED Moves!vars
  BY Zenon, <1>1, <1>15 DEF Moves!ProduceFails, Moves!Finalize, Moves!Rest, Moves!vars
<1>16. ASSUME NEW v \in Moves!Movers, Moves!Claim(v) \/ Moves!MoveMatched(v) \/ Moves!MoveFails(v)
       PROVE  ClaimsInv'
  BY Zenon, <1>3, <1>5, <1>6, <1>16 DEF Moves!Claim, Moves!MoveMatched, Moves!MoveFails
<1>17. QED
  BY Zenon, <1>7, <1>8, <1>9, <1>11, <1>12, <1>13, <1>14, <1>15, <1>16 DEF Moves!Next

\* MovedTracks: an album stays claimed only for a reassignment that is made or about to
\* be made, through any failures and in any order of the two stages.
THEOREM ClaimsAreHonoured ==
  ASSUME MovesConstants
  PROVE  Moves!Spec => []ClaimIsHonoured
<1>1. Moves!Init => MovesInv /\ ClaimsInv
  <2>1. Moves!Init => ClaimsInv
    BY Zenon DEF Moves!Init, ClaimsInv, Moves!Movers, Moves!Stages
  <2>2. QED
    BY Zenon, <2>1, MovesInit
<1>2. MovesInv /\ ClaimsInv /\ [Moves!Next]_(Moves!vars) => (MovesInv /\ ClaimsInv)'
  BY Zenon, MovesStep, ClaimsStep
<1>3. ClaimsInv => ClaimIsHonoured
  <2> SUFFICES ASSUME ClaimsInv, NEW a \in processedAlbumAnnotations, a \notin reassigned
               PROVE  a \in {Album[move[v].file] :
                               v \in {w \in Moves!Stages : move[w] # NoMove /\ move[w].reassign}}
    BY Zenon DEF ClaimIsHonoured, Moves!ClaimIsHonoured
  <2>1. PICK v \in Moves!Stages : Reassigns(v, a)
    BY Zenon DEF ClaimsInv
  <2>2. QED
    BY <2>1, Zenon DEF Reassigns
<1>4. QED
  BY <1>1, <1>2, <1>3, PTL DEF Moves!Spec

-----------------------------------------------------------------------------
USE MaintenanceAssumption DEF Procs, Jobs

\* The inductive invariant of the lock: the flag and the mutex agree with where
\* every scan and every job is.
LockInv == TypeOK /\ HolderInSection /\ RunningIsOneScan

\* The stored properties and the counters keep their types.
LEMMA DataStep == DataType /\ [Next]_vars => DataType'
<1> SUFFICES ASSUME DataType, [Next]_vars PROVE DataType'
  BY Zenon
<1> DEFINE Stored == <<kind, props, stale, lostMark>>
<1> USE DEF DataType, props, env
<1>1. Fault => faults' \in 0..MaxFaults
  BY DEF Fault
<1>2. \A n, top \in Nat : n <= top => Capped(n, top) \in 0..top
  BY DEF Capped
<1>3. ASSUME NEW s \in Scans, ScanStep(s) PROVE DataType'
  <2>1. CASE LockScan(s)
    BY <2>1 DEF LockScan
  <2>2. CASE MarkBeforeScan(s)
    <3>1. /\ kind' \in [Scans -> {"quick", "unscanned", "full"}]
          /\ UNCHANGED <<failures, sinceAttempt, sinceAnalyze, stale, scans>>
      BY Zenon, <2>2 DEF MarkBeforeScan
    <3>2. pending' \in BOOLEAN /\ lostMark' \in BOOLEAN /\ faults' \in 0..MaxFaults
      BY Zenon, <1>1, <2>2 DEF MarkBeforeScan
    <3>3. QED
      BY Zenon, <3>1, <3>2
  <2>3. CASE Import(s)
    BY Zenon, <2>3 DEF Import
  <2>4. CASE ScanFails(s)
    BY Zenon, <1>1, <2>4 DEF ScanFails
  <2>5. CASE ScanRefused(s) \/ AcquireMux(s) \/ ScanSucceeds(s) \/ Unlock(s) \/ ClearRunning(s)
    <3>1. UNCHANGED <<Stored, env>>
      BY Zenon, <2>5 DEF ScanRefused, AcquireMux, ScanSucceeds, Unlock, ClearRunning, vars
    <3>2. QED
      BY Zenon, <3>1
  <2>6. QED
    BY Zenon, <1>3, <2>1, <2>2, <2>3, <2>4, <2>5 DEF ScanStep
<1>4. ASSUME NEW j \in Jobs, JobStep(j) PROVE DataType'
  <2>1. UNCHANGED <<Stored, env>>
    BY Zenon, <1>4 DEF JobStep, TryLockFails, TryLock, CheckRunning, RunJob, Release, vars
  <2>2. QED
    BY Zenon, <2>1
<1>5. ASSUME NEW p \in Procs, AnalyzeStep(p) PROVE DataType'
  <2>1. CASE BeginAnalyze(p)
    BY Zenon, <2>1 DEF BeginAnalyze
  <2>2. CASE AnalyzeOk(p)
    <3>1. 0 \in 0..4 /\ 0 \in 0..Day
      OBVIOUS
    <3>2. QED
      BY Zenon, <2>2, <3>1 DEF AnalyzeOk
  <2>3. CASE AnalyzeFails(p)
    <3>1. /\ faults' \in 0..MaxFaults /\ failures' \in 0..4
          /\ sinceAttempt' = 0 /\ sinceAttempt' \in 0..Day
      <4>1. Fault /\ failures' = Capped(failures, 4) /\ sinceAttempt' = 0
        BY Zenon, <2>3 DEF AnalyzeFails
      <4>2. failures' \in 0..4
        BY <4>1 DEF Capped
      <4>3. QED
        BY <1>1, <4>1, <4>2
    <3>2. stale' \in BOOLEAN /\ pending' \in BOOLEAN /\ lostMark' \in BOOLEAN
      BY Zenon, <2>3 DEF AnalyzeFails
    <3>3. QED
      BY Zenon, <2>3, <3>1, <3>2 DEF AnalyzeFails
  <2>4. CASE RecordingFails(p)
    BY Zenon, <1>1, <2>4 DEF RecordingFails
  <2>5. QED
    BY Zenon, <1>5, <2>1, <2>2, <2>3, <2>4 DEF AnalyzeStep
<1>6. CASE Tick
  BY <1>2, <1>6 DEF Tick
<1>7. CASE Crash
  BY Zenon, <1>1, <1>7 DEF Crash
<1>8. CASE UNCHANGED vars
  BY Zenon, <1>8 DEF vars
<1>9. QED
  BY Zenon, <1>3, <1>4, <1>5, <1>6, <1>7, <1>8 DEF Next

\* The part of it about where the scans and the jobs are
ControlInv == ControlType /\ HolderInSection /\ RunningIsOneScan

\* A process that moves between two places of its own and neither takes nor gives the
\* mutex, and enters or leaves no scan, disturbs nothing.
LEMMA PlaceMoves ==
  ASSUME ControlInv, NEW p \in Procs, NEW l, pc' = [pc EXCEPT ![p] = l], UNCHANGED <<running, mux>>,
         p \in Scans => l \in ScanLabels, p \in Jobs => l \in JobLabels,
         l \in Holding <=> pc[p] \in Holding, l # "idle", pc[p] # "idle"
  PROVE  ControlInv'
<1> USE DEF ControlInv
<1>1. \A q \in Procs : pc'[q] = IF q = p THEN l ELSE pc[q]
  BY Zenon DEF ControlType
<1>2. ControlType'
  BY Zenon, <1>1 DEF ControlType
<1>3. HolderInSection'
  BY Zenon, <1>1 DEF HolderInSection
<1>4. RunningIsOneScan'
  BY Zenon, <1>1 DEF RunningIsOneScan
<1>5. QED
  BY Zenon, <1>2, <1>3, <1>4

\* A process that takes the mutex, which was free, or gives it back
LEMMA HolderMoves ==
  ASSUME ControlInv, NEW p \in Procs, NEW l, pc' = [pc EXCEPT ![p] = l], UNCHANGED running,
         p \in Scans => l \in ScanLabels, p \in Jobs => l \in JobLabels,
         \/ mux = Nobody /\ mux' = p /\ l \in Holding
         \/ mux = p /\ mux' = Nobody /\ l \notin Holding,
         p \in Scans => l # "idle" /\ pc[p] # "idle"
  PROVE  ControlInv'
<1> USE DEF ControlInv
<1>1. \A q \in Procs : pc'[q] = IF q = p THEN l ELSE pc[q]
  BY Zenon DEF ControlType
<1>2. ControlType'
  BY Zenon, <1>1 DEF ControlType
<1>3. HolderInSection'
  BY Zenon, <1>1 DEF HolderInSection
<1>4. RunningIsOneScan'
  BY Zenon, <1>1 DEF RunningIsOneScan
<1>5. QED
  BY Zenon, <1>2, <1>3, <1>4

\* A scan that sets the flag, which was clear, or clears it
LEMMA RunningMoves ==
  ASSUME ControlInv, NEW s \in Scans, NEW l, pc' = [pc EXCEPT ![s] = l], UNCHANGED mux,
         l \in ScanLabels, l \notin Holding, pc[s] \notin Holding,
         \/ ~running /\ running' = TRUE /\ l # "idle"
         \/ running' = FALSE /\ l = "idle" /\ pc[s] # "idle"
  PROVE  ControlInv'
<1> USE DEF ControlInv
<1>1. \A q \in Procs : pc'[q] = IF q = s THEN l ELSE pc[q]
  BY Zenon DEF ControlType
<1>2. ControlType'
  BY Zenon, <1>1 DEF ControlType
<1>3. HolderInSection'
  BY Zenon, <1>1 DEF HolderInSection
<1>4. RunningIsOneScan'
  BY <1>1 DEF RunningIsOneScan
<1>5. QED
  BY Zenon, <1>2, <1>3, <1>4

\* Every step of the lock is a move of one of these kinds, or moves nobody.
LEMMA ControlStep == ControlInv /\ [Next]_vars => ControlInv'
<1> SUFFICES ASSUME ControlInv, [Next]_vars PROVE ControlInv'
  BY Zenon
<1> USE DEF lock, Goto, ScanLabels, JobLabels, Holding
<1>1. \A p \in Procs : pc[p] \in Holding => mux = p
  BY Zenon DEF ControlInv, HolderInSection
<1>2. UNCHANGED <<running, mux, pc>> => ControlInv'
  BY DEF ControlInv, ControlType, HolderInSection, RunningIsOneScan
<1>3. ASSUME NEW s \in Scans, ScanStep(s) PROVE ControlInv'
  <2>1. CASE LockScan(s)
    BY Zenon, <2>1, RunningMoves DEF LockScan
  <2>2. CASE AcquireMux(s)
    BY Zenon, <2>2, HolderMoves DEF AcquireMux
  <2>3. CASE MarkBeforeScan(s)
    <3>1. pc[s] = "mark" /\ pc' = [pc EXCEPT ![s] = "scan"] /\ UNCHANGED <<running, mux>>
      BY Zenon, <2>3 DEF MarkBeforeScan
    <3>2. QED
      BY Zenon, <3>1, PlaceMoves
  <2>4. CASE ScanSucceeds(s) \/ ScanFails(s)
    <3>1. PICK l \in {"begin", "unlock"} :
            pc[s] = "scan" /\ pc' = [pc EXCEPT ![s] = l] /\ UNCHANGED <<running, mux>>
      BY Zenon, <2>4 DEF ScanSucceeds, ScanFails
    <3>2. QED
      BY Zenon, <3>1, PlaceMoves
  <2>5. CASE Unlock(s)
    BY Zenon, <1>1, <2>5, HolderMoves DEF Unlock
  <2>6. CASE ClearRunning(s)
    BY Zenon, <2>6, RunningMoves DEF ClearRunning
  <2>7. CASE ScanRefused(s) \/ Import(s)
    BY Zenon, <1>2, <2>7 DEF ScanRefused, Import, vars
  <2>8. QED
    BY Zenon, <1>3, <2>1, <2>2, <2>3, <2>4, <2>5, <2>6, <2>7 DEF ScanStep
<1>4. ASSUME NEW j \in Jobs, JobStep(j) PROVE ControlInv'
  <2>1. CASE TryLock(j)
    BY Zenon, <2>1, HolderMoves DEF TryLock
  <2>2. CASE CheckRunning(j) /\ running
    BY Zenon, <1>1, <2>2, HolderMoves DEF CheckRunning
  <2>3. CASE CheckRunning(j) /\ ~running
    BY Zenon, <2>3, PlaceMoves DEF CheckRunning
  <2>4. CASE RunJob(j)
    <3>1. PICK l \in {"begin", "release"} :
            pc[j] = "run" /\ pc' = [pc EXCEPT ![j] = l] /\ UNCHANGED <<running, mux>>
      BY Zenon, <2>4 DEF RunJob
    <3>2. QED
      BY Zenon, <3>1, PlaceMoves
  <2>5. CASE Release(j)
    BY Zenon, <1>1, <2>5, HolderMoves DEF Release
  <2>6. CASE TryLockFails(j)
    BY Zenon, <1>2, <2>6 DEF TryLockFails, vars
  <2>7. QED
    BY Zenon, <1>4, <2>1, <2>2, <2>3, <2>4, <2>5, <2>6 DEF JobStep
<1>5. ASSUME NEW p \in Procs, AnalyzeStep(p) PROVE ControlInv'
  <2>1. PICK l : /\ pc[p] \in {"begin", "analyze"} /\ pc' = [pc EXCEPT ![p] = l]
                 /\ l = "analyze" \/ l = AfterAnalysis(p)
                 /\ UNCHANGED <<running, mux>>
    BY Zenon, <1>5 DEF AnalyzeStep, BeginAnalyze, AnalyzeOk, AnalyzeFails, RecordingFails
  <2>2. QED
    BY Zenon, <2>1, PlaceMoves DEF AfterAnalysis
<1>6. CASE Crash
  <2>1. running' = FALSE /\ mux' = Nobody /\ pc' = [p \in Procs |-> "idle"]
    BY Zenon, <1>6 DEF Crash
  <2>2. QED
    BY Zenon, <2>1 DEF ControlInv, ControlType, HolderInSection, RunningIsOneScan
<1>7. CASE Tick \/ UNCHANGED vars
  BY Zenon, <1>2, <1>7 DEF Tick, vars
<1>8. QED
  BY Zenon, <1>3, <1>4, <1>5, <1>6, <1>7 DEF Next

\* One step of a scan, a job, an analysis, the clock or a crash preserves it.
LEMMA LockStep == LockInv /\ [Next]_vars => LockInv'
BY Zenon, DataStep, ControlStep DEF LockInv, TypeOK, ControlInv

\* The lock's invariant holds throughout.
LEMMA LockInvariant == Spec => []LockInv
<1>1. Init => LockInv
  <2>1. Init => ControlType
    BY Zenon DEF Init, ControlType, ScanLabels, JobLabels
  <2>2. Init => DataType
    <3>1. 0 \in 0..4 /\ Day \in 0..Day /\ 0 \in 0..MaxScans /\ 0 \in 0..MaxFaults
      OBVIOUS
    <3> QED
      BY <3>1, Zenon DEF Init, DataType
  <2>3. Init => HolderInSection /\ RunningIsOneScan
    BY Zenon DEF Init, HolderInSection, RunningIsOneScan, Holding
  <2> QED
    BY Zenon, <2>1, <2>2, <2>3 DEF LockInv, TypeOK
<1> QED
  BY <1>1, LockStep, PTL DEF Spec

\* The control state and the stored properties keep their types.
THEOREM TypeCorrect == Spec => []TypeOK
BY LockInvariant, PTL DEF LockInv

\* lockScan and LockForMaintenance exclude: whoever is in its section holds the
\* mutex, so no scan runs beside a maintenance job or another analysis.
THEOREM SectionsExclusive == Spec => []HolderInSection
BY LockInvariant, PTL DEF LockInv

\* The flag is set exactly while one scan is under way.
THEOREM OneScanAtATime == Spec => []RunningIsOneScan
BY LockInvariant, PTL DEF LockInv

-----------------------------------------------------------------------------
\* One step keeps the request for an analysis stored as long as it is needed.
LEMMA StaleStep == LockInv /\ StaleIsPending /\ [Next]_vars => StaleIsPending'
<1> SUFFICES ASSUME LockInv, StaleIsPending, [Next]_vars PROVE StaleIsPending'
  BY Zenon
<1> USE DEF LockInv, TypeOK, ControlType, StaleIsPending, lock, props, env, Goto
<1>1. ASSUME NEW s \in Scans, ScanStep(s) PROVE StaleIsPending'
  <2>1. CASE ScanRefused(s)
    BY Zenon, <2>1 DEF ScanRefused, vars
  <2>2. CASE LockScan(s)
    BY Zenon, <2>2 DEF LockScan
  <2>3. CASE AcquireMux(s)
    BY Zenon, <2>3 DEF AcquireMux
  <2>4. CASE MarkBeforeScan(s)
    <3>1. /\ pc[s] = "mark" /\ pc' = [pc EXCEPT ![s] = "scan"] /\ UNCHANGED stale
          /\ \A t \in Scans \ {s} : kind'[t] = kind[t]
      BY Zenon, <2>4 DEF MarkBeforeScan, DataType
    <3>2. /\ (pending \/ lostMark) => (pending' \/ lostMark')
          /\ kind'[s] # "quick" => pending' \/ lostMark'
      BY <2>4 DEF MarkBeforeScan, NeedsMark, DataType
    <3>3. \A p \in Procs : pc[p] # "analyze"
      BY Zenon, <3>1 DEF HolderInSection, Holding
    <3>4. QED
      BY Zenon, <3>1, <3>2, <3>3
  <2>5. CASE Import(s)
    BY Zenon, <2>5 DEF Import, HolderInSection, Holding
  <2>6. CASE ScanSucceeds(s)
    BY Zenon, <2>6 DEF ScanSucceeds
  <2>7. CASE ScanFails(s)
    BY Zenon, <2>7 DEF ScanFails
  <2>8. CASE Unlock(s)
    BY Zenon, <2>8 DEF Unlock
  <2>9. CASE ClearRunning(s)
    BY Zenon, <2>9 DEF ClearRunning
  <2> QED
    BY Zenon, <1>1, <2>1, <2>2, <2>3, <2>4, <2>5, <2>6, <2>7, <2>8, <2>9 DEF ScanStep
<1>2. ASSUME NEW j \in Jobs, JobStep(j) PROVE StaleIsPending'
  <2>1. /\ UNCHANGED <<kind, pending, lostMark, stale>>
        /\ \A q \in Procs : pc'[q] = pc[q] \/ pc'[q] \notin {"scan", "analyze"}
    BY Zenon, <1>2 DEF JobStep, TryLockFails, TryLock, CheckRunning, RunJob, Release, vars
  <2>2. QED
    BY Zenon, <2>1
<1>3. ASSUME NEW p \in Procs, AnalyzeStep(p) PROVE StaleIsPending'
  <2> USE DEF AfterAnalysis, HolderInSection, Holding
  <2>1. CASE BeginAnalyze(p)
    BY Zenon, <2>1 DEF BeginAnalyze
  <2>2. CASE AnalyzeOk(p)
    BY Zenon, <2>2 DEF AnalyzeOk
  <2>3. CASE AnalyzeFails(p)
    BY Zenon, <2>3 DEF AnalyzeFails
  <2>4. CASE RecordingFails(p)
    BY Zenon, <2>4 DEF RecordingFails
  <2> QED
    BY Zenon, <1>3, <2>1, <2>2, <2>3, <2>4 DEF AnalyzeStep
<1>4. CASE Tick
  BY Zenon, <1>4 DEF Tick
<1>5. CASE Crash
  BY Zenon, <1>5 DEF Crash
<1>6. CASE UNCHANGED vars
  BY Zenon, <1>6 DEF vars
<1> QED
  BY Zenon, <1>1, <1>2, <1>3, <1>4, <1>5, <1>6 DEF Next

\* MarkOptimizePending, Optimize and OptimizeIfNeeded never lose the request for
\* an analysis that an import needs, whatever fails and whenever it crashes.
THEOREM RequestNeverLost == Spec => []StaleIsPending
<1>1. Init => StaleIsPending
  BY Zenon DEF Init, StaleIsPending
<1> QED
  BY <1>1, StaleStep, LockInvariant, PTL DEF Spec
=============================================================================
