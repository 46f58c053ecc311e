---------------------------- MODULE ArtworkProofs ----------------------------
(***************************************************************************)
(* Proofs about the artwork service: ArtworkStore, for any items and       *)
(* images, and ArtworkBreaker, for any number of concurrent callers, any   *)
(* thresholds and any delays.                                              *)
(***************************************************************************)
EXTENDS ArtworkStore, ArtworkBreaker, FiniteSetTheorems, TLAPS

Types ==
  /\ mime \in [Hashes -> Mimes \cup {"none"}]
  /\ item \in [Items -> Hashes \cup {NoHash}] /\ stored \in [Items -> BOOLEAN]
  /\ job \in [Items -> {"idle", "acquired", "locked", "placed", "committed"}]
  /\ jobHash \in [Items -> Hashes \cup {NoHash}]
  /\ jobStored \in [Items -> BOOLEAN] /\ jobMime \in [Items -> Mimes]
  /\ mimes \in [Hashes -> Mimes \cup {"none"}]

\* The type of an image while the decoders stay the same.
Type(h) == IF h \in decodable THEN "typed" ELSE "generic"

TypeFixed ==
  /\ \A h \in Hashes : mime[h] = "none" \/ mime[h] = Type(h)
  /\ \A i \in Items : job[i] # "idle" => jobHash[i] \in Hashes /\ jobMime[i] = Type(jobHash[i])

\* Prune runs alone.
Exclusive == pruning # "idle" => \A i \in Items : job[i] \in {"idle", "acquired"}

\* What an acquisition has written is there until it is done.
Written ==
  \A i \in Items :
    /\ job[i] \in {"placed", "committed"} /\ jobStored[i] => <<jobHash[i], jobMime[i]>> \in files
    /\ job[i] = "committed" => mime[jobHash[i]] # "none"

\* The sweep knows the rows as they are.
MimesCurrent == pruning = "sweep" => mimes = mime

IInv == Types /\ TypeFixed /\ Exclusive /\ Written /\ MimesCurrent /\ Servable

\* Every step keeps the invariant.
LEMMA IInvStep == IInv /\ [Next]_vars => IInv'
<1> USE ArtworkStoreAssumption DEF Mimes
<1> SUFFICES ASSUME IInv, [Next]_vars PROVE IInv'
  BY Zenon
<1>1. ASSUME NEW i \in Items, NEW h \in Hashes, NEW s \in BOOLEAN, Acquire(i, h, s) PROVE IInv'
  <2>1. /\ Types' /\ UNCHANGED <<decodable, files, mime, item, stored, pruning, mimes>>
    BY Zenon, <1>1 DEF IInv, Types, Acquire, MimeOf, store, table, prune
  <2>2. MimeOf(h) = Type(h)
    BY Zenon DEF IInv, TypeFixed, MimeOf, Type
  <2>3. TypeFixed'
    BY <1>1, <2>1, <2>2 DEF IInv, Types, TypeFixed, Type, Acquire
  <2>4. Exclusive' /\ Written'
    BY <1>1, <2>1 DEF IInv, Types, Exclusive, Written, Acquire
  <2> QED BY Zenon, <2>1, <2>3, <2>4 DEF IInv, MimesCurrent, Servable
<1>2. ASSUME NEW i \in Items, Lock(i) PROVE IInv'
  BY <1>2 DEF IInv, Types, TypeFixed, Type, Exclusive, Written, MimesCurrent, Servable, Lock,
              PruneLockFree, store, table, prune
<1>3. ASSUME NEW i \in Items, PlaceBytes(i) PROVE IInv'
  <2>1. /\ job[i] = "locked" /\ job' = [job EXCEPT ![i] = "placed"]
        /\ files \subseteq files' /\ (jobStored[i] => <<jobHash[i], jobMime[i]>> \in files')
        /\ UNCHANGED <<decodable, mime, item, stored, jobHash, jobStored, jobMime, pruning, mimes>>
    BY Zenon, <1>3 DEF PlaceBytes, Places, table, prune
  <2> QED BY <2>1 DEF IInv, Types, TypeFixed, Type, Exclusive, Written, MimesCurrent, Servable
<1>4. ASSUME NEW i \in Items, PutImage(i) PROVE IInv'
  <2>1. /\ job[i] = "placed" /\ job' = [job EXCEPT ![i] = "committed"]
        /\ mime' = [mime EXCEPT ![jobHash[i]] = jobMime[i]]
        /\ UNCHANGED <<decodable, files, item, stored, jobHash, jobStored, jobMime, pruning, mimes>>
    BY Zenon, <1>4 DEF PutImage, store, prune
  <2>2. jobHash[i] \in Hashes /\ jobMime[i] = Type(jobHash[i]) /\ jobMime[i] # "none"
    BY Zenon, <2>1 DEF IInv, Types, TypeFixed
  <2>3. \A h \in Hashes : mime[h] # "none" => mime'[h] = mime[h]
    BY Zenon, <2>1, <2>2 DEF IInv, Types, TypeFixed
  <2>4. Types' /\ TypeFixed'
    BY Zenon, <2>1, <2>2 DEF IInv, Types, TypeFixed, Type
  <2>5. mime'[jobHash[i]] # "none"
    BY Zenon, <2>1, <2>2 DEF IInv, Types
  <2>6. Exclusive' /\ Written' /\ MimesCurrent'
    BY Zenon, <2>1, <2>3, <2>5 DEF IInv, Types, TypeFixed, Exclusive, Written, MimesCurrent
  <2>7. Servable'
    BY Zenon, <2>1, <2>3 DEF IInv, Types, Servable
  <2> QED BY Zenon, <2>4, <2>6, <2>7 DEF IInv
<1>5. ASSUME NEW i \in Items, PutItemArtwork(i) PROVE IInv'
  <2>1. /\ job[i] = "committed" /\ Return(i)
        /\ item' = [item EXCEPT ![i] = jobHash[i]] /\ stored' = [stored EXCEPT ![i] = jobStored[i]]
        /\ UNCHANGED <<decodable, files, mime, pruning, mimes>>
    BY Zenon, <1>5 DEF PutItemArtwork, store, prune
  <2>2. /\ jobHash[i] \in Hashes /\ mime[jobHash[i]] # "none"
        /\ mime[jobHash[i]] = jobMime[i]
        /\ jobStored[i] => <<jobHash[i], jobMime[i]>> \in files
    BY Zenon, <2>1 DEF IInv, TypeFixed, Written
  <2>3. Types' /\ TypeFixed' /\ Exclusive' /\ Written' /\ MimesCurrent'
    BY <2>1 DEF IInv, Types, TypeFixed, Type, Exclusive, Written, MimesCurrent, Return
  <2>4. Servable'
    BY Zenon, <2>1, <2>2 DEF IInv, Types, Servable
  <2> QED BY Zenon, <2>3, <2>4 DEF IInv
<1>6. ASSUME NEW i \in Items, AcquireFails(i) PROVE IInv'
  BY <1>6 DEF IInv, Types, TypeFixed, Type, Exclusive, Written, MimesCurrent, Servable,
              AcquireFails,
              Return, store, table, prune
<1>7. ASSUME NEW i \in Items, ClearItem(i) PROVE IInv'
  BY <1>7 DEF IInv, Types, TypeFixed, Type, Exclusive, Written, MimesCurrent, Servable, ClearItem,
              store, acquisition, prune
<1>8. ASSUME Restart PROVE IInv'
  BY Zenon, <1>8
  DEF IInv, Types, TypeFixed, Type, Exclusive, Written, MimesCurrent, Servable, Restart,
              PruneReturns, store, table
<1>9. ASSUME RunPrune PROVE IInv'
  <2>1. \A i \in Items : job[i] \in {"idle", "acquired"}
    BY Zenon, <1>9 DEF IInv, Types, RunPrune, Persisting
  <2> QED BY Zenon, <1>9, <2>1
          DEF IInv, Types, TypeFixed, Type, Exclusive, Written, MimesCurrent, Servable, RunPrune,
              store, table, acquisition
<1>10. ASSUME PurgeDanglingItems PROVE IInv'
  BY Zenon, <1>10 DEF IInv, Types, TypeFixed, Type, Exclusive, Written, MimesCurrent, Servable,
               PurgeDanglingItems, store, acquisition
<1>11. ASSUME PurgeOrphans PROVE IInv'
  <2>1. /\ pruning = "orphans" /\ pruning' = "mimes"
        /\ mime' = [h \in Hashes |-> IF h \in Orphans THEN "none" ELSE mime[h]]
        /\ UNCHANGED <<decodable, files, item, stored, acquisition, mimes>>
    BY Zenon, <1>11 DEF PurgeOrphans, store
  <2>2. \A i \in Items : item[i] \notin Orphans
    BY Zenon DEF Orphans
  <2>3. Types' /\ TypeFixed' /\ Exclusive' /\ Written' /\ MimesCurrent'
    BY Zenon, <2>1 DEF IInv, Types, TypeFixed, Type, Exclusive, Written, MimesCurrent, acquisition
  <2>4. Servable'
    BY Zenon, <2>1, <2>2 DEF IInv, Types, Servable
  <2> QED BY Zenon, <2>3, <2>4 DEF IInv
<1>12. ASSUME GetMimeByHash PROVE IInv'
  BY Zenon, <1>12 DEF IInv, Types, TypeFixed, Type, Exclusive, Written, MimesCurrent, Servable,
               GetMimeByHash, store, table, acquisition
<1>13. ASSUME NEW f \in Files, Sweep(f) PROVE IInv'
  <2>1. /\ pruning = "sweep" /\ files' \in {files, files \ {f}}
        /\ UNCHANGED <<decodable, table, acquisition, pruning, mimes>>
        /\ mimes[f[1]] = f[2] => files' = files
    BY Zenon, <1>13 DEF Sweep, Keep, store
  <2>2. Types' /\ TypeFixed' /\ Exclusive' /\ Written' /\ MimesCurrent'
    BY Zenon, <2>1
    DEF IInv, Types, TypeFixed, Type, Exclusive, Written, MimesCurrent, table, acquisition
  <2>3. ASSUME NEW h \in Hashes, <<h, mime[h]>> \in files PROVE <<h, mime[h]>> \in files'
    BY <2>1, <2>3 DEF IInv, MimesCurrent
  <2>4. Servable'
    BY <2>1, <2>3 DEF IInv, Types, Servable, table
  <2> QED BY Zenon, <2>2, <2>4 DEF IInv
<1>14. ASSUME PruneEnds \/ PruneFails PROVE IInv'
  BY <1>14 DEF IInv, Types, TypeFixed, Type, Exclusive, Written, MimesCurrent, Servable,
               PruneEnds, PruneFails, PruneReturns, store, table, acquisition
<1>15. ASSUME UNCHANGED <<decodable, files, mime, item, stored, acquisition, pruning, mimes>>
       PROVE IInv'
  BY Zenon, <1>15
  DEF IInv, Types, TypeFixed, Type, Exclusive, Written, MimesCurrent, Servable, acquisition
<1>16. ASSUME \/ \E i \in Items : EntityChanges(i)
              \/ \E f \in Files : FileAges(f)
              \/ \E h \in Hashes : RowAges(h)
              \/ WalkCutShort \/ UNCHANGED vars
       PROVE UNCHANGED <<decodable, files, mime, item, stored, acquisition, pruning, mimes>>
  BY Zenon, <1>16 DEF EntityChanges, FileAges, RowAges, WalkCutShort, vars, store, table, prune
<1> QED BY Zenon, <1>1, <1>2, <1>3, <1>4, <1>5, <1>6, <1>7, <1>8, <1>9, <1>10, <1>11, <1>12, <1>13, <1>14,
           <1>15, <1>16 DEF Next

\* The first state satisfies the invariant.
LEMMA InitIInv == Init => IInv
BY ArtworkStoreAssumption
DEF Init, IInv, Types, TypeFixed, Exclusive, Written, MimesCurrent, Servable, Mimes

\* While the server keeps its decoders, no prune, failed acquisition or restart
\* takes away a row or a stored file that some item refers to.
THEOREM ImagesServable == Spec => []Servable
<1>1. IInv => Servable
  BY Zenon DEF IInv
<1> QED BY <1>1, InitIInv, IInvStep, PTL DEF Spec

\* An acquisition under way knows its image.
LEMMA JobHashKnown == IInv => \A i \in Items : job[i] # "idle" => jobHash[i] \in Hashes
BY Zenon DEF IInv, TypeFixed

\* The type invariant alone is kept by every step of the inductive invariant.
LEMMA TypeStep == IInv /\ TypeOK /\ [Next]_vars => TypeOK'
<1> USE ArtworkStoreAssumption DEF TypeOK, Mimes, Files
<1> SUFFICES ASSUME IInv, TypeOK, [Next]_vars PROVE TypeOK'
  BY Zenon
<1>1. ASSUME NEW i \in Items, NEW h \in Hashes, NEW s \in BOOLEAN, Acquire(i, h, s) PROVE TypeOK'
  BY Zenon, <1>1 DEF Acquire, MimeOf, store, table, prune
<1>2. ASSUME NEW i \in Items, Lock(i) PROVE TypeOK'
  BY Zenon, <1>2 DEF Lock, store, table, prune
<1>3. ASSUME NEW i \in Items, PlaceBytes(i) PROVE TypeOK'
  BY <1>3, JobHashKnown DEF PlaceBytes, Places, table, prune
<1>4. ASSUME NEW i \in Items, PutImage(i) PROVE TypeOK'
  BY Zenon, <1>4, JobHashKnown DEF PutImage, store, prune
<1>5. ASSUME NEW i \in Items, PutItemArtwork(i) PROVE TypeOK'
  BY Zenon, <1>5 DEF PutItemArtwork, Return, store, prune
<1>6. ASSUME NEW i \in Items, AcquireFails(i) PROVE TypeOK'
  BY Zenon, <1>6 DEF AcquireFails, Return, store, table, prune
<1>7. ASSUME NEW i \in Items, ClearItem(i) PROVE TypeOK'
  BY Zenon, <1>7 DEF ClearItem, store, acquisition, prune
<1>8. ASSUME NEW i \in Items, EntityChanges(i) PROVE TypeOK'
  BY Zenon, <1>8 DEF EntityChanges, store, table, acquisition, prune
<1>9. ASSUME NEW f \in Files, FileAges(f) PROVE TypeOK'
  BY Zenon, <1>9 DEF FileAges, table, acquisition, prune
<1>10. ASSUME NEW f \in Files, Sweep(f) PROVE TypeOK'
  BY Zenon, <1>10 DEF Sweep, store, table, acquisition
<1>11. ASSUME NEW h \in Hashes, RowAges(h) PROVE TypeOK'
  BY Zenon, <1>11 DEF RowAges, store, acquisition, prune
<1>12. ASSUME Restart PROVE TypeOK'
  BY Zenon, <1>12 DEF Restart, PruneReturns, store, table
<1>13. ASSUME RunPrune PROVE TypeOK'
  BY Zenon, <1>13 DEF RunPrune, store, table, acquisition
<1>14. ASSUME PurgeDanglingItems PROVE TypeOK'
  BY Zenon, <1>14 DEF PurgeDanglingItems, store, acquisition
<1>15. ASSUME PurgeOrphans PROVE TypeOK'
  BY Zenon, <1>15 DEF PurgeOrphans, Orphans, store, acquisition
<1>16. ASSUME GetMimeByHash PROVE TypeOK'
  BY Zenon, <1>16 DEF GetMimeByHash, store, table, acquisition
<1>17. ASSUME PruneEnds PROVE TypeOK'
  BY Zenon, <1>17 DEF PruneEnds, PruneReturns, store, table, acquisition
<1>18. ASSUME PruneFails PROVE TypeOK'
  BY Zenon, <1>18 DEF PruneFails, PruneReturns, store, table, acquisition
<1>19. CASE UNCHANGED vars
  BY Zenon, <1>19 DEF vars, store, table, acquisition, prune
<1>20. ASSUME WalkCutShort PROVE TypeOK'
  BY Zenon, <1>20 DEF WalkCutShort, store, table, acquisition
<1> HIDE DEF TypeOK, Mimes, Files
<1> QED
  BY Zenon, <1>1, <1>2, <1>3, <1>4, <1>5, <1>6, <1>7, <1>8, <1>9, <1>10, <1>11, <1>12, <1>13, <1>14,
  <1>15, <1>16, <1>17, <1>18, <1>19, <1>20 DEF Next

\* The rows, the files and the acquisitions keep their types; an old file is a file
\* of the store and an old row a row of the table.
THEOREM TypeCorrect == Spec => []TypeOK
<1>1. Init => TypeOK
  BY ArtworkStoreAssumption DEF Init, TypeOK, Mimes, Files
<1> QED BY <1>1, InitIInv, IInvStep, TypeStep, PTL DEF Spec

-----------------------------------------------------------------------------
\* What the sweep has been past is newer than the cutoff, has its row, or is one
\* of the files it gave up on.
Swept ==
  pruning = "sweep" => \A f \in (files \cap cutoffFiles) \ (toSweep \cup unswept) : mimes[f[1]] = f[2]

\* Every step keeps it: while the sweep is under way no acquisition places a file.
LEMMA SweptStep == IInv /\ Swept /\ [Next]_vars => Swept'
<1> SUFFICES ASSUME IInv, Swept, [Next]_vars, pruning' = "sweep"
             PROVE  \A f \in (files' \cap cutoffFiles') \ (toSweep' \cup unswept') : mimes'[f[1]] = f[2]
  BY Zenon DEF Swept
<1>1. CASE GetMimeByHash
  BY Zenon, <1>1 DEF GetMimeByHash, store
<1>2. ASSUME NEW f \in Files, Sweep(f)
      PROVE  \A g \in (files' \cap cutoffFiles') \ (toSweep' \cup unswept') : mimes'[g[1]] = g[2]
  <2>1. /\ pruning = "sweep" /\ toSweep' = toSweep \ {f} /\ UNCHANGED <<cutoffFiles, mimes>>
        /\ files' \subseteq files /\ unswept \subseteq unswept'
        /\ f \in files' /\ f \in cutoffFiles => mimes[f[1]] = f[2] \/ f \in unswept'
    BY Zenon, <1>2 DEF Sweep, Keep, store
  <2>2. QED
    BY Zenon, <2>1 DEF Swept
<1>3. CASE WalkCutShort
  BY Zenon, <1>3 DEF WalkCutShort, Swept, store
<1>4. CASE UNCHANGED <<files, cutoffFiles, toSweep, unswept, mimes, pruning>>
  BY Zenon, <1>4 DEF Swept
<1>5. ASSUME NEW i \in Items, PlaceBytes(i)
      PROVE  FALSE
  BY Zenon, <1>5 DEF PlaceBytes, IInv, Exclusive, prune
<1>6. ASSUME \/ \E i \in Items, h \in Hashes, s \in BOOLEAN : Acquire(i, h, s)
             \/ \E i \in Items : Lock(i) \/ PutImage(i) \/ PutItemArtwork(i)
                                 \/ AcquireFails(i) \/ ClearItem(i) \/ EntityChanges(i)
             \/ \E f \in Files : FileAges(f)
             \/ \E h \in Hashes : RowAges(h)
             \/ UNCHANGED vars
      PROVE  UNCHANGED <<files, cutoffFiles, toSweep, unswept, mimes, pruning>>
  BY Zenon, <1>6
  DEF Acquire, Lock, PutImage, PutItemArtwork, AcquireFails, ClearItem, EntityChanges,
              FileAges, RowAges, vars, store, prune
<1>7. CASE Restart \/ RunPrune \/ PurgeDanglingItems \/ PurgeOrphans \/ PruneEnds \/ PruneFails
  BY Zenon, <1>7 DEF Restart, RunPrune, PurgeDanglingItems, PurgeOrphans, PruneEnds, PruneFails,
              PruneReturns
<1>8. QED
  BY Zenon, <1>1, <1>2, <1>3, <1>4, <1>5, <1>6, <1>7 DEF Next

\* A prune that completes has reclaimed every file older than its cutoff that no row
\* speaks for, whatever was acquired, cleared or removed while it ran, but for the
\* files that it could not remove or that its walk did not reach.
THEOREM PruneReclaimsAll == Spec => PruneReclaims
<1>1. Init => Swept
  BY Zenon DEF Init, Swept
<1>2. IInv /\ Swept /\ [Next]_vars
        => [PruneEnds => \A f \in (files \cap cutoffFiles) \ unswept : mime[f[1]] = f[2]]_vars
  <2> SUFFICES ASSUME IInv, Swept, PruneEnds
               PROVE  \A f \in (files \cap cutoffFiles) \ unswept : mime[f[1]] = f[2]
    BY Zenon
  <2>1. QED
    BY Zenon DEF PruneEnds, Swept, IInv, MimesCurrent
<1>3. QED
  BY <1>1, <1>2, InitIInv, IInvStep, SweptStep, PTL DEF Spec, PruneReclaims

-----------------------------------------------------------------------------
(* The circuit breaker. *)
USE BreakerAssumption

LEMMA DelayPositive ==
  ASSUME probeAfter \in Nat
  PROVE  ProbeDelay \in Nat \ {0}
BY Zenon DEF ProbeDelay

\* Types are preserved by every step of allow() and record().
THEOREM BreakerTypes == BreakerSpec => []BreakerTypeOK
<1>1. BreakerInit => BreakerTypeOK
  BY DEF BreakerInit, BreakerTypeOK
<1>2. BreakerTypeOK /\ [BreakerNext]_breakerVars => BreakerTypeOK'
  <2> SUFFICES ASSUME BreakerTypeOK, [BreakerNext]_breakerVars PROVE BreakerTypeOK'
    BY Zenon
  <2> USE DEF BreakerTypeOK, bvars
  <2>1. ASSUME NEW c \in Callers, AllowClosed(c) PROVE BreakerTypeOK'
    BY <2>1 DEF AllowClosed
  <2>2. ASSUME NEW c \in Callers, AllowProbe(c) PROVE BreakerTypeOK'
    BY <2>2 DEF AllowProbe
  <2>3. ASSUME NEW c \in Callers, Refuse(c) PROVE BreakerTypeOK'
    BY Zenon, <2>3 DEF Refuse, breakerVars
  <2>4. ASSUME NEW c \in Callers, Cancelled(c) PROVE BreakerTypeOK'
    BY Zenon, <2>4 DEF Cancelled, Done
  <2>5. ASSUME NEW c \in Callers, RecordTransient(c) PROVE BreakerTypeOK'
    BY <2>5 DEF RecordTransient, Done
  <2>6. ASSUME NEW c \in Callers, RecordAnswer(c) PROVE BreakerTypeOK'
    BY <2>6 DEF RecordAnswer, Done
  <2>7. ASSUME NEW c \in Callers, NEW d \in RetryDelays, RecordRetryLater(c, d)
        PROVE  BreakerTypeOK'
    BY <2>7 DEF RecordRetryLater, Done
  <2>8. CASE Tick
    BY <2>8 DEF Tick
  <2>9. CASE UNCHANGED breakerVars
    BY Zenon, <2>9 DEF breakerVars
  <2> QED
    BY Zenon, <2>1, <2>2, <2>3, <2>4, <2>5, <2>6, <2>7, <2>8, <2>9 DEF BreakerNext
<1> QED
  BY <1>1, <1>2, PTL DEF BreakerSpec

-----------------------------------------------------------------------------
\* Adding an element to a finite set adds at most one to its size.
LEMMA OneMoreAtMost ==
  ASSUME NEW S, NEW T, NEW x, IsFiniteSet(S), T = S \cup {x}
  PROVE  Cardinality(T) \in Nat /\ Cardinality(T) <= Cardinality(S) + 1
<1>1. Cardinality(S) \in Nat
  BY Zenon, FS_CardinalityType
<1>2. Cardinality(T) = IF x \in S THEN Cardinality(S) ELSE Cardinality(S) + 1
  BY FS_AddElement, Zenon
<1> QED
  BY <1>1, <1>2

\* The probes in flight are a finite set, so counting them makes sense.
LEMMA ProbesFinite == IsFiniteSet(InFlightProbes) /\ Cardinality(InFlightProbes) \in Nat
<1>1. InFlightProbes \in SUBSET Callers
  BY Zenon DEF InFlightProbes
<1> QED
  BY Zenon, <1>1, FS_Subset, FS_CardinalityType

\* Ending the call of c removes at most c from the probes of the episode.
LEMMA ProbesAfterDone ==
  ASSUME BreakerTypeOK, NEW c \in Callers, Done(c), generation' = generation
  PROVE  Cardinality(InFlightProbes') =
           IF c \in InFlightProbes THEN Cardinality(InFlightProbes) - 1 ELSE Cardinality(InFlightProbes)
<1>1. InFlightProbes' = InFlightProbes \ {c}
  BY Zenon DEF BreakerTypeOK, Done, InFlightProbes, IsEvidence
<1> QED
  BY Zenon, <1>1, ProbesFinite, FS_RemoveElement

\* No call in flight belongs to an episode that has only just begun.
LEMMA NewEpisodeHasNoProbe ==
  ASSUME BreakerTypeOK, NEW c \in Callers, Done(c), generation' = generation + 1
  PROVE  Cardinality(InFlightProbes') = 0
<1>1. InFlightProbes' = {}
  BY DEF BreakerTypeOK, Done, InFlightProbes, IsEvidence
<1> QED
  BY Zenon, <1>1, FS_EmptySet

\* Two facts of arithmetic that the windows rest on.
LEMMA OneMoreWindow ==
  ASSUME NEW n \in Nat, NEW d \in Nat
  PROVE  (n + 1) * d = n * d + d /\ n * d \in Nat
OBVIOUS

LEMMA WindowsMonotone ==
  ASSUME NEW m \in Nat, NEW n \in Nat, NEW d \in Nat, m <= n
  PROVE  m * d <= n * d
OBVIOUS

-----------------------------------------------------------------------------
\* One step of allow() or record() preserves the episode invariant.
LEMMA EpisodeStep == BreakerTypeOK /\ EpisodeInv /\ [BreakerNext]_breakerVars => EpisodeInv'
<1> SUFFICES ASSUME BreakerTypeOK, EpisodeInv, [BreakerNext]_breakerVars PROVE EpisodeInv'
  BY Zenon
<1> USE DEF EpisodeInv
<1>d. ProbeDelay \in Nat \ {0}
  BY Zenon, DelayPositive DEF BreakerTypeOK
<1>n. Cardinality(InFlightProbes) \in Nat
  BY Zenon, ProbesFinite
<1>1. ASSUME NEW c \in Callers, AllowClosed(c) PROVE EpisodeInv'
  <2>1. InFlightProbes' = InFlightProbes
    BY Zenon, <1>1 DEF AllowClosed, InFlightProbes, IsEvidence, bvars, BreakerTypeOK
  <2> QED
    BY Zenon, <1>1, <2>1 DEF AllowClosed, bvars, CountedOncePerProbe, WindowPerProbe,
       BackoffPending, ProbeDelay, Open
<1>2. ASSUME NEW c \in Callers, AllowProbe(c) PROVE EpisodeInv'
  <2> USE <1>2 DEF AllowProbe
  <2>1. InFlightProbes' \in {InFlightProbes, InFlightProbes \cup {c}}
    BY Zenon DEF InFlightProbes, IsEvidence, BreakerTypeOK
  <2>2. Cardinality(InFlightProbes') \in Nat
        /\ Cardinality(InFlightProbes') <= Cardinality(InFlightProbes) + 1
    <3>1. CASE InFlightProbes' = InFlightProbes
      BY <1>n, <3>1
    <3>2. CASE InFlightProbes' = InFlightProbes \cup {c}
      BY Zenon, <3>2, ProbesFinite, OneMoreAtMost
    <3> QED
      BY Zenon, <2>1, <3>1, <3>2
  <2>4. probes' = probes + 1 /\ episodeStart' = episodeStart
    BY Zenon DEF BreakerTypeOK
  <2>5. CountedOncePerProbe'
    BY <1>n, <2>2, <2>4 DEF CountedOncePerProbe, BreakerTypeOK
  <2>6. WindowPerProbe'
    <3>1. ProbeDelay' = ProbeDelay
      BY Zenon DEF ProbeDelay
    <3>2. probes \in Nat
      BY Zenon DEF BreakerTypeOK
    <3>3. (probes + 1) * ProbeDelay = probes * ProbeDelay + ProbeDelay
          /\ probes * ProbeDelay \in Nat
      BY Zenon, <1>d, <3>2, OneMoreWindow
    <3> QED
      BY <1>d, <2>4, <3>1, <3>3 DEF WindowPerProbe, BreakerTypeOK
  <2>7. now >= notBefore
    BY <1>d DEF BackoffPending, BreakerTypeOK
  <2> QED
    BY <2>5, <2>6, <2>7 DEF BackoffPending, BreakerTypeOK
<1>3. ASSUME NEW c \in Callers, Refuse(c) PROVE EpisodeInv'
  BY Zenon, <1>3
  DEF Refuse, breakerVars, bvars, CountedOncePerProbe, WindowPerProbe, BackoffPending,
     InFlightProbes, IsEvidence, ProbeDelay, Open
<1>4. ASSUME NEW c \in Callers, Cancelled(c) PROVE EpisodeInv'
  <2>1. Cardinality(InFlightProbes') \in Nat /\ Cardinality(InFlightProbes') <= Cardinality(InFlightProbes)
    BY <1>4, <1>n, ProbesAfterDone, ProbesFinite, FS_EmptySet DEF Cancelled, bvars
  <2> QED
    BY <1>4, <1>n, <2>1 DEF Cancelled, bvars, CountedOncePerProbe, WindowPerProbe,
       BackoffPending, ProbeDelay, Open, BreakerTypeOK
<1>5. ASSUME NEW c \in Callers, RecordTransient(c) PROVE EpisodeInv'
  <2>1. CASE failures' = breakerThreshold
    <3>1. Cardinality(InFlightProbes') = 0
      BY Zenon, <1>5, <2>1, NewEpisodeHasNoProbe DEF RecordTransient
    <3>2. now >= notBefore
      BY <1>5, <2>1 DEF RecordTransient, BackoffPending, Open, BreakerTypeOK
    <3> QED
      BY <1>5, <2>1, <3>1, <3>2 DEF RecordTransient, CountedOncePerProbe, WindowPerProbe,
         BackoffPending, ProbeDelay, Open, BreakerTypeOK
  <2>2. CASE failures' # breakerThreshold
    <3>1. Cardinality(InFlightProbes') <= Cardinality(InFlightProbes)
      BY <1>5, <1>n, <2>2, ProbesAfterDone DEF RecordTransient
    <3>2. Cardinality(InFlightProbes') \in Nat
      BY <1>5, <1>n, <2>2, ProbesAfterDone, ProbesFinite, FS_EmptySet DEF RecordTransient
    <3>3. CountedOncePerProbe'
      BY <1>5, <1>n, <2>2, <3>1, <3>2 DEF RecordTransient, CountedOncePerProbe, BreakerTypeOK
    <3>4. WindowPerProbe' /\ BackoffPending'
      BY <1>5, <2>2 DEF RecordTransient, WindowPerProbe, BackoffPending, ProbeDelay, Open,
         BreakerTypeOK
    <3> QED
      BY Zenon, <3>3, <3>4
  <2> QED
    BY Zenon, <2>1, <2>2
<1>6. ASSUME NEW c \in Callers, RecordAnswer(c) PROVE EpisodeInv'
  <2>1. c \in InFlightProbes => Cardinality(InFlightProbes) >= 1
    BY <1>n, ProbesFinite, FS_EmptySet
  <2>2. Cardinality(InFlightProbes') =
          IF c \in InFlightProbes THEN Cardinality(InFlightProbes) - 1 ELSE Cardinality(InFlightProbes)
    BY Zenon, <1>6, ProbesAfterDone DEF RecordAnswer
  <2>3. c \in InFlightProbes <=> IsEvidence(calls[c])
    BY Zenon, <1>6 DEF RecordAnswer, InFlightProbes
  <2>4. CountedOncePerProbe'
    BY <1>6, <1>n, <2>1, <2>2, <2>3 DEF RecordAnswer, CountedOncePerProbe, BreakerTypeOK
  <2>5. WindowPerProbe'
    BY Zenon, <1>6 DEF RecordAnswer, WindowPerProbe, ProbeDelay
  <2>6. BackoffPending'
    <3>1. CASE now >= notBefore
      BY <1>6, <3>1 DEF RecordAnswer, BackoffPending, BreakerTypeOK
    <3>2. CASE now < notBefore
      <4>1. Open /\ probes = 0
        BY Zenon, <3>2 DEF BackoffPending
      <4>2. ~IsEvidence(calls[c])
        BY <1>n, <2>1, <2>3, <4>1 DEF CountedOncePerProbe, BreakerTypeOK
      <4> QED
        BY Zenon, <1>6, <4>1, <4>2 DEF RecordAnswer, BackoffPending, Open, ProbeDelay
    <3> QED
      BY <3>1, <3>2 DEF BreakerTypeOK
  <2> QED
    BY Zenon, <2>4, <2>5, <2>6
<1>7. ASSUME NEW c \in Callers, NEW d \in RetryDelays, RecordRetryLater(c, d)
      PROVE  EpisodeInv'
  <2>1. Cardinality(InFlightProbes') = 0
    BY Zenon, <1>7, NewEpisodeHasNoProbe DEF RecordRetryLater
  <2> QED
    BY <1>7, <2>1 DEF RecordRetryLater, CountedOncePerProbe, WindowPerProbe,
       BackoffPending, ProbeDelay, Open, BreakerTypeOK
<1>8. CASE Tick
  BY <1>8 DEF Tick, bvars, CountedOncePerProbe, WindowPerProbe, BackoffPending,
     InFlightProbes, IsEvidence, ProbeDelay, Open, BreakerTypeOK
<1>9. CASE UNCHANGED breakerVars
  BY Zenon, <1>9 DEF breakerVars, bvars, CountedOncePerProbe, WindowPerProbe, BackoffPending,
     InFlightProbes, IsEvidence, ProbeDelay, Open
<1> QED
  BY Zenon, <1>1, <1>2, <1>3, <1>4, <1>5, <1>6, <1>7, <1>8, <1>9 DEF BreakerNext

\* Counted answers, probe windows and back-offs stay in step for ever.
THEOREM EpisodeInvariant == BreakerSpec => []EpisodeInv
<1>1. BreakerInit => EpisodeInv
  <2>1. BreakerInit => InFlightProbes = {}
    BY Zenon DEF BreakerInit, InFlightProbes
  <2> QED
    <3>1. BreakerInit => CountedOncePerProbe
      BY <2>1, FS_EmptySet DEF BreakerInit, CountedOncePerProbe
    <3>2. BreakerInit => WindowPerProbe /\ BackoffPending
      BY DEF BreakerInit, WindowPerProbe, BackoffPending, ProbeDelay
    <3> QED
      BY Zenon, <3>1, <3>2 DEF EpisodeInv
<1> QED
  BY <1>1, EpisodeStep, BreakerTypes, PTL DEF BreakerSpec

\* record() closes an open breaker only after breakerRecoveries whole windows of
\* the current episode, however many callers answer late.
THEOREM ClosesOnlyAfterWindows == BreakerSpec => ClosesAfterProbeWindows
<1>1. BreakerTypeOK /\ EpisodeInv /\ [BreakerNext]_breakerVars
        => [Open /\ ~Open' => now - episodeStart >= breakerRecoveries * ProbeDelay]_breakerVars
  <2> SUFFICES ASSUME BreakerTypeOK, EpisodeInv, [BreakerNext]_breakerVars, Open, ~Open'
               PROVE  now - episodeStart >= breakerRecoveries * ProbeDelay
    BY Zenon
  <2>1. PICK c \in Callers : RecordAnswer(c)
    BY DEF BreakerNext, AllowClosed, AllowProbe, Refuse, Cancelled, RecordTransient,
       RecordRetryLater, Tick, breakerVars, bvars, Open, BreakerTypeOK
  <2>2. IsEvidence(calls[c]) /\ recoveries + 1 >= breakerRecoveries
    BY <2>1 DEF RecordAnswer, Open, BreakerTypeOK
  <2>3. c \in InFlightProbes
    BY Zenon, <2>1, <2>2 DEF RecordAnswer, InFlightProbes
  <2>4. Cardinality(InFlightProbes) \in Nat \ {0}
    BY Zenon, <2>3, ProbesFinite, FS_EmptySet
  <2>5. breakerRecoveries <= probes
    BY <2>2, <2>4 DEF EpisodeInv, CountedOncePerProbe, BreakerTypeOK
  <2>6. ProbeDelay \in Nat /\ probes \in Nat /\ breakerRecoveries \in Nat
    BY Zenon, DelayPositive DEF BreakerTypeOK
  <2>7. /\ breakerRecoveries * ProbeDelay <= probes * ProbeDelay
        /\ breakerRecoveries * ProbeDelay \in Nat /\ probes * ProbeDelay \in Nat
    BY Zenon, <2>5, <2>6, WindowsMonotone, OneMoreWindow
  <2> QED
    BY <2>7 DEF EpisodeInv, WindowPerProbe, BreakerTypeOK
<1> QED
  BY <1>1, BreakerTypes, EpisodeInvariant, PTL DEF BreakerSpec, ClosesAfterProbeWindows

\* allow() admits no call before the end of the last back-off the provider asked
\* for, whatever calls were in flight when it asked.
THEOREM BackoffIsHonoured == BreakerSpec => BackoffHonoured
<1>1. BreakerTypeOK /\ EpisodeInv /\ [BreakerNext]_breakerVars
        => [\A c \in Callers : calls[c] = Idle /\ calls'[c] # Idle => now >= notBefore]_breakerVars
  <2> SUFFICES ASSUME BreakerTypeOK, EpisodeInv, [BreakerNext]_breakerVars,
                      NEW c \in Callers, calls[c] = Idle, calls'[c] # Idle
               PROVE  now >= notBefore
    BY Zenon
  <2>1. AllowClosed(c) \/ AllowProbe(c)
    BY Zenon DEF BreakerNext, AllowClosed, AllowProbe, Refuse, Cancelled, RecordTransient,
       RecordAnswer, RecordRetryLater, Tick, Done, breakerVars, bvars, BreakerTypeOK
  <2>2. ProbeDelay \in Nat
    BY Zenon, DelayPositive DEF BreakerTypeOK
  <2> QED
    BY <2>1, <2>2 DEF AllowClosed, AllowProbe, EpisodeInv, BackoffPending, BreakerTypeOK
<1> QED
  BY <1>1, BreakerTypes, EpisodeInvariant, PTL DEF BreakerSpec, BackoffHonoured
=============================================================================
