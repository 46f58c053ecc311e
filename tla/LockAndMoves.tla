---------------------------- MODULE LockAndMoves -----------------------------
(***************************************************************************)
(* The scan lock, ScanMaintenance, and the phase of a scan that moves      *)
(* tracks, MovedTracks, side by side.  They share no state: the phase runs *)
(* inside a scan, and what it is exposed to comes from another process,    *)
(* which the lock does not keep out.  So a behaviour runs one of the two,  *)
(* which part names; the other stays as it began.                          *)
(***************************************************************************)
EXTENDS ScanMaintenance, PhaseTwo

VARIABLE part

all == <<part, vars, movesVars>>

\* The phase begins with the tracks as any first phase may leave them.
PartsInit ==
  /\ part \in {"lock", "moves"} /\ Init /\ Moves!Init
  /\ part = "moves" \/ (files = TrackIDs /\ tags = CHOOSE k \in Contents : TRUE)

PartsNext ==
  \/ part = "lock" /\ Next /\ UNCHANGED <<part, movesVars>>
  \/ part = "moves" /\ Moves!Next /\ UNCHANGED <<part, vars>>

\* Only the lock has liveness properties.
PartsSpec == PartsInit /\ [][PartsNext]_all /\ (part = "moves" \/ Fairness)
=============================================================================
