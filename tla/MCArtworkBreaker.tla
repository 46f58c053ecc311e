-------------------------- MODULE MCArtworkBreaker --------------------------
(* Three concurrent callers against a breaker that opens after two errors  *)
(* and closes after two answered probes.                                   *)
EXTENDS ArtworkBreaker, TLC

Symmetry == Permutations(Callers)
=============================================================================
