--------------------------- MODULE MCArtworkStore ---------------------------
(* Instances of ArtworkStore: two items that may share an image.            *)
EXTENDS ArtworkStore, TLC

CONSTANTS i1, i2, h1, h2

Symmetry == Permutations({i1, i2}) \cup Permutations({h1, h2})
=============================================================================
