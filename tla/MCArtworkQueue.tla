--------------------------- MODULE MCArtworkQueue ---------------------------
(* Instances of ArtworkQueue: one item of either kind.                        *)
EXTENDS ArtworkQueue

CONSTANTS item, local

OnePool == [i \in Items |-> local]
=============================================================================
