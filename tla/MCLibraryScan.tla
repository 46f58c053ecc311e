---------------------------- MODULE MCLibraryScan ----------------------------
(* Instances of LibraryScan: library a with a root and a folder below it, and *)
(* library b with a root only.                                                *)
EXTENDS LibraryScan

CONSTANTS a, b, root, sub, other

TwoLibs == [f \in {root, sub, other} |-> IF f = other THEN b ELSE a]
OneLib == [f \in {root, sub} |-> a]
Tree == [f \in {root, sub, other} |-> IF f = sub THEN root ELSE NoFolder]
SmallTree == [f \in {root, sub} |-> IF f = sub THEN root ELSE NoFolder]
=============================================================================
