------------------------------ MODULE MCWatcher ------------------------------
(* An instance of Watcher: two folders, each in a library of its own.       *)
EXTENDS Watcher

CONSTANTS a, b, x, y

TwoLibs == [f \in {x, y} |-> IF f = x THEN a ELSE b]
=============================================================================
