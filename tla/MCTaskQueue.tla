----------------------------- MODULE MCTaskQueue -----------------------------
(* Instances of TaskQueue: two queues that ask for two workers each, of   *)
(* which the plugin gets three in all, and two tasks in the first.            *)
EXTENDS TaskQueue

CONSTANTS q, r, t1, t2

FirstQueue == [t \in Tasks |-> q]
AskTwo == [x \in Queues |-> 2]
=============================================================================
