---------------------------- MODULE MCDispatcher ----------------------------
(***************************************************************************)
(* A small instance of Dispatcher: one job with two workers, a trigger for *)
(* one of two runnables, and an action chained to the first.               *)
(***************************************************************************)
EXTENDS Dispatcher

CONSTANTS clean, r1, r2, r3

OneJob == {clean}
Roots == [j \in OneJob |-> {r1, r2}]
Children == [r \in {r1, r2, r3} |-> IF r = r1 THEN {r3} ELSE {}]
Concurrency == [j \in OneJob |-> 2]
Once == [j \in OneJob |-> 1]
=============================================================================
