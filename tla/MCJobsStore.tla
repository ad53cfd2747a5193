---------------------------- MODULE MCJobsStore ----------------------------
(***************************************************************************)
(* Small instances of JobsStore: one job and two tasks.                    *)
(***************************************************************************)
EXTENDS JobsStore

CONSTANTS clean, t1, t2

\* Two tasks of clean; the first finishes, runs again and finishes.
TwoTasks == {t1, t2}
OfClean == [t \in TwoTasks |-> clean]
Reruns == [t \in TwoTasks |-> IF t = t1 THEN <<"Running", "Finished", "Running", "Finished">>
                                        ELSE <<"Running", "Error">>]
Starts == [t \in TwoTasks |-> IF t = t1 THEN 1 ELSE 2]

\* Both finish, so that the older one may be pruned.
Both == [t \in TwoTasks |-> <<"Running", "Finished">>]
=============================================================================
