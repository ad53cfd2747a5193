------------------------------- MODULE MCTimer -------------------------------
(***************************************************************************)
(* Small instances of Timer: intervals of 2, so that a goroutine may be    *)
(* late by half an interval, by a whole one and by more.                   *)
(***************************************************************************)
EXTENDS Timer

Sched(s, i, r) == [start |-> s, interval |-> i, repeat |-> r]

\* Once more after the first tick; and also for ever, or a single shot.
Twice == {Sched(3, 2, 1)}
Mixed == {Sched(2, 2, 0), Sched(3, 2, 1), Sched(3, 0, 1)}
=============================================================================
