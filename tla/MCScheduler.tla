---------------------------- MODULE MCScheduler ----------------------------
(* Small instances of Scheduler for TLC. *)
EXTENDS PoolInvariant

CONSTANTS m, n, x   \* two mutexes and a memory location

OneMutex == {m}
TwoMutexes == {m, n}
NoLocation == {}
OneLocation == {x}
MutexAndLocation == {m, x}
AllObjects == {m, n, x}

NoSchedule == {<<>>}

\* A created thread has its turn while its creator could go on.
NoneOrPreempting == {<<>>, <<0, 1>>}

\* Schedules that fit a program, that name a thread which is blocked or has not
\* been created, and that end early.
SomeSchedules == {<<>>, <<0, 0, 1>>, <<0, 1, 1>>, <<0, 0, 0, 1>>}
=============================================================================
