------------------------------ MODULE Selector ------------------------------
(***************************************************************************)
(* The choice of the next thread (scheduler/selector.hpp and               *)
(* scheduler/strategies): the schedule decides as long as it lasts, then a *)
(* strategy among the enabled threads.  The strategy "Random" stands for   *)
(* any choice a strategy may make.                                         *)
(***************************************************************************)
EXTENDS TaskPool, Sequences

Strategy == {"Random", "NonPreemptive"}

\* Mutant of NonPreemptiveChoices: it never looks at the current task.
NonPreemptiveFirst(enabled, taskNr) ==
    {t \in enabled : \A u \in enabled : t <= u}

\* NonPreemptive::select: the current thread if it is enabled, else the first.
NonPreemptiveChoices(enabled, taskNr) ==
    IF taskNr > 0 /\ mCurrentTask.tid \in enabled
    THEN {mCurrentTask.tid}
    ELSE {t \in enabled : \A u \in enabled : t <= u}

StrategyChoices(strategy, enabled, taskNr) ==
    IF strategy = "NonPreemptive" THEN NonPreemptiveChoices(enabled, taskNr)
    ELSE enabled

\* Selector::select has an entry of the schedule for this task.
Scheduled(schedule, taskNr) == taskNr < Len(schedule)

\* schedule[task_nr], with indices from 0 as in the code.
ScheduleEntry(schedule, taskNr) == schedule[taskNr + 1]

\* Selector::select throws a deadlock_exception.
SelectsDeadlock == PostedSet # {} /\ EnabledSet = {}
=============================================================================
