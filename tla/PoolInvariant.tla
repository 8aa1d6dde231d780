--------------------------- MODULE PoolInvariant ---------------------------
(***************************************************************************)
(* PoolInv, the inductive invariant behind MutexMirrored, StatusAccurate,  *)
(* GrantedNeverBlocks, NoFailure and FinishedForever: what the wait sets   *)
(* and the statuses of the pool owe to the program.  It holds for any      *)
(* program; what needs EagerExit = FALSE says so.                          *)
(***************************************************************************)
EXTENDS SchedulerInvariant

\* Between two posts of the thread of the current task, with its TaskPool::yield still
\* to come: the current task is then still in its wait set.
BeforeYield ==
    {"executing", "running", "announced", "yielding", "in_yield", "returned",
     "exit_yielding", "in_exit_yield"}

\* The thread has the turn: its task was taken from mTasks, and is not performed yet.
Granted(t) == pc[t] = "executing" \/ (pc[t] = "waiting" /\ mTasks[t] = NoTask)

CurrentPending ==
    /\ mCurrentTask # NoTask
    /\ OnObject(mCurrentTask)
    /\ pc[mCurrentTask.tid] \in BeforeYield \/ Granted(mCurrentTask.tid)

\* The thread of the current task has been created, and goes on to registration only
\* from a creation.
CurrentPlace ==
    mCurrentTask # NoTask =>
        /\ pc[mCurrentTask.tid] \notin {"unborn", "born"}
        /\ pc[mCurrentTask.tid] \in Registering => mCurrentTask.op = "Spawn"

BornSilent == \A t \in Thread : pc[t] \in {"unborn", "born"} => call[t] = NoTask

\* A thread inside update_object_yield performed the current task, on an object.
InYieldCurrent ==
    \A t \in Thread : pc[t] \in {"in_yield", "in_exit_yield"} => YieldsCurrent(t)

InPostPosted ==
    \A t \in Thread :
        pc[t] \in {"in_post", "enabling", "disabling"} => mTasks[t] # NoTask

\* The posted instructions on objects that are requested, and the current one until
\* its yield.
Requested(instr) ==
    \/ mTasks[instr.tid] = instr /\ pc[instr.tid] \in {"enabling", "disabling", "waiting"}
    \/ mCurrentTask = instr /\ CurrentPending

\* The wait sets hold these, each with its object and its parity, and nothing else.
WaitSets ==
    \A o \in Objects : \A i \in {0, 1} : \A instr \in Instruction :
        instr \in mObjects[o].waiting[i] <=>
            /\ OnObject(instr) /\ instr.operand = o /\ OpType(instr) = i
            /\ Requested(instr)

\* The operand of an instruction is of the kind of its operation.
KindOK(instr) ==
    /\ instr.op \in LockOp => instr.operand \in Mutexes
    /\ instr.op \in MemoryOp => instr.operand \in Locations

OperandKinds ==
    /\ \A t \in Thread : pc[t] \in Announcing => KindOK(call[t])
    /\ mCurrentTask # NoTask => KindOK(mCurrentTask)

UnlockOwned ==
    \A t \in Thread :
        pc[t] \in Announcing /\ call[t].op = "Unlock" => owner[call[t].operand] = t

\* The parity of a mutex says whether it is held, except from the execution of a Lock
\* or an Unlock to the yield that follows.
MutexHeld ==
    \A m \in Mutexes :
        IF /\ CurrentPending
           /\ mCurrentTask.operand = m
           /\ ~ Granted(mCurrentTask.tid)
        THEN owner[m] = IF mCurrentTask.op = "Lock" THEN mCurrentTask.tid ELSE NoThread
        ELSE mObjects[m].current = 1 <=> owner[m] # NoThread

\* A thread is joined once, and its joiner is not past the join before the thread has
\* exited.
JoinsOnce ==
    /\ \A t, u \in Thread :
          t \in mThreadStates[u] =>
              /\ u \in joined
              /\ \/ pc[u] = "exited"
                 \/ /\ pc[t] \in {"enabling", "disabling", "waiting", "executing"}
                    /\ call[t].op = "Join" /\ call[t].operand = u
    /\ \A t \in Thread :
          pc[t] \in Announcing /\ call[t].op = "Join" =>
              /\ call[t].operand \in joined
              /\ pc[t] \in {"announced", "yielding", "in_yield", "yielded", "in_post"} =>
                    mThreadStates[call[t].operand] = {}
              /\ pc[t] \in {"enabling", "disabling", "waiting"} =>
                    t \in mThreadStates[call[t].operand]
    /\ \A t, u \in Thread :
          /\ pc[t] \in Announcing /\ call[t].op = "Join"
          /\ pc[u] \in Announcing /\ call[u].op = "Join"
          /\ t # u
          => call[t].operand # call[u].operand

\* What the pool takes for an instruction that can be performed.
Ready(instr) ==
    /\ instr.op = "Lock" => mObjects[instr.operand].current = 0
    /\ instr.op = "Join" => pc[instr.operand] \in {"in_finish", "leaving", "exited"}

\* The pool holds the posted instruction of the thread for one that can, or cannot, be
\* performed.
TakenEnabled(t) ==
    pc[t] = "enabling" \/ (pc[t] = "waiting" /\ mTasks[t] # NoTask /\ mThreads[t] = "ENABLED")

TakenDisabled(t) ==
    pc[t] = "disabling" \/ (pc[t] = "waiting" /\ mTasks[t] # NoTask /\ mThreads[t] # "ENABLED")

\* What enables a thread is true, and only of joiners may the truth be missed, if a
\* thread ends while another one runs.
Missed(instr) == EagerExit /\ instr.op = "Join"

StatusReady ==
    \A t \in Thread :
        /\ TakenEnabled(t) => Ready(call[t])
        /\ TakenDisabled(t) => ~ Ready(call[t]) \/ Missed(call[t])

GrantedCanPerform == \A t \in Thread : Granted(t) => CanPerform(call[t])

Exiting == {"returned", "exit_yielding", "in_exit_yield", "finishing", "in_finish"}

\* The other threads wait for a turn, have ended or are not created.
Alone(t) ==
    \A u \in Thread \ {t} :
        pc[u] \in {"unborn", "waiting", "leaving", "exited"} /\ ~ Granted(u)

\* After an instruction that creates no thread, up to the next one or to the end.
PastInstruction(t) ==
    pc[t] \in {"running"} \cup Exiting /\ call[t] # NoTask /\ call[t].op # "Spawn"

TurnsAlone == \A t \in Thread : Granted(t) \/ PastInstruction(t) => Alone(t)

\* Where a thread is and the status it has.
StatusPlace ==
    \A t \in Thread :
        /\ pc[t] \in {"leaving", "exited"} => mThreads[t] = "FINISHED"
        /\ pc[t] = "unborn" => ~ Registered(t)
        /\ pc[t] \in {"registering", "reg_thread"} => pc[call[t].operand] # "unborn"

\* Only main registers itself, with the first tid.
MainTakesFirst ==
    \A t \in Thread : pc[t] = "registering" /\ call[t].operand = t => mNrRegistered = 0

\* A thread that the strategy has chosen is enabled; otherwise the schedule names it.
\* There is a current task to choose by, after the first choice.
ChosenEnabled ==
    /\ spc = "select" /\ mTaskNr > 0 => mCurrentTask # NoTask
    /\ spc = "dispatch" /\ Scheduled(schedule, mTaskNr) =>
          selected = ScheduleEntry(schedule, mTaskNr)
    /\ spc = "dispatch" /\ ~ Scheduled(schedule, mTaskNr) => mThreads[selected] = "ENABLED"
    /\ spc = "current" => mThreads[selected] = "ENABLED"

\* Without EagerExit, threads end after an instruction of their own.
ExitsLate ==
    ~ EagerExit =>
        /\ \A t \in Thread : pc[t] \in Exiting => PastInstruction(t)
        /\ mTaskNr = 0 =>
              /\ pc[0] \notin Exiting \cup {"unborn", "born", "leaving", "exited"}
              /\ pc[0] = "running" => call[0].op = "Spawn"

PoolOpen ==
    /\ BornSilent
    /\ InYieldCurrent
    /\ CurrentPlace
    /\ InPostPosted
    /\ WaitSets
    /\ OperandKinds
    /\ UnlockOwned
    /\ MutexHeld
    /\ JoinsOnce
    /\ StatusReady
    /\ GrantedCanPerform
    /\ TurnsAlone
    /\ StatusPlace
    /\ MainTakesFirst
    /\ ChosenEnabled
    /\ ExitsLate

\* After an error no thread is inside the pool.
InPool ==
    {"yielding", "in_yield", "yielded", "in_post", "enabling", "disabling",
     "exit_yielding", "in_exit_yield", "finishing", "in_finish"}

ErrorSettled == mStatus = "ERROR" => \A t \in Thread : pc[t] \notin InPool

\* The scheduler thread has left its loop with a status, a deadlock was recorded, and so
\* was something of an execution that is done; an error is one of the schedule.
StatusFinal ==
    /\ spc \in {"close", "last", "closed", "terminated"} => mStatus # "RUNNING"
    /\ mStatus = "DEADLOCK" \/ (mStatus = "DONE" /\ ~ EagerExit) => recorded.nr > 0
    /\ mStatus = "ERROR" => Scheduled(schedule, mTaskNr)

\* The two ways to fail: the schedule names a thread that is not registered, and the
\* execution that close finishes has no transition.
FailureCause ==
    failed =>
        \/ /\ spc = "close" /\ mStatus = "ERROR"
           /\ Scheduled(schedule, mTaskNr)
           /\ ~ Registered(ScheduleEntry(schedule, mTaskNr))
        \/ spc \in {"closed", "terminated"} /\ recorded.nr = 0

PoolInv ==
    /\ RecordInv
    /\ ErrorSettled
    /\ StatusFinal
    /\ FailureCause
    /\ Open => PoolOpen
=============================================================================
