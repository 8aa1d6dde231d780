------------------------ MODULE SchedulerProperties ------------------------
(***************************************************************************)
(* What the scheduler promises.                                            *)
(***************************************************************************)
EXTENDS Scheduler

\* While the scheduler thread is in a round, no thread of the program is inside
\* an operation of the pool, or can enter one: the rounds read mCurrentTask and
\* mTasks without mMutex, and the comment on Scheduler::run says that this "is
\* not checked/enforced".
RoundExclusive ==
    spc \in Round =>
        \A t \in Thread : pc[t] \in {"unborn", "waiting", "leaving", "exited"}

\* Can the instruction be performed at once?  The truth about the program, which
\* the pool mirrors in its wait sets.
CanPerform(instr) ==
    /\ instr.op = "Lock" => owner[instr.operand] = NoThread
    /\ instr.op = "Join" => pc[instr.operand] \in {"leaving", "exited"}

\* In a round the status of a thread is ENABLED iff its posted instruction can be
\* performed: no deadlock is reported of a program that can go on, and none is
\* missed.  The status was computed by other threads, as they posted, yielded
\* and finished (update_object_post, update_object_yield, finish).
StatusAccurate ==
    spc \in Round =>
        \A t \in Thread :
            mTasks[t] # NoTask =>
                (mThreads[t] = "ENABLED" <=> CanPerform(mTasks[t]))

\* In a round the pool holds a mutex for locked (object_state::m_current = 1) iff
\* some thread of the program holds it.
MutexMirrored ==
    spc \in Round =>
        \A m \in Mutexes : mObjects[m].current = 1 <=> owner[m] # NoThread

\* A controlled thread performs a visible instruction only in its turn: it is
\* the current task.  Two threads never perform visible instructions together.
OnlyCurrentPerforms ==
    \A t \in Thread :
        pc[t] = "executing" /\ RunsControlled => call[t] = mCurrentTask

\* An instruction that was granted does not block in the program, where the
\* scheduler would wait for its thread and the thread for another one.
GrantedNeverBlocks ==
    \A t \in Thread :
        pc[t] = "executing" /\ RunsControlled => CanPerform(call[t])

\* No assertion fails and no exception escapes: a thread posts one instruction
\* at a time, requests and performs it once, and the execution that close
\* finishes has a transition.
NoFailure == ~ failed

\* When a thread is selected, the recorded execution has one transition for each
\* instruction the program has performed, the last of them the current task;
\* and so has the execution of a program that ran to its end.
RecordComplete ==
    /\ spc \in {"select", "dispatch", "current"} =>
          recorded.nr = performed /\ recorded.last = mCurrentTask
    /\ mStatus = "DONE" => recorded.nr = performed /\ recorded.last = mCurrentTask

\* The recorded states and transitions fit: a transition is the next instruction of its
\* thread in the state it starts in, which is enabled there, and the threads that waited
\* besides it wait with the same instructions in the state it ends in.  The last
\* transition of a deadlock is the one that is not enabled.
RecordedTransitions ==
    [][recorded'.nr > recorded.nr =>
         LET t == recorded'.last.tid
             pre == recorded.final
             post == recorded'.final
         IN  /\ pre.next[t] = recorded'.last
             /\ t \in pre.enabled <=> mStatus' # "DEADLOCK"
             /\ \A u \in Thread \ {t} :
                    pre.next[u] # NoTask => post.next[u] = pre.next[u]]_vars

\* An execution is DONE only when every thread that was created has returned
\* from its first function, with everything it announced performed.
DoneMeansFinished ==
    mStatus = "DONE" =>
        \A t \in Thread : pc[t] \in {"unborn", "leaving", "exited"}

\* A thread that has finished stays so, although joiners are never taken out of
\* the wait set of a thread_state, and Unlock enables whoever waits.
FinishedForever ==
    [][\A t \in Thread : mThreads[t] = "FINISHED" => mThreads'[t] = "FINISHED"]_vars

\* NonPreemptive: beyond the schedule another thread is selected only if the
\* current one is blocked, or has finished.
NoPreemption ==
    [][ /\ strategy = "NonPreemptive"
        /\ spc = "select" /\ spc' = "dispatch"
        /\ mTaskNr >= Len(schedule) /\ mTaskNr > 0
        =>
          LET cur == mCurrentTask.tid
          IN  selected' = cur \/ mTasks[cur] = NoTask \/ ~ CanPerform(mTasks[cur])
      ]_vars

\* Every execution is brought to an end: the scheduler detects that it is done or
\* in a deadlock, and main returns or the process is terminated.
Terminates == <>Ended

\* After an error the threads that wait for their turn are released (the note on
\* report_error).
ErrorReleases ==
    \A t \in Thread :
        mStatus = "ERROR" /\ pc[t] = "waiting" ~> pc[t] # "waiting" \/ Ended
-----------------------------------------------------------------------------
(***************************************************************************)
(* The scheduler implements TurnTaking.                                    *)
(***************************************************************************)

\* A thread has its turn from set_current until it has performed its instruction.
StageOf(t) ==
    CASE pc[t] = "unborn" -> "unborn"
      [] pc[t] \in {"leaving", "exited"} -> "ended"
      [] pc[t] = "executing" \/ (pc[t] = "waiting" /\ mTasks[t] = NoTask) -> "granted"
      [] \/ pc[t] \in {"announced", "yielding", "in_yield", "yielded", "in_post",
                       "enabling", "disabling"}
         \/ pc[t] = "waiting" /\ mTasks[t] # NoTask -> "waiting"
      [] OTHER -> "busy"

\* The variables of TurnTaking, as functions of those of the scheduler.
stageBar == [t \in Thread |-> StageOf(t)]

taskBar ==
    [t \in Thread |-> IF StageOf(t) \in {"waiting", "granted"} THEN call[t] ELSE NoTask]

nextTidBar == IF mNrRegistered = 0 THEN 1 ELSE mNrRegistered
recordedBar == [nr |-> recorded.nr, last |-> recorded.last]
unrecordedBar == IF performed > recorded.nr THEN mCurrentTask ELSE NoTask

Turns == INSTANCE TurnTaking WITH
    stage      <- stageBar,
    task       <- taskBar,
    nextTid    <- nextTidBar,
    holder     <- owner,
    status     <- mStatus,
    recorded   <- recordedBar,
    unrecorded <- unrecordedBar

\* Whatever its threads do inside the pool, the scheduler takes turns as TurnTaking
\* says: a thread is chosen only if its instruction can be performed, when all the
\* others have announced theirs; each instruction is recorded once, before the next
\* choice; and a deadlock, or the end, is reported only of a program that is there.
ImplementsTurnTaking == Turns!TurnSpec
-----------------------------------------------------------------------------
(***************************************************************************)
(* What comments and documentation say, and the code does not keep.        *)
(***************************************************************************)

\* task_pool.cpp: as soon as a thread is finished, those that wait for a join
\* "are enabled and remain enabled".
JoinersEnabled ==
    \A t, u \in Thread :
        /\ mThreads[u] = "FINISHED"
        /\ pc[t] = "waiting"
        /\ mTasks[t] # NoTask
        /\ mTasks[t].op = "Join" /\ mTasks[t].operand = u
        => mThreads[t] = "ENABLED"

\* task_pool.hpp: the locking "allows threads to safely operate on its data
\* concurrently": no two threads wait for each other's mutex of the pool.
NoLockCycle ==
    ~ \E t, u \in Thread :
         /\ t # u
         /\ mMutex = t
         /\ \/ pc[t] \in {"in_yield", "in_exit_yield", "reg_state"}
            \/ pc[t] = "in_post" /\ call[t].op # "Spawn"
         /\ mObjectsMutex = u
         /\ pc[u] = "in_finish"

\* object_state.hpp: get_data_races returns the instructions posted for the object
\* that form a data race with the given one, which MemoryRaces does.  So when two
\* threads have posted conflicting accesses, m_data_races has the pair.
DataRacesFound ==
    \A t, u \in Thread :
        /\ t # u
        /\ pc[t] = "waiting" /\ mTasks[t] # NoTask /\ mTasks[t].op \in MemoryOp
        /\ pc[u] = "waiting" /\ mTasks[u] # NoTask
        /\ <<mTasks[u], mTasks[t]>> \in MemoryRaces(mObjects[mTasks[t].operand],
                                                   mTasks[t])
        => {<<mTasks[t], mTasks[u]>>, <<mTasks[u], mTasks[t]>>} \cap mDataRaces # {}
=============================================================================
