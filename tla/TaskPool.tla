------------------------------ MODULE TaskPool ------------------------------
(***************************************************************************)
(* TaskPool (scheduler/task_pool.cpp): the instructions that the threads   *)
(* have posted, the status of the threads, and the wait sets that decide   *)
(* it.  Two mutexes guard it, mMutex and m_objects_mutex.                  *)
(*                                                                         *)
(* An operation is split into actions where another thread can interleave: *)
(* at each acquisition of a mutex while another one is held, and between   *)
(* two critical sections.  A critical section is one action if nothing it  *)
(* reads or writes is touched outside it.  The actions here change the     *)
(* variables of the pool; Scheduler says who takes them, and when.         *)
(***************************************************************************)
EXTENDS ObjectState

VARIABLES
    mThreads,       \* the status of each thread, "UNREGISTERED" if not in the map
    mTasks,         \* the posted instruction of each thread, or NoTask
    mCurrentTask,   \* the instruction last granted, or NoTask
    mObjects,       \* m_objects: the state of each object
    mThreadStates,  \* m_thread_states: who has requested a join of each thread
    mDataRaces,     \* m_data_races, as a set
    mMutex,         \* the thread that holds mMutex across steps, or NoThread
    mObjectsMutex   \* the thread that holds m_objects_mutex, or NoThread

poolVars == <<mThreads, mTasks, mCurrentTask, mObjects, mThreadStates,
              mDataRaces, mMutex, mObjectsMutex>>

Status == {"START", "ENABLED", "DISABLED", "FINISHED"}

PoolTypeOK ==
    /\ mThreads \in [Thread -> Status \cup {"UNREGISTERED"}]
    /\ mTasks \in [Thread -> Instruction \cup {NoTask}]
    /\ mCurrentTask \in Instruction \cup {NoTask}
    /\ mObjects \in [Objects -> ObjectState]
    /\ mThreadStates \in [Thread -> SUBSET Thread]
    /\ mDataRaces \subseteq Instruction \X Instruction
    /\ mMutex \in Thread \cup {NoThread}
    /\ mObjectsMutex \in Thread \cup {NoThread}

PoolInit ==
    /\ mThreads = [t \in Thread |-> "UNREGISTERED"]
    /\ mTasks = [t \in Thread |-> NoTask]
    /\ mCurrentTask = NoTask
    /\ mObjects = [o \in Objects |-> NewObject]
    /\ mThreadStates = [t \in Thread |-> {}]
    /\ mDataRaces = {}
    /\ mMutex = NoThread
    /\ mObjectsMutex = NoThread

Registered(t) == mThreads[t] # "UNREGISTERED"

WithStatus(ts, s) == [t \in Thread |-> IF t \in ts THEN s ELSE mThreads[t]]
-----------------------------------------------------------------------------
\* register_thread(c), called by t: the entry of c in mThreads (insert does not
\* overwrite one), then, with mMutex held, its thread_state, with no waiting
\* joiners as mThreadStates has it from the start.
RegisterThread(t, c) ==
    /\ mMutex = NoThread
    /\ mMutex' = t
    /\ mThreads' = IF Registered(c) THEN mThreads ELSE WithStatus({c}, "START")
    /\ UNCHANGED <<mTasks, mCurrentTask, mObjects, mThreadStates, mDataRaces,
                   mObjectsMutex>>

RegisterThreadState(t, c) ==
    /\ mMutex = t
    /\ mObjectsMutex = NoThread
    /\ mMutex' = NoThread
    /\ UNCHANGED <<mThreads, mTasks, mCurrentTask, mObjects, mThreadStates,
                   mDataRaces, mObjectsMutex>>
-----------------------------------------------------------------------------
\* thread_state::request(t) for a join of u.  Nothing calls thread_state::perform,
\* a joiner stays in the wait set.
JoinRequestThrows(t, u) == t \in mThreadStates[u]
JoinRequestReturns(u) == mThreads[u] = "FINISHED"

\* post(t, task): the task enters mTasks ...
PostThrows(t) == mTasks[t] # NoTask

PostTask(t, task) ==
    /\ mMutex = NoThread
    /\ mMutex' = t
    /\ mTasks' = [mTasks EXCEPT ![t] = task]
    /\ UNCHANGED <<mThreads, mCurrentTask, mObjects, mThreadStates, mDataRaces,
                   mObjectsMutex>>

\* ... update_object_post registers the request with the object or with the
\* thread to join, in a critical section of m_objects_mutex.  "enabled" is what
\* the local variable of that name holds when the section ends.
UpdateObjectPostThrows(t, task) ==
    \/ OnObject(task) /\ RequestThrows(mObjects[task.operand], task)
    \/ task.op = "Join" /\ JoinRequestThrows(t, task.operand)

UpdateObjectPost(t, task, enabled) ==
    \/ /\ OnObject(task)
       /\ mObjectsMutex = NoThread
       /\ mDataRaces' = mDataRaces
                          \cup DataRacesOfVariant(mObjects[task.operand], task)
       /\ enabled = RequestReturns(mObjects[task.operand], task)
       /\ mObjects' = [mObjects EXCEPT ![task.operand] = Request(@, task)]
       /\ UNCHANGED <<mThreads, mTasks, mCurrentTask, mThreadStates, mMutex,
                      mObjectsMutex>>
    \/ /\ task.op = "Join"
       /\ mObjectsMutex = NoThread
       /\ enabled = JoinRequestReturns(task.operand)
       /\ mThreadStates' = [mThreadStates EXCEPT ![task.operand] = @ \cup {t}]
       /\ UNCHANGED <<mThreads, mTasks, mCurrentTask, mObjects, mDataRaces,
                      mMutex, mObjectsMutex>>
    \/ /\ task.op = "Spawn"
       /\ enabled = TRUE
       /\ UNCHANGED poolVars

\* ... and the last statement sets the status of t, after which post notifies
\* mModified and releases mMutex.
PostStatus(t, enabled) ==
    /\ mMutex = t
    /\ mMutex' = NoThread
    /\ mThreads' = WithStatus({t}, IF enabled THEN "ENABLED" ELSE "DISABLED")
    /\ UNCHANGED <<mTasks, mCurrentTask, mObjects, mThreadStates, mDataRaces,
                   mObjectsMutex>>
-----------------------------------------------------------------------------
\* yield(t) has something to do iff t performed the current task, and
\* update_object_yield only if that was on an object.
YieldsCurrent(t) ==
    /\ mCurrentTask # NoTask
    /\ mCurrentTask.tid = t
    /\ OnObject(mCurrentTask)

YieldNothing(t) ==
    /\ mMutex = NoThread
    /\ ~ YieldsCurrent(t)
    /\ UNCHANGED poolVars

YieldCurrent(t) ==
    /\ mMutex = NoThread
    /\ YieldsCurrent(t)
    /\ mMutex' = t
    /\ UNCHANGED <<mThreads, mTasks, mCurrentTask, mObjects, mThreadStates,
                   mDataRaces, mObjectsMutex>>

\* Mutants of StatusesAfter: a Lock does not disable; an Unlock enables every thread.
LockDisablesNobody(instr, waiting) ==
    IF instr.op = "Unlock" THEN WithStatus(waiting, "ENABLED") ELSE mThreads

UnlockEnablesAll(instr, waiting) ==
    CASE instr.op = "Lock" -> WithStatus(waiting, "DISABLED")
      [] instr.op = "Unlock" -> WithStatus({t \in Thread : Registered(t)}, "ENABLED")
      [] OTHER -> mThreads

\* update_object_yield: a Lock disables and an Unlock enables every thread that
\* waits on the mutex.
StatusesAfter(instr, waiting) ==
    CASE instr.op = "Lock" -> WithStatus(waiting, "DISABLED")
      [] instr.op = "Unlock" -> WithStatus(waiting, "ENABLED")
      [] OTHER -> mThreads

UpdateObjectYieldThrows(t) == PerformThrows(mObjects[mCurrentTask.operand], t)

UpdateObjectYield(t) ==
    LET o == mCurrentTask.operand
        performed == Perform(mObjects[o], t)
    IN  /\ mMutex = t
        /\ mObjectsMutex = NoThread
        /\ mMutex' = NoThread
        /\ mObjects' = [mObjects EXCEPT ![o] = performed]
        /\ mThreads' = StatusesAfter(mCurrentTask, WaitingOn(performed))
        /\ UNCHANGED <<mTasks, mCurrentTask, mThreadStates, mDataRaces,
                       mObjectsMutex>>
-----------------------------------------------------------------------------
\* Mutant of FinishJoiners: it enables nobody.
FinishEnablesNobody(t) ==
    /\ mObjectsMutex = NoThread
    /\ mObjectsMutex' = t
    /\ UNCHANGED <<mThreads, mTasks, mCurrentTask, mObjects, mThreadStates,
                   mDataRaces, mMutex>>

\* finish(t): enables the threads waiting to join t, without mMutex ...
FinishJoiners(t) ==
    /\ mObjectsMutex = NoThread
    /\ mObjectsMutex' = t
    /\ mThreads' = WithStatus(mThreadStates[t], "ENABLED")
    /\ UNCHANGED <<mTasks, mCurrentTask, mObjects, mThreadStates, mDataRaces,
                   mMutex>>

\* ... and then calls set_status_protected, which takes it.
FinishStatus(t) ==
    /\ mObjectsMutex = t
    /\ mMutex = NoThread
    /\ mObjectsMutex' = NoThread
    /\ mThreads' = WithStatus({t}, "FINISHED")
    /\ UNCHANGED <<mTasks, mCurrentTask, mObjects, mThreadStates, mDataRaces,
                   mMutex>>
-----------------------------------------------------------------------------
\* Mutant of UnfinishedThreadsHavePosted: it does not wait for a thread that has not
\* posted anything yet.
StartedThreadsHavePosted ==
    \A t \in Thread :
        mThreads[t] \in {"ENABLED", "DISABLED"} => mTasks[t] # NoTask

\* The condition of wait_until_unfinished_threads_have_posted.
UnfinishedThreadsHavePosted ==
    \A t \in Thread :
        Registered(t) => mThreads[t] = "FINISHED" \/ mTasks[t] # NoTask

\* enabled_set
EnabledSet == {t \in Thread : mThreads[t] = "ENABLED"}

\* The threads with an entry in mTasks.
PostedSet == {t \in Thread : mTasks[t] # NoTask}

\* A State of the program: the threads that can go on, and the next instruction of
\* each thread that has posted one.
State == [enabled : SUBSET Thread, next : [Thread -> Instruction \cup {NoTask}]]

ProgramState ==
    [enabled |-> {t \in PostedSet : mThreads[t] = "ENABLED"}, next |-> mTasks]

\* set_current(t): its task becomes the current one.
SetCurrentThrows(t) == mTasks[t] = NoTask

\* Mutant of SetCurrent: the task stays in mTasks.
SetCurrentKeepsTask(t) ==
    /\ mMutex = NoThread
    /\ mCurrentTask' = mTasks[t]
    /\ UNCHANGED <<mThreads, mTasks, mObjects, mThreadStates, mDataRaces, mMutex,
                   mObjectsMutex>>

SetCurrent(t) ==
    /\ mMutex = NoThread
    /\ mCurrentTask' = mTasks[t]
    /\ mTasks' = [mTasks EXCEPT ![t] = NoTask]
    /\ UNCHANGED <<mThreads, mObjects, mThreadStates, mDataRaces, mMutex,
                   mObjectsMutex>>
=============================================================================
