----------------------------- MODULE Scheduler -----------------------------
(***************************************************************************)
(* The scheduler (scheduler/scheduler.cpp) at work on an instrumented      *)
(* program.  Each thread of the program announces a visible instruction    *)
(* to the scheduler and waits until it is granted; the scheduler thread    *)
(* waits until every unfinished thread has announced one, chooses a thread *)
(* and grants its instruction.                                             *)
(*                                                                         *)
(* The program is any program: in "running" a thread makes any call that   *)
(* is legal for it.  A thread is identified with the tid it gets from      *)
(* get_fresh_tid (pthread_t values are not reused here).  Sections of      *)
(* mRegMutex are one action each, except the one of register_thread, which *)
(* waits for the mutexes of the pool while it holds mRegMutex.             *)
(***************************************************************************)
EXTENDS Selector

CONSTANTS
    Mutexes,      \* the objects that are mutexes
    Locations,    \* the objects that are memory locations
    MemoryOps,    \* the memory operations the program uses
    Atomicities,  \* the values of is_atomic it uses
    MaxCalls,     \* bound: visible instructions of one thread
    Schedules,    \* the possible contents of schedules/schedule.txt
    Strategies,   \* the possible strategy tags in schedules/settings.txt
    EagerExit     \* whether a thread may end while another one is running

ASSUME WorkloadAssumption ==
    /\ Objects = Mutexes \cup Locations
    /\ Mutexes \cap Locations = {}
    /\ MemoryOps \subseteq MemoryOp
    /\ Atomicities \subseteq BOOLEAN
    /\ MaxCalls \in Nat
    /\ Schedules \subseteq Seq(Thread)
    /\ Strategies \subseteq Strategy
    /\ EagerExit \in BOOLEAN

VARIABLES
    \* the program
    pc,         \* where each thread is
    call,       \* the visible instruction it announced last
    calls,      \* how many it has announced
    owner,      \* the thread that really holds each mutex
    joined,     \* the threads some thread joins or has joined
    \* the Scheduler object
    mNrRegistered,
    mRegMutex,  \* the thread that holds mRegMutex across steps, or NoThread
    mMainThreadRegistered,
    mStatus,    \* the status of the execution
    control,    \* m_control_handle of each thread, a binary semaphore
    \* the scheduler thread
    spc,        \* where it is
    strategy,   \* mSelector: the tag of its strategy
    schedule,   \* mLocVars: the schedule read from file
    mTaskNr,    \* mLocVars: how many instructions it has granted
    selected,   \* the thread it has selected, or NoThread
    recorded,   \* E: how many transitions there are, the instruction of the last one,
                \* and the State it ends in
    \* of the whole process
    failed,     \* an assertion failed or an exception reached the top
    performed   \* history: how many granted instructions the program performed

programVars   == <<pc, call, calls, owner, joined>>
schedulerVars == <<mNrRegistered, mRegMutex, mMainThreadRegistered, mStatus,
                   control>>
runVars       == <<spc, strategy, schedule, mTaskNr, selected, recorded>>
otherVars     == <<failed, performed>>
vars == <<poolVars, programVars, schedulerVars, runVars, otherVars>>
-----------------------------------------------------------------------------
ThreadPc ==
    {"unborn",       \* not created
     "born",         \* enter_function, in wait_until_registered
     "running",      \* between two visible instructions
     "announced",    \* post_task, before runs_controlled
     "yielding",     \* before TaskPool::yield
     "in_yield",     \* in update_object_yield
     "yielded",      \* before TaskPool::post
     "in_post",      \* in update_object_post, before the request
     "enabling", "disabling",  \* there, after a request that returned this
     "waiting",      \* controllable_thread::post_task, waits for its turn
     "executing",    \* back in the program, at the visible instruction
     "registering",  \* register_thread, before mRegMutex
     "reg_thread",   \* before TaskPool::register_thread
     "reg_state",    \* in it, before m_objects_mutex
     "returned",     \* exit_function of the thread's first function
     "exit_yielding", "in_exit_yield",  \* its TaskPool::yield
     "finishing",    \* before TaskPool::finish
     "in_finish",    \* in it, before set_status_protected
     "leaving",      \* after it
     "exited"}

SchedulerPc ==
    {"start",     \* wait_until_main_thread_registered
     "wait",      \* wait_until_unfinished_threads_have_posted
     "asleep",    \* in it, on mModified
     "record",    \* the beginning of a round
     "select", "dispatch", "current", "grant",
     "close",     \* before close
     "last",      \* in it, after waking the waiting threads
     "closed",    \* the scheduler thread has returned
     "terminated"}  \* std::terminate

\* The scheduler thread is between two waits for the threads to post.
Round == {"record", "select", "dispatch", "current", "grant"}

TypeOK ==
    /\ PoolTypeOK
    /\ pc \in [Thread -> ThreadPc]
    /\ call \in [Thread -> Instruction \cup {NoTask}]
    /\ calls \in [Thread -> 0 .. MaxCalls]
    /\ owner \in [Mutexes -> Thread \cup {NoThread}]
    /\ joined \subseteq Thread
    /\ mNrRegistered \in Nat
    /\ mRegMutex \in Thread \cup {NoThread}
    /\ mMainThreadRegistered \in BOOLEAN
    /\ mStatus \in {"RUNNING", "DONE", "DEADLOCK", "ERROR"}
    /\ control \in [Thread -> BOOLEAN]
    /\ spc \in SchedulerPc
    /\ strategy \in Strategies
    /\ schedule \in Schedules
    /\ mTaskNr \in Nat
    /\ selected \in Thread \cup {NoThread}
    /\ recorded \in [nr : Nat, last : Instruction \cup {NoTask}, final : State]
    /\ failed \in BOOLEAN
    /\ performed \in Nat

\* Main registers itself: it starts as the creator of thread 0 would be.
Init ==
    /\ PoolInit
    /\ pc = [t \in Thread |-> IF t = 0 THEN "registering" ELSE "unborn"]
    /\ call = [t \in Thread |->
                 IF t = 0
                 THEN [tid |-> 0, op |-> "Spawn", operand |-> 0, atomic |-> FALSE]
                 ELSE NoTask]
    /\ calls = [t \in Thread |-> 0]
    /\ owner = [m \in Mutexes |-> NoThread]
    /\ joined = {}
    /\ mNrRegistered = 0
    /\ mRegMutex = NoThread
    /\ mMainThreadRegistered = FALSE
    /\ mStatus = "RUNNING"
    /\ control = [t \in Thread |-> FALSE]
    /\ spc = "start"
    /\ strategy \in Strategies
    /\ schedule \in Schedules
    /\ mTaskNr = 0
    /\ selected = NoThread
    /\ recorded = [nr |-> 0, last |-> NoTask, final |-> ProgramState]
    /\ failed = FALSE
    /\ performed = 0
-----------------------------------------------------------------------------
\* The process is over: main has returned, or something called std::terminate.
Ended == failed \/ spc = "terminated" \/ pc[0] = "exited"

RunsControlled == mStatus # "ERROR"   \* BLOCKED is never set

GoTo(t, label) == pc' = [pc EXCEPT ![t] = label]

\* Mutant of NotifyModified: nobody is notified.
NotifyNobody == UNCHANGED spc

\* mModified.notify_one: the scheduler thread is the only one to wait on it.
NotifyModified == spc' = IF spc = "asleep" THEN "wait" ELSE spc

\* What steps of the pool leave unchanged, besides pc and failed.
OutsidePool == <<call, calls, owner, joined, schedulerVars, strategy,
                 schedule, mTaskNr, selected, recorded, performed>>
-----------------------------------------------------------------------------
(***************************************************************************)
(* The threads of the program.                                             *)
(***************************************************************************)

\* A created thread enters its first function once it finds itself registered.
EnterThread(t) ==
    /\ pc[t] = "born"
    /\ mRegMutex = NoThread
    /\ Registered(t)
    /\ GoTo(t, "running")
    /\ UNCHANGED <<poolVars, call, calls, owner, joined, schedulerVars, runVars,
                   otherVars>>

\* The visible instructions that the program may announce in thread t: it unlocks
\* only what it holds, and joins a thread at most once and never main.
SpawnAllowed(t) ==
    /\ mNrRegistered < NrThreads
    /\ EagerExit \/ calls[t] + 1 < MaxCalls

NextInstructions(t) ==
    [tid : {t}, op : MemoryOps, operand : Locations, atomic : Atomicities]
        \cup [tid : {t}, op : {"Lock"}, operand : Mutexes, atomic : {FALSE}]
        \cup [tid : {t}, op : {"Unlock"},
              operand : {m \in Mutexes : owner[m] = t}, atomic : {FALSE}]
        \cup [tid : {t}, op : {"Spawn"},
              operand : IF SpawnAllowed(t) THEN {mNrRegistered} ELSE {},
              atomic : {FALSE}]
        \cup [tid : {t}, op : {"Join"},
              operand : {u \in Thread \ ({0, t} \cup joined) : Registered(u)},
              atomic : {FALSE}]

\* post_memory_instruction, post_lock_instruction, post_join_instruction with
\* find_tid, and post_spawn_instruction, which takes a fresh tid at once: up to
\* the call of runs_controlled in post_task.
Announce(t) ==
    /\ pc[t] = "running"
    /\ calls[t] < MaxCalls
    /\ mRegMutex = NoThread
    /\ \E instr \in NextInstructions(t) :
          /\ call' = [call EXCEPT ![t] = instr]
          /\ mNrRegistered' = IF instr.op = "Spawn" THEN mNrRegistered + 1
                              ELSE mNrRegistered
          /\ joined' = IF instr.op = "Join" THEN joined \cup {instr.operand}
                       ELSE joined
    /\ calls' = [calls EXCEPT ![t] = @ + 1]
    /\ GoTo(t, "announced")
    /\ UNCHANGED <<poolVars, owner, mRegMutex, mMainThreadRegistered, mStatus,
                   control, runVars, otherVars>>

\* The thread may end here.  Unless EagerExit holds, its last visible
\* instruction is then the current one, and no thread was created by it.
MayReturn(t) == EagerExit \/ (call[t] # NoTask /\ call[t].op # "Spawn")

\* exit_function leaves the call stack of the thread empty.
Return(t) ==
    /\ pc[t] = "running"
    /\ mRegMutex = NoThread
    /\ MayReturn(t)
    /\ GoTo(t, "returned")
    /\ UNCHANGED <<poolVars, call, calls, owner, joined, schedulerVars, runVars,
                   otherVars>>

\* runs_controlled, in post_task and in exit_function.
CheckControlled(t) ==
    /\ \/ /\ pc[t] = "announced"
          /\ GoTo(t, IF RunsControlled THEN "yielding" ELSE "executing")
       \/ /\ pc[t] = "returned"
          /\ GoTo(t, IF RunsControlled THEN "exit_yielding" ELSE "leaving")
    /\ UNCHANGED <<poolVars, call, calls, owner, joined, schedulerVars, runVars,
                   otherVars>>

\* TaskPool::yield, from post_task and from exit_function.
Yield(t) ==
    /\ \/ /\ YieldNothing(t)
          /\ \/ pc[t] = "yielding" /\ GoTo(t, "yielded")
             \/ pc[t] = "exit_yielding" /\ GoTo(t, "finishing")
       \/ /\ YieldCurrent(t)
          /\ \/ pc[t] = "yielding" /\ GoTo(t, "in_yield")
             \/ pc[t] = "exit_yielding" /\ GoTo(t, "in_exit_yield")
    /\ UNCHANGED <<OutsidePool, spc, failed>>

EndYield(t) ==
    /\ \/ pc[t] = "in_yield" /\ GoTo(t, "yielded")
       \/ pc[t] = "in_exit_yield" /\ GoTo(t, "finishing")
    /\ UpdateObjectYield(t)
    /\ failed' = UpdateObjectYieldThrows(t)
    /\ UNCHANGED <<OutsidePool, spc>>

\* TaskPool::post.
Post(t) ==
    /\ pc[t] = "yielded"
    /\ PostTask(t, call[t])
    /\ failed' = PostThrows(t)
    /\ GoTo(t, "in_post")
    /\ UNCHANGED <<OutsidePool, spc>>

PostRequest(t) ==
    /\ pc[t] = "in_post"
    /\ \E enabled \in BOOLEAN :
          /\ UpdateObjectPost(t, call[t], enabled)
          /\ GoTo(t, IF enabled THEN "enabling" ELSE "disabling")
    /\ failed' = UpdateObjectPostThrows(t, call[t])
    /\ UNCHANGED <<OutsidePool, spc>>

EndPost(t) ==
    /\ pc[t] \in {"enabling", "disabling"}
    /\ PostStatus(t, pc[t] = "enabling")
    /\ NotifyModified
    /\ GoTo(t, "waiting")
    /\ UNCHANGED <<OutsidePool, failed>>

\* Mutant of TakeTurn: the semaphore is not taken.
TakeTurnKeepsControl(t) ==
    /\ pc[t] = "waiting"
    /\ control[t]
    /\ GoTo(t, "executing")
    /\ UNCHANGED <<poolVars, call, calls, owner, joined, schedulerVars, runVars,
                   otherVars>>

\* controllable_thread::post_task: m_control_handle.wait() returns.
TakeTurn(t) ==
    /\ pc[t] = "waiting"
    /\ control[t]
    /\ control' = [control EXCEPT ![t] = FALSE]
    /\ GoTo(t, "executing")
    /\ UNCHANGED <<poolVars, call, calls, owner, joined, mNrRegistered, mRegMutex,
                   mMainThreadRegistered, mStatus, runVars, otherVars>>

\* The program performs the instruction; a mutex that is held and a thread that
\* has not ended make it wait.  A creator goes on to wrapper_register_thread.
Execute(t) ==
    /\ pc[t] = "executing"
    /\ \/ /\ call[t].op \in MemoryOp
          /\ GoTo(t, "running")
          /\ UNCHANGED owner
       \/ /\ call[t].op = "Lock"
          /\ owner[call[t].operand] = NoThread
          /\ owner' = [owner EXCEPT ![call[t].operand] = t]
          /\ GoTo(t, "running")
       \/ /\ call[t].op = "Unlock"
          /\ owner' = [owner EXCEPT ![call[t].operand] = NoThread]
          /\ GoTo(t, "running")
       \/ /\ call[t].op = "Spawn"
          /\ pc' = [pc EXCEPT ![t] = "registering", ![call[t].operand] = "born"]
          /\ UNCHANGED owner
       \/ /\ call[t].op = "Join"
          /\ pc[call[t].operand] = "exited"
          /\ GoTo(t, "running")
          /\ UNCHANGED owner
    /\ performed' = IF RunsControlled THEN performed + 1 ELSE performed
    /\ UNCHANGED <<poolVars, call, calls, joined, schedulerVars, runVars, failed>>

\* Scheduler::register_thread of the thread that t has created (of t itself for
\* main, which takes a fresh tid here).
Register(t) ==
    /\ pc[t] = "registering"
    /\ mRegMutex = NoThread
    /\ mRegMutex' = t
    /\ mNrRegistered' = IF call[t].operand = t THEN mNrRegistered + 1
                        ELSE mNrRegistered
    /\ GoTo(t, "reg_thread")
    /\ UNCHANGED <<poolVars, call, calls, owner, joined, mMainThreadRegistered,
                   mStatus, control, runVars, otherVars>>

RegisterInPool(t) ==
    /\ pc[t] = "reg_thread"
    /\ RegisterThread(t, call[t].operand)
    /\ GoTo(t, "reg_state")
    /\ UNCHANGED <<OutsidePool, spc, failed>>

\* The rest of it; notify_all reaches whoever waits in wait_until_registered or
\* in wait_until_main_thread_registered.
EndRegister(t) ==
    /\ pc[t] = "reg_state"
    /\ RegisterThreadState(t, call[t].operand)
    /\ mMainThreadRegistered' = (mMainThreadRegistered \/ call[t].operand = 0)
    /\ mRegMutex' = NoThread
    /\ GoTo(t, "running")
    /\ UNCHANGED <<call, calls, owner, joined, mNrRegistered, mStatus, control,
                   runVars, otherVars>>

\* TaskPool::finish.
Finish(t) ==
    /\ pc[t] = "finishing"
    /\ FinishJoiners(t)
    /\ GoTo(t, "in_finish")
    /\ UNCHANGED <<OutsidePool, spc, failed>>

EndFinish(t) ==
    /\ pc[t] = "in_finish"
    /\ FinishStatus(t)
    /\ NotifyModified
    /\ GoTo(t, "leaving")
    /\ UNCHANGED <<OutsidePool, failed>>

\* The thread ends; main joins the scheduler thread first.
Leave(t) ==
    /\ pc[t] = "leaving"
    /\ t = 0 => spc = "closed"
    /\ GoTo(t, "exited")
    /\ UNCHANGED <<poolVars, call, calls, owner, joined, schedulerVars, runVars,
                   otherVars>>

ThreadStep(t) ==
    \/ EnterThread(t) \/ Announce(t) \/ Return(t) \/ CheckControlled(t)
    \/ Yield(t) \/ EndYield(t)
    \/ Post(t) \/ PostRequest(t) \/ EndPost(t) \/ TakeTurn(t) \/ Execute(t)
    \/ Register(t) \/ RegisterInPool(t) \/ EndRegister(t)
    \/ Finish(t) \/ EndFinish(t) \/ Leave(t)
-----------------------------------------------------------------------------
(***************************************************************************)
(* The scheduler thread (Scheduler::run and close).                        *)
(***************************************************************************)

\* What most of its steps leave unchanged.
OutsideRun == <<programVars, mNrRegistered, mRegMutex, mMainThreadRegistered,
                strategy, schedule, performed>>

Start ==
    /\ spc = "start"
    /\ mRegMutex = NoThread
    /\ mMainThreadRegistered
    /\ spc' = "wait"
    /\ UNCHANGED <<poolVars, OutsideRun, mStatus, control, mTaskNr, selected,
                   recorded, failed>>

WaitForPosts ==
    /\ spc = "wait"
    /\ mMutex = NoThread
    /\ spc' = IF UnfinishedThreadsHavePosted THEN "record" ELSE "asleep"
    /\ UNCHANGED <<poolVars, OutsideRun, mStatus, control, mTaskNr, selected,
                   recorded, failed>>

\* E.push_back(instr, mPool.program_state())
PushBack(instr) ==
    recorded' = [nr |-> recorded.nr + 1, last |-> instr, final |-> ProgramState]

\* E(mPool.program_state()), and E.last().set_post(mPool.program_state())
SetFinal ==
    recorded' = [nr |-> recorded.nr, last |-> recorded.last, final |-> ProgramState]

\* Mutant of Record: the first instruction is not recorded.
RecordFromSecond ==
    /\ spc = "record"
    /\ mMutex = NoThread
    /\ IF mTaskNr > 1 THEN PushBack(mCurrentTask) ELSE SetFinal
    /\ spc' = "select"
    /\ UNCHANGED <<poolVars, OutsideRun, mStatus, control, mTaskNr, selected,
                   failed>>

\* Mutant of Record: the transition ends in the state it started in.
RecordWithoutPost ==
    /\ spc = "record"
    /\ mMutex = NoThread
    /\ IF mTaskNr > 0 THEN recorded' = [recorded EXCEPT !.nr = @ + 1, !.last = mCurrentTask]
       ELSE SetFinal
    /\ spc' = "select"
    /\ UNCHANGED <<poolVars, OutsideRun, mStatus, control, mTaskNr, selected,
                   failed>>

\* The beginning of a round: the task granted in the last one is recorded, with the
\* state it has led to.  Before the first round, E is created.
Record ==
    /\ spc = "record"
    /\ mMutex = NoThread
    /\ IF mTaskNr > 0 THEN PushBack(mCurrentTask) ELSE SetFinal
    /\ spc' = "select"
    /\ UNCHANGED <<poolVars, OutsideRun, mStatus, control, mTaskNr, selected,
                   failed>>

\* Selector::select, and what run does of its result.
SelectScheduled ==
    /\ Scheduled(schedule, mTaskNr)
    /\ selected' = ScheduleEntry(schedule, mTaskNr)
    /\ spc' = "dispatch"
    /\ UNCHANGED <<mStatus, recorded>>

SelectByStrategy ==
    /\ ~ Scheduled(schedule, mTaskNr)
    /\ mMutex = NoThread
    /\ PostedSet # {} /\ EnabledSet # {}
    /\ selected' \in StrategyChoices(strategy, EnabledSet, mTaskNr)
    /\ spc' = "dispatch"
    /\ UNCHANGED <<mStatus, recorded>>

\* Mutant of SelectDone: the execution is done when no thread is enabled.
SelectDoneUnlessEnabled ==
    /\ ~ Scheduled(schedule, mTaskNr)
    /\ mMutex = NoThread
    /\ EnabledSet = {}
    /\ mStatus' = "DONE"
    /\ spc' = "close"
    /\ UNCHANGED <<selected, recorded>>

SelectDone ==
    /\ ~ Scheduled(schedule, mTaskNr)
    /\ mMutex = NoThread
    /\ PostedSet = {}
    /\ mStatus' = "DONE"
    /\ spc' = "close"
    /\ UNCHANGED <<selected, recorded>>

\* The deadlock handler records the first of the posted tasks: mTasks is an
\* unordered_map, any of them may be the first.
SelectDeadlock ==
    /\ ~ Scheduled(schedule, mTaskNr)
    /\ mMutex = NoThread
    /\ SelectsDeadlock
    /\ \E t \in PostedSet : PushBack(mTasks[t])
    /\ mStatus' = "DEADLOCK"
    /\ spc' = "close"
    /\ UNCHANGED selected

Select ==
    /\ spc = "select"
    /\ SelectScheduled \/ SelectByStrategy \/ SelectDone \/ SelectDeadlock
    /\ UNCHANGED <<poolVars, OutsideRun, control, mTaskNr, failed>>

\* schedule_thread: the status of the selected thread, whose tid a schedule may
\* take from anywhere; "selection error" unless it is enabled ...
Dispatch ==
    /\ spc = "dispatch"
    /\ mMutex = NoThread
    /\ failed' = ~ Registered(selected)
    /\ \/ /\ mThreads[selected] = "ENABLED"
          /\ spc' = "current"
          /\ UNCHANGED mStatus
       \/ /\ mThreads[selected] # "ENABLED"
          /\ spc' = "close"
          /\ mStatus' = "ERROR"
    /\ UNCHANGED <<poolVars, OutsideRun, control, mTaskNr, selected, recorded>>

\* ... set_current ...
MakeCurrent ==
    /\ spc = "current"
    /\ SetCurrent(selected)
    /\ failed' = SetCurrentThrows(selected)
    /\ spc' = "grant"
    /\ UNCHANGED <<OutsideRun, mStatus, control, mTaskNr, selected, recorded>>

\* ... grant_execution_right and increase_task_nr.
Grant ==
    /\ spc = "grant"
    /\ mRegMutex = NoThread
    /\ control' = [control EXCEPT ![selected] = TRUE]
    /\ mTaskNr' = mTaskNr + 1
    /\ selected' = NoThread
    /\ spc' = "wait"
    /\ UNCHANGED <<poolVars, OutsideRun, mStatus, recorded, failed>>

\* Mutant of ControllableThreads: only the enabled ones.
EnabledControllableThreads == EnabledSet

\* The tids in mControllableThreads.
ControllableThreads == {t \in Thread : Registered(t)}

\* close: every registered thread is woken if the execution is not controlled
\* any more ...
Close ==
    /\ spc = "close"
    /\ \/ /\ ~ RunsControlled
          /\ mRegMutex = NoThread
          /\ control' = [t \in Thread |-> IF t \in ControllableThreads THEN TRUE
                                       ELSE control[t]]
       \/ /\ RunsControlled
          /\ UNCHANGED control
    /\ spc' = "last"
    /\ UNCHANGED <<poolVars, OutsideRun, mStatus, mTaskNr, selected, recorded,
                   failed>>

\* ... E.last() asserts that E has a transition and is given its final state, E is
\* written, and a deadlock terminates the process.
CloseExecution ==
    /\ spc = "last"
    /\ mMutex = NoThread
    /\ mObjectsMutex = NoThread
    /\ failed' = (recorded.nr = 0)
    /\ SetFinal
    /\ spc' = IF mStatus = "DEADLOCK" THEN "terminated" ELSE "closed"
    /\ UNCHANGED <<poolVars, OutsideRun, mStatus, control, mTaskNr, selected>>

SchedulerStep ==
    \/ Start \/ WaitForPosts \/ Record \/ Select \/ Dispatch \/ MakeCurrent
    \/ Grant \/ Close \/ CloseExecution
-----------------------------------------------------------------------------
\* The process stays as it is once it is over.
Over == Ended /\ UNCHANGED vars

Next ==
    \/ ~ Ended /\ (SchedulerStep \/ \E t \in Thread : ThreadStep(t))
    \/ Over

Spec == Init /\ [][Next]_vars

\* The operating system runs every thread that can run, and hands a mutex to
\* a thread that waits for it.
Fairness ==
    /\ WF_vars(~ Ended /\ SchedulerStep)
    /\ \A t \in Thread : WF_vars(~ Ended /\ ThreadStep(t))

FairSpec == Spec /\ Fairness
=============================================================================
