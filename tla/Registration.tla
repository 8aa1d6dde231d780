---------------------------- MODULE Registration ----------------------------
(***************************************************************************)
(* Who is who (scheduler/scheduler.cpp): a thread of the program knows its *)
(* pthread_t, the scheduler knows it by its tid.  The creator takes a      *)
(* fresh tid, creates the thread and registers the two together; every     *)
(* later call looks the tid up under pthread_self(), and a join looks it   *)
(* up under the pthread_t of the thread that is joined.                    *)
(*                                                                         *)
(* Threads are created by instrumented code, or by a library that is not   *)
(* instrumented, and joined by their creator.  pthread_create may fail,    *)
(* which the inserted registration does not notice.  A pthread_t may be    *)
(* used again once its thread has been joined.  A thread of instrumented   *)
(* code ends in its own turn (MayEnd), as in Scheduler without EagerExit,  *)
(* which takes the sections of the mutexes apart.  Here a call is one      *)
(* step, up to its wait: no post falls into the end of a thread, nor the   *)
(* other way round (EndsAlone).  What happens where they do overlap, a     *)
(* wakeup that is lost and a cycle of locks, is found in Scheduler.        *)
(***************************************************************************)
EXTENDS Integers, FiniteSets

CONSTANTS
    NrThreads,  \* how many threads the program may create, main included
    Pids,       \* the values of pthread_t
    ReusePids,  \* whether one is used again
    MayFail,    \* whether a creation may fail; one at most does
    MaxCalls    \* bound: visible instructions and library calls of a thread

Thread == 0 .. NrThreads - 1   \* the threads of the program, main is 0
Tid == 0 .. NrThreads - 1
None == -1

ASSUME RegistrationAssumption ==
    /\ NrThreads \in Nat \ {0}
    /\ Cardinality(Pids) >= NrThreads
    /\ None \notin Pids
    /\ {ReusePids, MayFail} \subseteq BOOLEAN
    /\ MaxCalls \in Nat

VARIABLES
    \* the program and the operating system
    pc,         \* where each thread is
    calls,      \* how many calls it has made
    pid,        \* its pthread_t, or None
    creator,    \* the thread that created it, or None
    instr,      \* the visible instruction it is at: op, thread, and tid
    givenTid,   \* history: the tid its creator took for it, or None
    failed,     \* history: a creation has failed
    \* the scheduler
    mThreads,              \* the tid registered for a pthread_t, or None
    mControllableThreads,  \* the pthread_t in the controllable_thread of a tid, or None
    control,               \* its m_control_handle
    mNrRegistered,
    \* the pool
    status,     \* the status of a tid, "none" if it is not registered
    task,       \* what it has posted: op and tid, or NoTask
    execution   \* the status of the execution

programVars == <<pc, calls, pid, creator, instr, givenTid, failed>>
registryVars == <<mThreads, mControllableThreads, mNrRegistered>>
poolVars == <<status, task>>
vars == <<programVars, registryVars, control, poolVars, execution>>

NoTask == [op |-> "none", tid |-> None]
NoInstr == [op |-> "none", thread |-> None, tid |-> None]

Init ==
    /\ pc = [t \in Thread |-> IF t = 0 THEN "main" ELSE "unborn"]
    /\ calls = [t \in Thread |-> 0]
    /\ \E p \in Pids : pid = [t \in Thread |-> IF t = 0 THEN p ELSE None]
    /\ creator = [t \in Thread |-> None]
    /\ instr = [t \in Thread |-> NoInstr]
    /\ givenTid = [t \in Thread |-> None]
    /\ failed = FALSE
    /\ mThreads = [p \in Pids |-> None]
    /\ mControllableThreads = [tid \in Tid |-> None]
    /\ control = [tid \in Tid |-> FALSE]
    /\ mNrRegistered = 0
    /\ status = [tid \in Tid |-> "none"]
    /\ task = [tid \in Tid |-> NoTask]
    /\ execution = "RUNNING"
-----------------------------------------------------------------------------
GoTo(t, label) == pc' = [pc EXCEPT ![t] = label]

\* The tid under which t acts: wait_until_registered waits until there is one.
TidOf(t) == mThreads[pid[t]]

\* Mutant of FindTid: thread 0 if there is none.
FindTidOrMain(p) == IF mThreads[p] = None THEN 0 ELSE mThreads[p]

\* find_tid, None stands for unregistered_thread.
FindTid(p) == mThreads[p]

\* Mutant of Insert: an entry that is there is replaced.
Assign(map, key, value) == [map EXCEPT ![key] = value]

\* insert and emplace keep an entry that is there.
Insert(map, key, value) == [map EXCEPT ![key] = IF @ = None THEN value ELSE @]

\* register_thread
RegisterThread(p, tid) ==
    /\ mThreads' = Insert(mThreads, p, tid)
    /\ mControllableThreads' = Insert(mControllableThreads, tid, p)
    /\ status' = [status EXCEPT ![tid] = "START"]

\* register_main_thread: main takes the first fresh tid.
RegisterMainThread ==
    /\ pc[0] = "main"
    /\ RegisterThread(pid[0], mNrRegistered)
    /\ mNrRegistered' = mNrRegistered + 1
    /\ givenTid' = [givenTid EXCEPT ![0] = mNrRegistered]
    /\ GoTo(0, "born")
    /\ UNCHANGED <<calls, pid, creator, instr, failed, control, task, execution>>

\* enter_function.
EnterFunction(t) ==
    /\ pc[t] = "born"
    /\ TidOf(t) # None
    /\ GoTo(t, "running")
    /\ UNCHANGED <<calls, pid, creator, instr, givenTid, registryVars, control, poolVars,
                   execution>>

\* The thread may end here: the last visible instruction it has come to was posted, and no
\* thread was created by it.
MayEnd(t) == instr[t].op = "Access" \/ (instr[t].op = "Join" /\ instr[t].tid # None)

\* Besides the next call, one is left after which the thread may end.
CallLeft(t) == calls[t] + 1 < MaxCalls

\* post_task, up to the wait for the turn.
PostTask(t, new) ==
    /\ pc[t] = "running" /\ calls[t] < MaxCalls
    /\ calls' = [calls EXCEPT ![t] = @ + 1]
    /\ instr' = [instr EXCEPT ![t] = new]
    /\ task' = [task EXCEPT ![TidOf(t)] = [op |-> new.op, tid |-> new.tid]]
    /\ status' = [status EXCEPT ![TidOf(t)] =
                    IF new.op = "Join" /\ status[new.tid] # "FINISHED"
                    THEN "DISABLED" ELSE "ENABLED"]
    /\ GoTo(t, "waiting")
    /\ UNCHANGED <<pid, creator, givenTid, mThreads, mControllableThreads, control, execution>>

PostInstruction(t) ==
    /\ PostTask(t, [op |-> "Access", thread |-> None, tid |-> None])
    /\ UNCHANGED mNrRegistered

\* There is room for one more thread, besides those about to be created and one that
\* could not be created.
Spawning == {t \in Thread : pc[t] = "waiting" /\ instr[t].op = "Spawn"}
Unborn == {t \in Thread : pc[t] = "unborn"}
Room == Cardinality(Spawning) + (IF failed THEN 1 ELSE 0) < Cardinality(Unborn)

\* post_spawn_instruction, with get_fresh_tid.
PostSpawnInstruction(t) ==
    /\ Room /\ CallLeft(t)
    /\ PostTask(t, [op |-> "Spawn", thread |-> None, tid |-> mNrRegistered])
    /\ mNrRegistered' = mNrRegistered + 1

\* The threads that t may join.
Joinable(t) == {u \in Thread : creator[u] = t /\ pc[u] # "joined"}

\* post_join_instruction.  A join of an unregistered thread is not posted.
PostJoinInstruction(t) ==
    \E u \in Joinable(t) :
        LET join == [op |-> "Join", thread |-> u, tid |-> FindTid(pid[u])]
        IN  IF join.tid # None
            THEN PostTask(t, join) /\ UNCHANGED mNrRegistered
            ELSE /\ pc[t] = "running" /\ CallLeft(t)
                 /\ calls' = [calls EXCEPT ![t] = @ + 1]
                 /\ instr' = [instr EXCEPT ![t] = join]
                 /\ GoTo(t, "uncontrolled")
                 /\ UNCHANGED <<pid, creator, givenTid, registryVars, control, poolVars,
                                execution>>

\* The pthread_t of a new thread.
FreePids ==
    Pids \ {pid[t] : t \in {u \in Thread :
                              pid[u] # None /\ (pc[u] = "joined" => ~ ReusePids)}}

\* t creates the next thread, which starts with this label.
Creates(t, label, p) ==
    \E u \in Unborn :
        /\ \A v \in Unborn : u <= v
        /\ p \in FreePids
        /\ pid' = [pid EXCEPT ![u] = p]
        /\ creator' = [creator EXCEPT ![u] = t]
        /\ instr' = [instr EXCEPT ![t].thread = u]
        /\ pc' = [pc EXCEPT ![t] = IF label = "born" THEN "registering" ELSE @, ![u] = label]

\* The turn of t: m_control_handle.wait() returns, and the instruction is performed.
\* A join waits for the thread, which may be a step behind its exit_function.
Perform(t) ==
    /\ \/ /\ pc[t] = "waiting" /\ control[TidOf(t)]
          /\ control' = [control EXCEPT ![TidOf(t)] = FALSE]
       \/ pc[t] = "uncontrolled" /\ UNCHANGED control
    /\ CASE instr[t].op = "Access" ->
              /\ GoTo(t, "running")
              /\ UNCHANGED <<pid, creator, instr>>
         [] instr[t].op = "Spawn" -> \E p \in Pids : Creates(t, "born", p)
         [] instr[t].op = "Join" ->
              /\ pc[instr[t].thread] = "ended"
              /\ pc' = [pc EXCEPT ![t] = "running", ![instr[t].thread] = "joined"]
              /\ UNCHANGED <<pid, creator, instr>>
    /\ UNCHANGED <<calls, givenTid, registryVars, poolVars, execution>>

\* pthread_create returns an error, and the program goes on without the thread.
CreationFails(t) ==
    /\ MayFail /\ ~ failed
    /\ pc[t] = "waiting" /\ control[TidOf(t)] /\ instr[t].op = "Spawn"
    /\ control' = [control EXCEPT ![TidOf(t)] = FALSE]
    /\ failed' = TRUE
    /\ GoTo(t, "registering")
    /\ UNCHANGED <<calls, pid, creator, instr, givenTid, registryVars, poolVars, execution>>

\* What is in the pthread_t after pthread_create: that of the new thread, or any value
\* if there is none.
CreatedPids(t) ==
    IF instr[t].thread = None THEN Pids ELSE {pid[instr[t].thread]}

\* Mutant of RegisterCreatedThread: it is not given the tid that was taken.
RegisterUnderFreshTid(t) ==
    /\ pc[t] = "registering"
    /\ \E p \in CreatedPids(t) : RegisterThread(p, mNrRegistered)
    /\ mNrRegistered' = mNrRegistered + 1
    /\ givenTid' = [u \in Thread |-> IF u = instr[t].thread THEN instr[t].tid ELSE givenTid[u]]
    /\ GoTo(t, "running")
    /\ UNCHANGED <<calls, pid, creator, instr, control, task, execution>>

\* wrapper_register_thread, after the creation, whether or not there is a thread.
RegisterCreatedThread(t) ==
    /\ pc[t] = "registering"
    /\ \E p \in CreatedPids(t) : RegisterThread(p, instr[t].tid)
    /\ givenTid' = [u \in Thread |-> IF u = instr[t].thread THEN instr[t].tid ELSE givenTid[u]]
    /\ GoTo(t, "running")
    /\ UNCHANGED <<calls, pid, creator, instr, control, mNrRegistered, task, execution>>

\* Mutants of FinishedStatuses: the joiners are forgotten; so is the thread.
FinishedAlone(tid) == [status EXCEPT ![tid] = "FINISHED"]

JoinersStatuses(tid) ==
    [s \in Tid |-> IF task[s] = [op |-> "Join", tid |-> tid] THEN "ENABLED" ELSE status[s]]

\* TaskPool::finish: the threads that join this one are enabled.
FinishedStatuses(tid) ==
    [s \in Tid |-> IF s = tid THEN "FINISHED"
                   ELSE IF task[s] = [op |-> "Join", tid |-> tid] THEN "ENABLED"
                   ELSE status[s]]

\* exit_function of the first function.  Main then waits in join for the scheduler thread.
ExitFunction(t) ==
    /\ pc[t] = "running" /\ MayEnd(t)
    /\ status' = FinishedStatuses(TidOf(t))
    /\ GoTo(t, "ended")
    /\ UNCHANGED <<calls, pid, creator, instr, givenTid, registryVars, control, task, execution>>

\* A library creates a thread that nobody registers and that makes no instrumented call.
CreateInLibrary(t) ==
    /\ pc[t] = "running" /\ CallLeft(t)
    /\ Room
    /\ \E p \in Pids : Creates(t, "library", p)
    /\ calls' = [calls EXCEPT ![t] = @ + 1]
    /\ UNCHANGED <<givenTid, registryVars, control, poolVars, execution>>

EndInLibrary(t) ==
    /\ pc[t] = "library"
    /\ GoTo(t, "ended")
    /\ UNCHANGED <<calls, pid, creator, instr, givenTid, registryVars, control, poolVars,
                   execution>>
-----------------------------------------------------------------------------
(***************************************************************************)
(* The scheduler thread.                                                   *)
(***************************************************************************)

\* Mutant of UnfinishedThreadsHavePosted: a new thread is not waited for.
StartedThreadsHavePosted ==
    \A tid \in Tid : status[tid] \in {"none", "START", "FINISHED"} \/ task[tid] # NoTask

UnfinishedThreadsHavePosted ==
    \A tid \in Tid : status[tid] \in {"none", "FINISHED"} \/ task[tid] # NoTask

Posted == {tid \in Tid : task[tid] # NoTask}
Enabled == {tid \in Posted : status[tid] = "ENABLED"}

\* The next round: a thread is granted its turn, or the execution ends.
Round ==
    /\ execution = "RUNNING"
    /\ status[0] # "none"
    /\ UnfinishedThreadsHavePosted
    /\ \/ \E tid \in Enabled :
             /\ task' = [task EXCEPT ![tid] = NoTask]
             /\ control' = [control EXCEPT ![tid] = TRUE]
             /\ UNCHANGED execution
       \/ /\ Enabled = {}
          /\ execution' = IF Posted = {} THEN "DONE" ELSE "DEADLOCK"
          /\ UNCHANGED <<task, control>>
    /\ UNCHANGED <<programVars, registryVars, status>>

ThreadStep(t) ==
    /\ \/ EnterFunction(t) \/ PostInstruction(t) \/ PostSpawnInstruction(t)
       \/ PostJoinInstruction(t) \/ Perform(t) \/ RegisterCreatedThread(t)
       \/ ExitFunction(t) \/ CreateInLibrary(t) \/ EndInLibrary(t)
    /\ UNCHANGED failed

Next ==
    \/ RegisterMainThread \/ Round
    \/ \E t \in Thread : ThreadStep(t) \/ CreationFails(t)

Spec == Init /\ [][Next]_vars

\* The operating system runs what can run.
FairSpec ==
    /\ Spec
    /\ WF_vars(RegisterMainThread) /\ WF_vars(Round)
    /\ \A t \in Thread : WF_vars(ThreadStep(t))
-----------------------------------------------------------------------------
\* The values the variables may have.
TypeOK ==
    /\ pc \in [Thread -> {"main", "unborn", "born", "running", "waiting", "uncontrolled",
                          "registering", "library", "ended", "joined"}]
    /\ calls \in [Thread -> 0 .. MaxCalls]
    /\ pid \in [Thread -> Pids \cup {None}]
    /\ creator \in [Thread -> Thread \cup {None}]
    /\ givenTid \in [Thread -> Tid \cup {None}]
    /\ failed \in BOOLEAN
    /\ mThreads \in [Pids -> Tid \cup {None}]
    /\ mControllableThreads \in [Tid -> Pids \cup {None}]
    /\ control \in [Tid -> BOOLEAN]
    /\ mNrRegistered \in 0 .. NrThreads
    /\ status \in [Tid -> {"none", "START", "ENABLED", "DISABLED", "FINISHED"}]
    /\ execution \in {"RUNNING", "DONE", "DEADLOCK"}

\* Once a thread is registered, and until it is joined, it acts and is joined under the
\* tid that its creator took for it, and is granted its turns on its own
\* controllable_thread: mThreads associates a pthread_t with a unique tid.
OwnTid ==
    \A t \in Thread :
        givenTid[t] # None /\ pc[t] # "joined" =>
            /\ TidOf(t) = givenTid[t]
            /\ mControllableThreads[givenTid[t]] = pid[t]

\* A join is posted for the thread that it joins.  After a creation has failed, a thread
\* of a library may have the pthread_t that was registered for it.
JoinsItsThread ==
    \A t \in Thread :
        pc[t] = "waiting" /\ instr[t].op = "Join" =>
            LET given == givenTid[instr[t].thread]
            IN  instr[t].tid = given \/ (given = None /\ failed)

\* Threads that only join the threads they have created, and end in their own turn, are
\* never found in a deadlock, with or without threads that the scheduler does not know,
\* and also if a thread is registered that could not be created.
NoFalseDeadlock == execution # "DEADLOCK"

\* The execution is done only when no thread of instrumented code is left, registered
\* or about to be.  If one was registered that could not be created, it never is.
DoneMeansEnded ==
    execution = "DONE" =>
        /\ \A t \in Thread : pc[t] \in {"unborn", "library", "ended", "joined"}
        /\ ~ failed

\* If its threads end in their own turn, every execution comes to its end, unless a
\* creation has failed: no thread waits for a registration, a turn or a join that never
\* comes.
Ends == <>(execution # "RUNNING" \/ failed)
=============================================================================
