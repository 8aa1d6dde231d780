------------------------- MODULE SchedulerInvariant -------------------------
(***************************************************************************)
(* IInv, the inductive invariant behind RoundExclusive,                    *)
(* OnlyCurrentPerforms and DoneMeansFinished, and RecordInv, which adds    *)
(* what the record owes to the program.                                    *)
(* Its parts hold for any program (EagerExit or not), and until the        *)
(* execution gets its final status or an assertion fails.                  *)
(***************************************************************************)
EXTENDS SchedulerProperties

\* From the announcement of a visible instruction to its execution.
Announcing ==
    {"announced", "yielding", "in_yield", "yielded", "in_post", "enabling",
     "disabling", "waiting", "executing"}

Registering == {"registering", "reg_thread", "reg_state"}

\* In these places the thread has announced an instruction of its own.
CallOK ==
    \A t \in Thread :
        /\ pc[t] \in Announcing \cup Registering =>
              call[t] \in Instruction /\ call[t].tid = t
        /\ pc[t] \in Registering => call[t].op = "Spawn"

SelectedOK == spc \in {"dispatch", "current", "grant"} => selected \in Thread

TypeInv == TypeOK /\ CallOK /\ SelectedOK

Open == mStatus = "RUNNING" /\ ~ failed

\* The scheduler thread leaves its loop with the status.
LoopRunning ==
    spc \in Round \cup {"start", "wait", "asleep"} => mStatus = "RUNNING"

\* A thread with a posted task is inside post, or waits for its turn.
TaskPosted ==
    \A t \in Thread :
        mTasks[t] # NoTask => pc[t] \in {"in_post", "enabling", "disabling", "waiting"}

InPostHoldsMutex ==
    \A t \in Thread :
        pc[t] \in {"in_post", "enabling", "disabling"} => mMutex = t

FinishedLeaves ==
    \A t \in Thread : mThreads[t] = "FINISHED" => pc[t] \in {"leaving", "exited"}

\* A thread without an entry in mThreads does nothing yet, and someone is about
\* to register it.
UnregisteredIdle ==
    \A t \in Thread :
        ~ Registered(t) =>
            \/ pc[t] \in {"unborn", "born"}
            \/ /\ t = 0 /\ call[t].operand = 0
               /\ pc[t] \in {"registering", "reg_thread"}

BornIsRegistered ==
    \A c \in Thread :
        pc[c] = "born" /\ ~ Registered(c) =>
            \E p \in Thread :
                pc[p] \in {"registering", "reg_thread"} /\ call[p].operand = c

MainRegistered ==
    /\ \A t \in Thread : pc[t] = "reg_state" => Registered(call[t].operand)
    /\ mMainThreadRegistered => Registered(0)
    /\ spc # "start" => mMainThreadRegistered

\* get_fresh_tid gives every spawn a tid of its own, of a thread not yet created.
FreshTids ==
    /\ mNrRegistered = 0 =>
          /\ pc[0] = "registering" /\ call[0].operand = 0
          /\ \A t \in Thread \ {0} : pc[t] = "unborn"
    /\ \A c \in Thread : c # 0 /\ c >= mNrRegistered => pc[c] = "unborn"
    /\ \A t \in Thread :
          pc[t] \in Announcing /\ call[t].op = "Spawn" =>
              /\ pc[call[t].operand] = "unborn"
              /\ call[t].operand < mNrRegistered
              /\ call[t].operand # 0
    /\ \A t, u \in Thread :
          /\ pc[t] \in Announcing /\ call[t].op = "Spawn"
          /\ pc[u] \in Announcing /\ call[u].op = "Spawn"
          /\ t # u
          => call[t].operand # call[u].operand

\* The semaphore is up only for a thread that waits and was taken from mTasks.
ControlIsTurn ==
    \A t \in Thread :
        control[t] => pc[t] = "waiting" /\ mTasks[t] = NoTask

GrantedIsWaiting ==
    spc = "grant" =>
        /\ pc[selected] = "waiting"
        /\ mTasks[selected] = NoTask
        /\ call[selected] = mCurrentTask

\* What is posted is what the thread announced, and so is what has the turn.
TaskIsCall ==
    \A t \in Thread :
        /\ mTasks[t] # NoTask => mTasks[t] = call[t]
        /\ control[t] => mCurrentTask = call[t]

\* In a round nobody has the turn, and until a task is taken from mTasks every
\* waiting thread has one there.
RoundPosted ==
    /\ spc \in Round => \A t \in Thread : ~ control[t]
    /\ spc \in Round \ {"grant"} =>
          \A t \in Thread : pc[t] = "waiting" => mTasks[t] # NoTask

\* When an execution is done or in a deadlock, no thread moves any more.
FinalSettled ==
    mStatus \in {"DONE", "DEADLOCK"} =>
        \A t \in Thread :
            /\ pc[t] \in {"unborn", "waiting", "leaving", "exited"}
            /\ ~ control[t]

OpenInv ==
    /\ TaskPosted
    /\ InPostHoldsMutex
    /\ FinishedLeaves
    /\ UnregisteredIdle
    /\ BornIsRegistered
    /\ MainRegistered
    /\ FreshTids
    /\ ControlIsTurn
    /\ GrantedIsWaiting
    /\ TaskIsCall
    /\ RoundPosted

\* Where the threads are, what they have posted, and who has the turn.
IInv ==
    /\ TypeInv
    /\ LoopRunning
    /\ RoundExclusive
    /\ OnlyCurrentPerforms
    /\ FinalSettled
    /\ DoneMeansFinished
    /\ Open => OpenInv
-----------------------------------------------------------------------------
(***************************************************************************)
(* The inductive invariant behind RecordComplete and RecordedTransitions.  *)
(***************************************************************************)

\* From the wait on the semaphore that is up to the end of the instruction.
HasTurn(t) == control[t] \/ pc[t] = "executing"

\* The granted instruction is recorded in the next round.
TransitionCount ==
    /\ spc \in {"select", "dispatch", "current", "grant"} => recorded.nr = mTaskNr
    /\ spc \in {"wait", "asleep", "record"} =>
          recorded.nr = IF mTaskNr = 0 THEN 0 ELSE mTaskNr - 1
    /\ spc = "start" => mTaskNr = 0 /\ recorded.nr = 0

\* What was granted is performed, but for the instruction of the thread that has
\* the turn.
PerformedCount ==
    /\ (\A t \in Thread : ~ HasTurn(t)) => performed = mTaskNr
    /\ \A t \in Thread : HasTurn(t) => performed + 1 = mTaskNr

\* Once a round has recorded the current task, and before the first one.
LastIsCurrent ==
    \/ spc \in {"select", "dispatch", "current"}
    \/ spc \in {"start", "wait", "asleep", "record"} /\ mTaskNr = 0
    => recorded.last = mCurrentTask

FinalIsState ==
    spc \in {"select", "dispatch", "current"} => recorded.final = ProgramState

SelectedEnabled == spc = "current" => mThreads[selected] = "ENABLED"

\* The current task was the next one of its thread, enabled, in the state recorded
\* last, and the other threads still have the tasks they had there.
CurrentWasNext ==
    \/ spc = "grant"
    \/ spc \in {"wait", "asleep", "record"} /\ mTaskNr > 0
    => LET t == mCurrentTask.tid
       IN  /\ mCurrentTask # NoTask
           /\ recorded.final.next[t] = mCurrentTask
           /\ t \in recorded.final.enabled
           /\ \A u \in Thread \ {t} :
                 recorded.final.next[u] # NoTask => mTasks[u] = recorded.final.next[u]

RecordOpen ==
    /\ TransitionCount
    /\ PerformedCount
    /\ LastIsCurrent
    /\ FinalIsState
    /\ SelectedEnabled
    /\ CurrentWasNext

\* What has been granted, performed and recorded fits together, in every state up to
\* the end of the execution, on top of who is where in IInv.
RecordInv ==
    /\ IInv
    /\ RecordComplete
    /\ Open => RecordOpen
=============================================================================
