----------------------------- MODULE TurnTaking -----------------------------
(***************************************************************************)
(* What the scheduler promises, without its pool, mutexes and semaphores:  *)
(* the threads of a program announce their visible instructions; when all  *)
(* of them have, one that can go on is chosen and performs its instruction *)
(* alone; the execution grows by it; and the end is a deadlock only if no  *)
(* thread can go on.  Scheduler implements this specification, and         *)
(* RecordReplay runs programs under it.                                    *)
(***************************************************************************)
EXTENDS VisibleInstruction

CONSTANT Mutexes  \* the objects that are mutexes

VARIABLES
    stage,       \* what each thread is doing
    task,        \* the instruction it has announced and not performed, or NoTask
    nextTid,     \* the tid of the next thread that is created
    holder,      \* the thread that holds each mutex, or NoThread
    status,      \* the status of the execution
    recorded,    \* the execution: its length, and the instruction of its last transition
    unrecorded   \* the instruction that was performed last, until it is recorded

turnVars == <<stage, task, nextTid, holder, status, recorded, unrecorded>>

Stage ==
    {"unborn",   \* not created
     "busy",     \* between two visible instructions, or on its way in or out
     "waiting",  \* it has announced an instruction
     "granted",  \* it has been chosen
     "ended"}

TurnInit ==
    /\ stage = [t \in Thread |-> IF t = 0 THEN "busy" ELSE "unborn"]
    /\ task = [t \in Thread |-> NoTask]
    /\ nextTid = 1
    /\ holder = [m \in Mutexes |-> NoThread]
    /\ status = "RUNNING"
    /\ recorded = [nr |-> 0, last |-> NoTask]
    /\ unrecorded = NoTask

\* Every thread waits, or has ended, and the execution is up to date.
Quiet == \A t \in Thread : stage[t] \in {"unborn", "waiting", "ended"}
Settled == status = "RUNNING" /\ Quiet /\ unrecorded = NoTask

\* Can the instruction be performed without waiting for another thread?
CanGoOn(instr) ==
    /\ instr.op = "Lock" => holder[instr.operand] = NoThread
    /\ instr.op = "Join" => stage[instr.operand] = "ended"

WaitingThreads == {t \in Thread : stage[t] = "waiting"}

\* A thread announces an instruction.  A creation takes the next tid.
Announce(instr) ==
    /\ stage[instr.tid] = "busy"
    /\ IF instr.op = "Spawn"
       THEN instr.operand = nextTid /\ nextTid' = nextTid + 1
       ELSE UNCHANGED nextTid
    /\ stage' = [stage EXCEPT ![instr.tid] = "waiting"]
    /\ task' = [task EXCEPT ![instr.tid] = instr]
    /\ UNCHANGED <<holder, status, recorded, unrecorded>>

\* The scheduler chooses a thread that can go on.
Choose(t) ==
    /\ Settled
    /\ stage[t] = "waiting" /\ CanGoOn(task[t])
    /\ stage' = [stage EXCEPT ![t] = "granted"]
    /\ UNCHANGED <<task, nextTid, holder, status, recorded, unrecorded>>

\* What the instruction of a thread does when it is performed.
Performs(t) ==
    LET instr == task[t]
    IN  /\ stage' = IF instr.op = "Spawn"
                    THEN [stage EXCEPT ![t] = "busy", ![instr.operand] = "busy"]
                    ELSE [stage EXCEPT ![t] = "busy"]
        /\ holder' = CASE instr.op = "Lock" -> [holder EXCEPT ![instr.operand] = t]
                       [] instr.op = "Unlock" -> [holder EXCEPT ![instr.operand] = NoThread]
                       [] OTHER -> holder
        /\ task' = [task EXCEPT ![t] = NoTask]
        /\ unrecorded' = instr
        /\ UNCHANGED <<nextTid, status, recorded>>

Perform(t) == stage[t] = "granted" /\ Performs(t)

Pushed(instr) == [nr |-> recorded.nr + 1, last |-> instr]

\* It is recorded once every thread has announced its next one.
Record ==
    /\ status = "RUNNING" /\ Quiet
    /\ unrecorded # NoTask
    /\ recorded' = Pushed(unrecorded)
    /\ unrecorded' = NoTask
    /\ UNCHANGED <<stage, task, nextTid, holder, status>>

End(t) ==
    /\ stage[t] = "busy"
    /\ stage' = [stage EXCEPT ![t] = "ended"]
    /\ UNCHANGED <<task, nextTid, holder, status, recorded, unrecorded>>

Done ==
    /\ Settled
    /\ WaitingThreads = {}
    /\ status' = "DONE"
    /\ UNCHANGED <<stage, task, nextTid, holder, recorded, unrecorded>>

\* One of the instructions that nobody can perform is recorded as well.
Deadlock ==
    /\ Settled
    /\ WaitingThreads # {}
    /\ \A t \in WaitingThreads : ~ CanGoOn(task[t])
    /\ status' = "DEADLOCK"
    /\ \E t \in WaitingThreads : recorded' = Pushed(task[t])
    /\ UNCHANGED <<stage, task, nextTid, holder, unrecorded>>

TurnNext ==
    \/ \E instr \in Instruction : Announce(instr)
    \/ \E t \in Thread : Choose(t) \/ Perform(t) \/ End(t)
    \/ Record \/ Done \/ Deadlock

TurnSpec == TurnInit /\ [][TurnNext]_turnVars
=============================================================================
