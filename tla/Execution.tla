----------------------------- MODULE Execution -----------------------------
(***************************************************************************)
(* Execution (program-model/execution.cpp), Transition and State: the      *)
(* sequence of transitions recorded so far, as operators on a record with  *)
(* the members of the class.  A State is compared and handed on and never  *)
(* looked into, so it is a value of States; NoState is the null pointer.   *)
(* Transitions that share a State share a pointer to it in the code, and   *)
(* no operation changes a State in place.                                  *)
(***************************************************************************)
EXTENDS VisibleInstruction, SequencesExt

CONSTANTS States, NoState

ASSUME NoStateAssumption == NoState \notin States

ExecutionStatus == {"RUNNING", "DONE", "DEADLOCK", "BLOCKED", "ERROR"}

\* What Execution(s0) constructs.  mContainsLocks is not initialized.
NewExecutions(s0) ==
    {[mExecution |-> <<>>, mS0 |-> s0, mThreads |-> {0}, mStatus |-> "RUNNING",
      mContainsLocks |-> b] : b \in BOOLEAN}

Transition(index, pre, instr, post) ==
    [mIndex |-> index, mPre |-> pre, mInstr |-> instr, mPost |-> post]

Empty(E) == E.mExecution = <<>>
Initialized(E) == E.mS0 # NoState

\* Mutant of FinalPtr: it forgets the transitions.
FinalPtrIsS0(E) == E.mS0

\* The state the execution ends in; final and final_ptr assert that it exists.
FinalPtr(E) == IF Empty(E) THEN E.mS0 ELSE Last(E.mExecution).mPost

\* Mutants of PushBack: indices from 0; the created thread is not counted.
PushBackFromZero(E, instr, post) ==
    [E EXCEPT
        !.mExecution = Append(@, Transition(Len(@), FinalPtr(E), instr, post)),
        !.mContainsLocks = @ \/ instr.op \in LockOp,
        !.mThreads = @ \cup (IF instr.op = "Spawn" THEN {instr.operand} ELSE {})]

PushBackNoThread(E, instr, post) ==
    [E EXCEPT
        !.mExecution = Append(@, Transition(Len(@) + 1, FinalPtr(E), instr, post)),
        !.mContainsLocks = @ \/ instr.op \in LockOp]

\* Execution::push_back, which asserts ~ Empty(E) \/ Initialized(E).
PushBack(E, instr, post) ==
    [E EXCEPT
        !.mExecution = Append(@, Transition(Len(@) + 1, FinalPtr(E), instr, post)),
        !.mContainsLocks = @ \/ instr.op \in LockOp,
        !.mThreads = @ \cup (IF instr.op = "Spawn" THEN {instr.operand} ELSE {})]

\* Execution::pop_last, which asserts ~ Empty(E): it takes back the transition
\* and nothing else that push_back has set.
PopLast(E) == [E EXCEPT !.mExecution = Front(@)]

\* E.last().set_post(post), as Scheduler::close does.
SetLastPost(E, post) == [E EXCEPT !.mExecution[Len(E.mExecution)].mPost = post]

SetStatus(E, status) == [E EXCEPT !.mStatus = status]
=============================================================================
