------------------------- MODULE VisibleInstruction -------------------------
(***************************************************************************)
(* The visible instructions of an instrumented program                     *)
(* (program-model/visible_instruction.hpp): memory accesses, operations on *)
(* mutexes, creation and join of threads.  File names and line numbers     *)
(* (meta_data_t) are left out, nothing in the scheduler depends on them.   *)
(***************************************************************************)
EXTENDS Integers, FiniteSets

CONSTANTS
    NrThreads,  \* how many threads the program may create, main included
    Objects,    \* addresses of memory locations and mutexes
    NoTask      \* the absence of an instruction

Thread == 0 .. NrThreads - 1
NoThread == -1

ASSUME NrThreadsAssumption == NrThreads \in Nat \ {0}

MemoryOp == {"Load", "Store", "ReadModifyWrite"}
LockOp   == {"Lock", "Unlock"}
ManageOp == {"Spawn", "Join"}

\* An instruction of each of the three alternatives of visible_instruction_t.
\* Only a memory_instruction carries is_atomic, the others have it FALSE.
Instruction ==
    [tid : Thread, op : MemoryOp, operand : Objects, atomic : BOOLEAN]
        \cup [tid : Thread, op : LockOp, operand : Objects, atomic : {FALSE}]
        \cup [tid : Thread, op : ManageOp, operand : Thread, atomic : {FALSE}]

ASSUME NoTaskAssumption == NoTask \notin Instruction

\* The value of the enumerator, which operation_as_int returns.
OperationAsInt(instr) ==
    CASE instr.op = "Load" -> 0
      [] instr.op = "Store" -> 1
      [] instr.op = "ReadModifyWrite" -> 5
      [] instr.op = "Lock" -> 3
      [] instr.op = "Unlock" -> 2
      [] instr.op = "Spawn" -> 6
      [] instr.op = "Join" -> 7

\* get_operand yields an Object for memory and lock instructions and a Thread
\* for thread management.
OnObject(instr) == instr.op \in MemoryOp \cup LockOp
=============================================================================
