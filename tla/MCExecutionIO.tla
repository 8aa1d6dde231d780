--------------------------- MODULE MCExecutionIO ---------------------------
(* A small instance of ExecutionIO for TLC. *)
EXTENDS ExecutionIOInvariant

CONSTANTS m   \* a mutex, or a memory location

OneObject == {m}

\* An instruction in a line of a file whose name is these words.
At(tid, op, operand, file, line) ==
    [tid |-> tid, op |-> op, operand |-> operand, atomic |-> op = "ReadModifyWrite",
     file |-> file, line |-> line]

Create == At(0, "Spawn", 1, <<Word("a.c")>>, 3)
Update == At(1, "ReadModifyWrite", m, <<Word("a.c")>>, 7)

\* A creation, an operation of the created thread, and one in the file "my 2.c", whose
\* name has a space and goes on like a line number.
SomeInstructions ==
    {Create, Update, At(1, "Lock", m, <<Word("my"), Number(2), Word(".c")>>, 1)}

\* Before the creation, and after it, where main waits for the thread.
TwoStates ==
    {[enabled |-> {0}, next |-> (0 :> [instr |-> Create, enabled |-> TRUE])],
     [enabled |-> {1},
      next |-> (0 :> [instr |-> At(0, "Join", 1, <<Word("a.c")>>, 5), enabled |-> FALSE]
                    @@ 1 :> [instr |-> At(1, "Lock", m, <<Word("a.c")>>, 6), enabled |-> TRUE])]}
=============================================================================
