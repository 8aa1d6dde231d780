---------------------------- MODULE ObjectState ----------------------------
(***************************************************************************)
(* object_state (scheduler/object_state.cpp): the posted instructions on   *)
(* one object, in two wait sets told apart by the parity of the operation  *)
(* (even: Load, Unlock; odd: Store, ReadModifyWrite, Lock), and the parity *)
(* of the last one performed.  A mutex is held iff that parity is 1.  A    *)
(* wait set, in the code a map from tid to instruction, is a set of        *)
(* instructions here: an instruction carries its tid.                      *)
(***************************************************************************)
EXTENDS VisibleInstruction

ObjectState == [waiting : [{0, 1} -> SUBSET Instruction], current : {0, 1}]

NewObject == [waiting |-> [i \in {0, 1} |-> {}], current |-> 0]

OpType(instr) == OperationAsInt(instr) % 2

\* The waiting instructions of thread t of parity i.
WaitingOf(obj, i, t) == {instr \in obj.waiting[i] : instr.tid = t}

\* object_state::request: inserts the instruction into its wait set ...
Request(obj, instr) == [obj EXCEPT !.waiting[OpType(instr)] = @ \cup {instr}]

\* ... throws a logic_error if the thread is already there ...
RequestThrows(obj, instr) == WaitingOf(obj, OpType(instr), instr.tid) # {}

\* ... and returns whether the instruction can be performed now.
RequestReturns(obj, instr) == ~ (instr.op = "Lock" /\ obj.current = 1)

\* The first wait set that has an instruction of the thread.
PerformedSet(obj, t) == IF WaitingOf(obj, 0, t) # {} THEN 0 ELSE 1

\* Mutants of Perform: the operation instead of its parity; the old parity; no erase.
PerformOperation(obj, t) ==
    LET i == PerformedSet(obj, t)
    IN  [waiting |-> [obj.waiting EXCEPT ![i] = @ \ WaitingOf(obj, i, t)],
         current |-> OperationAsInt(CHOOSE instr \in WaitingOf(obj, i, t) : TRUE)]

PerformKeepsCurrent(obj, t) ==
    LET i == PerformedSet(obj, t)
    IN  [obj EXCEPT !.waiting[i] = @ \ WaitingOf(obj, i, t)]

PerformKeepsRequest(obj, t) == [obj EXCEPT !.current = PerformedSet(obj, t)]

\* object_state::perform: takes the thread's instruction out of the first wait
\* set that has one, whose parity becomes the object's.
Perform(obj, t) ==
    LET i == PerformedSet(obj, t)
    IN  [waiting |-> [obj.waiting EXCEPT ![i] = @ \ WaitingOf(obj, i, t)],
         current |-> i]

\* perform throws an invalid_argument if the thread is in neither wait set.
PerformThrows(obj, t) == WaitingOf(obj, 0, t) \cup WaitingOf(obj, 1, t) = {}

\* The threads that wait on the object, in either wait set.
WaitingOn(obj) == {instr.tid : instr \in obj.waiting[0] \cup obj.waiting[1]}

\* get_data_races::operator()(const memory_instruction&): the pairs of a waiting
\* instruction and the given one that conflict, two atomic ones excepted.
MemoryRaces(obj, instr) ==
    LET conflicting == IF instr.op = "Load" THEN obj.waiting[1]
                       ELSE obj.waiting[0] \cup obj.waiting[1]
    IN  {<<other, instr>> : other \in {o \in conflicting :
                                           ~ (o.atomic /\ instr.atomic)}}

\* What TaskPool::update_object_post obtains from get_data_races.  It hands over
\* the variant, not the alternative it holds, so that overload resolution takes
\* the template default, which returns no race whatever the instruction is.
DataRacesOfVariant(obj, instr) == {}
=============================================================================
