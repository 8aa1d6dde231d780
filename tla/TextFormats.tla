---------------------------- MODULE TextFormats ----------------------------
(***************************************************************************)
(* operator<< and operator>> of instructions, threads and states           *)
(* (program-model/visible_instruction_io, thread_io, object_io, state_io). *)
(*                                                                         *)
(* A text is a sequence of words, since operator>> skips any white space   *)
(* between them, ends of lines too.  Reading from the words ahead gives a  *)
(* set: of the value read and the words that are left, or empty if failbit *)
(* is set.  A number is read as far as its digits go: what is written as   *)
(* 2.c is the number 2 and the word .c for who reads a number there.       *)
(*                                                                         *)
(* An instruction here also has its meta_data_t: line, and file, which is  *)
(* the words of the file name as its reader comes upon them, two or more   *)
(* if it has spaces and none if it is empty.                               *)
(***************************************************************************)
EXTENDS VisibleInstruction, SequencesExt

Word(w)    == <<"word", w>>
Number(n)  == <<"number", n>>
Address(o) == <<"address", o>>

\* The words a container is written between.
ContainerBegin == Word("[")
ContainerEnd == Word("]")

\* A word of which only the beginning is there.  A number remains a number.
CutWord(w) == IF w[1] = "word" THEN <<"cut", w[2]>> ELSE w

\* The instruction without its meta data.
Bare(instr) == [tid |-> instr.tid, op |-> instr.op, operand |-> instr.operand,
                atomic |-> instr.atomic]

IsInstruction(instr) ==
    /\ instr = [tid |-> instr.tid, op |-> instr.op, operand |-> instr.operand,
                 atomic |-> instr.atomic, file |-> instr.file, line |-> instr.line]
    /\ Bare(instr) \in Instruction
    /\ instr.file \in Seq(ToSet(instr.file))
    /\ \A w \in ToSet(instr.file) : w = <<w[1], w[2]>> /\ w[1] \in {"word", "number"}
    /\ instr.line \in Nat

\* enabled is a set of tids, next a function from tids to next_t.
IsState(state) ==
    /\ state = [enabled |-> state.enabled, next |-> state.next]
    /\ state.enabled \subseteq Thread
    /\ DOMAIN state.next \subseteq Thread
    /\ state.next = [tid \in DOMAIN state.next |-> state.next[tid]]
    /\ \A next \in Range(state.next) :
          /\ next = [instr |-> next.instr, enabled |-> next.enabled]
          /\ IsInstruction(next.instr) /\ next.enabled \in BOOLEAN
-----------------------------------------------------------------------------
(***************************************************************************)
(* operator<<                                                              *)
(***************************************************************************)
\* Mutant of OperationWord: the enumerator is written as it is named.
OperationName(op) == op

\* The enumerators of the operations, as they are written.
OperationWord(op) == IF op = "ReadModifyWrite" THEN "RMW" ELSE op

MetaDataWords(instr) == Append(instr.file, Number(instr.line))

\* An operand that is a Thread is written with its status, which nobody has set.
InstructionWords(instr) ==
    (CASE instr.op \in MemoryOp ->
            <<Word("memory_instruction"),
              Word(IF instr.atomic THEN "atomic" ELSE "non-atomic"), Number(instr.tid),
              Word(OperationWord(instr.op)), Address(instr.operand)>>
       [] instr.op \in LockOp ->
            <<Word("lock_instruction"), Number(instr.tid), Word(instr.op),
              Address(instr.operand)>>
       [] instr.op \in ManageOp ->
            <<Word("thread_management_instruction"), Number(instr.tid), Word(instr.op),
              Number(instr.operand), Word("START")>>)
    \o MetaDataWords(instr)

NextWords(next) ==
    Append(InstructionWords(next.instr), Word(IF next.enabled THEN "enabled" ELSE "disabled"))

\* The elements of a set of tids, in their order.
Ordered(S) ==
    [k \in 1 .. Cardinality(S) |->
        CHOOSE a \in S : Cardinality({b \in S : b < a}) = k - 1]

Container(words) == <<ContainerBegin>> \o FlattenSeq(words) \o <<ContainerEnd>>

StateWords(state) ==
    LET enabled == Ordered(state.enabled)
        tids == Ordered(DOMAIN state.next)
    IN  <<Word("State")>>
        \o Container([k \in DOMAIN enabled |-> <<Number(enabled[k])>>])
        \o Container([k \in DOMAIN tids |->
                          <<Number(tids[k])>> \o NextWords(state.next[tids[k]])])
-----------------------------------------------------------------------------
(***************************************************************************)
(* operator>>                                                              *)
(***************************************************************************)
\* What a field of a format accepts: any word, a number, an address (in digits),
\* an enumerator.
AString   == [kind |-> "any", of |-> {}]
ANumber   == [kind |-> "number", of |-> {}]
AnAddress == [kind |-> "address", of |-> {}]
OneOf(S)  == [kind |-> "word", of |-> S]

Accepts(field, w) ==
    \/ field.kind = "any"
    \/ field.kind = "address" /\ w[1] = "number"
    \/ field.kind = w[1] /\ (w[1] = "word" => w[2] \in field.of)

Fits(ws, format) ==
    Len(ws) >= Len(format) /\ \A k \in DOMAIN format : Accepts(format[k], ws[k])

\* What is read of words that have the format, and nothing of others.
Read(ws, format, val) ==
    IF Fits(ws, format)
    THEN {[val |-> val, rest |-> SubSeq(ws, Len(format) + 1, Len(ws))]}
    ELSE {}

MetaData == <<AString, ANumber>>

MemoryFormat == <<OneOf({"memory_instruction"}), AString, ANumber,
                  OneOf({"Load", "Store", "RMW"}), AnAddress>> \o MetaData

LockFormat == <<OneOf({"lock_instruction"}), ANumber, OneOf({"Lock", "Unlock"}),
                AnAddress>> \o MetaData

\* operator>>(Thread::Status)
StatusField == OneOf({"START", "ENABLED", "DISABLED", "FINISHED"})

ManageFormat == <<OneOf({"thread_management_instruction"}), ANumber,
                  OneOf({"Spawn", "Join"}), ANumber, StatusField>> \o MetaData

\* operator>>(memory_operation)
OperationOf(w) == IF w = "RMW" THEN "ReadModifyWrite" ELSE w

\* The instruction with its members at these places.
InstructionOf(ws, tid, op, operand, file) ==
    [tid |-> ws[tid][2], op |-> OperationOf(ws[op][2]), operand |-> ws[operand][2],
     atomic |-> ws[tid - 1] = Word("atomic"), file |-> <<ws[file]>>,
     line |-> ws[file + 1][2]]

ReadInstruction(ws) ==
    Read(ws, MemoryFormat, InstructionOf(ws, 3, 4, 5, 6))
        \cup Read(ws, LockFormat, InstructionOf(ws, 2, 3, 4, 5))
        \cup Read(ws, ManageFormat, InstructionOf(ws, 2, 3, 4, 6))

ReadNext(ws) ==
    UNION {Read(r.rest, <<OneOf({"enabled", "disabled"})>>,
                [instr |-> r.val, enabled |-> Head(r.rest) = Word("enabled")]) :
           r \in ReadInstruction(ws)}

ReadTid(ws) == Read(ws, <<ANumber>>, Head(ws)[2])

\* An element of NextSet: a tid and what it does next.
ReadEntry(ws) ==
    UNION {{[val |-> <<t.val, n.val>>, rest |-> n.rest] : n \in ReadNext(t.rest)} :
           t \in ReadTid(ws)}

\* The elements of a container, up to its end.  element[k] is what can be read of an
\* element from the k-th word on.
ReadContainer(ws, element) ==
    LET Behind(r) == Len(ws) - Len(r.rest) + 1
        from[k \in 1 .. Len(ws) + 1] ==
            IF k > Len(ws) THEN {}
            ELSE IF ws[k] = ContainerEnd
            THEN {[val |-> <<>>, rest |-> SubSeq(ws, k + 1, Len(ws))]}
            ELSE UNION {{[r EXCEPT !.val = <<e.val>> \o @] : r \in from[Behind(e)]} :
                        e \in element[k]}
    IN  IF ws # <<>> /\ Head(ws) = ContainerBegin THEN from[2] ELSE {}

ReadTids(ws) == ReadContainer(ws, [k \in DOMAIN ws |-> ReadTid(SubSeq(ws, k, Len(ws)))])
ReadNextSet(ws) == ReadContainer(ws, [k \in DOMAIN ws |-> ReadEntry(SubSeq(ws, k, Len(ws)))])

FunctionOf(pairs) ==
    [tid \in {p[1] : p \in ToSet(pairs)} |->
        (CHOOSE p \in ToSet(pairs) : p[1] = tid)[2]]

ReadState(ws) ==
    UNION {UNION {{[val |-> [enabled |-> ToSet(e.val), next |-> FunctionOf(n.val)],
                    rest |-> n.rest] : n \in ReadNextSet(e.rest)} :
                  e \in ReadTids(t.rest)} :
           t \in Read(ws, <<OneOf({"State"})>>, "")}
-----------------------------------------------------------------------------
\* is >> index >> instruction >> post, and what it reads.
TransitionWords(index, instr, post) ==
    <<Number(index)>> \o InstructionWords(instr) \o StateWords(post)

ReadLines(ws) ==
    UNION {UNION {{[val |-> <<r.val, p.val>>, rest |-> p.rest] : p \in ReadState(r.rest)} :
                  r \in ReadInstruction(t.rest)} :
           t \in ReadTid(ws)}

\* A file name that is one word can be read.
Legible(instr) == Len(instr.file) = 1
LegibleState(state) == \A next \in Range(state.next) : Legible(next.instr)

\* What operator>> looks for behind an instruction.
BehindInstruction == {Word("State"), Word("enabled"), Word("disabled")}

\* Any other file name is not taken for one.
Unmistakable(instr) == Legible(instr) \/ ToSet(instr.file) \cap BehindInstruction = {}
UnmistakableState(state) == \A next \in Range(state.next) : Unmistakable(next.instr)
=============================================================================
