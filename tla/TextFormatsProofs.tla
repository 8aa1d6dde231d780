------------------------- MODULE TextFormatsProofs -------------------------
(***************************************************************************)
(* What operator>> reads of what operator<< has written (TextFormats), for *)
(* any instructions, states and numbers of threads.  A stream is described *)
(* by the text it starts with and how far it goes; then an instruction, a  *)
(* tid, a next_t, a container and a State are each read as they were       *)
(* written, or not at all.  LinesRead puts them together.                  *)
(***************************************************************************)
EXTENDS TextFormats, SequenceLemmas, SequenceTheorems

From(ws, k) == SubSeq(ws, k, Len(ws))

\* The words ahead are these, as far as the stream goes; its last word may be cut.
StartsWith(ws, text) ==
    \A j \in 1 .. Len(text) :
        j <= Len(ws) => ws[j] = text[j] \/ (j = Len(ws) /\ ws[j] = CutWord(text[j]))

\* All of them are ahead.
AllAhead(ws, text) == Len(ws) >= Len(text) /\ \A j \in 1 .. Len(text) : ws[j] = text[j]

\* The kinds of words.  A number or an address remains one if it is cut.
LEMMA WordKinds ==
    /\ \A w : Word(w)[1] = "word" /\ Word(w)[2] = w /\ CutWord(Word(w))[1] = "cut"
    /\ \A w : Number(w)[1] = "number" /\ Number(w)[2] = w /\ CutWord(Number(w)) = Number(w)
    /\ \A w : Address(w)[1] = "address" /\ Address(w)[2] = w /\ CutWord(Address(w)) = Address(w)
BY DEF Word, Number, Address, CutWord

\* The fields of the formats, one by one.
LEMMA MemoryFields ==
    /\ Len(MemoryFormat) = 7 /\ DOMAIN MemoryFormat = 1 .. 7
    /\ MemoryFormat[1] = OneOf({"memory_instruction"})
    /\ MemoryFormat[2] = AString
    /\ MemoryFormat[3] = ANumber
    /\ MemoryFormat[4] = OneOf({"Load", "Store", "RMW"})
    /\ MemoryFormat[5] = AnAddress
    /\ MemoryFormat[6] = AString /\ MemoryFormat[7] = ANumber
BY DEF MemoryFormat, MetaData

LEMMA LockFields ==
    /\ Len(LockFormat) = 6 /\ DOMAIN LockFormat = 1 .. 6
    /\ LockFormat[1] = OneOf({"lock_instruction"})
    /\ LockFormat[2] = ANumber
    /\ LockFormat[3] = OneOf({"Lock", "Unlock"})
    /\ LockFormat[4] = AnAddress
    /\ LockFormat[5] = AString /\ LockFormat[6] = ANumber
BY DEF LockFormat, MetaData

LEMMA ManageFields ==
    /\ Len(ManageFormat) = 7 /\ DOMAIN ManageFormat = 1 .. 7
    /\ ManageFormat[1] = OneOf({"thread_management_instruction"})
    /\ ManageFormat[2] = ANumber
    /\ ManageFormat[3] = OneOf({"Spawn", "Join"})
    /\ ManageFormat[4] = ANumber
    /\ ManageFormat[5] = StatusField
    /\ ManageFormat[6] = AString /\ ManageFormat[7] = ANumber
BY DEF ManageFormat, MetaData

\* What each kind of field accepts.
LEMMA AcceptsKinds ==
    /\ \A w : Accepts(AString, w)
    /\ \A w : Accepts(ANumber, w) <=> w[1] = "number"
    /\ \A w : Accepts(AnAddress, w) <=> w[1] \in {"number", "address"}
    /\ \A w, S : Accepts(OneOf(S), w) <=> w[1] = "word" /\ w[2] \in S
BY DEF Accepts, AString, ANumber, AnAddress, OneOf

\* The words of an instruction before its meta data.
LEMMA HeadOfInstruction ==
    ASSUME NEW instr, IsInstruction(instr)
    PROVE  /\ instr.op \in MemoryOp =>
                InstructionWords(instr) =
                    <<Word("memory_instruction"),
                      Word(IF instr.atomic THEN "atomic" ELSE "non-atomic"), Number(instr.tid),
                      Word(OperationWord(instr.op)), Address(instr.operand)>> \o MetaDataWords(instr)
           /\ instr.op \in LockOp =>
                InstructionWords(instr) =
                    <<Word("lock_instruction"), Number(instr.tid), Word(instr.op),
                      Address(instr.operand)>> \o MetaDataWords(instr)
           /\ instr.op \in ManageOp =>
                InstructionWords(instr) =
                    <<Word("thread_management_instruction"), Number(instr.tid), Word(instr.op),
                      Number(instr.operand), Word("START")>> \o MetaDataWords(instr)
           /\ instr.op \in MemoryOp \cup LockOp \cup ManageOp
BY DEF InstructionWords, IsInstruction, Bare, Instruction, MemoryOp, LockOp, ManageOp

\* How many words come before the meta data.
HeadLength(instr) == IF instr.op \in LockOp THEN 4 ELSE 5

\* n words, and behind them those of the meta data.
WithMetaData(head, n, instr) ==
    [j \in 1 .. n + Len(instr.file) + 1 |->
        IF j <= n THEN head[j]
        ELSE IF j <= n + Len(instr.file) THEN instr.file[j - n]
        ELSE Number(instr.line)]

\* Where the words of an instruction are, if these are before its meta data.
LEMMA MetaDataPlaces ==
    ASSUME NEW instr, IsInstruction(instr), NEW S, NEW head \in Seq(S)
    PROVE  /\ Len(instr.file) \in Nat
           /\ head \o MetaDataWords(instr) = WithMetaData(head, Len(head), instr)
<1> DEFINE F == ToSet(instr.file)
           file == instr.file
           last == Number(instr.line)
           meta == Append(file, last)
           all == S \cup F \cup {last}
<1>1. file \in Seq(F) /\ MetaDataWords(instr) = meta
  BY DEF IsInstruction, MetaDataWords
<1>2. F \subseteq all /\ S \subseteq all /\ last \in all
  OBVIOUS
<1> HIDE DEF F, file, last, all
<1>3. head \in Seq(all) /\ meta \in Seq(all) /\ Len(meta) = Len(file) + 1
  BY <1>1, <1>2
<1>4. \A j \in 1 .. Len(file) + 1 : meta[j] = IF j <= Len(file) THEN file[j] ELSE last
  BY <1>1, <1>2
<1> HIDE DEF meta
<1>5. head \o meta = WithMetaData(head, Len(head), instr)
  <2>1. Len(file) \in Nat /\ Len(head) \in Nat
    BY <1>1
  <2>2. head \o meta = [j \in 1 .. Len(head) + Len(file) + 1 |->
                           IF j <= Len(head) THEN head[j] ELSE meta[j - Len(head)]]
    <3> DEFINE both == head \o meta
               n == Len(head) + Len(file) + 1
    <3>1. both \in Seq(all) /\ Len(both) = n
      BY <1>3, <2>1
    <3>2. \A j \in 1 .. n : both[j] = IF j <= Len(head) THEN head[j] ELSE meta[j - Len(head)]
      BY <1>3, <2>1
    <3> HIDE DEF both
    <3>3. both = [j \in 1 .. n |-> both[j]]
      BY <3>1, <2>1
    <3> HIDE DEF n
    <3> QED
      BY <3>2, <3>3, Zenon DEF both, n
  <2>3. \A j \in 1 .. Len(head) + Len(file) + 1 : ~ j <= Len(head) =>
            meta[j - Len(head)] = IF j <= Len(head) + Len(file) THEN file[j - Len(head)] ELSE last
    BY <1>4, <2>1
  <2> QED
    BY <2>1, <2>2, <2>3 DEF WithMetaData, file, last
<1> QED
  BY <1>1, <1>5 DEF file

\* What operator>> takes for a memory_instruction where one was written.
LEMMA MemoryRead ==
    ASSUME NEW instr, IsInstruction(instr), instr.op \in MemoryOp,
           NEW S, NEW ws \in Seq(S), StartsWith(ws, InstructionWords(instr))
    PROVE  ReadInstruction(ws) =
              IF Len(ws) >= 7 /\ ws[7][1] = "number"
              THEN {[val |-> [tid |-> instr.tid, op |-> instr.op, operand |-> instr.operand,
                              atomic |-> instr.atomic, file |-> <<ws[6]>>, line |-> ws[7][2]],
                     rest |-> From(ws, 8)]}
              ELSE {}
<1> DEFINE words == InstructionWords(instr)
           head == <<Word("memory_instruction"),
                     Word(IF instr.atomic THEN "atomic" ELSE "non-atomic"), Number(instr.tid),
                     Word(OperationWord(instr.op)), Address(instr.operand)>>
<1>1. words = head \o MetaDataWords(instr)
  BY HeadOfInstruction
<1>2. /\ Len(words) \in Nat /\ Len(words) >= 6
      /\ \A j \in 1 .. 5 : words[j] = head[j]
  <2> DEFINE T == {head[j] : j \in 1 .. 5}
  <2>1. head \in Seq(T) /\ Len(head) = 5
    OBVIOUS
  <2> HIDE DEF T, head
  <2>2. Len(instr.file) \in Nat /\ words = WithMetaData(head, 5, instr)
    BY <1>1, <2>1, MetaDataPlaces
  <2> HIDE DEF words
  <2> QED
    BY <2>2 DEF WithMetaData
<1>3. Len(ws) \in Nat
  OBVIOUS
<1>4. \A j \in 1 .. 5 : j < Len(ws) => ws[j] = head[j]
  <2>1. StartsWith(ws, words)
    OBVIOUS
  <2> HIDE DEF words, head
  <2> TAKE j \in 1 .. 5
  <2>2. j \in 1 .. Len(words) /\ words[j] = head[j]
    BY <1>2
  <2> QED
    BY <1>3, <2>1, <2>2 DEF StartsWith
<1>5. Len(ws) >= 1 => ws[1] = head[1] \/ ws[1][1] = "cut"
  BY <1>2, <1>3, WordKinds DEF StartsWith
<1>6. ~ Fits(ws, LockFormat) /\ ~ Fits(ws, ManageFormat)
  BY <1>5, LockFields, ManageFields, AcceptsKinds, WordKinds DEF Fits
<1>7. Fits(ws, MemoryFormat) <=> Len(ws) >= 7 /\ ws[7][1] = "number"
  <2>1. ASSUME Len(ws) >= 7, ws[7][1] = "number" PROVE Fits(ws, MemoryFormat)
    <3>1. OperationWord(instr.op) \in {"Load", "Store", "RMW"}
      BY DEF OperationWord, MemoryOp
    <3>2. /\ Accepts(MemoryFormat[1], ws[1]) /\ Accepts(MemoryFormat[2], ws[2])
          /\ Accepts(MemoryFormat[3], ws[3]) /\ Accepts(MemoryFormat[4], ws[4])
          /\ Accepts(MemoryFormat[5], ws[5])
      BY <1>3, <1>4, <2>1, <3>1, MemoryFields, AcceptsKinds, WordKinds
    <3>3. Accepts(MemoryFormat[6], ws[6]) /\ Accepts(MemoryFormat[7], ws[7])
      BY <2>1, MemoryFields, AcceptsKinds
    <3> QED
      BY <2>1, <3>2, <3>3, MemoryFields DEF Fits
  <2>2. ASSUME Fits(ws, MemoryFormat) PROVE Len(ws) >= 7 /\ ws[7][1] = "number"
    BY <2>2, MemoryFields, AcceptsKinds DEF Fits
  <2> QED
    BY <2>1, <2>2
<1>8. ASSUME Len(ws) >= 7
      PROVE  InstructionOf(ws, 3, 4, 5, 6) =
                 [tid |-> instr.tid, op |-> instr.op, operand |-> instr.operand,
                  atomic |-> instr.atomic, file |-> <<ws[6]>>, line |-> ws[7][2]]
  <2>1. /\ ws[3][2] = instr.tid /\ ws[4][2] = OperationWord(instr.op) /\ ws[5][2] = instr.operand
        /\ ws[2] = Word(IF instr.atomic THEN "atomic" ELSE "non-atomic")
    BY <1>3, <1>4, <1>8, WordKinds
  <2>2. OperationOf(OperationWord(instr.op)) = instr.op
    BY DEF OperationOf, OperationWord, MemoryOp
  <2>3. (ws[2] = Word("atomic")) = instr.atomic
    <3>1. instr.atomic \in BOOLEAN
      BY DEF IsInstruction, Bare, Instruction
    <3>2. Word("atomic") # Word("non-atomic")
      BY DEF Word
    <3> QED
      BY <2>1, <3>1, <3>2
  <2> QED
    BY <2>1, <2>2, <2>3 DEF InstructionOf
<1> QED
  BY <1>6, <1>7, <1>8, MemoryFields DEF ReadInstruction, Read, From

\* What operator>> takes for a lock_instruction where one was written.
LEMMA LockRead ==
    ASSUME NEW instr, IsInstruction(instr), instr.op \in LockOp,
           NEW S, NEW ws \in Seq(S), StartsWith(ws, InstructionWords(instr))
    PROVE  ReadInstruction(ws) =
              IF Len(ws) >= 6 /\ ws[6][1] = "number"
              THEN {[val |-> [tid |-> instr.tid, op |-> instr.op, operand |-> instr.operand,
                              atomic |-> instr.atomic, file |-> <<ws[5]>>, line |-> ws[6][2]],
                     rest |-> From(ws, 7)]}
              ELSE {}
<1> DEFINE words == InstructionWords(instr)
           head == <<Word("lock_instruction"), Number(instr.tid), Word(instr.op),
                     Address(instr.operand)>>
<1>1. words = head \o MetaDataWords(instr)
  BY HeadOfInstruction
<1>2. /\ Len(words) \in Nat /\ Len(words) >= 5
      /\ \A j \in 1 .. 4 : words[j] = head[j]
  <2> DEFINE T == {head[j] : j \in 1 .. 4}
  <2>1. head \in Seq(T) /\ Len(head) = 4
    OBVIOUS
  <2> HIDE DEF T, head
  <2>2. Len(instr.file) \in Nat /\ words = WithMetaData(head, 4, instr)
    BY <1>1, <2>1, MetaDataPlaces
  <2> HIDE DEF words
  <2> QED
    BY <2>2 DEF WithMetaData
<1>3. Len(ws) \in Nat
  OBVIOUS
<1>4. \A j \in 1 .. 4 : j < Len(ws) => ws[j] = head[j]
  BY <1>2, <1>3 DEF StartsWith
<1>5. Len(ws) >= 1 => ws[1] = head[1] \/ ws[1][1] = "cut"
  BY <1>2, <1>3, WordKinds DEF StartsWith
<1>6. ~ Fits(ws, MemoryFormat) /\ ~ Fits(ws, ManageFormat)
  BY <1>5, MemoryFields, ManageFields, AcceptsKinds, WordKinds DEF Fits
<1>7. Fits(ws, LockFormat) <=> Len(ws) >= 6 /\ ws[6][1] = "number"
  <2>1. ASSUME Len(ws) >= 6, ws[6][1] = "number" PROVE Fits(ws, LockFormat)
    <3>1. instr.op \in {"Lock", "Unlock"}
      BY DEF LockOp
    <3>2. /\ Accepts(LockFormat[1], ws[1]) /\ Accepts(LockFormat[2], ws[2])
          /\ Accepts(LockFormat[3], ws[3]) /\ Accepts(LockFormat[4], ws[4])
      BY <1>3, <1>4, <2>1, <3>1, LockFields, AcceptsKinds, WordKinds
    <3>3. Accepts(LockFormat[5], ws[5]) /\ Accepts(LockFormat[6], ws[6])
      BY <2>1, LockFields, AcceptsKinds
    <3> QED
      BY <2>1, <3>2, <3>3, LockFields DEF Fits
  <2>2. ASSUME Fits(ws, LockFormat) PROVE Len(ws) >= 6 /\ ws[6][1] = "number"
    BY <2>2, LockFields, AcceptsKinds DEF Fits
  <2> QED
    BY <2>1, <2>2
<1>8. ASSUME Len(ws) >= 6
      PROVE  InstructionOf(ws, 2, 3, 4, 5) =
                 [tid |-> instr.tid, op |-> instr.op, operand |-> instr.operand,
                  atomic |-> instr.atomic, file |-> <<ws[5]>>, line |-> ws[6][2]]
  <2>1. /\ ws[2][2] = instr.tid /\ ws[3][2] = instr.op /\ ws[4][2] = instr.operand
        /\ ws[1] = Word("lock_instruction")
    BY <1>3, <1>4, <1>8, WordKinds
  <2>2. OperationOf(instr.op) = instr.op
    BY DEF OperationOf, LockOp
  <2>3. (ws[1] = Word("atomic")) = instr.atomic
    <3>1. instr.atomic = FALSE
      BY DEF IsInstruction, Bare, Instruction, LockOp, MemoryOp, ManageOp
    <3>2. Word("atomic") # Word("lock_instruction")
      BY DEF Word
    <3> QED
      BY <2>1, <3>1, <3>2
  <2> QED
    BY <2>1, <2>2, <2>3 DEF InstructionOf
<1> QED
  BY <1>6, <1>7, <1>8, LockFields DEF ReadInstruction, Read, From
\* What operator>> takes for a thread_management_instruction where one was written.
LEMMA ManageRead ==
    ASSUME NEW instr, IsInstruction(instr), instr.op \in ManageOp,
           NEW S, NEW ws \in Seq(S), StartsWith(ws, InstructionWords(instr))
    PROVE  ReadInstruction(ws) =
              IF Len(ws) >= 7 /\ ws[7][1] = "number"
              THEN {[val |-> [tid |-> instr.tid, op |-> instr.op, operand |-> instr.operand,
                              atomic |-> instr.atomic, file |-> <<ws[6]>>, line |-> ws[7][2]],
                     rest |-> From(ws, 8)]}
              ELSE {}
<1> DEFINE words == InstructionWords(instr)
           head == <<Word("thread_management_instruction"), Number(instr.tid), Word(instr.op),
                     Number(instr.operand), Word("START")>>
<1>1. words = head \o MetaDataWords(instr)
  BY HeadOfInstruction
<1>2. /\ Len(words) \in Nat /\ Len(words) >= 6
      /\ \A j \in 1 .. 5 : words[j] = head[j]
  <2> DEFINE T == {head[j] : j \in 1 .. 5}
  <2>1. head \in Seq(T) /\ Len(head) = 5
    OBVIOUS
  <2> HIDE DEF T, head
  <2>2. Len(instr.file) \in Nat /\ words = WithMetaData(head, 5, instr)
    BY <1>1, <2>1, MetaDataPlaces
  <2> HIDE DEF words
  <2> QED
    BY <2>2 DEF WithMetaData
<1>3. Len(ws) \in Nat
  OBVIOUS
<1>4. \A j \in 1 .. 5 : j < Len(ws) => ws[j] = head[j]
  <2>1. StartsWith(ws, words)
    OBVIOUS
  <2> HIDE DEF words, head
  <2> TAKE j \in 1 .. 5
  <2>2. j \in 1 .. Len(words) /\ words[j] = head[j]
    BY <1>2
  <2> QED
    BY <1>3, <2>1, <2>2 DEF StartsWith
<1>5. Len(ws) >= 1 => ws[1] = head[1] \/ ws[1][1] = "cut"
  BY <1>2, <1>3, WordKinds DEF StartsWith
<1>6. ~ Fits(ws, LockFormat) /\ ~ Fits(ws, MemoryFormat)
  BY <1>5, LockFields, MemoryFields, AcceptsKinds, WordKinds DEF Fits
<1>7. Fits(ws, ManageFormat) <=> Len(ws) >= 7 /\ ws[7][1] = "number"
  <2>1. ASSUME Len(ws) >= 7, ws[7][1] = "number" PROVE Fits(ws, ManageFormat)
    <3>1. instr.op \in {"Spawn", "Join"}
      BY DEF ManageOp
    <3>2. /\ Accepts(ManageFormat[1], ws[1]) /\ Accepts(ManageFormat[2], ws[2])
          /\ Accepts(ManageFormat[3], ws[3]) /\ Accepts(ManageFormat[4], ws[4])
          /\ Accepts(ManageFormat[5], ws[5])
      BY <1>3, <1>4, <2>1, <3>1, ManageFields, AcceptsKinds, WordKinds DEF StatusField
    <3>3. Accepts(ManageFormat[6], ws[6]) /\ Accepts(ManageFormat[7], ws[7])
      BY <2>1, ManageFields, AcceptsKinds
    <3> QED
      BY <2>1, <3>2, <3>3, ManageFields DEF Fits
  <2>2. ASSUME Fits(ws, ManageFormat) PROVE Len(ws) >= 7 /\ ws[7][1] = "number"
    BY <2>2, ManageFields, AcceptsKinds DEF Fits
  <2> QED
    BY <2>1, <2>2
<1>8. ASSUME Len(ws) >= 7
      PROVE  InstructionOf(ws, 2, 3, 4, 6) =
                 [tid |-> instr.tid, op |-> instr.op, operand |-> instr.operand,
                  atomic |-> instr.atomic, file |-> <<ws[6]>>, line |-> ws[7][2]]
  <2>1. /\ ws[2][2] = instr.tid /\ ws[3][2] = instr.op /\ ws[4][2] = instr.operand
        /\ ws[1] = Word("thread_management_instruction")
    BY <1>3, <1>4, <1>8, WordKinds
  <2>2. OperationOf(instr.op) = instr.op
    BY DEF OperationOf, ManageOp
  <2>3. (ws[1] = Word("atomic")) = instr.atomic
    <3>1. instr.atomic = FALSE
      BY DEF IsInstruction, Bare, Instruction, LockOp, MemoryOp, ManageOp
    <3>2. Word("atomic") # Word("thread_management_instruction")
      BY DEF Word
    <3> QED
      BY <2>1, <3>1, <3>2
  <2> QED
    BY <2>1, <2>2, <2>3 DEF InstructionOf
<1> QED
  BY <1>6, <1>7, <1>8, ManageFields DEF ReadInstruction, Read, From

\* Where the words of an instruction are.
LEMMA InstructionPlaces ==
    ASSUME NEW instr, IsInstruction(instr)
    PROVE  /\ Len(instr.file) \in Nat
           /\ HeadLength(instr) \in Nat
           /\ \E head : InstructionWords(instr) = WithMetaData(head, HeadLength(instr), instr)
<1> DEFINE n == HeadLength(instr)
<1>1. \E head : InstructionWords(instr) = head \o MetaDataWords(instr)
                  /\ head \in Seq({head[j] : j \in 1 .. n}) /\ Len(head) = n
  <2>1. CASE instr.op \in MemoryOp
    <3> DEFINE head == <<Word("memory_instruction"),
                         Word(IF instr.atomic THEN "atomic" ELSE "non-atomic"), Number(instr.tid),
                         Word(OperationWord(instr.op)), Address(instr.operand)>>
    <3>1. n = 5
      BY <2>1 DEF HeadLength, MemoryOp, LockOp
    <3>2. head \in Seq({head[j] : j \in 1 .. n}) /\ Len(head) = n
      BY <3>1
    <3> QED
      BY <2>1, <3>2, HeadOfInstruction
  <2>2. CASE instr.op \in LockOp
    <3> DEFINE head == <<Word("lock_instruction"), Number(instr.tid), Word(instr.op),
                         Address(instr.operand)>>
    <3>1. n = 4
      BY <2>2 DEF HeadLength
    <3>2. head \in Seq({head[j] : j \in 1 .. n}) /\ Len(head) = n
      BY <3>1
    <3> QED
      BY <2>2, <3>2, HeadOfInstruction
  <2>3. CASE instr.op \in ManageOp
    <3> DEFINE head == <<Word("thread_management_instruction"), Number(instr.tid), Word(instr.op),
                         Number(instr.operand), Word("START")>>
    <3>1. n = 5
      BY <2>3 DEF HeadLength, ManageOp, LockOp
    <3>2. head \in Seq({head[j] : j \in 1 .. n}) /\ Len(head) = n
      BY <3>1
    <3> QED
      BY <2>3, <3>2, HeadOfInstruction
  <2> QED
    BY <2>1, <2>2, <2>3, HeadOfInstruction
<1>2. PICK head : InstructionWords(instr) = head \o MetaDataWords(instr)
                    /\ head \in Seq({head[j] : j \in 1 .. n}) /\ Len(head) = n
  BY <1>1
<1>3. InstructionWords(instr) = WithMetaData(head, n, instr) /\ Len(instr.file) \in Nat
  <2> DEFINE T == {head[j] : j \in 1 .. n}
  <2>1. head \in Seq(T)
    BY <1>2
  <2> HIDE DEF T
  <2> QED
    BY <2>1, <1>2, MetaDataPlaces
<1> QED
  BY <1>3 DEF HeadLength

\* What operator>> takes for the instruction: the first word of the file name, if the
\* second one can be the line.
Taken(instr, ws) ==
    LET n == HeadLength(instr)
    IN  [val |-> [tid |-> instr.tid, op |-> instr.op, operand |-> instr.operand,
                  atomic |-> instr.atomic, file |-> <<ws[n + 1]>>, line |-> ws[n + 2][2]],
         rest |-> From(ws, n + 3)]

\* Whatever is read of an instruction is Taken.
LEMMA InstructionRead ==
    ASSUME NEW instr, IsInstruction(instr), NEW S, NEW ws \in Seq(S),
           StartsWith(ws, InstructionWords(instr)), NEW n, n = HeadLength(instr)
    PROVE  ReadInstruction(ws) = IF Len(ws) >= n + 2 /\ ws[n + 2][1] = "number"
                                 THEN {Taken(instr, ws)} ELSE {}
<1>1. CASE instr.op \in MemoryOp
  <2>1. n = 5
    BY <1>1 DEF HeadLength, MemoryOp, LockOp
  <2> QED
    BY <1>1, <2>1, MemoryRead DEF Taken
<1>2. CASE instr.op \in LockOp
  <2>1. n = 4
    BY <1>2 DEF HeadLength
  <2> QED
    BY <1>2, <2>1, LockRead DEF Taken
<1>3. CASE instr.op \in ManageOp
  <2>1. n = 5
    BY <1>3 DEF HeadLength, ManageOp, LockOp
  <2> QED
    BY <1>3, <2>1, ManageRead DEF Taken
<1> QED
  BY <1>1, <1>2, <1>3, HeadOfInstruction

\* An instruction whose file name is one word is read as it was written.
LEMMA LegibleRead ==
    ASSUME NEW instr, IsInstruction(instr), Legible(instr), NEW S, NEW ws \in Seq(S),
           StartsWith(ws, InstructionWords(instr)), NEW n, n = Len(InstructionWords(instr))
    PROVE  /\ n \in Nat /\ n > 0
           /\ ReadInstruction(ws) =
                 IF Len(ws) >= n THEN {[val |-> instr, rest |-> From(ws, n + 1)]} ELSE {}
<1> DEFINE h == HeadLength(instr)
           words == InstructionWords(instr)
<1>1. PICK head : words = WithMetaData(head, h, instr)
  BY InstructionPlaces
<1>2. h \in Nat /\ Len(instr.file) = 1
  BY InstructionPlaces DEF Legible
<1> HIDE DEF h, words
<1>3. /\ n = h + 2
      /\ words[h + 1] = instr.file[1] /\ words[h + 2] = Number(instr.line)
      /\ h + 1 \in 1 .. Len(words) /\ h + 2 \in 1 .. Len(words)
  <2>1. words = [j \in 1 .. h + 2 |-> IF j <= h THEN head[j]
                    ELSE IF j <= h + 1 THEN instr.file[j - h] ELSE Number(instr.line)]
    BY <1>1, <1>2 DEF WithMetaData
  <2> QED
    BY <2>1, <1>2 DEF words
<1>4. ASSUME Len(ws) >= n
      PROVE  ws[h + 1] = instr.file[1] /\ ws[h + 2] = Number(instr.line)
  <2>1. Len(ws) \in Nat
    OBVIOUS
  <2> QED
    BY <1>2, <1>3, <1>4, <2>1, WordKinds DEF StartsWith, words
<1>5. ASSUME Len(ws) >= n PROVE Taken(instr, ws) = [val |-> instr, rest |-> From(ws, n + 1)]
  <2>1. <<instr.file[1]>> = instr.file
    BY <1>2 DEF IsInstruction
  <2>2. instr = [tid |-> instr.tid, op |-> instr.op, operand |-> instr.operand,
                 atomic |-> instr.atomic, file |-> instr.file, line |-> instr.line]
    BY DEF IsInstruction
  <2>3. n + 1 = h + 3 /\ ws[h + 2][2] = instr.line
    BY <1>2, <1>3, <1>4, <1>5, WordKinds
  <2> QED
    BY <2>1, <2>2, <2>3, <1>4, <1>5 DEF Taken, h
<1>6. ReadInstruction(ws) = IF Len(ws) >= h + 2 /\ ws[h + 2][1] = "number"
                            THEN {Taken(instr, ws)} ELSE {}
  BY InstructionRead DEF h
<1>7. Len(ws) >= n => ws[h + 2][1] = "number"
  BY <1>4, WordKinds
<1>8. n \in Nat /\ n > 0 /\ (Len(ws) >= n <=> Len(ws) >= h + 2)
  BY <1>2, <1>3
<1>9. CASE Len(ws) >= n
  <2>1. ReadInstruction(ws) = {Taken(instr, ws)}
    BY <1>6, <1>7, <1>8, <1>9
  <2> QED
    BY <2>1, <1>5, <1>8, <1>9
<1>10. CASE ~ Len(ws) >= n
  <2>1. ReadInstruction(ws) = {}
    BY <1>6, <1>8, <1>10
  <2> QED
    BY <2>1, <1>8, <1>10
<1> QED
  BY <1>9, <1>10

\* Any other one is not, and what is left does not go on like what was written.
LEMMA IllegibleRead ==
    ASSUME NEW instr, IsInstruction(instr), ~ Legible(instr), Unmistakable(instr),
           NEW S, NEW ws \in Seq(S), StartsWith(ws, InstructionWords(instr)),
           NEW n, n = Len(InstructionWords(instr)),
           n < Len(ws) => ws[n + 1][1] \in {"word", "cut"},
           NEW r \in ReadInstruction(ws), Len(r.rest) > 0
    PROVE  Head(r.rest)[1] # "word" \/ Head(r.rest)[2] \notin {"State", "enabled", "disabled"}
<1> DEFINE h == HeadLength(instr)
           words == InstructionWords(instr)
           size == Len(instr.file)
<1>1. PICK head : words = WithMetaData(head, h, instr)
  BY InstructionPlaces
<1>2. h \in Nat /\ size \in Nat /\ size # 1
  BY InstructionPlaces DEF Legible
<1>3. Len(ws) >= h + 2 /\ ws[h + 2][1] = "number" /\ r.rest = From(ws, h + 3)
  BY InstructionRead DEF Taken
<1>4. Len(ws) \in Nat
  OBVIOUS
<1>5. \A j \in 1 .. size : instr.file[j] \in ToSet(instr.file)
  BY DEF IsInstruction
<1> HIDE DEF h, words, size
<1>6. Len(ws) >= h + 3 /\ Head(r.rest) = ws[h + 3]
  BY <1>2, <1>3, <1>4 DEF From
<1>7. words = [j \in 1 .. h + size + 1 |->
                  IF j <= h THEN head[j] ELSE IF j <= h + size THEN instr.file[j - h]
                  ELSE Number(instr.line)]
  BY <1>1 DEF WithMetaData, size
<1>8. n = h + size + 1
  BY <1>2, <1>7 DEF words
<1>9. size # 0
  BY <1>2, <1>3, <1>4, <1>6, <1>8
<1>10. CASE size = 2
  <2>1. words[h + 3] = Number(instr.line) /\ h + 3 \in 1 .. Len(words)
    BY <1>2, <1>7, <1>10
  <2>2. ws[h + 3] = Number(instr.line)
    BY <2>1, <1>6, WordKinds DEF StartsWith, words
  <2> QED
    BY <2>2, <1>6, WordKinds
<1>11. CASE size > 2
  <2>1. words[h + 3] = instr.file[3] /\ h + 3 \in 1 .. Len(words)
    BY <1>2, <1>7, <1>11
  <2>2. ws[h + 3] = instr.file[3] \/ ws[h + 3] = CutWord(instr.file[3])
    BY <2>1, <1>6 DEF StartsWith, words
  <2>3. instr.file[3] \in ToSet(instr.file)
    BY <1>2, <1>5, <1>11
  <2>4. instr.file[3] \notin BehindInstruction
    BY <2>3 DEF Unmistakable
  <2>5. instr.file[3] = <<instr.file[3][1], instr.file[3][2]>>
        /\ instr.file[3][1] \in {"word", "number"}
    BY <2>3 DEF IsInstruction
  <2>6. CutWord(instr.file[3])[1] \in {"cut", "number"}
    BY <2>5 DEF CutWord
  <2>7. ~ (instr.file[3][1] = "word" /\ instr.file[3][2] \in {"State", "enabled", "disabled"})
    BY <2>4, <2>5 DEF BehindInstruction, Word
  <2> QED
    BY <2>2, <2>5, <2>6, <2>7, <1>6
<1> QED
  BY <1>2, <1>9, <1>10, <1>11

-----------------------------------------------------------------------------
\* The words of a stream from a place on.
LEMMA FromPlaces ==
    ASSUME NEW S, NEW ws \in Seq(S), NEW k \in Nat, k <= Len(ws)
    PROVE  /\ From(ws, k + 1) \in Seq(S)
           /\ Len(From(ws, k + 1)) = Len(ws) - k
           /\ \A j \in 1 .. Len(ws) - k : From(ws, k + 1)[j] = ws[k + j]
BY DEF From

\* First k words are skipped, then l.
LEMMA FromFrom ==
    ASSUME NEW S, NEW ws \in Seq(S), NEW k \in Nat, k <= Len(ws),
           NEW l \in Nat, k + l <= Len(ws)
    PROVE  From(From(ws, k + 1), l + 1) = From(ws, k + l + 1)
<1> DEFINE a == From(ws, k + 1)
           b == From(a, l + 1)
           c == From(ws, k + l + 1)
           n == Len(ws) - k - l
<1>1. /\ a \in Seq(S) /\ Len(a) = Len(ws) - k
      /\ \A j \in 1 .. Len(ws) - k : a[j] = ws[k + j]
  BY FromPlaces
<1>2. Len(ws) \in Nat /\ n \in Nat /\ l <= Len(a)
  BY <1>1
<1> HIDE DEF a
<1>3. /\ b \in Seq(S) /\ Len(b) = n
      /\ \A j \in 1 .. n : b[j] = a[l + j]
  <2>1. Len(a) - l = n
    BY <1>1, <1>2
  <2>2. /\ b \in Seq(S) /\ Len(b) = Len(a) - l
        /\ \A j \in 1 .. Len(a) - l : b[j] = a[l + j]
    <3>1. a \in Seq(S) /\ l <= Len(a)
      BY <1>1, <1>2
    <3> QED
      BY <3>1, FromPlaces
  <2> QED
    BY <2>1, <2>2
<1>4. /\ c \in Seq(S) /\ Len(c) = n
      /\ \A j \in 1 .. n : c[j] = ws[k + l + j]
  <2> DEFINE d == k + l
  <2>1. d \in Nat /\ d <= Len(ws) /\ Len(ws) - d = n
    BY <1>2
  <2> HIDE DEF d
  <2>2. /\ From(ws, d + 1) \in Seq(S) /\ Len(From(ws, d + 1)) = Len(ws) - d
        /\ \A j \in 1 .. Len(ws) - d : From(ws, d + 1)[j] = ws[d + j]
    BY <2>1, FromPlaces
  <2>3. c = From(ws, d + 1)
    BY DEF d
  <2> HIDE DEF c, n
  <2>4. c \in Seq(S) /\ Len(c) = n /\ \A j \in 1 .. n : c[j] = ws[d + j]
    BY <2>1, <2>2, <2>3
  <2> QED
    BY <2>4 DEF d
<1> HIDE DEF b, c
<1>5. \A j \in 1 .. n : b[j] = c[j]
  <2> TAKE j \in 1 .. n
  <2>1. l + j \in 1 .. Len(ws) - k /\ k + (l + j) = k + l + j
    BY <1>2
  <2> QED
    BY <2>1, <1>1, <1>3, <1>4
<1>6. b = [j \in 1 .. n |-> b[j]] /\ c = [j \in 1 .. n |-> c[j]]
  BY <1>2, <1>3, <1>4
<1> HIDE DEF n
<1>7. b = c
  BY <1>5, <1>6, Zenon
<1> QED
  BY <1>7 DEF a, b, c

\* The stream from a place on starts with the words that come there.
LEMMA StartsFrom ==
    ASSUME NEW S, NEW ws \in Seq(S), NEW text, Len(text) \in Nat, StartsWith(ws, text),
           NEW k \in Nat, k <= Len(ws), NEW part, Len(part) \in Nat, k + Len(part) <= Len(text),
           \A j \in 1 .. Len(part) : part[j] = text[k + j]
    PROVE  /\ StartsWith(From(ws, k + 1), part)
           /\ AllAhead(ws, text) => AllAhead(From(ws, k + 1), part)
<1> DEFINE a == From(ws, k + 1)
<1>1. /\ a \in Seq(S) /\ Len(a) = Len(ws) - k
      /\ \A j \in 1 .. Len(ws) - k : a[j] = ws[k + j]
  BY FromPlaces
<1>2. Len(ws) \in Nat
  OBVIOUS
<1> HIDE DEF a
<1>3. ASSUME NEW j \in 1 .. Len(part), j <= Len(a)
      PROVE  /\ a[j] = ws[k + j] /\ k + j \in 1 .. Len(text) /\ k + j <= Len(ws)
             /\ (j = Len(a) <=> k + j = Len(ws))
  BY <1>1, <1>2, <1>3
<1>4. StartsWith(a, part)
  <2> SUFFICES ASSUME NEW j \in 1 .. Len(part), j <= Len(a)
               PROVE  a[j] = part[j] \/ (j = Len(a) /\ a[j] = CutWord(part[j]))
    BY DEF StartsWith
  <2>1. ws[k + j] = text[k + j] \/ (k + j = Len(ws) /\ ws[k + j] = CutWord(text[k + j]))
    BY <1>3 DEF StartsWith
  <2> QED
    BY <2>1, <1>3
<1>5. AllAhead(ws, text) => AllAhead(a, part)
  <2> SUFFICES ASSUME AllAhead(ws, text) PROVE AllAhead(a, part)
    OBVIOUS
  <2>1. Len(ws) >= Len(text) /\ \A j \in 1 .. Len(text) : ws[j] = text[j]
    BY DEF AllAhead
  <2>2. Len(a) >= Len(part)
    BY <1>1, <1>2, <2>1
  <2>3. ASSUME NEW j \in 1 .. Len(part) PROVE a[j] = part[j]
    <3>1. j <= Len(a)
      BY <1>1, <1>2, <2>2
    <3> QED
      BY <1>3, <2>1, <3>1
  <2> QED
    BY <2>2, <2>3 DEF AllAhead
<1> QED
  BY <1>4, <1>5 DEF a

\* The stream starts with the first of these words.
LEMMA StartsSooner ==
    ASSUME NEW ws, NEW text, Len(text) \in Nat, StartsWith(ws, text),
           NEW part, Len(part) \in Nat, Len(part) <= Len(text),
           \A j \in 1 .. Len(part) : part[j] = text[j]
    PROVE  StartsWith(ws, part)
BY DEF StartsWith

\* An instruction has some words.
LEMMA InstructionSeq ==
    ASSUME NEW instr, IsInstruction(instr)
    PROVE  InstructionWords(instr) \in Seq(ToSet(InstructionWords(instr)))
           /\ Len(InstructionWords(instr)) \in Nat \ {0}
<1> DEFINE n == HeadLength(instr) + Len(instr.file) + 1
           words == InstructionWords(instr)
<1>1. PICK head : words = WithMetaData(head, HeadLength(instr), instr)
  BY InstructionPlaces
<1>2. n \in Nat \ {0}
  BY InstructionPlaces
<1>3. \E f : words = [j \in 1 .. n |-> f[j]]
  <2>1. words = [j \in 1 .. n |-> words[j]]
    BY <1>1 DEF WithMetaData
  <2> QED
    BY <2>1
<1> HIDE DEF n, words
<1>4. DOMAIN words = 1 .. n /\ words = [j \in 1 .. n |-> words[j]]
  BY <1>3
<1>5. words \in Seq({words[j] : j \in 1 .. n}) /\ Len(words) = n
  BY <1>2, <1>4
<1> QED
  BY <1>2, <1>4, <1>5 DEF ToSet, words

\* One word is read.
LEMMA ReadWord ==
    ASSUME NEW S, NEW ws, NEW val
    PROVE  Read(ws, <<OneOf(S)>>, val) =
              IF Len(ws) >= 1 /\ ws[1][1] = "word" /\ ws[1][2] \in S
              THEN {[val |-> val, rest |-> From(ws, 2)]} ELSE {}
<1>1. Fits(ws, <<OneOf(S)>>) <=> Len(ws) >= 1 /\ Accepts(OneOf(S), ws[1])
  BY DEF Fits
<1> QED
  BY <1>1, AcceptsKinds DEF Read, From

\* One number is read.
LEMMA ReadNumber ==
    ASSUME NEW ws
    PROVE  ReadTid(ws) = IF Len(ws) >= 1 /\ ws[1][1] = "number"
                         THEN {[val |-> Head(ws)[2], rest |-> From(ws, 2)]} ELSE {}
<1>1. Fits(ws, <<ANumber>>) <=> Len(ws) >= 1 /\ Accepts(ANumber, ws[1])
  BY DEF Fits
<1> QED
  BY <1>1, AcceptsKinds DEF ReadTid, Read, From

-----------------------------------------------------------------------------
\* A next_t as the pool makes it.
IsNext(next) ==
    /\ next = [instr |-> next.instr, enabled |-> next.enabled]
    /\ IsInstruction(next.instr) /\ Unmistakable(next.instr)
    /\ next.enabled \in BOOLEAN

EnabledWord(next) == IF next.enabled THEN "enabled" ELSE "disabled"

\* Where the words of a next_t are.
LEMMA NextPlaces ==
    ASSUME NEW next, IsNext(next), NEW n, n = Len(InstructionWords(next.instr))
    PROVE  /\ n \in Nat \ {0} /\ Len(NextWords(next)) = n + 1
           /\ \A j \in 1 .. n : NextWords(next)[j] = InstructionWords(next.instr)[j]
           /\ NextWords(next)[n + 1] = Word(EnabledWord(next))
           /\ \E T : NextWords(next) \in Seq(T)
<1> DEFINE words == InstructionWords(next.instr)
           last == Word(EnabledWord(next))
           T == ToSet(words)
<1>1. words \in Seq(T) /\ Len(words) \in Nat \ {0}
  BY InstructionSeq DEF IsNext
<1>2. NextWords(next) = Append(words, last)
  BY DEF NextWords, EnabledWord
<1> HIDE DEF words, last, T
<1>3. /\ Len(Append(words, last)) = Len(words) + 1
      /\ \A j \in 1 .. Len(words) : Append(words, last)[j] = words[j]
      /\ Append(words, last)[Len(words) + 1] = last
      /\ Append(words, last) \in Seq(T \cup {last})
  BY <1>1
<1> QED
  BY <1>1, <1>2, <1>3 DEF words, last

\* A next_t is read as it was written, if it is legible and all of it is there.
LEMMA NextRead ==
    ASSUME NEW next, IsNext(next), NEW S, NEW ws \in Seq(S), StartsWith(ws, NextWords(next)),
           NEW n, n = Len(NextWords(next))
    PROVE  ReadNext(ws) = IF Legible(next.instr) /\ AllAhead(ws, NextWords(next))
                          THEN {[val |-> next, rest |-> From(ws, n + 1)]} ELSE {}
<1> DEFINE instr == next.instr
           words == InstructionWords(instr)
           text == NextWords(next)
           l == Len(words)
           Behind(r) == Read(r.rest, <<OneOf({"enabled", "disabled"})>>,
                             [instr |-> r.val, enabled |-> Head(r.rest) = Word("enabled")])
<1>1. /\ l \in Nat \ {0} /\ n = l + 1
      /\ \A j \in 1 .. l : text[j] = words[j]
      /\ text[l + 1] = Word(EnabledWord(next))
  BY NextPlaces
<1>2. StartsWith(ws, words)
  <2> HIDE DEF words, text
  <2>1. Len(text) \in Nat /\ StartsWith(ws, text)
    BY <1>1 DEF text
  <2>2. Len(words) \in Nat /\ Len(words) <= Len(text)
    BY <1>1 DEF text
  <2>3. \A j \in 1 .. Len(words) : words[j] = text[j]
    BY <1>1
  <2> QED
    BY <2>1, <2>2, <2>3, StartsSooner
<1>3. IsInstruction(instr) /\ Unmistakable(instr)
  BY DEF IsNext
<1>4. ReadNext(ws) = UNION {Behind(r) : r \in ReadInstruction(ws)}
  BY DEF ReadNext
<1>5. Len(ws) \in Nat
  OBVIOUS
<1>6. \A r : Behind(r) = IF Len(r.rest) >= 1 /\ r.rest[1][1] = "word"
                            /\ r.rest[1][2] \in {"enabled", "disabled"}
                         THEN {[val |-> [instr |-> r.val, enabled |-> Head(r.rest) = Word("enabled")],
                                rest |-> From(r.rest, 2)]}
                         ELSE {}
  BY ReadWord
<1>7. l < Len(ws) => \/ ws[l + 1] = Word(EnabledWord(next))
                     \/ l + 1 = Len(ws) /\ ws[l + 1] = CutWord(Word(EnabledWord(next)))
  BY <1>1, <1>5 DEF StartsWith
<1>8. l < Len(ws) => ws[l + 1][1] \in {"word", "cut"}
  BY <1>7, WordKinds
<1>9. EnabledWord(next) \in {"enabled", "disabled"}
      /\ (Word(EnabledWord(next)) = Word("enabled")) = next.enabled
  <2>1. Word("disabled") # Word("enabled") /\ next.enabled \in BOOLEAN
    BY DEF Word, IsNext
  <2> QED
    BY <2>1 DEF EnabledWord
<1>10. AllAhead(ws, text) <=> l < Len(ws) /\ ws[l + 1] = Word(EnabledWord(next))
  <2>1. ASSUME l < Len(ws), ws[l + 1] = Word(EnabledWord(next)) PROVE AllAhead(ws, text)
    BY <1>1, <1>5, <2>1 DEF StartsWith, AllAhead
  <2>2. ASSUME AllAhead(ws, text) PROVE l < Len(ws) /\ ws[l + 1] = Word(EnabledWord(next))
    <3>1. l + 1 \in 1 .. Len(text) /\ Len(ws) >= l + 1
      BY <1>1, <1>5, <2>2 DEF AllAhead
    <3> QED
      BY <1>1, <1>5, <2>2, <3>1 DEF AllAhead
  <2> QED
    BY <2>1, <2>2
<1>11. CASE Legible(instr)
  <2>1. ReadInstruction(ws) = IF Len(ws) >= l THEN {[val |-> instr, rest |-> From(ws, l + 1)]} ELSE {}
    BY <1>2, <1>3, <1>11, LegibleRead
  <2>2. CASE Len(ws) >= l
    <3> DEFINE r == [val |-> instr, rest |-> From(ws, l + 1)]
               rest == From(ws, l + 1)
    <3>1. ReadNext(ws) = Behind(r)
      <4>1. ReadInstruction(ws) = {r}
        BY <2>1, <2>2
      <4> HIDE DEF r, Behind
      <4> QED
        BY <4>1, <1>4
    <3>2. /\ rest \in Seq(S) /\ Len(rest) = Len(ws) - l
          /\ \A j \in 1 .. Len(ws) - l : rest[j] = ws[l + j]
      <4>1. l \in Nat /\ l <= Len(ws)
        BY <1>1, <1>5, <2>2
      <4> HIDE DEF l, rest
      <4>2. /\ From(ws, l + 1) \in Seq(S) /\ Len(From(ws, l + 1)) = Len(ws) - l
            /\ \A j \in 1 .. Len(ws) - l : From(ws, l + 1)[j] = ws[l + j]
        BY <4>1, FromPlaces
      <4> QED
        BY <4>2 DEF rest
    <3>3. r.rest = rest /\ r.val = instr
      OBVIOUS
    <3> HIDE DEF r, Behind, rest
    <3>4. CASE AllAhead(ws, text)
      <4>1. rest[1] = Word(EnabledWord(next)) /\ Len(rest) >= 1 /\ Head(rest) = rest[1]
        BY <1>1, <1>5, <1>10, <3>2, <3>4
      <4>2. Behind(r) = {[val |-> [instr |-> instr, enabled |-> Head(rest) = Word("enabled")],
                          rest |-> From(rest, 2)]}
        BY <1>6, <1>9, <3>3, <4>1, WordKinds
      <4>3. From(rest, 2) = From(ws, n + 1)
        <5>1. l \in Nat /\ l <= Len(ws) /\ 1 \in Nat /\ l + 1 <= Len(ws)
          BY <1>1, <1>5, <1>10, <3>4
        <5>2. From(From(ws, l + 1), 1 + 1) = From(ws, l + 1 + 1)
          BY <5>1, FromFrom
        <5> QED
          BY <5>2, <1>1 DEF rest
      <4>4. [instr |-> instr, enabled |-> Head(rest) = Word("enabled")] = next
        <5>1. next = [instr |-> next.instr, enabled |-> next.enabled]
          BY DEF IsNext
        <5>2. (Head(rest) = Word("enabled")) = next.enabled
          BY <4>1, <1>9
        <5> QED
          BY <5>1, <5>2
      <4> QED
        BY <3>1, <3>4, <4>2, <4>3, <4>4, <1>11
    <3>5. CASE ~ AllAhead(ws, text)
      <4>1. Len(rest) >= 1 => rest[1][1] = "cut"
        <5>1. Len(rest) >= 1 => l < Len(ws) /\ rest[1] = ws[l + 1]
          BY <1>1, <1>5, <3>2
        <5> QED
          BY <5>1, <1>7, <1>10, <3>5, WordKinds
      <4>2. Behind(r) = {}
        BY <1>6, <3>3, <4>1
      <4> QED
        BY <3>1, <3>5, <4>2
    <3> QED
      BY <3>4, <3>5
  <2>3. CASE ~ Len(ws) >= l
    <3>1. ReadNext(ws) = {}
      BY <1>4, <2>1, <2>3
    <3>2. ~ AllAhead(ws, text)
      BY <1>1, <1>5, <1>10, <2>3
    <3> QED
      BY <3>1, <3>2
  <2> QED
    BY <2>2, <2>3
<1>12. CASE ~ Legible(instr)
  <2>1. ASSUME NEW r \in ReadInstruction(ws) PROVE Behind(r) = {}
    <3>1. Len(r.rest) > 0 =>
             Head(r.rest)[1] # "word" \/ Head(r.rest)[2] \notin {"State", "enabled", "disabled"}
      BY <1>2, <1>3, <1>8, <1>12, <2>1, IllegibleRead
    <3>2. Len(r.rest) >= 1 => Len(r.rest) > 0 /\ Head(r.rest) = r.rest[1]
      <4>1. Len(r.rest) \in Nat
        <5>1. r.rest = From(ws, HeadLength(instr) + 3) /\ Len(ws) >= HeadLength(instr) + 2
          BY <1>2, <1>3, InstructionRead DEF Taken
        <5>2. HeadLength(instr) + 2 \in Nat
          BY DEF HeadLength
        <5>3. Len(From(ws, HeadLength(instr) + 2 + 1)) = Len(ws) - (HeadLength(instr) + 2)
          BY <5>1, <5>2, FromPlaces
        <5>4. HeadLength(instr) + 2 + 1 = HeadLength(instr) + 3
          BY DEF HeadLength
        <5> QED
          BY <5>1, <5>2, <5>3, <5>4, <1>5
      <4> QED
        BY <4>1
    <3> HIDE DEF Behind
    <3> QED
      BY <3>1, <3>2, <1>6
  <2> HIDE DEF Behind
  <2> QED
    BY <1>4, <1>12, <2>1
<1> QED
  BY <1>11, <1>12

-----------------------------------------------------------------------------
\* What is left of a stream is shorter than it.
Shortens(results, S, ws) ==
    \A r \in results : r.rest \in Seq(S) /\ Len(r.rest) < Len(ws)

\* Whoever reads something consumes some words.
LEMMA ReadShortens ==
    ASSUME NEW S, NEW ws \in Seq(S), NEW format, Len(format) \in Nat \ {0}, NEW val
    PROVE  Shortens(Read(ws, format, val), S, ws)
<1> SUFFICES ASSUME NEW r \in Read(ws, format, val)
             PROVE  r.rest \in Seq(S) /\ Len(r.rest) < Len(ws)
  BY DEF Shortens
<1> DEFINE k == Len(format)
<1>1. Len(ws) >= k /\ r.rest = From(ws, k + 1)
  BY DEF Read, Fits, From
<1>2. Len(ws) \in Nat /\ k \in Nat \ {0}
  OBVIOUS
<1> HIDE DEF k
<1>3. From(ws, k + 1) \in Seq(S) /\ Len(From(ws, k + 1)) = Len(ws) - k
  BY <1>1, <1>2, FromPlaces
<1> QED
  BY <1>1, <1>2, <1>3

LEMMA TidShortens ==
    ASSUME NEW S, NEW ws \in Seq(S)
    PROVE  Shortens(ReadTid(ws), S, ws)
<1>1. Len(<<ANumber>>) \in Nat \ {0}
  OBVIOUS
<1> QED
  BY <1>1, ReadShortens DEF ReadTid

LEMMA InstructionShortens ==
    ASSUME NEW S, NEW ws \in Seq(S)
    PROVE  Shortens(ReadInstruction(ws), S, ws)
<1>1. Len(MemoryFormat) \in Nat \ {0} /\ Len(LockFormat) \in Nat \ {0}
      /\ Len(ManageFormat) \in Nat \ {0}
  BY MemoryFields, LockFields, ManageFields
<1>2. /\ Shortens(Read(ws, MemoryFormat, InstructionOf(ws, 3, 4, 5, 6)), S, ws)
      /\ Shortens(Read(ws, LockFormat, InstructionOf(ws, 2, 3, 4, 5)), S, ws)
      /\ Shortens(Read(ws, ManageFormat, InstructionOf(ws, 2, 3, 4, 6)), S, ws)
  BY <1>1, ReadShortens
<1> QED
  BY <1>2 DEF Shortens, ReadInstruction

LEMMA NextShortens ==
    ASSUME NEW S, NEW ws \in Seq(S)
    PROVE  Shortens(ReadNext(ws), S, ws)
<1> DEFINE V(r) == [instr |-> r.val, enabled |-> Head(r.rest) = Word("enabled")]
           Behind(r) == Read(r.rest, <<OneOf({"enabled", "disabled"})>>, V(r))
<1>1. ReadNext(ws) = UNION {Behind(r) : r \in ReadInstruction(ws)}
  BY DEF ReadNext
<1>2. ASSUME NEW r \in ReadInstruction(ws), NEW q \in Behind(r)
      PROVE  q.rest \in Seq(S) /\ Len(q.rest) < Len(ws)
  <2>1. r.rest \in Seq(S) /\ Len(r.rest) < Len(ws)
    BY InstructionShortens DEF Shortens
  <2>2. Len(<<OneOf({"enabled", "disabled"})>>) \in Nat \ {0}
    OBVIOUS
  <2>3. Shortens(Behind(r), S, r.rest)
    BY <2>1, <2>2, ReadShortens
  <2>4. q.rest \in Seq(S) /\ Len(q.rest) < Len(r.rest)
    <3> HIDE DEF Behind
    <3> QED
      BY <1>2, <2>3 DEF Shortens
  <2> QED
    BY <2>1, <2>4
<1> HIDE DEF Behind
<1> QED
  BY <1>1, <1>2 DEF Shortens

LEMMA EntryShortens ==
    ASSUME NEW S, NEW ws \in Seq(S)
    PROVE  Shortens(ReadEntry(ws), S, ws)
<1> SUFFICES ASSUME NEW q \in ReadEntry(ws)
             PROVE  q.rest \in Seq(S) /\ Len(q.rest) < Len(ws)
  BY DEF Shortens
<1>1. PICK t \in ReadTid(ws) : \E r \in ReadNext(t.rest) : q.rest = r.rest
  BY DEF ReadEntry
<1>0. PICK r \in ReadNext(t.rest) : q.rest = r.rest
  BY <1>1
<1>2. t.rest \in Seq(S) /\ Len(t.rest) < Len(ws)
  BY TidShortens DEF Shortens
<1>3. r.rest \in Seq(S) /\ Len(r.rest) < Len(t.rest)
  BY <1>2, NextShortens DEF Shortens
<1> QED
  BY <1>0, <1>2, <1>3

\* The words of an element of NextSet.
EntryWords(tid, next) == <<Number(tid)>> \o NextWords(next)

\* The text is this word, and these behind it.
IsWordBefore(text, first, words) ==
    /\ Len(text) = Len(words) + 1 /\ text[1] = first
    /\ \A j \in 1 .. Len(words) : text[1 + j] = words[j]

\* Where the words of an element of NextSet are.
LEMMA EntryPlaces ==
    ASSUME NEW next, IsNext(next), NEW tid
    PROVE  /\ Len(NextWords(next)) \in Nat \ {0}
           /\ IsWordBefore(EntryWords(tid, next), Number(tid), NextWords(next))
           /\ \E T : EntryWords(tid, next) \in Seq(T)
<1> DEFINE words == NextWords(next)
           first == Number(tid)
           n == Len(words)
<1>1. PICK T : words \in Seq(T)
  BY NextPlaces
<1>2. n \in Nat \ {0}
  <2>1. n = Len(InstructionWords(next.instr)) + 1 /\ Len(InstructionWords(next.instr)) \in Nat
    BY NextPlaces
  <2> QED
    BY <2>1
<1> HIDE DEF words, first
<1> DEFINE both == <<first>> \o words
<1>3. /\ both \in Seq(T \cup {first}) /\ Len(both) = n + 1 /\ both[1] = first
      /\ \A j \in 1 .. n : both[1 + j] = words[j]
  BY <1>1, <1>2
<1>4. EntryWords(tid, next) = both
  BY DEF EntryWords, words, first
<1> HIDE DEF both
<1> QED
  BY <1>2, <1>3, <1>4 DEF words, first, IsWordBefore

\* An element of NextSet is read as it was written.
LEMMA EntryRead ==
    ASSUME NEW next, IsNext(next), NEW tid, NEW S, NEW ws \in Seq(S),
           StartsWith(ws, EntryWords(tid, next)), NEW n, n = Len(EntryWords(tid, next))
    PROVE  ReadEntry(ws) = IF Legible(next.instr) /\ AllAhead(ws, EntryWords(tid, next))
                           THEN {[val |-> <<tid, next>>, rest |-> From(ws, n + 1)]} ELSE {}
<1> DEFINE text == EntryWords(tid, next)
           words == NextWords(next)
           l == Len(words)
           rest == From(ws, 2)
           Behind(t) == {[val |-> <<t.val, r.val>>, rest |-> r.rest] : r \in ReadNext(t.rest)}
<1>1. /\ l \in Nat \ {0} /\ n = l + 1 /\ Len(text) = l + 1 /\ Len(text) \in Nat
      /\ text[1] = Number(tid)
      /\ \A j \in 1 .. l : text[1 + j] = words[j]
  BY EntryPlaces DEF IsWordBefore
<1>2. Len(ws) \in Nat
  OBVIOUS
<1>3. ReadEntry(ws) = UNION {Behind(t) : t \in ReadTid(ws)}
  BY DEF ReadEntry
<1> HIDE DEF Behind
<1>4. CASE Len(ws) >= 1
  <2>1. ws[1] = Number(tid)
    BY <1>1, <1>2, <1>4, WordKinds DEF StartsWith
  <2>2. ReadTid(ws) = {[val |-> tid, rest |-> rest]}
    BY <1>4, <2>1, ReadNumber, WordKinds
  <2>3. ReadEntry(ws) = {[val |-> <<tid, r.val>>, rest |-> r.rest] : r \in ReadNext(rest)}
    BY <1>3, <2>2 DEF Behind
  <2>4. rest \in Seq(S) /\ Len(rest) = Len(ws) - 1
        /\ \A j \in 1 .. Len(ws) - 1 : rest[j] = ws[1 + j]
    <3>1. 1 \in Nat /\ 1 <= Len(ws) /\ 1 + 1 = 2
      BY <1>4
    <3> HIDE DEF rest
    <3>2. /\ From(ws, 1 + 1) \in Seq(S) /\ Len(From(ws, 1 + 1)) = Len(ws) - 1
          /\ \A j \in 1 .. Len(ws) - 1 : From(ws, 1 + 1)[j] = ws[1 + j]
      BY <3>1, FromPlaces
    <3> QED
      BY <3>2 DEF rest
  <2>5. StartsWith(rest, words) /\ (AllAhead(ws, text) => AllAhead(rest, words))
    <3>1. /\ Len(text) \in Nat /\ StartsWith(ws, text) /\ 1 \in Nat /\ 1 <= Len(ws)
          /\ Len(words) \in Nat /\ 1 + Len(words) <= Len(text)
      BY <1>1, <1>4
    <3>2. \A j \in 1 .. Len(words) : words[j] = text[1 + j]
      BY <1>1
    <3> HIDE DEF words, text, rest
    <3>3. StartsWith(From(ws, 1 + 1), words)
          /\ (AllAhead(ws, text) => AllAhead(From(ws, 1 + 1), words))
      BY <3>1, <3>2, StartsFrom
    <3> QED
      BY <3>3 DEF rest
  <2>6. AllAhead(rest, words) => AllAhead(ws, text)
    <3> SUFFICES ASSUME AllAhead(rest, words) PROVE AllAhead(ws, text)
      OBVIOUS
    <3>1. Len(rest) >= l /\ \A j \in 1 .. l : rest[j] = words[j]
      BY DEF AllAhead
    <3>2. Len(ws) >= Len(text)
      BY <1>1, <1>2, <2>4, <3>1
    <3>3. ASSUME NEW j \in 1 .. Len(text), j # 1 PROVE ws[j] = text[j]
      <4>1. j - 1 \in 1 .. l /\ j - 1 \in 1 .. Len(ws) - 1 /\ 1 + (j - 1) = j
        BY <1>1, <1>2, <3>2, <3>3
      <4> QED
        BY <4>1, <1>1, <2>4, <3>1
    <3> QED
      BY <3>2, <3>3, <2>1, <1>1 DEF AllAhead
  <2>7. ReadNext(rest) = IF Legible(next.instr) /\ AllAhead(rest, words)
                         THEN {[val |-> next, rest |-> From(rest, l + 1)]} ELSE {}
    <3> HIDE DEF rest
    <3> QED
      BY <2>4, <2>5, NextRead
  <2>8. CASE Legible(next.instr) /\ AllAhead(ws, text)
    <3>1. ReadNext(rest) = {[val |-> next, rest |-> From(rest, l + 1)]}
      BY <2>5, <2>7, <2>8
    <3>2. From(rest, l + 1) = From(ws, n + 1)
      <4>1. 1 \in Nat /\ 1 <= Len(ws) /\ l \in Nat /\ 1 + l <= Len(ws) /\ 1 + l + 1 = n + 1
        BY <1>1, <1>2, <1>4, <2>8 DEF AllAhead
      <4> HIDE DEF l
      <4>2. From(From(ws, 1 + 1), l + 1) = From(ws, 1 + l + 1)
        BY <4>1, FromFrom
      <4> QED
        BY <4>1, <4>2
    <3> DEFINE r == [val |-> next, rest |-> From(ws, n + 1)]
    <3>3. ReadNext(rest) = {r} /\ r.val = next /\ r.rest = From(ws, n + 1)
      BY <3>1, <3>2
    <3> HIDE DEF r
    <3>4. ReadEntry(ws) = {[val |-> <<tid, r.val>>, rest |-> r.rest]}
      BY <2>3, <3>3
    <3> QED
      BY <2>8, <3>3, <3>4
  <2>9. CASE ~ (Legible(next.instr) /\ AllAhead(ws, text))
    <3>1. ReadNext(rest) = {}
      BY <2>6, <2>7, <2>9
    <3> QED
      BY <2>3, <2>9, <3>1
  <2> QED
    BY <2>8, <2>9
<1>5. CASE ~ Len(ws) >= 1
  <2>1. ReadTid(ws) = {}
    BY <1>5, ReadNumber
  <2>2. ~ AllAhead(ws, text)
    BY <1>1, <1>2, <1>5 DEF AllAhead
  <2> QED
    BY <1>3, <2>1, <2>2
<1> QED
  BY <1>4, <1>5

-----------------------------------------------------------------------------
(***************************************************************************)
(* ReadContainer is recursive: what it reads from a place on is what it    *)
(* reads from behind the element there.                                    *)
(***************************************************************************)
BehindOf(ws, r) == Len(ws) - Len(r.rest) + 1

\* What is read from the k-th word on, where later[l] is read from the l-th one on.
ReadFrom(ws, element, later, k) ==
    IF k > Len(ws) THEN {}
    ELSE IF ws[k] = ContainerEnd
    THEN {[val |-> <<>>, rest |-> SubSeq(ws, k + 1, Len(ws))]}
    ELSE UNION {{[r EXCEPT !.val = <<e.val>> \o @] : r \in later[BehindOf(ws, e)]} :
                e \in element[k]}

IsReading(ws, element, first, from) ==
    from = [k \in first .. Len(ws) + 1 |-> ReadFrom(ws, element, from, k)]

ElementsShorten(ws, element, S) == \A k \in 1 .. Len(ws) : Shortens(element[k], S, From(ws, k))

\* An element ends behind the place it starts at.
LEMMA ElementBehind ==
    ASSUME NEW S, NEW ws \in Seq(S), NEW element, ElementsShorten(ws, element, S),
           NEW k \in 1 .. Len(ws), NEW e \in element[k]
    PROVE  BehindOf(ws, e) \in k + 1 .. Len(ws) + 1
<1>1. e.rest \in Seq(S) /\ Len(e.rest) < Len(From(ws, k))
  BY DEF ElementsShorten, Shortens
<1>2. Len(From(ws, k)) = Len(ws) - k + 1
  <2>1. k - 1 \in Nat /\ k - 1 <= Len(ws) /\ k - 1 + 1 = k
    OBVIOUS
  <2>2. Len(From(ws, k - 1 + 1)) = Len(ws) - (k - 1)
    BY <2>1, FromPlaces
  <2> QED
    BY <2>1, <2>2
<1>3. Len(e.rest) \in Nat /\ Len(ws) \in Nat /\ k \in Nat
  BY <1>1
<1> DEFINE a == Len(e.rest)
           b == Len(ws)
<1>4. a \in Nat /\ b \in Nat /\ k \in Nat /\ a < b - k + 1
  BY <1>1, <1>2, <1>3
<1>5. BehindOf(ws, e) = b - a + 1
  BY DEF BehindOf
<1> HIDE DEF a, b
<1>6. b - a + 1 \in k + 1 .. b + 1
  BY <1>4
<1> QED
  BY <1>5, <1>6 DEF b

\* What is read from a place on depends on what can be read behind it only.
LEMMA ReadFromSame ==
    ASSUME NEW S, NEW ws \in Seq(S), NEW element, ElementsShorten(ws, element, S),
           NEW k \in 1 .. Len(ws) + 1, NEW f, NEW g,
           \A l \in k + 1 .. Len(ws) + 1 : f[l] = g[l]
    PROVE  ReadFrom(ws, element, f, k) = ReadFrom(ws, element, g, k)
<1>1. CASE k > Len(ws)
  BY <1>1 DEF ReadFrom
<1>2. CASE ~ k > Len(ws)
  <2>1. k \in 1 .. Len(ws)
    BY <1>2
  <2>2. \A e \in element[k] : f[BehindOf(ws, e)] = g[BehindOf(ws, e)]
    BY <2>1, ElementBehind
  <2> DEFINE Of(h, e) == {[r EXCEPT !.val = <<e.val>> \o @] : r \in h[BehindOf(ws, e)]}
  <2>3. \A e \in element[k] : Of(f, e) = Of(g, e)
    BY <2>2, Zenon
  <2>4. UNION {Of(f, e) : e \in element[k]} = UNION {Of(g, e) : e \in element[k]}
    <3> HIDE DEF Of
    <3> QED
      BY <2>3
  <2> QED
    BY <1>2, <2>4, Zenon DEF ReadFrom
<1> QED
  BY <1>1, <1>2

\* So the recursion defines a function: from the end of the stream to its beginning.
LEMMA ReadingExists ==
    ASSUME NEW S, NEW ws \in Seq(S), NEW element, ElementsShorten(ws, element, S)
    PROVE  \E from : IsReading(ws, element, 1, from)
<1> DEFINE L == Len(ws)
           Missing == {d \in 0 .. L : ~ \E from : IsReading(ws, element, L + 1 - d, from)}
<1>0. L \in Nat /\ L = Len(ws)
  OBVIOUS
<1> HIDE DEF L
<1>1. ASSUME Missing # {} PROVE FALSE
  <2>1. Missing \in SUBSET Nat
    BY <1>0
  <2>2. PICK d \in Missing : \A c \in Missing : d <= c
    BY <1>1, <2>1, SmallestNumber
  <2>3. d \in Nat /\ d <= L /\ ~ \E from : IsReading(ws, element, L + 1 - d, from)
    BY <1>0, <2>2
  <2>4. CASE d = 0
    <3> DEFINE from == [k \in L + 1 .. L + 1 |-> {}]
    <3>1. \A k \in L + 1 .. L + 1 : ReadFrom(ws, element, from, k) = {}
      BY <1>0 DEF ReadFrom
    <3>2. from = [k \in L + 1 .. L + 1 |-> ReadFrom(ws, element, from, k)]
      BY <3>1
    <3>3. IsReading(ws, element, L + 1, from)
      <4> HIDE DEF from
      <4> QED
        BY <3>2, <1>0 DEF IsReading
    <3>4. L + 1 - d = L + 1
      BY <1>0, <2>4
    <3> QED
      BY <2>3, <3>3, <3>4
  <2>5. CASE d # 0
    <3>1. d - 1 \in 0 .. L /\ d - 1 \notin Missing
      <4> HIDE DEF Missing
      <4>1. d - 1 \in 0 .. L /\ ~ d <= d - 1
        BY <1>0, <2>3, <2>5
      <4>2. d - 1 \notin Missing
        BY <2>2, <4>1, Zenon
      <4> QED
        BY <4>1, <4>2
    <3> DEFINE first == L + 1 - d
    <3>2. first \in 1 .. L /\ L + 1 - (d - 1) = first + 1
      BY <1>0, <2>3, <2>5
    <3>3. PICK f : IsReading(ws, element, first + 1, f)
      BY <3>1, <3>2
    <3> HIDE DEF first
    <3> DEFINE from == [k \in first .. L + 1 |-> ReadFrom(ws, element, f, k)]
    <3>4. \A k \in first + 1 .. L + 1 : from[k] = f[k]
      <4>1. f = [k \in first + 1 .. L + 1 |-> ReadFrom(ws, element, f, k)]
        BY <3>3, <1>0, Zenon DEF IsReading
      <4>2. \A k \in first + 1 .. L + 1 : f[k] = ReadFrom(ws, element, f, k)
        BY <4>1, Zenon
      <4>3. \A k \in first + 1 .. L + 1 : k \in first .. L + 1
        BY <3>2, <1>0
      <4> QED
        BY <4>2, <4>3, Zenon
    <3>5. \A k \in first .. L + 1 :
             ReadFrom(ws, element, f, k) = ReadFrom(ws, element, from, k)
      <4> TAKE k \in first .. L + 1
      <4>1. k \in 1 .. Len(ws) + 1
        BY <3>2, <1>0
      <4>2. \A l \in k + 1 .. Len(ws) + 1 : f[l] = from[l]
        <5>1. \A l \in k + 1 .. Len(ws) + 1 : l \in first + 1 .. L + 1
          BY <3>2, <1>0
        <5> HIDE DEF from
        <5> QED
          BY <5>1, <3>4, Zenon
      <4> HIDE DEF from
      <4> QED
        BY <4>1, <4>2, ReadFromSame
    <3>6. from = [k \in first .. L + 1 |-> ReadFrom(ws, element, from, k)]
      <4>1. \A k \in first .. L + 1 : from[k] = ReadFrom(ws, element, from, k)
        BY <3>5, Zenon
      <4>2. from = [k \in first .. L + 1 |-> from[k]]
        BY Zenon
      <4> HIDE DEF from
      <4> QED
        BY <4>1, <4>2, Zenon
    <3>7. IsReading(ws, element, first, from)
      <4> HIDE DEF from
      <4> QED
        BY <3>6, <1>0, Zenon DEF IsReading
    <3> QED
      BY <2>3, <3>7 DEF first
  <2> QED
    BY <2>4, <2>5
<1>2. L \notin Missing /\ L \in 0 .. L /\ L + 1 - L = 1
  BY <1>0, <1>1
<1> QED
  BY <1>2

\* What a container is read as, with what is read from each place on.
LEMMA ContainerReading ==
    ASSUME NEW S, NEW ws \in Seq(S), NEW element, ElementsShorten(ws, element, S)
    PROVE  \E from :
              /\ \A k \in 1 .. Len(ws) + 1 : from[k] = ReadFrom(ws, element, from, k)
              /\ ReadContainer(ws, element) =
                    IF ws # <<>> /\ Head(ws) = ContainerBegin THEN from[2] ELSE {}
<1> DEFINE chosen ==
              CHOOSE from : from =
                  [k \in 1 .. Len(ws) + 1 |->
                      IF k > Len(ws) THEN {}
                      ELSE IF ws[k] = ContainerEnd
                      THEN {[val |-> <<>>, rest |-> SubSeq(ws, k + 1, Len(ws))]}
                      ELSE UNION {{[r EXCEPT !.val = <<e.val>> \o @] :
                                       r \in from[Len(ws) - Len(e.rest) + 1]} :
                                  e \in element[k]}]
<1>0. \E from : IsReading(ws, element, 1, from)
  BY ReadingExists
<1>1. \E from : from =
                  [k \in 1 .. Len(ws) + 1 |->
                      IF k > Len(ws) THEN {}
                      ELSE IF ws[k] = ContainerEnd
                      THEN {[val |-> <<>>, rest |-> SubSeq(ws, k + 1, Len(ws))]}
                      ELSE UNION {{[r EXCEPT !.val = <<e.val>> \o @] :
                                       r \in from[Len(ws) - Len(e.rest) + 1]} :
                                  e \in element[k]}]
  BY <1>0, Zenon DEF IsReading, ReadFrom, BehindOf
<1>2. chosen = [k \in 1 .. Len(ws) + 1 |->
                      IF k > Len(ws) THEN {}
                      ELSE IF ws[k] = ContainerEnd
                      THEN {[val |-> <<>>, rest |-> SubSeq(ws, k + 1, Len(ws))]}
                      ELSE UNION {{[r EXCEPT !.val = <<e.val>> \o @] :
                                       r \in chosen[Len(ws) - Len(e.rest) + 1]} :
                                  e \in element[k]}]
  BY <1>1, Zenon
<1>3. ReadContainer(ws, element) =
          IF ws # <<>> /\ Head(ws) = ContainerBegin THEN chosen[2] ELSE {}
  BY Zenon DEF ReadContainer
<1> HIDE DEF chosen
<1>4. chosen = [k \in 1 .. Len(ws) + 1 |-> ReadFrom(ws, element, chosen, k)]
  BY <1>2, Zenon DEF ReadFrom, BehindOf
<1>5. \A k \in 1 .. Len(ws) + 1 : chosen[k] = ReadFrom(ws, element, chosen, k)
  BY <1>4, Zenon
<1> QED
  BY <1>3, <1>5, Zenon

\* Where the parts of a container begin, and its end.
IsContainer(text, parts, place) ==
    /\ place \in [1 .. Len(parts) + 1 -> Nat]
    /\ place[1] = 2 /\ text[1] = ContainerBegin
    /\ Len(text) = place[Len(parts) + 1] /\ text[Len(text)] = ContainerEnd
    /\ \A j \in 1 .. Len(parts) :
          /\ place[j] >= 2 /\ place[j + 1] = place[j] + Len(parts[j])
          /\ place[j + 1] <= Len(text)
          /\ \A l \in 1 .. Len(parts[j]) : text[place[j] - 1 + l] = parts[j][l]

\* The words of a container are there, one part after the other.
LEMMA ContainerPlaces ==
    ASSUME NEW S, NEW parts \in Seq(Seq(S))
    PROVE  /\ \E place : IsContainer(Container(parts), parts, place)
           /\ \E T : Container(parts) \in Seq(T)
<1> DEFINE n == Len(parts)
           flat == FlattenSeq(parts)
           text == Container(parts)
<1>0. n \in Nat
  OBVIOUS
<1>1. text = <<ContainerBegin>> \o flat \o <<ContainerEnd>>
  BY DEF Container
<1>2. CASE n = 0
  <2>1. flat = <<>>
    <3>1. parts = <<>>
      BY <1>2
    <3> QED
      BY <1>2, <3>1 DEF FlattenSeq
  <2> DEFINE place == [j \in 1 .. 1 |-> 2]
  <2>2. text \in Seq({ContainerBegin, ContainerEnd}) /\ Len(text) = 2
        /\ text[1] = ContainerBegin /\ text[2] = ContainerEnd
    <3> DEFINE X == {ContainerBegin, ContainerEnd}
               a == <<ContainerBegin>>
               c == <<ContainerEnd>>
    <3>1. a \in Seq(X) /\ c \in Seq(X) /\ Len(a) = 1 /\ Len(c) = 1
          /\ a[1] = ContainerBegin /\ c[1] = ContainerEnd
      OBVIOUS
    <3>2. text = a \o <<>> \o c
      BY <1>1, <2>1, Zenon
    <3> HIDE DEF X, a, c, text
    <3>3. text = a \o c
      BY <3>1, <3>2, ConcatEmptySeq
    <3>4. /\ a \o c \in Seq(X) /\ Len(a \o c) = 1 + 1
          /\ (a \o c)[1] = a[1] /\ (a \o c)[1 + 1] = c[1]
      <4>1. 1 \in 1 .. Len(a) /\ 1 \in 1 .. Len(c)
        BY <3>1
      <4>2. /\ a \o c \in Seq(X) /\ Len(a \o c) = Len(a) + Len(c)
            /\ \A p \in 1 .. Len(a) : (a \o c)[p] = a[p]
            /\ \A p \in 1 .. Len(c) : (a \o c)[Len(a) + p] = c[p]
        <5>1. a \in Seq(X) /\ c \in Seq(X)
          BY <3>1
        <5>2. a \o c \in Seq(X) /\ Len(a \o c) = Len(a) + Len(c)
          BY <5>1
        <5>3. \A p \in 1 .. Len(a) : (a \o c)[p] = a[p]
          BY <5>1
        <5>4. \A p \in 1 .. Len(c) : (a \o c)[Len(a) + p] = c[p]
          BY <5>1
        <5> QED
          BY <5>2, <5>3, <5>4
      <4> QED
        BY <3>1, <4>1, <4>2, Zenon
    <3> QED
      BY <3>1, <3>3, <3>4 DEF X
  <2>3. n + 1 = 1
    BY <1>2
  <2>4. IsContainer(text, parts, place)
    <3> HIDE DEF text
    <3> QED
      BY <1>2, <2>2, <2>3 DEF IsContainer
  <2> QED
    BY <2>2, <2>4
<1>3. CASE n # 0
  <2>1. PICK ends \in [0 .. n -> Nat] :
            /\ ends[0] = 0
            /\ \A k \in 1 .. n : ends[k] = ends[k - 1] + Len(parts[k])
            /\ flat \in Seq(S) /\ Len(flat) = ends[n]
            /\ \A k \in 1 .. n : \A l \in 1 .. Len(parts[k]) :
                  flat[ends[k - 1] + l] = parts[k][l]
            /\ \A k, j \in 1 .. n : k <= j => ends[k] <= ends[j]
    BY <1>3, FlattenPlaces
  <2>2. \A k \in 1 .. n : Len(parts[k]) \in Nat
    OBVIOUS
  <2> DEFINE all == S \cup {ContainerBegin, ContainerEnd}
             place == [j \in 1 .. n + 1 |-> ends[j - 1] + 2]
             m == ends[n]
  <2>3. flat \in Seq(all) /\ ContainerBegin \in all /\ ContainerEnd \in all /\ m \in Nat /\ Len(flat) = m
    BY <1>0, <2>1
  <2> HIDE DEF flat, text, all, n, m
  <2>4. /\ text \in Seq(all) /\ Len(text) = m + 2
        /\ text[1] = ContainerBegin /\ text[m + 2] = ContainerEnd
        /\ \A p \in 1 .. m : text[1 + p] = flat[p]
    BY <1>1, <2>3
  <2>5. \A j \in 1 .. n + 1 : j - 1 \in 0 .. n
    BY <1>0
  <2>6. /\ place \in [1 .. n + 1 -> Nat]
        /\ \A j \in 1 .. n + 1 : place[j] = ends[j - 1] + 2
    BY <2>1, <2>5
  <2>7. place[1] = 2 /\ place[n + 1] = m + 2
    <3>1. 1 \in 1 .. n + 1 /\ n + 1 \in 1 .. n + 1 /\ 1 - 1 = 0 /\ n + 1 - 1 = n
      BY <1>0
    <3>2. place[1] = ends[0] + 2 /\ place[n + 1] = ends[n] + 2
      <4>1. \A p \in 0 .. n : p + 1 \in 1 .. n + 1 /\ p + 1 - 1 = p
        BY <1>0
      <4>2. \A p \in 0 .. n : place[p + 1] = ends[p] + 2
        BY <4>1, <2>6
      <4>3. 0 \in 0 .. n /\ n \in 0 .. n /\ 0 + 1 = 1
        BY <1>0
      <4> QED
        BY <4>2, <4>3
    <3>3. ends[0] = 0 /\ ends[n] = m
      BY <3>1, <2>1 DEF m
    <3>4. place[1] = 0 + 2 /\ place[n + 1] = m + 2
      BY <3>2, <3>3, Zenon
    <3> QED
      BY <3>4
  <2> HIDE DEF place
  <2>8. ASSUME NEW j \in 1 .. n
        PROVE  /\ place[j] >= 2 /\ place[j + 1] = place[j] + Len(parts[j])
               /\ place[j + 1] <= Len(text)
               /\ \A l \in 1 .. Len(parts[j]) : text[place[j] - 1 + l] = parts[j][l]
    <3>1. j \in 1 .. n + 1 /\ j + 1 \in 1 .. n + 1 /\ j + 1 - 1 = j /\ j - 1 \in 0 .. n
          /\ j \in 0 .. n /\ n \in 1 .. n /\ j <= n
      BY <1>0
    <3>2. place[j] = ends[j - 1] + 2 /\ place[j + 1] = ends[j] + 2
      BY <3>1, <2>6
    <3>3. /\ ends[j - 1] \in Nat /\ ends[j] \in Nat /\ Len(parts[j]) \in Nat
          /\ ends[j] = ends[j - 1] + Len(parts[j]) /\ ends[j] <= m
      BY <3>1, <2>1, <2>2 DEF m, n
    <3> DEFINE a == ends[j - 1]
               b == ends[j]
               c == Len(parts[j])
    <3>5. a \in Nat /\ b \in Nat /\ c \in Nat /\ b = a + c /\ b <= m
          /\ place[j] = a + 2 /\ place[j + 1] = b + 2
      BY <3>2, <3>3
    <3> HIDE DEF a, b, c
    <3>6. place[j] >= 2 /\ place[j + 1] = place[j] + c /\ place[j + 1] <= m + 2
      BY <3>5, <2>3
    <3>4. ASSUME NEW l \in 1 .. Len(parts[j])
          PROVE  text[place[j] - 1 + l] = parts[j][l]
      <4>1. ends[j - 1] + l \in 1 .. m /\ place[j] - 1 + l = 1 + (ends[j - 1] + l)
        <5>1. l \in 1 .. c
          BY DEF c
        <5>2. a + l \in 1 .. m /\ place[j] - 1 + l = 1 + (a + l)
          BY <3>5, <2>3, <5>1
        <5> QED
          BY <5>2 DEF a
      <4>2. flat[ends[j - 1] + l] = parts[j][l]
        BY <2>1, Zenon
      <4> QED
        BY <4>1, <4>2, <2>4
    <3> QED
      BY <3>4, <3>6, <2>4 DEF c
  <2>9. IsContainer(text, parts, place)
    BY <2>3, <2>4, <2>6, <2>7, <2>8 DEF IsContainer, n
  <2> QED
    BY <2>4, <2>9 DEF text
<1> QED
  BY <1>2, <1>3

\* element[k] is one of the parts, if it is there and can be read, wherever one starts.
ReadsParts(ws, element, parts, vals, ok) ==
    \A j \in 1 .. Len(parts) : \A k \in 1 .. Len(ws) :
        StartsWith(From(ws, k), parts[j]) =>
            element[k] = IF j \in ok /\ AllAhead(From(ws, k), parts[j])
                         THEN {[val |-> vals[j], rest |-> From(ws, k + Len(parts[j]))]} ELSE {}

\* A part cannot be taken for the end of the container, and the end not for a part.
NoEndInParts(ws, element, parts) ==
    /\ \A j \in 1 .. Len(parts) :
          /\ Len(parts[j]) \in Nat \ {0}
          /\ parts[j][1] # ContainerEnd /\ CutWord(parts[j][1]) # ContainerEnd
    /\ \A k \in 1 .. Len(ws) : ws[k] = CutWord(ContainerEnd) => element[k] = {}

\* The j-th part is ahead and can be read.
PartIsGood(ws, parts, ok, place, j) ==
    j \in ok /\ AllAhead(From(ws, place[j]), parts[j])

\* What is read from the j-th part on.
LeadsOn(ws, parts, vals, ok, place, from, j) ==
    /\ PartIsGood(ws, parts, ok, place, j) =>
         /\ place[j + 1] <= Len(ws) + 1
         /\ from[place[j]] = {[r EXCEPT !.val = <<vals[j]>> \o @] : r \in from[place[j + 1]]}
    /\ ~ PartIsGood(ws, parts, ok, place, j) => from[place[j]] = {}

\* Reading a part leads to the next one.
LEMMA PartRead ==
    ASSUME NEW S, NEW ws \in Seq(S), NEW element, NEW parts, Len(parts) \in Nat, NEW vals, NEW ok,
           ReadsParts(ws, element, parts, vals, ok), NoEndInParts(ws, element, parts),
           NEW text, Len(text) \in Nat, StartsWith(ws, text),
           NEW place, IsContainer(text, parts, place),
           NEW from, NEW j \in 1 .. Len(parts), place[j] <= Len(ws) + 1,
           from[place[j]] = ReadFrom(ws, element, from, place[j])
    PROVE  LeadsOn(ws, parts, vals, ok, place, from, j)
<1> USE DEF LeadsOn
<1> DEFINE p == place[j]
           q == place[j + 1]
           part == parts[j]
           l == Len(part)
           L == Len(ws)
<1>1. /\ l \in Nat \ {0} /\ part[1] # ContainerEnd /\ CutWord(part[1]) # ContainerEnd
  BY DEF NoEndInParts
<1>2. /\ p \in Nat /\ q \in Nat /\ p >= 2 /\ q = p + l /\ q <= Len(text)
      /\ \A k \in 1 .. l : text[p - 1 + k] = part[k]
  <2>1. j \in 1 .. Len(parts) + 1 /\ j + 1 \in 1 .. Len(parts) + 1
    OBVIOUS
  <2> QED
    BY <2>1 DEF IsContainer
<1>3. L \in Nat /\ p <= L + 1 /\ L = Len(ws)
  OBVIOUS
<1>4. from[p] = ReadFrom(ws, element, from, p)
  OBVIOUS
<1>5. CASE p = L + 1
  <2>1. from[p] = {}
    BY <1>2, <1>3, <1>4, <1>5 DEF ReadFrom
  <2>2. ~ AllAhead(From(ws, p), part)
    <3> HIDE DEF p, part, L
    <3>1. Len(From(ws, p)) = 0
      <4>1. L <= Len(ws) /\ L - L = 0
        BY <1>3
      <4>2. Len(From(ws, L + 1)) = Len(ws) - L
        BY <1>3, <4>1, FromPlaces
      <4> QED
        BY <4>1, <4>2, <1>3, <1>5
    <3> QED
      BY <1>1, <3>1 DEF AllAhead
  <2> QED
    BY <2>1, <2>2 DEF PartIsGood
<1>6. CASE p # L + 1
  <2>1. p \in 1 .. L /\ p - 1 \in Nat /\ p - 1 <= L /\ p - 1 + 1 = p
    <3>1. p \in Nat /\ p >= 2
      BY <1>2
    <3> HIDE DEF p, L
    <3> QED
      BY <1>3, <1>6, <3>1
  <2>2. StartsWith(From(ws, p), part)
    <3>1. p - 1 + Len(part) <= Len(text) /\ Len(part) \in Nat
      BY <1>1, <1>2
    <3>2. \A k \in 1 .. Len(part) : part[k] = text[p - 1 + k]
      BY <1>2
    <3> HIDE DEF p, part
    <3>3. StartsWith(From(ws, p - 1 + 1), part)
      BY <1>3, <2>1, <3>1, <3>2, StartsFrom
    <3> QED
      BY <2>1, <3>3
  <2>3. ws[p] # ContainerEnd
    <3>1. p \in 1 .. Len(text) /\ text[p] = part[1]
      <4>1. 1 \in 1 .. l /\ p - 1 + 1 = p
        BY <1>1, <1>2
      <4>2. text[p - 1 + 1] = part[1]
        BY <1>2, <4>1
      <4>3. p \in Nat /\ p >= 2 /\ l \in Nat \ {0} /\ p + l <= Len(text)
        BY <1>1, <1>2
      <4> HIDE DEF p, part, l
      <4>4. p \in 1 .. Len(text)
        BY <4>3
      <4> QED
        BY <4>1, <4>2, <4>4
    <3>2. ws[p] = text[p] \/ ws[p] = CutWord(text[p])
      BY <2>1, <3>1 DEF StartsWith
    <3> QED
      BY <1>1, <3>1, <3>2
  <2>4. element[p] = IF PartIsGood(ws, parts, ok, place, j)
                     THEN {[val |-> vals[j], rest |-> From(ws, p + l)]} ELSE {}
    BY <2>1, <2>2 DEF ReadsParts, PartIsGood
  <2>5. from[p] = UNION {{[r EXCEPT !.val = <<e.val>> \o @] : r \in from[BehindOf(ws, e)]} :
                         e \in element[p]}
    <3> HIDE DEF p, L
    <3> QED
      BY <1>3, <1>4, <2>1, <2>3 DEF ReadFrom
  <2>6. CASE PartIsGood(ws, parts, ok, place, j)
    <3> DEFINE e == [val |-> vals[j], rest |-> From(ws, p + l)]
    <3>1. element[p] = {e}
      BY <2>4, <2>6
    <3>2. e.val = vals[j] /\ e.rest = From(ws, q)
      BY <1>2
    <3> HIDE DEF e
    <3>3. q <= L + 1 /\ BehindOf(ws, e) = q
      <4>1. Len(From(ws, p)) >= l
        BY <2>6 DEF PartIsGood, AllAhead
      <4> HIDE DEF p, q, l, L
      <4>2. Len(From(ws, p)) = L - (p - 1)
        <5>1. Len(From(ws, p - 1 + 1)) = Len(ws) - (p - 1)
          BY <1>3, <2>1, FromPlaces
        <5> QED
          BY <1>3, <2>1, <5>1
      <4>3. q <= L + 1 /\ q - 1 \in Nat /\ q - 1 <= L /\ q - 1 + 1 = q
        BY <1>1, <1>2, <1>3, <2>1, <4>1, <4>2
      <4>4. Len(From(ws, q)) = L - (q - 1)
        <5>1. Len(From(ws, q - 1 + 1)) = Len(ws) - (q - 1)
          BY <1>3, <4>3, FromPlaces
        <5> QED
          BY <1>3, <4>3, <5>1
      <4>5. BehindOf(ws, e) = L - (L - (q - 1)) + 1
        BY <1>3, <3>2, <4>4 DEF BehindOf
      <4> QED
        BY <1>2, <1>3, <4>3, <4>5
    <3>4. from[p] = {[r EXCEPT !.val = <<e.val>> \o @] : r \in from[BehindOf(ws, e)]}
      BY <2>5, <3>1
    <3> QED
      BY <2>6, <3>2, <3>3, <3>4, <1>3
  <2>7. CASE ~ PartIsGood(ws, parts, ok, place, j)
    <3>1. element[p] = {}
      BY <2>4, <2>7
    <3>2. from[p] = {}
      BY <2>5, <3>1
    <3> QED
      BY <2>7, <3>2
  <2> QED
    BY <2>6, <2>7
<1> QED
  BY <1>5, <1>6

\* Reading the end of the container ends it.
LEMMA EndRead ==
    ASSUME NEW S, NEW ws \in Seq(S), NEW element, NEW parts, Len(parts) \in Nat,
           NoEndInParts(ws, element, parts),
           NEW text, Len(text) \in Nat, StartsWith(ws, text),
           NEW place, IsContainer(text, parts, place), Len(text) <= Len(ws) + 1,
           NEW from, from[Len(text)] = ReadFrom(ws, element, from, Len(text))
    PROVE  from[Len(text)] = IF AllAhead(ws, text)
                             THEN {[val |-> <<>>, rest |-> From(ws, Len(text) + 1)]} ELSE {}
<1> DEFINE p == Len(text)
           L == Len(ws)
<1>1. p \in Nat /\ p >= 1 /\ text[p] = ContainerEnd /\ L \in Nat /\ p <= L + 1
  <2>1. p >= 2
    <3>1. CASE Len(parts) = 0
      BY <3>1 DEF IsContainer
    <3>2. CASE Len(parts) # 0
      <4>1. 1 \in 1 .. Len(parts)
        BY <3>2
      <4>2. place[1] = 2 /\ place[1 + 1] <= Len(text) /\ place[1 + 1] = place[1] + Len(parts[1])
        BY <4>1 DEF IsContainer
      <4>3. Len(parts[1]) \in Nat
        BY <4>1 DEF NoEndInParts
      <4> QED
        BY <4>2, <4>3
    <3> QED
      BY <3>1, <3>2
  <2> QED
    BY <2>1 DEF IsContainer
<1>2. CASE p = L + 1
  <2>1. from[p] = {}
    BY <1>1, <1>2 DEF ReadFrom
  <2>2. ~ AllAhead(ws, text)
    BY <1>1, <1>2 DEF AllAhead
  <2> QED
    BY <2>1, <2>2
<1>3. CASE p # L + 1 /\ ws[p] = ContainerEnd
  <2>1. from[p] = {[val |-> <<>>, rest |-> SubSeq(ws, p + 1, L)]}
    BY <1>1, <1>3 DEF ReadFrom
  <2>2. AllAhead(ws, text)
    <3>1. ASSUME NEW j \in 1 .. p PROVE ws[j] = text[j]
      <4>1. CASE j = p
        BY <1>1, <1>3, <4>1
      <4>2. CASE j # p
        <5>1. j <= L /\ j # L
          BY <1>1, <1>3, <4>2
        <5> QED
          BY <5>1 DEF StartsWith
      <4> QED
        BY <4>1, <4>2
    <3> QED
      BY <1>1, <1>3, <3>1 DEF AllAhead
  <2> QED
    BY <2>1, <2>2 DEF From
<1>4. CASE p # L + 1 /\ ws[p] # ContainerEnd
  <2>1. p \in 1 .. L /\ p \in 1 .. Len(text)
    BY <1>1, <1>4
  <2>2. ws[p] = CutWord(ContainerEnd)
    BY <1>1, <1>4, <2>1 DEF StartsWith
  <2>3. element[p] = {}
    BY <2>1, <2>2 DEF NoEndInParts
  <2>4. from[p] = {}
    <3> HIDE DEF p, L
    <3>1. ~ p > Len(ws)
      BY <2>1 DEF L
    <3>2. from[p] = ReadFrom(ws, element, from, p)
      BY DEF p
    <3> QED
      BY <1>4, <2>3, <3>1, <3>2 DEF ReadFrom
  <2>5. ~ AllAhead(ws, text)
    BY <1>1, <1>4, <2>1 DEF AllAhead
  <2> QED
    BY <2>4, <2>5
<1> QED
  BY <1>2, <1>3, <1>4

\* The last of the values, from the j-th one on.
Remaining(vals, n, j) == [k \in 1 .. n + 1 - j |-> vals[j + k - 1]]

\* The values from the j-th on are the j-th and those behind it.
LEMMA RemainingCons ==
    ASSUME NEW n \in Nat, NEW vals, NEW j \in 1 .. n
    PROVE  <<vals[j]>> \o Remaining(vals, n, j + 1) = Remaining(vals, n, j)
<1> DEFINE S == {vals[k] : k \in 1 .. n}
           a == <<vals[j]>>
           b == Remaining(vals, n, j + 1)
           c == Remaining(vals, n, j)
           m == n - j
<1>1. m \in Nat /\ n + 1 - (j + 1) = m /\ n + 1 - j = m + 1
  OBVIOUS
<1>2. a \in Seq(S) /\ Len(a) = 1 /\ a[1] = vals[j]
  OBVIOUS
<1>3. b = [k \in 1 .. m |-> vals[j + 1 + k - 1]] /\ c = [k \in 1 .. m + 1 |-> vals[j + k - 1]]
  BY <1>1 DEF Remaining
<1>4. \A k \in 1 .. m : vals[j + 1 + k - 1] \in S
  <2>1. \A k \in 1 .. m : j + 1 + k - 1 \in 1 .. n
    OBVIOUS
  <2> QED
    BY <2>1
<1>5. b \in Seq(S) /\ Len(b) = m
  <2> HIDE DEF b, S, m
  <2>1. b \in [1 .. m -> S]
    BY <1>3, <1>4
  <2> QED
    BY <1>1, <2>1
<1> HIDE DEF a, b, c, S, m
<1> DEFINE d == a \o b
<1>6. d \in Seq(S) /\ Len(d) = m + 1 /\ d[1] = vals[j] /\ \A k \in 1 .. m : d[1 + k] = b[k]
  <2>1. a \in Seq(S) /\ b \in Seq(S)
    BY <1>2, <1>5
  <2>2. d \in Seq(S) /\ Len(d) = Len(a) + Len(b)
    BY <2>1
  <2>3. \A k \in 1 .. Len(a) : d[k] = a[k]
    BY <2>1
  <2>4. \A k \in 1 .. Len(b) : d[Len(a) + k] = b[k]
    BY <2>1
  <2> HIDE DEF d
  <2>5. Len(d) = m + 1
    BY <1>1, <1>2, <1>5, <2>2
  <2>6. d[1] = vals[j]
    <3>1. 1 \in 1 .. Len(a)
      BY <1>2
    <3> QED
      BY <1>2, <2>3, <3>1
  <2>7. \A k \in 1 .. m : d[1 + k] = b[k]
    BY <1>2, <1>5, <2>4
  <2> QED
    BY <2>2, <2>5, <2>6, <2>7
<1> HIDE DEF d
<1>8. \A k \in 1 .. m + 1 : d[k] = c[k]
  <2> TAKE k \in 1 .. m + 1
  <2>1. CASE k = 1
    <3>1. c[1] = vals[j + 1 - 1] /\ j + 1 - 1 = j
      BY <1>1, <1>3
    <3> QED
      BY <2>1, <3>1, <1>6
  <2>2. CASE k # 1
    <3>1. k - 1 \in 1 .. m /\ 1 + (k - 1) = k /\ j + 1 + (k - 1) - 1 = j + k - 1
      BY <1>1, <2>2
    <3>2. d[1 + (k - 1)] = b[k - 1]
      BY <1>6, <3>1
    <3>3. b[k - 1] = vals[j + 1 + (k - 1) - 1]
      BY <1>3, <3>1
    <3>4. c[k] = vals[j + k - 1]
      BY <1>3
    <3> QED
      BY <3>1, <3>2, <3>3, <3>4
  <2> QED
    BY <2>1, <2>2
<1>9. d = [k \in 1 .. m + 1 |-> d[k]] /\ c = [k \in 1 .. m + 1 |-> c[k]]
  BY <1>1, <1>3, <1>6
<1>10. d = c
  BY <1>8, <1>9, Zenon
<1> QED
  BY <1>10 DEF a, b, c, d

\* What the assignment to val does.
LEMMA PutFirst ==
    ASSUME NEW a, NEW b, NEW c
    PROVE  [[val |-> a, rest |-> b] EXCEPT !.val = <<c>> \o @] = [val |-> <<c>> \o a, rest |-> b]
<1> DEFINE q == [val |-> a, rest |-> b]
           d == <<c>> \o a
<1>1. q.val = a
  OBVIOUS
<1>2. [q EXCEPT !.val = <<c>> \o @] = [q EXCEPT !.val = d]
  BY <1>1
<1> HIDE DEF d
<1>3. [q EXCEPT !.val = d] = [val |-> d, rest |-> b]
  OBVIOUS
<1> QED
  BY <1>2, <1>3 DEF d

\* A container is read as the values of its parts, if all of it is ahead and all of them
\* can be read.
LEMMA ContainerRead ==
    ASSUME NEW S, NEW ws \in Seq(S), NEW element, ElementsShorten(ws, element, S),
           NEW T, NEW parts \in Seq(Seq(T)), NEW vals, NEW ok,
           ReadsParts(ws, element, parts, vals, ok), NoEndInParts(ws, element, parts),
           StartsWith(ws, Container(parts)), NEW n, n = Len(parts)
    PROVE  ReadContainer(ws, element) =
              IF AllAhead(ws, Container(parts)) /\ 1 .. n \subseteq ok
              THEN {[val |-> [k \in 1 .. n |-> vals[k]],
                     rest |-> From(ws, Len(Container(parts)) + 1)]}
              ELSE {}
<1> DEFINE text == Container(parts)
           L == Len(ws)
           N == Len(text)
           Rest == From(ws, N + 1)
<1>0. n \in Nat /\ L \in Nat /\ Len(parts) \in Nat
  OBVIOUS
<1>1. PICK place : IsContainer(text, parts, place)
  BY ContainerPlaces
<1>2. N \in Nat
  <2>1. PICK U : text \in Seq(U)
    BY ContainerPlaces
  <2> QED
    BY <2>1
<1>3. PICK from :
         /\ \A k \in 1 .. L + 1 : from[k] = ReadFrom(ws, element, from, k)
         /\ ReadContainer(ws, element) =
               IF ws # <<>> /\ Head(ws) = ContainerBegin THEN from[2] ELSE {}
  BY ContainerReading
<1> DEFINE Good(j) == IF j = n + 1 THEN AllAhead(ws, text)
                      ELSE PartIsGood(ws, parts, ok, place, j)
<1> HIDE DEF text
<1>4. /\ place[1] = 2 /\ place[n + 1] = N /\ N >= 2 /\ text[1] = ContainerBegin
      /\ \A j \in 1 .. n + 1 : place[j] \in Nat /\ place[j] >= 2 /\ place[j] <= N
      /\ \A j \in 1 .. n : place[j + 1] = place[j] + Len(parts[j])
                           /\ \A l \in 1 .. Len(parts[j]) : text[place[j] - 1 + l] = parts[j][l]
                           /\ Len(parts[j]) \in Nat /\ place[j + 1] <= N
  <2>1. /\ place[1] = 2 /\ place[n + 1] = N /\ text[1] = ContainerBegin
        /\ \A j \in 1 .. n + 1 : place[j] \in Nat
    BY <1>1 DEF IsContainer
  <2>2. \A j \in 1 .. n : /\ place[j] >= 2 /\ place[j + 1] = place[j] + Len(parts[j])
                          /\ place[j + 1] <= N
                          /\ \A l \in 1 .. Len(parts[j]) : text[place[j] - 1 + l] = parts[j][l]
    BY <1>1 DEF IsContainer
  <2>3. \A j \in 1 .. n : Len(parts[j]) \in Nat
    BY <1>0
  <2>4. N >= 2
    <3>1. CASE n = 0
      BY <2>1, <3>1
    <3>2. CASE n # 0
      <4>1. 1 \in 1 .. n
        BY <1>0, <3>2
      <4>2. place[1 + 1] = place[1] + Len(parts[1]) /\ place[1 + 1] <= N /\ Len(parts[1]) \in Nat
        BY <4>1, <2>2, <2>3
      <4> QED
        BY <4>2, <2>1, <1>2
    <3> QED
      BY <3>1, <3>2
  <2>5. \A j \in 1 .. n + 1 : place[j] >= 2 /\ place[j] <= N
    <3> TAKE j \in 1 .. n + 1
    <3>1. CASE j = n + 1
      BY <3>1, <2>1, <2>4, <1>2
    <3>2. CASE j # n + 1
      <4>1. j \in 1 .. n
        BY <1>0, <3>2
      <4>2. /\ place[j] >= 2 /\ place[j + 1] = place[j] + Len(parts[j]) /\ place[j + 1] <= N
            /\ Len(parts[j]) \in Nat /\ place[j] \in Nat
        BY <4>1, <2>1, <2>2, <2>3
      <4> QED
        BY <4>2, <1>2
    <3> QED
      BY <3>1, <3>2
  <2> QED
    BY <2>1, <2>2, <2>3, <2>4, <2>5
<1>5. CASE L = 0
  <2>1. ReadContainer(ws, element) = {}
    BY <1>3, <1>5
  <2>2. ~ AllAhead(ws, text)
    BY <1>2, <1>4, <1>5 DEF AllAhead
  <2> QED
    BY <2>1, <2>2 DEF text
<1>6. CASE L # 0 /\ ws[1] # ContainerBegin
  <2>1. ReadContainer(ws, element) = {}
    <3>1. Head(ws) = ws[1]
      BY <1>6
    <3> QED
      BY <1>3, <1>6, <3>1
  <2>2. ~ AllAhead(ws, text)
    <3>1. 1 \in 1 .. Len(text) /\ text[1] = ContainerBegin
      BY <1>2, <1>4
    <3>2. AllAhead(ws, text) => ws[1] = text[1]
      BY <3>1 DEF AllAhead
    <3> QED
      BY <1>6, <3>1, <3>2
  <2> QED
    BY <2>1, <2>2 DEF text
<1>7. CASE L # 0 /\ ws[1] = ContainerBegin
  <2>1. ReadContainer(ws, element) = from[place[1]]
    <3>1. Head(ws) = ws[1] /\ ws # <<>>
      BY <1>7
    <3> QED
      BY <1>3, <1>4, <1>7, <3>1
  <2>2. \A j \in 1 .. n : place[j] <= L + 1 =>
           /\ Good(j) =>
                /\ place[j + 1] <= L + 1
                /\ from[place[j]] = {[r EXCEPT !.val = <<vals[j]>> \o @] : r \in from[place[j + 1]]}
           /\ ~ Good(j) => from[place[j]] = {}
    <3> SUFFICES ASSUME NEW j \in 1 .. n, place[j] <= L + 1
                 PROVE  /\ Good(j) =>
                            /\ place[j + 1] <= L + 1
                            /\ from[place[j]] =
                                  {[r EXCEPT !.val = <<vals[j]>> \o @] : r \in from[place[j + 1]]}
                        /\ ~ Good(j) => from[place[j]] = {}
      OBVIOUS
    <3>1. j # n + 1 /\ j \in 1 .. n + 1
      BY <1>0
    <3>2. from[place[j]] = ReadFrom(ws, element, from, place[j])
      BY <1>0, <1>3, <1>4, <3>1
    <3>3. Good(j) <=> PartIsGood(ws, parts, ok, place, j)
      BY <3>1
    <3> HIDE DEF Good
    <3>4. StartsWith(ws, text) /\ Len(text) \in Nat
      BY <1>2 DEF text
    <3> DEFINE p == place[j]
               q == place[j + 1]
    <3>5. j \in 1 .. Len(parts)
      OBVIOUS
    <3>6. LeadsOn(ws, parts, vals, ok, place, from, j)
      BY <1>0, <1>1, <3>2, <3>4, <3>5, PartRead
    <3> QED
      BY <3>3, <3>6 DEF LeadsOn
  <2>3. N <= L + 1 => from[N] = IF AllAhead(ws, text) THEN {[val |-> <<>>, rest |-> Rest]} ELSE {}
    <3> SUFFICES ASSUME N <= L + 1
                 PROVE  from[N] = IF AllAhead(ws, text)
                                  THEN {[val |-> <<>>, rest |-> Rest]} ELSE {}
      OBVIOUS
    <3>1. from[N] = ReadFrom(ws, element, from, N)
      BY <1>0, <1>2, <1>3, <1>4
    <3>2. StartsWith(ws, text) /\ Len(text) \in Nat
      BY <1>2 DEF text
    <3> QED
      BY <1>0, <1>1, <3>1, <3>2, EndRead
  <2>4. CASE AllAhead(ws, text) /\ 1 .. n \subseteq ok
    <3>1. N <= L
      BY <2>4 DEF AllAhead
    <3>2. ASSUME NEW j \in 1 .. n PROVE Good(j)
      <4> DEFINE k == place[j] - 1
                 part == parts[j]
      <4>1. j \in 1 .. n + 1 /\ j # n + 1 /\ j \in ok
        <5>1. j \in 1 .. n + 1 /\ j # n + 1
          BY <1>0
        <5>2. j \in ok
          BY <2>4
        <5> QED
          BY <5>1, <5>2
      <4>2. /\ k \in Nat /\ k <= L /\ k + Len(part) <= N /\ k + 1 = place[j]
            /\ Len(part) \in Nat
        <5> DEFINE a == place[j]
                   c == Len(part)
                   e == place[j + 1]
        <5>1. a \in Nat /\ a >= 2 /\ e = a + c /\ c \in Nat /\ e <= N /\ k = a - 1
          <6>1. place[j] \in Nat /\ place[j] >= 2
            BY <1>4, <4>1, Zenon
          <6>2. /\ place[j + 1] = place[j] + Len(parts[j])
                /\ Len(parts[j]) \in Nat /\ place[j + 1] <= N
            BY <1>4
          <6> QED
            BY <6>1, <6>2
        <5> HIDE DEF a, c, e, k
        <5>2. k \in Nat /\ k <= L /\ k + c <= N /\ k + 1 = a
          BY <1>0, <1>2, <3>1, <5>1
        <5> QED
          BY <5>1, <5>2 DEF a, c
      <4>3. \A l \in 1 .. Len(part) : part[l] = text[k + l]
        BY <1>4
      <4>4. StartsWith(ws, text) /\ Len(text) \in Nat /\ AllAhead(ws, text)
        BY <1>2, <2>4 DEF text
      <4> HIDE DEF k, part
      <4>5. AllAhead(From(ws, k + 1), part)
        BY <4>2, <4>3, <4>4, StartsFrom
      <4> QED
        BY <4>1, <4>2, <4>5 DEF PartIsGood, part
    <3> DEFINE Claim(j) == from[place[j]] = {[val |-> Remaining(vals, n, j), rest |-> Rest]}
               Bad == {d \in 0 .. n : ~ Claim(n + 1 - d)}
    <3>3. ASSUME Bad # {} PROVE FALSE
      <4>1. Bad \in SUBSET Nat
        BY <1>0
      <4>2. PICK d \in Bad : \A c \in Bad : d <= c
        BY <3>3, <4>1, SmallestNumber
      <4>3. d \in 0 .. n /\ ~ Claim(n + 1 - d)
        BY <4>2
      <4>4. CASE d = 0
        <5>1. Remaining(vals, n, n + 1) = <<>>
          <6>1. n + 1 - (n + 1) = 0
            BY <1>0
          <6> QED
            BY <6>1 DEF Remaining
        <5>2. from[place[n + 1]] = {[val |-> <<>>, rest |-> Rest]}
          BY <1>0, <1>2, <1>4, <2>3, <2>4, <3>1
        <5>3. n + 1 - d = n + 1
          BY <1>0, <4>4
        <5> QED
          BY <4>3, <5>1, <5>2, <5>3
      <4>5. CASE d # 0
        <5> DEFINE j == n + 1 - d
        <5>1. j \in 1 .. n /\ j \in 1 .. n + 1 /\ d - 1 \in 0 .. n /\ n + 1 - (d - 1) = j + 1 /\ ~ d <= d - 1
          BY <1>0, <4>3, <4>5
        <5>2. Claim(j + 1)
          <6>1. d - 1 \notin Bad
            BY <4>2, <5>1
          <6> HIDE DEF Claim, j
          <6> QED
            BY <5>1, <6>1
        <5> HIDE DEF j
        <5> DEFINE q == [val |-> Remaining(vals, n, j + 1), rest |-> Rest]
        <5>3. from[place[j + 1]] = {q} /\ q.val = Remaining(vals, n, j + 1) /\ q.rest = Rest
          BY <5>2
        <5>4. [q EXCEPT !.val = <<vals[j]>> \o @] =
                 [val |-> <<vals[j]>> \o Remaining(vals, n, j + 1), rest |-> Rest]
          <6> DEFINE a == Remaining(vals, n, j + 1)
                     c == vals[j]
          <6> HIDE DEF Rest, Claim, a, c
          <6>1. [[val |-> a, rest |-> Rest] EXCEPT !.val = <<c>> \o @] =
                   [val |-> <<c>> \o a, rest |-> Rest]
            BY PutFirst
          <6> QED
            BY <6>1 DEF a, c
        <5> HIDE DEF q, Rest
        <5>5. place[j] <= L + 1
          <6>1. place[j] \in Nat /\ place[j] <= N
            BY <1>4, <5>1
          <6> QED
            BY <6>1, <1>0, <1>2, <3>1
        <5>6. from[place[j]] = {[r EXCEPT !.val = <<vals[j]>> \o @] : r \in from[place[j + 1]]}
          BY <2>2, <3>2, <5>1, <5>5
        <5>7. from[place[j]] = {[val |-> <<vals[j]>> \o Remaining(vals, n, j + 1), rest |-> Rest]}
          <6>1. {[r EXCEPT !.val = <<vals[j]>> \o @] : r \in {q}} =
                   {[q EXCEPT !.val = <<vals[j]>> \o @]}
            BY Zenon
          <6>2. from[place[j + 1]] = {q}
            BY <5>3
          <6>3. from[place[j]] = {[r EXCEPT !.val = <<vals[j]>> \o @] : r \in {q}}
            BY <5>6, <6>2, Zenon
          <6> QED
            BY <5>4, <6>1, <6>3, Zenon
        <5>8. Claim(j)
          BY <1>0, <5>1, <5>7, RemainingCons
        <5> QED
          BY <4>3, <5>8 DEF j
      <4> QED
        BY <4>4, <4>5
    <3>4. Claim(1)
      <4>1. n \in 0 .. n /\ n + 1 - n = 1 /\ n \notin Bad
        BY <1>0, <3>3
      <4> HIDE DEF Claim
      <4> QED
        BY <4>1
    <3>5. Remaining(vals, n, 1) = [k \in 1 .. n |-> vals[k]]
      <4>1. n + 1 - 1 = n /\ \A k \in 1 .. n : 1 + k - 1 = k
        BY <1>0
      <4> QED
        BY <4>1 DEF Remaining
    <3> QED
      BY <2>1, <2>4, <3>4, <3>5 DEF text
  <2>5. CASE ~ (AllAhead(ws, text) /\ 1 .. n \subseteq ok)
    <3> DEFINE Bad == {j \in 1 .. n + 1 : place[j] > L + 1 \/ ~ Good(j)}
    <3>1. ASSUME Bad = {} PROVE FALSE
      <4>1. \A j \in 1 .. n + 1 : Good(j)
        <5> HIDE DEF Good
        <5> QED
          BY <3>1
      <4>2. AllAhead(ws, text)
        <5>1. n + 1 \in 1 .. n + 1
          BY <1>0
        <5> QED
          BY <4>1, <5>1
      <4>3. \A j \in 1 .. n : j \in ok
        <5>1. \A j \in 1 .. n : j \in 1 .. n + 1 /\ j # n + 1
          BY <1>0
        <5> QED
          BY <4>1, <5>1 DEF PartIsGood
      <4> QED
        BY <2>5, <4>2, <4>3
    <3>2. Bad \in SUBSET Nat
      BY <1>0
    <3>3. PICK b \in Bad : \A c \in Bad : b <= c
      BY <3>1, <3>2, SmallestNumber
    <3>4. b \in 1 .. n + 1 /\ (place[b] > L + 1 \/ ~ Good(b))
      BY <3>3
    <3>5. \A j \in 1 .. n + 1 : j < b => place[j] <= L + 1 /\ Good(j)
      <4> HIDE DEF Good
      <4>1. \A j \in 1 .. n + 1 : j < b => j \notin Bad
        BY <3>3, <3>4
      <4> QED
        BY <1>0, <1>4, <4>1
    <3>6. place[b] <= L + 1
      <4>1. CASE b = 1
        BY <4>1, <1>0, <1>4, <1>7
      <4>2. CASE b # 1
        <5>1. b - 1 \in 1 .. n /\ b - 1 \in 1 .. n + 1 /\ b - 1 < b /\ b - 1 + 1 = b
          BY <1>0, <3>4, <4>2
        <5>2. place[b - 1] <= L + 1 /\ Good(b - 1)
          BY <3>5, <5>1
        <5> HIDE DEF Good
        <5>3. place[b - 1 + 1] <= L + 1
          BY <2>2, <5>1, <5>2
        <5> QED
          BY <5>1, <5>3
      <4> QED
        BY <4>1, <4>2
    <3>7. from[place[b]] = {} /\ ~ Good(b)
      <4>1. ~ Good(b)
        <5> HIDE DEF Good
        <5> QED
          BY <1>0, <1>4, <3>4, <3>6
      <4>2. CASE b = n + 1
        <5>1. ~ AllAhead(ws, text) /\ place[b] = N
          BY <4>1, <4>2, <1>4
        <5> QED
          BY <4>1, <5>1, <2>3, <3>6
      <4>3. CASE b # n + 1
        <5>1. b \in 1 .. n
          BY <1>0, <3>4, <4>3
        <5> HIDE DEF Good
        <5> QED
          BY <2>2, <3>6, <4>1, <5>1
      <4> QED
        BY <4>2, <4>3
    <3> DEFINE Full == {d \in 0 .. b - 1 : from[place[b - d]] # {}}
    <3>8. ASSUME Full # {} PROVE FALSE
      <4>1. Full \in SUBSET Nat
        BY <3>4
      <4>2. PICK d \in Full : \A c \in Full : d <= c
        BY <3>8, <4>1, SmallestNumber
      <4>3. d \in 0 .. b - 1 /\ from[place[b - d]] # {}
        BY <4>2
      <4>4. d # 0
        <5>1. b - 0 = b
          BY <1>0, <3>4
        <5> QED
          BY <3>7, <4>3, <5>1
      <4> DEFINE j == b - d
      <4>5. /\ j \in 1 .. n /\ j \in 1 .. n + 1 /\ j < b /\ d - 1 \in 0 .. b - 1
            /\ b - (d - 1) = j + 1 /\ ~ d <= d - 1
        BY <1>0, <3>4, <4>3, <4>4
      <4>6. from[place[j + 1]] = {}
        <5>1. d - 1 \notin Full
          BY <4>2, <4>5
        <5> HIDE DEF j
        <5> QED
          BY <4>5, <5>1
      <4> HIDE DEF j
      <4>7. place[j] <= L + 1 /\ Good(j)
        BY <3>5, <4>5
      <4> HIDE DEF Good
      <4>8. from[place[j]] = {[r EXCEPT !.val = <<vals[j]>> \o @] : r \in from[place[j + 1]]}
        BY <2>2, <4>5, <4>7
      <4>9. from[place[j]] = {}
        BY <4>6, <4>8
      <4> QED
        BY <4>3, <4>9 DEF j
    <3>9. from[place[1]] = {}
      <4>1. b - 1 \in 0 .. b - 1 /\ b - (b - 1) = 1 /\ b - 1 \notin Full
        BY <1>0, <3>4, <3>8
      <4> QED
        BY <4>1
    <3> QED
      BY <2>1, <2>5, <3>9 DEF text
  <2> QED
    BY <2>4, <2>5
<1> QED
  BY <1>5, <1>6, <1>7

-----------------------------------------------------------------------------
(***************************************************************************)
(* The order of the elements of a set.                                     *)
(***************************************************************************)
LEMMA OrderedOnto ==
    ASSUME NEW S \in SUBSET Nat, IsFiniteSet(S), NEW n, n = Cardinality(S)
    PROVE  /\ n \in Nat /\ Ordered(S) \in [1 .. n -> S]
           /\ Ordered(S) \in Seq(S) /\ Len(Ordered(S)) = n
           /\ \A a \in S : \E k \in 1 .. n : Ordered(S)[k] = a
<1> DEFINE below == [a \in S |-> {b \in S : b < a}]
           rank == [a \in S |-> Cardinality(below[a])]
<1>1. n \in Nat
  BY FS_CardinalityType
<1>2. ASSUME NEW a \in S
      PROVE  IsFiniteSet(below[a]) /\ rank[a] \in Nat /\ rank[a] + 1 <= n
  <2>1. IsFiniteSet(S \ {a}) /\ Cardinality(S \ {a}) = n - 1
    BY FS_RemoveElement
  <2>2. below[a] \subseteq S \ {a}
    OBVIOUS
  <2>3. IsFiniteSet(below[a]) /\ Cardinality(below[a]) <= n - 1
    BY <2>1, <2>2, FS_Subset
  <2>4. Cardinality(below[a]) \in Nat
    BY <2>3, FS_CardinalityType
  <2> HIDE DEF below
  <2> QED
    BY <1>1, <2>3, <2>4
<1>3. ASSUME NEW a \in S, NEW b \in S, a < b PROVE rank[a] < rank[b]
  <2>1. IsFiniteSet(below[b]) /\ rank[b] \in Nat /\ rank[a] \in Nat
    BY <1>2
  <2>2. a \in below[b] /\ below[a] \subseteq below[b] \ {a}
    <3>1. a \in Nat /\ b \in Nat /\ \A x \in S : x \in Nat
      OBVIOUS
    <3>2. \A x \in S : x < a => x < b /\ x # a
      BY <1>3, <3>1
    <3> QED
      BY <1>3, <3>2
  <2> HIDE DEF below
  <2>3. IsFiniteSet(below[b] \ {a}) /\ Cardinality(below[b] \ {a}) = rank[b] - 1
    BY <2>1, <2>2, FS_RemoveElement
  <2>4. rank[a] <= Cardinality(below[b] \ {a})
    BY <2>2, <2>3, FS_Subset
  <2> HIDE DEF rank
  <2> QED
    BY <2>1, <2>3, <2>4
<1> HIDE DEF rank, below
<1>4. ASSUME NEW a \in S, NEW b \in S, rank[a] = rank[b] PROVE a = b
  <2>1. a \in Nat /\ b \in Nat /\ rank[a] \in Nat
    BY <1>2
  <2>2. rank[b] \in Nat
    BY <1>2
  <2>3. a < b => rank[a] < rank[b]
    BY <1>3
  <2>4. b < a => rank[b] < rank[a]
    BY <1>3
  <2> QED
    BY <2>1, <2>2, <2>3, <2>4, <1>4
<1> DEFINE f == [a \in S |-> rank[a] + 1]
<1>5. f \in Injection(S, 1 .. n)
  <2>1. f \in [S -> 1 .. n]
    <3>1. \A a \in S : rank[a] + 1 \in 1 .. n
      BY <1>1, <1>2
    <3> QED
      BY <3>1
  <2>2. \A a, b \in S : f[a] = f[b] => a = b
    <3>1. \A a, b \in S : rank[a] + 1 = rank[b] + 1 => rank[a] = rank[b]
      BY <1>2
    <3> QED
      BY <3>1, <1>4
  <2> QED
    BY <2>1, <2>2 DEF Injection, IsInjective
<1>6. IsFiniteSet(1 .. n) /\ Cardinality(1 .. n) = n
  BY <1>1, FS_Interval
<1>7. f \in Surjection(S, 1 .. n)
  <2> HIDE DEF f
  <2> QED
    BY <1>5, <1>6, FS_Injection
<1>8. \A k \in 1 .. n : \E a \in S : rank[a] = k - 1
  <2> TAKE k \in 1 .. n
  <2>1. PICK a \in S : f[a] = k
    BY <1>7 DEF Surjection
  <2>2. rank[a] \in Nat /\ rank[a] + 1 = k
    BY <1>2, <2>1
  <2> QED
    BY <1>1, <2>2
<1> DEFINE ordered == Ordered(S)
<1>9. ordered = [k \in 1 .. n |-> CHOOSE a \in S : Cardinality({b \in S : b < a}) = k - 1]
  BY DEF Ordered, ordered
<1> HIDE DEF ordered
<1>10. \A k \in 1 .. n : ordered[k] \in S /\ rank[ordered[k]] = k - 1
  <2> TAKE k \in 1 .. n
  <2>1. ordered[k] = CHOOSE a \in S : Cardinality({b \in S : b < a}) = k - 1
    BY <1>9
  <2>2. PICK c \in S : rank[c] = k - 1
    BY <1>8
  <2>3. \A a \in S : rank[a] = Cardinality({b \in S : b < a})
    BY DEF rank, below
  <2>4. \E a \in S : Cardinality({b \in S : b < a}) = k - 1
    BY <2>2, <2>3
  <2>5. ordered[k] \in S /\ Cardinality({b \in S : b < ordered[k]}) = k - 1
    BY <2>1, <2>4, Zenon
  <2> QED
    BY <2>3, <2>5
<1>11. ordered \in [1 .. n -> S]
  BY <1>9, <1>10
<1>12. \A a \in S : \E k \in 1 .. n : ordered[k] = a
  <2> TAKE a \in S
  <2>1. PICK k \in 1 .. n : k - 1 = rank[a]
    <3> DEFINE c == rank[a] + 1
    <3>1. c \in 1 .. n /\ c - 1 = rank[a]
      BY <1>1, <1>2
    <3> HIDE DEF c
    <3> QED
      BY <3>1, Zenon
  <2>2. ordered[k] \in S /\ rank[ordered[k]] = rank[a]
    BY <1>10, <2>1
  <2>3. ordered[k] = a
    BY <1>4, <2>2
  <2> QED
    BY <2>3
<1>13. ordered \in Seq(S) /\ Len(ordered) = n
  BY <1>1, <1>11
<1> QED
  BY <1>1, <1>11, <1>12, <1>13 DEF ordered

\* Threads are numbers, and there are finitely many.
LEMMA OrderedThreads ==
    ASSUME NEW S \in SUBSET Thread, NEW n, n = Len(Ordered(S))
    PROVE  /\ n \in Nat /\ DOMAIN Ordered(S) = 1 .. n
           /\ \A k \in 1 .. n : Ordered(S)[k] \in S
           /\ \A a \in S : \E k \in 1 .. n : Ordered(S)[k] = a
           /\ Ordered(S) = [k \in 1 .. n |-> Ordered(S)[k]]
<1>1. Thread \subseteq Nat /\ IsFiniteSet(Thread)
  <2>1. NrThreads \in Nat
    BY NrThreadsAssumption
  <2>2. IsFiniteSet(0 .. NrThreads - 1)
    BY <2>1, FS_Interval
  <2> QED
    BY <2>1, <2>2 DEF Thread
<1>2. S \in SUBSET Nat /\ IsFiniteSet(S)
  BY <1>1, FS_Subset
<1> DEFINE ordered == Ordered(S)
<1> HIDE DEF ordered
<1>3. /\ n \in Nat /\ ordered \in [1 .. n -> S]
      /\ \A a \in S : \E k \in 1 .. n : ordered[k] = a
  BY <1>2, OrderedOnto DEF ordered
<1> QED
  BY <1>3 DEF ordered

\* A text of two parts is ahead if both are.
SplitsAhead(ws, S, a, b, text) ==
    /\ StartsWith(ws, a)
    /\ AllAhead(ws, a) =>
          /\ Len(a) <= Len(ws)
          /\ From(ws, Len(a) + 1) \in Seq(S)
          /\ StartsWith(From(ws, Len(a) + 1), b)
    /\ AllAhead(ws, text) <=> AllAhead(ws, a) /\ AllAhead(From(ws, Len(a) + 1), b)
    /\ AllAhead(ws, text) =>
          From(From(ws, Len(a) + 1), Len(b) + 1) = From(ws, Len(text) + 1)

\* A stream that starts with such a text does so with its first part, and goes on with
\* its second one.
LEMMA AheadParts ==
    ASSUME NEW S, NEW ws \in Seq(S), NEW A, NEW a \in Seq(A), NEW B, NEW b \in Seq(B),
           NEW text, text = a \o b, StartsWith(ws, text)
    PROVE  SplitsAhead(ws, S, a, b, text)
<1> USE DEF SplitsAhead
<1> DEFINE m == Len(a)
           n == Len(b)
           L == Len(ws)
           rest == From(ws, m + 1)
<1>1. m \in Nat /\ n \in Nat /\ L \in Nat /\ Len(text) = m + n
  OBVIOUS
<1>2. /\ \A j \in 1 .. m : text[j] = a[j]
      /\ \A j \in 1 .. n : text[m + j] = b[j]
  OBVIOUS
<1> HIDE DEF m, n, L, rest
<1>3. StartsWith(ws, a)
  <2>1. Len(text) \in Nat /\ Len(a) \in Nat /\ Len(a) <= Len(text)
    BY <1>1 DEF m
  <2>2. \A j \in 1 .. Len(a) : a[j] = text[j]
    BY <1>2 DEF m
  <2> QED
    BY <2>1, <2>2, StartsSooner
<1>4. m <= L => /\ rest \in Seq(S) /\ Len(rest) = L - m
                /\ \A j \in 1 .. L - m : rest[j] = ws[m + j]
                /\ StartsWith(rest, b)
  <2> SUFFICES ASSUME m <= L
               PROVE  /\ rest \in Seq(S) /\ Len(rest) = L - m
                      /\ \A j \in 1 .. L - m : rest[j] = ws[m + j]
                      /\ StartsWith(rest, b)
    OBVIOUS
  <2>1. m <= Len(ws) /\ L = Len(ws)
    BY DEF L
  <2>2. /\ From(ws, m + 1) \in Seq(S) /\ Len(From(ws, m + 1)) = Len(ws) - m
        /\ \A j \in 1 .. Len(ws) - m : From(ws, m + 1)[j] = ws[m + j]
    BY <1>1, <2>1, FromPlaces
  <2>3. /\ Len(text) \in Nat /\ Len(b) \in Nat /\ m + Len(b) <= Len(text)
        /\ \A j \in 1 .. Len(b) : b[j] = text[m + j]
    BY <1>1, <1>2 DEF n
  <2>4. StartsWith(From(ws, m + 1), b)
    BY <1>1, <2>1, <2>3, StartsFrom
  <2> QED
    BY <2>1, <2>2, <2>4 DEF rest
<1>5. AllAhead(ws, a) <=> m <= L /\ \A j \in 1 .. m : ws[j] = a[j]
  BY DEF AllAhead, m, L
<1>6. AllAhead(rest, b) <=> n <= Len(rest) /\ \A j \in 1 .. n : rest[j] = b[j]
  BY DEF AllAhead, n
<1>7. AllAhead(ws, text) <=> m + n <= L /\ \A j \in 1 .. m + n : ws[j] = text[j]
  BY <1>1 DEF AllAhead, L
<1>8. ASSUME AllAhead(ws, text) PROVE AllAhead(ws, a) /\ AllAhead(rest, b)
  <2>1. AllAhead(ws, a)
    <3>1. m <= L /\ \A j \in 1 .. m : j \in 1 .. m + n
      BY <1>1, <1>7, <1>8
    <3>2. \A j \in 1 .. m : ws[j] = a[j]
      BY <1>2, <1>7, <1>8, <3>1
    <3> QED
      BY <1>5, <3>1, <3>2
  <2>2. n <= Len(rest)
    BY <1>1, <1>4, <1>7, <1>8
  <2>3. \A j \in 1 .. n : rest[j] = b[j]
    <3> TAKE j \in 1 .. n
    <3>1. j \in 1 .. L - m /\ m + j \in 1 .. m + n /\ m <= L
      BY <1>1, <1>7, <1>8
    <3> QED
      BY <3>1, <1>2, <1>4, <1>7, <1>8
  <2> QED
    BY <1>6, <2>1, <2>2, <2>3
<1>9. ASSUME AllAhead(ws, a), AllAhead(rest, b) PROVE AllAhead(ws, text)
  <2>1. m + n <= L
    BY <1>1, <1>4, <1>5, <1>6, <1>9
  <2>2. \A j \in 1 .. m + n : ws[j] = text[j]
    <3> TAKE j \in 1 .. m + n
    <3>1. CASE j <= m
      BY <3>1, <1>1, <1>2, <1>5, <1>9
    <3>2. CASE ~ j <= m
      <4>1. j - m \in 1 .. n /\ j - m \in 1 .. L - m /\ m + (j - m) = j
        BY <1>1, <2>1, <3>2
      <4>2. rest[j - m] = b[j - m] /\ rest[j - m] = ws[m + (j - m)] /\ text[m + (j - m)] = b[j - m]
        BY <4>1, <1>2, <1>4, <1>5, <1>6, <1>9
      <4> QED
        BY <4>1, <4>2
    <3> QED
      BY <3>1, <3>2
  <2> QED
    BY <1>7, <2>1, <2>2
<1>10. ASSUME AllAhead(ws, text) PROVE From(rest, n + 1) = From(ws, Len(text) + 1)
  <2>1. m <= Len(ws) /\ m + n <= Len(ws)
    BY <1>1, <1>7, <1>10 DEF L
  <2>2. From(From(ws, m + 1), n + 1) = From(ws, m + n + 1)
    BY <1>1, <2>1, FromFrom
  <2> QED
    BY <1>1, <2>2 DEF rest
<1> QED
  BY <1>3, <1>4, <1>5, <1>8, <1>9, <1>10 DEF m, n, L, rest

-----------------------------------------------------------------------------
\* The stream from a place in it on, and behind a part that is there.
LEMMA PartBehind ==
    ASSUME NEW S, NEW ws \in Seq(S), NEW k \in 1 .. Len(ws)
    PROVE  /\ From(ws, k) \in Seq(S) /\ Len(From(ws, k)) \in Nat \ {0} /\ From(ws, k)[1] = ws[k]
           /\ \A part : Len(part) \in Nat /\ AllAhead(From(ws, k), part) =>
                            From(From(ws, k), Len(part) + 1) = From(ws, k + Len(part))
<1>1. k \in Nat /\ k - 1 \in Nat /\ k - 1 <= Len(ws) /\ k - 1 + 1 = k /\ Len(ws) \in Nat
      /\ Len(ws) - (k - 1) \in Nat \ {0}
  OBVIOUS
<1>2. /\ From(ws, k) \in Seq(S) /\ Len(From(ws, k)) = Len(ws) - (k - 1)
      /\ \A j \in 1 .. Len(ws) - (k - 1) : From(ws, k)[j] = ws[k - 1 + j]
  <2>1. /\ From(ws, k - 1 + 1) \in Seq(S) /\ Len(From(ws, k - 1 + 1)) = Len(ws) - (k - 1)
        /\ \A j \in 1 .. Len(ws) - (k - 1) : From(ws, k - 1 + 1)[j] = ws[k - 1 + j]
    BY <1>1, FromPlaces
  <2> QED
    BY <1>1, <2>1
<1>3. From(ws, k)[1] = ws[k]
  <2>1. 1 \in 1 .. Len(ws) - (k - 1)
    BY <1>1
  <2> QED
    BY <1>1, <1>2, <2>1
<1>4. ASSUME NEW part, Len(part) \in Nat, AllAhead(From(ws, k), part)
      PROVE  From(From(ws, k), Len(part) + 1) = From(ws, k + Len(part))
  <2> DEFINE c == Len(part)
             d == k - 1
  <2>1. c \in Nat /\ d \in Nat /\ d <= Len(ws) /\ d + c <= Len(ws) /\ d + 1 = k /\ d + c + 1 = k + c
    BY <1>1, <1>2, <1>4 DEF AllAhead
  <2> HIDE DEF c, d
  <2>2. From(From(ws, d + 1), c + 1) = From(ws, d + c + 1)
    BY <2>1, FromFrom
  <2>3. From(From(ws, k), c + 1) = From(ws, k + c)
    BY <2>1, <2>2
  <2> QED
    BY <2>3 DEF c
<1> QED
  BY <1>1, <1>2, <1>3, <1>4

\* Nothing that starts with a number is the end of a container.
LEMMA EndKinds ==
    /\ CutWord(ContainerEnd)[1] = "cut" /\ ContainerEnd[1] = "word"
    /\ \A a : Number(a) # ContainerEnd /\ CutWord(Number(a)) # ContainerEnd
<1>1. ContainerEnd[1] = "word" /\ CutWord(ContainerEnd)[1] = "cut"
  BY WordKinds DEF ContainerEnd
<1>2. ASSUME NEW a PROVE Number(a)[1] = "number" /\ CutWord(Number(a)) = Number(a)
  BY WordKinds
<1> QED
  BY <1>1, <1>2

\* A tid is read.
LEMMA TidRead ==
    ASSUME NEW tid, NEW S, NEW ws \in Seq(S), Len(ws) >= 1, StartsWith(ws, <<Number(tid)>>)
    PROVE  /\ ReadTid(ws) = {[val |-> tid, rest |-> From(ws, 2)]}
           /\ AllAhead(ws, <<Number(tid)>>)
<1>1. Len(<<Number(tid)>>) = 1 /\ <<Number(tid)>>[1] = Number(tid) /\ Len(ws) \in Nat
  OBVIOUS
<1>2. ws[1] = Number(tid)
  <2>1. ws[1] = Number(tid) \/ ws[1] = CutWord(Number(tid))
    BY <1>1 DEF StartsWith
  <2> QED
    BY <2>1, WordKinds
<1>3. ws[1][1] = "number" /\ ws[1][2] = tid
  BY <1>2, WordKinds
<1>4. Head(ws) = ws[1]
  OBVIOUS
<1>5. AllAhead(ws, <<Number(tid)>>)
  BY <1>1, <1>2 DEF AllAhead
<1> QED
  BY <1>3, <1>4, <1>5, ReadNumber

-----------------------------------------------------------------------------
\* A set of threads as it is written.
TidParts(S) == [k \in DOMAIN Ordered(S) |-> <<Number(Ordered(S)[k])>>]

\* The words of a set of tids.
LEMMA TidPartsSeq ==
    ASSUME NEW threads \in SUBSET Thread
    PROVE  \E T : TidParts(threads) \in Seq(Seq(T))
<1> DEFINE tids == Ordered(threads)
           n == Len(tids)
           T == {Number(a) : a \in threads}
<1>1. /\ n \in Nat /\ DOMAIN tids = 1 .. n
      /\ \A k \in 1 .. n : tids[k] \in threads
  BY OrderedThreads
<1> HIDE DEF tids, n
<1>2. TidParts(threads) = [k \in 1 .. n |-> <<Number(tids[k])>>]
  BY <1>1 DEF TidParts, tids
<1>3. \A k \in 1 .. n : <<Number(tids[k])>> \in Seq(T)
  BY <1>1
<1> HIDE DEF T
<1>4. TidParts(threads) \in [1 .. n -> Seq(T)]
  BY <1>2, <1>3
<1>5. TidParts(threads) \in Seq(Seq(T))
  BY <1>1, <1>4
<1> QED
  BY <1>5

\* A set of tids is read as it was written.
LEMMA TidsRead ==
    ASSUME NEW threads \in SUBSET Thread, NEW S, NEW ws \in Seq(S),
           StartsWith(ws, Container(TidParts(threads)))
    PROVE  ReadTids(ws) =
              IF AllAhead(ws, Container(TidParts(threads)))
              THEN {[val |-> Ordered(threads),
                     rest |-> From(ws, Len(Container(TidParts(threads))) + 1)]}
              ELSE {}
<1> DEFINE tids == Ordered(threads)
           parts == TidParts(threads)
           element == [k \in DOMAIN ws |-> ReadTid(From(ws, k))]
           n == Len(tids)
<1>1. /\ n \in Nat /\ DOMAIN tids = 1 .. n
      /\ \A k \in 1 .. n : tids[k] \in threads
      /\ tids = [k \in 1 .. n |-> tids[k]]
  BY OrderedThreads
<1> HIDE DEF tids, n
<1>2. parts = [k \in 1 .. n |-> <<Number(tids[k])>>]
  BY <1>1 DEF TidParts, tids
<1> HIDE DEF parts
<1>0. PICK T : parts \in Seq(Seq(T))
  BY TidPartsSeq DEF parts
<1>3. parts \in Seq(Seq(T)) /\ Len(parts) = n
  BY <1>0, <1>1, <1>2
<1>4. \A k \in 1 .. Len(ws) : element[k] = ReadTid(From(ws, k))
  OBVIOUS
<1> HIDE DEF element
<1>5. ElementsShorten(ws, element, S)
  BY <1>4, PartBehind, TidShortens DEF ElementsShorten
<1>6. ReadsParts(ws, element, parts, tids, 1 .. n)
  <2> SUFFICES ASSUME NEW j \in 1 .. n, NEW k \in 1 .. Len(ws), StartsWith(From(ws, k), parts[j])
               PROVE  element[k] = IF j \in 1 .. n /\ AllAhead(From(ws, k), parts[j])
                                   THEN {[val |-> tids[j], rest |-> From(ws, k + Len(parts[j]))]}
                                   ELSE {}
    BY <1>3 DEF ReadsParts
  <2> DEFINE a == From(ws, k)
             p == <<Number(tids[j])>>
  <2>1. parts[j] = p
    BY <1>2
  <2>2. a \in Seq(S) /\ Len(a) >= 1
    BY PartBehind
  <2>3. Len(p) = 1
    OBVIOUS
  <2>4. ReadTid(a) = {[val |-> tids[j], rest |-> From(a, 2)]} /\ AllAhead(a, p)
    <3>1. StartsWith(a, <<Number(tids[j])>>)
      BY <2>1
    <3> HIDE DEF a
    <3> QED
      BY <2>2, <3>1, TidRead
  <2>5. From(a, 2) = From(ws, k + 1)
    <3>1. From(From(ws, k), Len(p) + 1) = From(ws, k + Len(p))
      <4>1. Len(p) \in Nat /\ AllAhead(From(ws, k), p)
        BY <2>4
      <4> HIDE DEF p
      <4> QED
        BY <4>1, PartBehind
    <3> QED
      BY <2>3, <3>1
  <2> HIDE DEF p
  <2> QED
    BY <1>4, <2>1, <2>3, <2>4, <2>5
<1>7. NoEndInParts(ws, element, parts)
  <2>1. ASSUME NEW j \in 1 .. Len(parts)
        PROVE  /\ Len(parts[j]) \in Nat \ {0}
               /\ parts[j][1] # ContainerEnd /\ CutWord(parts[j][1]) # ContainerEnd
    <3>1. parts[j] = <<Number(tids[j])>>
      BY <1>2, <1>3
    <3>2. Len(parts[j]) = 1 /\ parts[j][1] = Number(tids[j])
      BY <3>1
    <3> QED
      BY <3>2, EndKinds
  <2>2. ASSUME NEW k \in 1 .. Len(ws), ws[k] = CutWord(ContainerEnd)
        PROVE  element[k] = {}
    <3>1. From(ws, k)[1] = ws[k]
      BY PartBehind
    <3>2. From(ws, k)[1][1] # "number"
      BY <2>2, <3>1, EndKinds
    <3>3. ReadTid(From(ws, k)) = {}
      BY <3>2, ReadNumber
    <3> QED
      BY <1>4, <3>3
  <2> QED
    BY <2>1, <2>2 DEF NoEndInParts
<1>8. ReadContainer(ws, element) =
         IF AllAhead(ws, Container(parts)) /\ 1 .. n \subseteq 1 .. n
         THEN {[val |-> [k \in 1 .. n |-> tids[k]], rest |-> From(ws, Len(Container(parts)) + 1)]}
         ELSE {}
  <2>1. StartsWith(ws, Container(parts))
    BY DEF parts
  <2>2. n = Len(parts)
    BY <1>3
  <2> QED
    BY <1>3, <1>5, <1>6, <1>7, <2>1, <2>2, ContainerRead
<1>9. ReadTids(ws) = ReadContainer(ws, element)
  BY DEF ReadTids, element, From
<1> QED
  BY <1>1, <1>8, <1>9 DEF tids, parts

-----------------------------------------------------------------------------
\* A NextSet as it is written, and as it is read.
EntryParts(next) ==
    [k \in DOMAIN Ordered(DOMAIN next) |->
        EntryWords(Ordered(DOMAIN next)[k], next[Ordered(DOMAIN next)[k]])]

EntryValues(next) ==
    [k \in DOMAIN Ordered(DOMAIN next) |->
        <<Ordered(DOMAIN next)[k], next[Ordered(DOMAIN next)[k]]>>]

IsNextSet(next) ==
    /\ DOMAIN next \subseteq Thread
    /\ next = [tid \in DOMAIN next |-> next[tid]]
    /\ \A tid \in DOMAIN next : IsNext(next[tid])

LegibleSet(next) == \A tid \in DOMAIN next : Legible(next[tid].instr)

\* The pairs of a function give it back.
LEMMA FunctionOfValues ==
    ASSUME NEW next, IsNextSet(next)
    PROVE  FunctionOf(EntryValues(next)) = next
<1> DEFINE tids == Ordered(DOMAIN next)
           n == Len(tids)
           pairs == EntryValues(next)
           P == ToSet(pairs)
           F == [tid \in {p[1] : p \in P} |-> (CHOOSE p \in P : p[1] = tid)[2]]
<1>1. /\ n \in Nat /\ DOMAIN tids = 1 .. n
      /\ \A k \in 1 .. n : tids[k] \in DOMAIN next
      /\ \A a \in DOMAIN next : \E k \in 1 .. n : tids[k] = a
  BY OrderedThreads DEF IsNextSet
<1> HIDE DEF tids, n
<1>2. pairs = [k \in 1 .. n |-> <<tids[k], next[tids[k]]>>]
  BY <1>1 DEF EntryValues, tids
<1> HIDE DEF pairs
<1>3. P = {<<a, next[a]>> : a \in DOMAIN next}
  <2>1. Len(pairs) = n /\ DOMAIN pairs = 1 .. n
    BY <1>1, <1>2
  <2>2. P = {pairs[k] : k \in 1 .. n}
    BY <2>1 DEF ToSet
  <2>3. \A k \in 1 .. n : pairs[k] = <<tids[k], next[tids[k]]>>
    BY <1>2
  <2> HIDE DEF P
  <2>4. ASSUME NEW k \in 1 .. n PROVE \E a \in DOMAIN next : pairs[k] = <<a, next[a]>>
    BY <1>1, <2>3
  <2>5. ASSUME NEW a \in DOMAIN next PROVE \E k \in 1 .. n : pairs[k] = <<a, next[a]>>
    BY <1>1, <2>3
  <2> QED
    BY <2>2, <2>4, <2>5
<1> HIDE DEF P
<1>4. {p[1] : p \in P} = DOMAIN next
  <2>1. \A p \in P : \E a \in DOMAIN next : p = <<a, next[a]>> /\ p[1] = a
    BY <1>3
  <2>2. \A a \in DOMAIN next : <<a, next[a]>> \in P /\ <<a, next[a]>>[1] = a
    BY <1>3
  <2>3. ASSUME NEW a \in DOMAIN next PROVE \E p \in P : p[1] = a
    <3> DEFINE p == <<a, next[a]>>
    <3>1. p \in P /\ p[1] = a
      BY <2>2
    <3> HIDE DEF p
    <3> QED
      BY <3>1
  <2>4. \A p \in P : p[1] \in DOMAIN next
    BY <2>1
  <2> QED
    BY <2>3, <2>4
<1>5. ASSUME NEW a \in DOMAIN next PROVE (CHOOSE p \in P : p[1] = a)[2] = next[a]
  <2>1. <<a, next[a]>> \in P /\ <<a, next[a]>>[1] = a
    BY <1>3
  <2>2. \A p \in P : p[1] = a => p[2] = next[a]
    BY <1>3
  <2> DEFINE c == CHOOSE p \in P : p[1] = a
  <2>3. c \in P /\ c[1] = a
    BY <2>1, Zenon
  <2> HIDE DEF c
  <2>4. c[2] = next[a]
    BY <2>2, <2>3
  <2> QED
    BY <2>4 DEF c
<1>6. FunctionOf(pairs) = [tid \in DOMAIN next |-> (CHOOSE p \in P : p[1] = tid)[2]]
  BY <1>4 DEF FunctionOf, P
<1>7. FunctionOf(pairs) = [tid \in DOMAIN next |-> next[tid]]
  <2> DEFINE chosen(a) == (CHOOSE p \in P : p[1] = a)[2]
  <2>1. FunctionOf(pairs) = [tid \in DOMAIN next |-> chosen(tid)]
    BY <1>6
  <2>2. \A a \in DOMAIN next : chosen(a) = next[a]
    BY <1>5
  <2> HIDE DEF chosen
  <2> QED
    BY <2>1, <2>2
<1> QED
  BY <1>7 DEF IsNextSet, pairs

\* A sequence has its own elements.
LEMMA OwnElements ==
    ASSUME NEW T, NEW s \in Seq(T), NEW U, \A j \in 1 .. Len(s) : s[j] \in U
    PROVE  s \in Seq(U)
<1>1. s = [j \in 1 .. Len(s) |-> s[j]] /\ Len(s) \in Nat
  OBVIOUS
<1>2. s \in [1 .. Len(s) -> U]
  BY <1>1
<1> QED
  BY <1>1, <1>2

\* The words of a NextSet.
LEMMA EntryPartsSeq ==
    ASSUME NEW next, IsNextSet(next)
    PROVE  \E T : EntryParts(next) \in Seq(Seq(T))
<1> DEFINE tids == Ordered(DOMAIN next)
           parts == EntryParts(next)
           n == Len(tids)
<1>1. /\ n \in Nat /\ DOMAIN tids = 1 .. n
      /\ \A k \in 1 .. n : tids[k] \in DOMAIN next
  BY OrderedThreads DEF IsNextSet
<1> HIDE DEF tids, n
<1>2. parts = [k \in 1 .. n |-> EntryWords(tids[k], next[tids[k]])]
  BY <1>1 DEF EntryParts, tids
<1> HIDE DEF parts
<1>3. ASSUME NEW k \in 1 .. n
      PROVE  \E U : parts[k] \in Seq(U)
  <2>1. parts[k] = EntryWords(tids[k], next[tids[k]])
    BY <1>2
  <2>2. IsNext(next[tids[k]])
    BY <1>1 DEF IsNextSet
  <2> QED
    BY <2>1, <2>2, EntryPlaces
<1> DEFINE T == UNION {ToSet(parts[k]) : k \in 1 .. n}
<1>4. parts \in Seq(Seq(T)) 
  <2>1. ASSUME NEW k \in 1 .. n PROVE parts[k] \in Seq(T)
    <3>1. PICK U : parts[k] \in Seq(U)
      BY <1>3
    <3> DEFINE p == parts[k]
    <3>2. \A j \in 1 .. Len(p) : p[j] \in ToSet(p)
      BY <3>1 DEF ToSet
    <3>3. \A j \in 1 .. Len(p) : p[j] \in T
      BY <3>2
    <3> HIDE DEF T, p
    <3>4. p \in Seq(T)
      <4>1. p \in Seq(U)
        BY <3>1 DEF p
      <4> QED
        BY <3>3, <4>1, OwnElements
    <3> QED
      BY <3>4 DEF p
  <2> HIDE DEF T
  <2>2. parts \in [1 .. n -> Seq(T)]
    <3>1. parts = [k \in 1 .. n |-> parts[k]]
      BY <1>2
    <3> QED
      BY <2>1, <3>1
  <2> QED
    BY <1>1, <2>2
<1> QED
  BY <1>4 DEF parts

\* A NextSet is read as it was written, if all its file names are single words.
LEMMA NextSetRead ==
    ASSUME NEW next, IsNextSet(next), NEW S, NEW ws \in Seq(S),
           StartsWith(ws, Container(EntryParts(next)))
    PROVE  ReadNextSet(ws) =
              IF AllAhead(ws, Container(EntryParts(next))) /\ LegibleSet(next)
              THEN {[val |-> EntryValues(next),
                     rest |-> From(ws, Len(Container(EntryParts(next))) + 1)]}
              ELSE {}
<1> DEFINE tids == Ordered(DOMAIN next)
           parts == EntryParts(next)
           vals == EntryValues(next)
           element == [k \in DOMAIN ws |-> ReadEntry(From(ws, k))]
           n == Len(tids)
           ok == {k \in 1 .. n : Legible(next[tids[k]].instr)}
<1>1. /\ n \in Nat /\ DOMAIN tids = 1 .. n
      /\ \A k \in 1 .. n : tids[k] \in DOMAIN next
      /\ \A a \in DOMAIN next : \E k \in 1 .. n : tids[k] = a
  BY OrderedThreads DEF IsNextSet
<1> HIDE DEF tids, n
<1>2. /\ parts = [k \in 1 .. n |-> EntryWords(tids[k], next[tids[k]])]
      /\ vals = [k \in 1 .. n |-> <<tids[k], next[tids[k]]>>]
  BY <1>1 DEF EntryParts, EntryValues, tids
<1> HIDE DEF parts, vals
<1>3. ASSUME NEW k \in 1 .. n
      PROVE  /\ parts[k] = EntryWords(tids[k], next[tids[k]])
             /\ vals[k] = <<tids[k], next[tids[k]]>>
             /\ IsNext(next[tids[k]])
             /\ Len(parts[k]) \in Nat \ {0} /\ parts[k][1] = Number(tids[k])
             /\ \E T : parts[k] \in Seq(T)
  <2>1. parts[k] = EntryWords(tids[k], next[tids[k]]) /\ vals[k] = <<tids[k], next[tids[k]]>>
    BY <1>2
  <2>2. IsNext(next[tids[k]])
    BY <1>1 DEF IsNextSet
  <2>3. /\ Len(NextWords(next[tids[k]])) \in Nat \ {0}
        /\ IsWordBefore(parts[k], Number(tids[k]), NextWords(next[tids[k]]))
        /\ \E T : parts[k] \in Seq(T)
    BY <2>1, <2>2, EntryPlaces
  <2>4. Len(parts[k]) \in Nat \ {0} /\ parts[k][1] = Number(tids[k])
    BY <2>3 DEF IsWordBefore
  <2> QED
    BY <2>1, <2>2, <2>3, <2>4
<1>0. PICK T : parts \in Seq(Seq(T))
  BY EntryPartsSeq DEF parts
<1>4. parts \in Seq(Seq(T)) /\ Len(parts) = n
  BY <1>0, <1>1, <1>2
<1>5. \A k \in 1 .. Len(ws) : element[k] = ReadEntry(From(ws, k))
  OBVIOUS
<1> HIDE DEF element
<1>6. ElementsShorten(ws, element, S)
  BY <1>5, PartBehind, EntryShortens DEF ElementsShorten
<1>7. ReadsParts(ws, element, parts, vals, ok)
  <2> SUFFICES ASSUME NEW j \in 1 .. n, NEW k \in 1 .. Len(ws), StartsWith(From(ws, k), parts[j])
               PROVE  element[k] = IF j \in ok /\ AllAhead(From(ws, k), parts[j])
                                   THEN {[val |-> vals[j], rest |-> From(ws, k + Len(parts[j]))]}
                                   ELSE {}
    BY <1>4 DEF ReadsParts
  <2> DEFINE a == From(ws, k)
             tid == tids[j]
             p == EntryWords(tid, next[tid])
  <2>1. parts[j] = p /\ IsNext(next[tid]) /\ Len(p) \in Nat /\ vals[j] = <<tid, next[tid]>>
    BY <1>3
  <2>2. a \in Seq(S)
    BY PartBehind
  <2>3. j \in ok <=> Legible(next[tid].instr)
    OBVIOUS
  <2>4. StartsWith(a, EntryWords(tid, next[tid]))
    BY <2>1
  <2> HIDE DEF a, tid
  <2>5. ReadEntry(a) = IF Legible(next[tid].instr) /\ AllAhead(a, p)
                       THEN {[val |-> <<tid, next[tid]>>, rest |-> From(a, Len(p) + 1)]} ELSE {}
    BY <2>1, <2>2, <2>4, EntryRead
  <2> HIDE DEF p, ok
  <2>6. AllAhead(a, p) => From(a, Len(p) + 1) = From(ws, k + Len(p))
    BY <2>1, PartBehind DEF a
  <2>7. element[k] = ReadEntry(a)
    BY <1>5 DEF a
  <2>8. element[k] = IF j \in ok /\ AllAhead(a, p)
                     THEN {[val |-> vals[j], rest |-> From(ws, k + Len(p))]} ELSE {}
    BY <2>1, <2>3, <2>5, <2>6, <2>7
  <2> QED
    BY <2>1, <2>8 DEF a
<1>8. NoEndInParts(ws, element, parts)
  <2>1. ASSUME NEW j \in 1 .. Len(parts)
        PROVE  /\ Len(parts[j]) \in Nat \ {0}
               /\ parts[j][1] # ContainerEnd /\ CutWord(parts[j][1]) # ContainerEnd
    <3>1. Len(parts[j]) \in Nat \ {0} /\ parts[j][1] = Number(tids[j])
      BY <1>3, <1>4
    <3> QED
      BY <3>1, EndKinds
  <2>2. ASSUME NEW k \in 1 .. Len(ws), ws[k] = CutWord(ContainerEnd)
        PROVE  element[k] = {}
    <3>1. From(ws, k)[1] = ws[k]
      BY PartBehind
    <3>2. From(ws, k)[1][1] # "number"
      BY <2>2, <3>1, EndKinds
    <3>3. ReadTid(From(ws, k)) = {}
      BY <3>2, ReadNumber
    <3>4. ReadEntry(From(ws, k)) = {}
      BY <3>3 DEF ReadEntry
    <3> QED
      BY <1>5, <3>4
  <2> QED
    BY <2>1, <2>2 DEF NoEndInParts
<1>9. 1 .. n \subseteq ok <=> LegibleSet(next)
  BY <1>1 DEF LegibleSet
<1> HIDE DEF ok
<1>10. ReadContainer(ws, element) =
         IF AllAhead(ws, Container(parts)) /\ 1 .. n \subseteq ok
         THEN {[val |-> [k \in 1 .. n |-> vals[k]], rest |-> From(ws, Len(Container(parts)) + 1)]}
         ELSE {}
  <2>1. StartsWith(ws, Container(parts))
    BY DEF parts
  <2>2. n = Len(parts)
    BY <1>4
  <2> QED
    BY <1>4, <1>6, <1>7, <1>8, <2>1, <2>2, ContainerRead
<1>11. ReadNextSet(ws) = ReadContainer(ws, element)
  BY DEF ReadNextSet, element, From
<1>12. vals = [k \in 1 .. n |-> vals[k]]
  BY <1>2
<1> QED
  BY <1>9, <1>10, <1>11, <1>12 DEF vals, parts

-----------------------------------------------------------------------------
\* A State as it is written.
TagText == <<Word("State")>>
TidsText(state) == Container(TidParts(state.enabled))
NextText(state) == Container(EntryParts(state.next))

\* The parts of a State.
LEMMA StateTexts ==
    ASSUME NEW state
    PROVE  StateWords(state) = TagText \o TidsText(state) \o NextText(state)
BY DEF StateWords, TagText, TidsText, NextText, TidParts, EntryParts, EntryWords

\* What is known of the parts of a State.
LEMMA StateNext ==
    ASSUME NEW state, IsState(state), UnmistakableState(state)
    PROVE  /\ state.enabled \in SUBSET Thread /\ IsNextSet(state.next)
           /\ LegibleSet(state.next) <=> LegibleState(state)
           /\ state = [enabled |-> state.enabled, next |-> state.next]
<1> DEFINE next == state.next
<1>1. \A tid \in DOMAIN next : next[tid] \in Range(next)
  BY DEF Range
<1>2. \A x \in Range(next) : \E tid \in DOMAIN next : x = next[tid]
  BY DEF Range
<1>3. ASSUME NEW tid \in DOMAIN next PROVE IsNext(next[tid])
  BY <1>1 DEF IsState, UnmistakableState, IsNext
<1>4. IsNextSet(next)
  BY <1>3 DEF IsState, IsNextSet
<1>5. LegibleSet(next) <=> LegibleState(state)
  BY <1>1, <1>2 DEF LegibleSet, LegibleState
<1> QED
  BY <1>4, <1>5 DEF IsState

\* The elements in their order give the set back.
LEMMA OrderedSet ==
    ASSUME NEW threads \in SUBSET Thread
    PROVE  ToSet(Ordered(threads)) = threads
<1> DEFINE tids == Ordered(threads)
           n == Len(tids)
<1>1. /\ n \in Nat /\ DOMAIN tids = 1 .. n
      /\ \A k \in 1 .. n : tids[k] \in threads
      /\ \A a \in threads : \E k \in 1 .. n : tids[k] = a
  BY OrderedThreads
<1> HIDE DEF tids, n
<1>2. ToSet(tids) = {tids[k] : k \in 1 .. n}
  BY <1>1 DEF ToSet
<1>3. ToSet(tids) = threads
  BY <1>1, <1>2
<1> QED
  BY <1>3 DEF tids

\* Containers are texts.
LEMMA ContainerSeq ==
    ASSUME NEW T, NEW parts \in Seq(Seq(T))
    PROVE  \E U : Container(parts) \in Seq(U)
<1>1. \E place : IsContainer(Container(parts), parts, place)
  BY ContainerPlaces
<1> QED
  BY ContainerPlaces

\* The words of a State.
LEMMA StateSeq ==
    ASSUME NEW state, IsState(state), UnmistakableState(state)
    PROVE  /\ \E U : TidsText(state) \in Seq(U)
           /\ \E U : NextText(state) \in Seq(U)
<1>1. state.enabled \in SUBSET Thread /\ IsNextSet(state.next)
  BY StateNext
<1>2. PICK T : TidParts(state.enabled) \in Seq(Seq(T))
  BY <1>1, TidPartsSeq
<1>3. PICK V : EntryParts(state.next) \in Seq(Seq(V))
  BY <1>1, EntryPartsSeq
<1>4. \E U : Container(TidParts(state.enabled)) \in Seq(U)
  BY <1>2, ContainerSeq
<1>5. \E U : Container(EntryParts(state.next)) \in Seq(U)
  BY <1>3, ContainerSeq
<1> QED
  BY <1>4, <1>5 DEF TidsText, NextText

\* The text begins like a State.
LEMMA TagRead ==
    ASSUME NEW S, NEW ws \in Seq(S), StartsWith(ws, TagText)
    PROVE  Read(ws, <<OneOf({"State"})>>, "") =
              IF AllAhead(ws, TagText) THEN {[val |-> "", rest |-> From(ws, 2)]} ELSE {}
<1>1. Len(TagText) = 1 /\ TagText[1] = Word("State") /\ Len(ws) \in Nat
  BY DEF TagText
<1>2. Len(ws) >= 1 => ws[1] = Word("State") \/ ws[1] = CutWord(Word("State"))
  BY <1>1 DEF StartsWith
<1>3. /\ Word("State")[1] = "word" /\ Word("State")[2] = "State"
      /\ CutWord(Word("State"))[1] = "cut"
  BY WordKinds
<1>4. AllAhead(ws, TagText) <=> Len(ws) >= 1 /\ ws[1][1] = "word" /\ ws[1][2] \in {"State"}
  <2>1. AllAhead(ws, TagText) <=> Len(ws) >= 1 /\ ws[1] = Word("State")
    BY <1>1 DEF AllAhead
  <2> QED
    BY <1>1, <1>2, <1>3, <2>1
<1> QED
  BY <1>4, ReadWord

\* A State is read as it was written, if it is legible and all of it is there.
LEMMA StateRead ==
    ASSUME NEW state, IsState(state), UnmistakableState(state),
           NEW S, NEW ws \in Seq(S), StartsWith(ws, StateWords(state))
    PROVE  ReadState(ws) =
              IF LegibleState(state) /\ AllAhead(ws, StateWords(state))
              THEN {[val |-> state, rest |-> From(ws, Len(StateWords(state)) + 1)]} ELSE {}
<1> DEFINE a == TagText
           b == TidsText(state)
           c == NextText(state)
           ab == a \o b
           text == StateWords(state)
           u == From(ws, 2)
           v == From(u, Len(b) + 1)
           w == From(v, Len(c) + 1)
           Begun == Read(ws, <<OneOf({"State"})>>, "")
           Found(e) == {[val |-> [enabled |-> ToSet(e.val), next |-> FunctionOf(n.val)],
                         rest |-> n.rest] : n \in ReadNextSet(e.rest)}
<1>1. /\ state.enabled \in SUBSET Thread /\ IsNextSet(state.next)
      /\ LegibleSet(state.next) <=> LegibleState(state)
      /\ state = [enabled |-> state.enabled, next |-> state.next]
  BY StateNext
<1>2. text = ab \o c
  BY StateTexts
<1>3. PICK B : b \in Seq(B)
  BY StateSeq
<1>4. PICK C : c \in Seq(C)
  BY StateSeq
<1>5. a \in Seq({Word("State")}) /\ Len(a) = 1
  BY DEF TagText
<1> HIDE DEF a, b, c, text
<1>6. ab \in Seq({Word("State")} \cup B)
  BY <1>3, <1>5
<1>7. /\ StartsWith(ws, ab)
      /\ AllAhead(ws, ab) =>
            /\ Len(ab) <= Len(ws)
            /\ From(ws, Len(ab) + 1) \in Seq(S)
            /\ StartsWith(From(ws, Len(ab) + 1), c)
      /\ AllAhead(ws, text) <=>
            AllAhead(ws, ab) /\ AllAhead(From(ws, Len(ab) + 1), c)
      /\ AllAhead(ws, text) =>
            From(From(ws, Len(ab) + 1), Len(c) + 1) = From(ws, Len(text) + 1)
  <2>1. StartsWith(ws, text)
    BY DEF text
  <2> HIDE DEF ab
  <2>2. SplitsAhead(ws, S, ab, c, text)
    BY <1>2, <1>4, <1>6, <2>1, AheadParts
  <2> QED
    BY <2>2 DEF SplitsAhead
<1>8. /\ StartsWith(ws, a)
      /\ AllAhead(ws, a) =>
            /\ Len(a) <= Len(ws)
            /\ From(ws, Len(a) + 1) \in Seq(S)
            /\ StartsWith(From(ws, Len(a) + 1), b)
      /\ AllAhead(ws, ab) <=>
            AllAhead(ws, a) /\ AllAhead(From(ws, Len(a) + 1), b)
      /\ AllAhead(ws, ab) =>
            From(From(ws, Len(a) + 1), Len(b) + 1) = From(ws, Len(ab) + 1)
  <2>1. SplitsAhead(ws, S, a, b, ab)
    BY <1>3, <1>5, <1>7, AheadParts
  <2> QED
    BY <2>1 DEF SplitsAhead
<1> HIDE DEF ab
<1>9. From(ws, Len(a) + 1) = u
  BY <1>5
<1> HIDE DEF u
<1>10. Begun = IF AllAhead(ws, a) THEN {[val |-> "", rest |-> u]} ELSE {}
  BY <1>8, TagRead DEF a, u
<1>11. AllAhead(ws, a) =>
          ReadTids(u) = IF AllAhead(u, b) THEN {[val |-> Ordered(state.enabled), rest |-> v]} ELSE {}
  <2> SUFFICES ASSUME AllAhead(ws, a)
               PROVE  ReadTids(u) = IF AllAhead(u, b)
                                    THEN {[val |-> Ordered(state.enabled), rest |-> v]} ELSE {}
    OBVIOUS
  <2>1. u \in Seq(S) /\ StartsWith(u, Container(TidParts(state.enabled)))
    BY <1>8, <1>9 DEF b, TidsText
  <2> QED
    BY <1>1, <2>1, TidsRead DEF b, TidsText
<1>12. AllAhead(ws, ab) => v = From(ws, Len(ab) + 1)
  BY <1>8, <1>9
<1> HIDE DEF v
<1>13. AllAhead(ws, ab) =>
          ReadNextSet(v) = IF AllAhead(v, c) /\ LegibleState(state)
                           THEN {[val |-> EntryValues(state.next), rest |-> w]} ELSE {}
  <2> SUFFICES ASSUME AllAhead(ws, ab)
               PROVE  ReadNextSet(v) = IF AllAhead(v, c) /\ LegibleState(state)
                                       THEN {[val |-> EntryValues(state.next), rest |-> w]} ELSE {}
    OBVIOUS
  <2>1. v \in Seq(S) /\ StartsWith(v, Container(EntryParts(state.next)))
    BY <1>7, <1>12 DEF c, NextText
  <2> QED
    BY <1>1, <2>1, NextSetRead DEF c, NextText
<1>14. AllAhead(ws, text) => w = From(ws, Len(text) + 1)
  BY <1>7, <1>12
<1> HIDE DEF w
<1>15. ReadState(ws) = UNION {UNION {Found(e) : e \in ReadTids(t.rest)} : t \in Begun}
  BY DEF ReadState
<1> HIDE DEF Begun
<1> DEFINE value == [enabled |-> ToSet(Ordered(state.enabled)),
                     next |-> FunctionOf(EntryValues(state.next))]
<1>16. value = state
  BY <1>1, OrderedSet, FunctionOfValues
<1>17. CASE ~ AllAhead(ws, a)
  <2>1. Begun = {}
    BY <1>10, <1>17
  <2> HIDE DEF Found
  <2>2. ReadState(ws) = {}
    BY <1>15, <2>1
  <2> QED
    BY <1>7, <1>8, <1>17, <2>2 DEF text
<1>18. CASE AllAhead(ws, a) /\ ~ AllAhead(u, b)
  <2> DEFINE t0 == [val |-> "", rest |-> u]
  <2>1. Begun = {t0} /\ ReadTids(t0.rest) = {}
    BY <1>10, <1>11, <1>18
  <2> HIDE DEF Found, t0
  <2>2. ReadState(ws) = {}
    BY <1>15, <2>1
  <2> QED
    BY <1>7, <1>8, <1>9, <1>18, <2>2 DEF text
<1>19. CASE AllAhead(ws, a) /\ AllAhead(u, b)
  <2> DEFINE e0 == [val |-> Ordered(state.enabled), rest |-> v]
             t0 == [val |-> "", rest |-> u]
  <2>1. Begun = {t0} /\ ReadTids(t0.rest) = {e0} /\ AllAhead(ws, ab)
    BY <1>8, <1>9, <1>10, <1>11, <1>19
  <2>2. Found(e0) = {[val |-> [enabled |-> ToSet(Ordered(state.enabled)), next |-> FunctionOf(n.val)],
                      rest |-> n.rest] : n \in ReadNextSet(v)}
    OBVIOUS
  <2> HIDE DEF Found, e0, t0
  <2>3. ReadState(ws) = Found(e0)
    BY <1>15, <2>1
  <2>4. AllAhead(ws, text) <=> AllAhead(v, c)
    BY <1>7, <1>12, <2>1
  <2>5. CASE AllAhead(v, c) /\ LegibleState(state)
    <3>1. ReadNextSet(v) = {[val |-> EntryValues(state.next), rest |-> w]}
      BY <1>13, <2>1, <2>5
    <3>2. Found(e0) = {[val |-> value, rest |-> w]}
      BY <2>2, <3>1
    <3> QED
      BY <1>14, <1>16, <2>3, <2>4, <2>5, <3>2 DEF text
  <2>6. CASE ~ (AllAhead(v, c) /\ LegibleState(state))
    <3>1. ReadNextSet(v) = {}
      BY <1>13, <2>1, <2>6
    <3>2. Found(e0) = {}
      BY <2>2, <3>1
    <3> QED
      BY <2>3, <2>4, <2>6, <3>2 DEF text
  <2> QED
    BY <2>5, <2>6
<1> QED
  BY <1>17, <1>18, <1>19

\* A State starts with its tag.
LEMMA StateWordsSeq ==
    ASSUME NEW state, IsState(state), UnmistakableState(state)
    PROVE  /\ \E U : StateWords(state) \in Seq(U)
           /\ Len(StateWords(state)) \in Nat \ {0}
           /\ StateWords(state)[1] = Word("State")
<1> DEFINE a == TagText
           b == TidsText(state)
           c == NextText(state)
           text == StateWords(state)
<1>1. text = a \o b \o c
  BY StateTexts
<1>2. PICK B : b \in Seq(B)
  BY StateSeq
<1>3. PICK C : c \in Seq(C)
  BY StateSeq
<1>4. a \in Seq({Word("State")}) /\ Len(a) = 1 /\ a[1] = Word("State")
  BY DEF TagText
<1> HIDE DEF a, b, c, text
<1> DEFINE ab == a \o b
<1>5. ab \in Seq({Word("State")} \cup B) /\ Len(ab) \in Nat \ {0} /\ ab[1] = Word("State")
  <2> DEFINE A == {Word("State")}
  <2>1. a \in Seq(A \cup B) /\ b \in Seq(A \cup B)
    BY <1>2, <1>4
  <2> HIDE DEF A
  <2>2. ab \in Seq(A \cup B) /\ Len(ab) = Len(a) + Len(b)
    BY <2>1
  <2>4. ab[1] = a[1]
    <3>1. 1 \in 1 .. Len(a)
      BY <1>4
    <3> QED
      BY <2>1, <3>1
  <2>3. Len(b) \in Nat
    BY <1>2
  <2> HIDE DEF ab
  <2> QED
    BY <1>4, <2>2, <2>3, <2>4 DEF A
<1> HIDE DEF ab
<1>6. ab \o c \in Seq(({Word("State")} \cup B) \cup C) /\ Len(ab \o c) \in Nat \ {0}
      /\ (ab \o c)[1] = Word("State")
  BY <1>3, <1>5
<1>7. text = ab \o c
  BY <1>1 DEF ab
<1> QED
  BY <1>6, <1>7 DEF text

-----------------------------------------------------------------------------
\* The instruction is ahead if that many words are: its last word cannot be cut.
LEMMA InstructionAllAhead ==
    ASSUME NEW instr, IsInstruction(instr), NEW S, NEW ws \in Seq(S),
           StartsWith(ws, InstructionWords(instr)), NEW n, n = Len(InstructionWords(instr))
    PROVE  AllAhead(ws, InstructionWords(instr)) <=> Len(ws) >= n
<1> DEFINE h == HeadLength(instr)
           size == Len(instr.file)
           words == InstructionWords(instr)
<1>1. PICK head : words = WithMetaData(head, h, instr)
  BY InstructionPlaces
<1>2. h \in Nat /\ size \in Nat
  BY InstructionPlaces
<1> HIDE DEF h, words, size
<1>3. n = h + size + 1 /\ words[n] = Number(instr.line)
  <2>1. words = [j \in 1 .. h + size + 1 |-> IF j <= h THEN head[j]
                    ELSE IF j <= h + size THEN instr.file[j - h] ELSE Number(instr.line)]
    BY <1>1 DEF WithMetaData, size
  <2>2. Len(words) = h + size + 1
    BY <1>2, <2>1
  <2> QED
    BY <1>2, <2>1, <2>2 DEF words
<1>4. ASSUME Len(ws) >= n PROVE \A j \in 1 .. n : ws[j] = words[j]
  <2> TAKE j \in 1 .. n
  <2>1. ws[j] = words[j] \/ (j = Len(ws) /\ ws[j] = CutWord(words[j]))
    BY <1>4 DEF StartsWith, words
  <2>2. j = Len(ws) => j = n
    BY <1>2, <1>3, <1>4
  <2>3. CutWord(words[n]) = words[n]
    BY <1>3, WordKinds
  <2> QED
    BY <2>1, <2>2, <2>3
<1>5. n = Len(words)
  BY DEF words
<1> QED
  BY <1>4, <1>5 DEF AllAhead, words

\* What follows an instruction of which the file name is not one word is not read
\* as a State.
LEMMA NoStateBehind ==
    ASSUME NEW instr, IsInstruction(instr), ~ Legible(instr), Unmistakable(instr),
           NEW S, NEW ws \in Seq(S), StartsWith(ws, InstructionWords(instr)),
           NEW n, n = Len(InstructionWords(instr)),
           n < Len(ws) => ws[n + 1][1] \in {"word", "cut"},
           NEW r \in ReadInstruction(ws)
    PROVE  ReadState(r.rest) = {}
<1>1. r.rest \in Seq(S)
  BY InstructionShortens DEF Shortens
<1>2. Len(r.rest) > 0 =>
         Head(r.rest)[1] # "word" \/ Head(r.rest)[2] \notin {"State", "enabled", "disabled"}
  BY IllegibleRead
<1> DEFINE rest == r.rest
<1>3. Len(rest) > 0 => Head(rest) = rest[1]
  BY <1>1
<1>4. Len(rest) \in Nat
  BY <1>1
<1>5. ~ (Len(rest) >= 1 /\ rest[1][1] = "word" /\ rest[1][2] \in {"State"})
  BY <1>2, <1>3, <1>4
<1> HIDE DEF rest
<1>6. Read(rest, <<OneOf({"State"})>>, "") = {}
  BY <1>5, ReadWord
<1>7. ReadState(rest) = {}
  BY <1>6 DEF ReadState
<1> QED
  BY <1>7 DEF rest

-----------------------------------------------------------------------------
\* An index, an instruction and a State behind each other.
LEMMA LinesRead ==
    ASSUME NEW index \in Nat, NEW instr, IsInstruction(instr), Unmistakable(instr),
           NEW post, IsState(post), UnmistakableState(post),
           NEW S, NEW ws \in Seq(S), StartsWith(ws, TransitionWords(index, instr, post))
    PROVE  ReadLines(ws) =
              IF Legible(instr) /\ LegibleState(post)
                 /\ AllAhead(ws, TransitionWords(index, instr, post))
              THEN {[val |-> <<instr, post>>,
                     rest |-> From(ws, Len(TransitionWords(index, instr, post)) + 1)]}
              ELSE {}
<1> DEFINE a == <<Number(index)>>
           b == InstructionWords(instr)
           c == StateWords(post)
           ab == a \o b
           text == TransitionWords(index, instr, post)
           u == From(ws, 2)
           v == From(u, Len(b) + 1)
           w == From(v, Len(c) + 1)
           Begun == ReadTid(ws)
           Found(r) == {[val |-> <<r.val, p.val>>, rest |-> p.rest] : p \in ReadState(r.rest)}
<1>2. text = ab \o c
  BY DEF TransitionWords
<1>3. b \in Seq(ToSet(b)) /\ Len(b) \in Nat \ {0}
  BY InstructionSeq
<1>4. PICK C : c \in Seq(C)
  BY StateWordsSeq
<1>5. a \in Seq({Number(index)}) /\ Len(a) = 1
  OBVIOUS
<1>6. Len(c) \in Nat \ {0} /\ c[1] = Word("State")
  BY StateWordsSeq
<1>0. StartsWith(ws, <<Number(index)>>) /\ Len(ws) >= 1 => Begun = {[val |-> index, rest |-> u]} /\ AllAhead(ws, a)
  BY TidRead
<1> HIDE DEF a, b, c, text
<1> DEFINE B == ToSet(b)
<1> HIDE DEF B
<1>7. ab \in Seq({Number(index)} \cup B) /\ Len(ab) = Len(b) + 1
  <2> DEFINE A == {Number(index)}
  <2>1. a \in Seq(A \cup B) /\ b \in Seq(A \cup B)
    BY <1>3, <1>5 DEF B
  <2> HIDE DEF A
  <2>2. ab \in Seq(A \cup B) /\ Len(ab) = Len(a) + Len(b)
    BY <2>1
  <2> HIDE DEF ab
  <2> QED
    BY <1>3, <1>5, <2>2 DEF A
<1> HIDE DEF ab
<1>8. /\ StartsWith(ws, ab)
      /\ AllAhead(ws, ab) => StartsWith(From(ws, Len(ab) + 1), c) /\ From(ws, Len(ab) + 1) \in Seq(S)
      /\ AllAhead(ws, text) <=>
            AllAhead(ws, ab) /\ AllAhead(From(ws, Len(ab) + 1), c)
      /\ AllAhead(ws, text) =>
            From(From(ws, Len(ab) + 1), Len(c) + 1) = From(ws, Len(text) + 1)
  <2>1. StartsWith(ws, text)
    BY DEF text
  <2>2. SplitsAhead(ws, S, ab, c, text)
    BY <1>2, <1>4, <1>7, <2>1, AheadParts
  <2> QED
    BY <2>2 DEF SplitsAhead
<1>9. /\ StartsWith(ws, a)
      /\ AllAhead(ws, a) => /\ From(ws, Len(a) + 1) \in Seq(S)
                            /\ StartsWith(From(ws, Len(a) + 1), b)
      /\ AllAhead(ws, ab) <=>
            AllAhead(ws, a) /\ AllAhead(From(ws, Len(a) + 1), b)
      /\ AllAhead(ws, ab) =>
            From(From(ws, Len(a) + 1), Len(b) + 1) = From(ws, Len(ab) + 1)
  <2>1. SplitsAhead(ws, S, a, b, ab)
    <3>1. b \in Seq(B)
      BY <1>3 DEF B
    <3>2. ab = a \o b
      BY DEF ab
    <3> QED
      BY <1>5, <1>8, <3>1, <3>2, AheadParts
  <2> QED
    BY <2>1 DEF SplitsAhead
<1>10. From(ws, Len(a) + 1) = u
  BY <1>5
<1> HIDE DEF u
<1>11. AllAhead(ws, a) <=> Len(ws) >= 1
  <2>1. AllAhead(ws, a) => Len(ws) >= 1
    BY <1>5 DEF AllAhead
  <2> QED
    BY <1>0, <1>9, <2>1 DEF a
<1>12. Begun = IF AllAhead(ws, a) THEN {[val |-> index, rest |-> u]} ELSE {}
  <2>1. CASE Len(ws) >= 1
    BY <1>0, <1>9, <1>11, <2>1 DEF a
  <2>2. CASE ~ Len(ws) >= 1
    <3>1. Begun = {}
      BY <2>2, ReadNumber
    <3> HIDE DEF Begun
    <3> QED
      BY <1>11, <2>2, <3>1
  <2> QED
    BY <2>1, <2>2
<1>13. ReadLines(ws) = UNION {UNION {Found(r) : r \in ReadInstruction(t.rest)} : t \in Begun}
  BY DEF ReadLines
<1>14. AllAhead(ws, ab) => v = From(ws, Len(ab) + 1)
  BY <1>9, <1>10
<1>15. AllAhead(ws, text) => w = From(ws, Len(text) + 1)
  BY <1>8, <1>14
<1> HIDE DEF Begun
<1>16. CASE ~ AllAhead(ws, a)
  <2>1. Begun = {}
    BY <1>12, <1>16
  <2> HIDE DEF Found
  <2>2. ReadLines(ws) = {}
    BY <1>13, <2>1
  <2> QED
    BY <1>8, <1>9, <1>16, <2>2 DEF text
<1>17. CASE AllAhead(ws, a)
  <2> DEFINE t0 == [val |-> index, rest |-> u]
  <2>1. Begun = {t0} /\ t0.rest = u
    BY <1>12, <1>17
  <2>2. u \in Seq(S) /\ StartsWith(u, b)
    BY <1>9, <1>10, <1>17
  <2>3. \A r : Found(r) = {[val |-> <<r.val, p.val>>, rest |-> p.rest] : p \in ReadState(r.rest)}
    OBVIOUS
  <2> HIDE DEF t0, Found
  <2>4. ReadLines(ws) = UNION {Found(r) : r \in ReadInstruction(u)}
    BY <1>13, <2>1
  <2>5. AllAhead(u, b) <=> Len(u) >= Len(b)
    BY <2>2, InstructionAllAhead DEF b
  <2>6. CASE ~ Legible(instr)
    <3>1. ASSUME Len(b) < Len(u) PROVE u[Len(b) + 1][1] \in {"word", "cut"}
      <4>1. AllAhead(ws, ab)
        BY <1>3, <1>9, <1>10, <1>17, <2>2, <2>5, <3>1
      <4>2. StartsWith(From(ws, Len(ab) + 1), c)
        BY <1>8, <4>1
      <4>3. v[1] = u[Len(b) + 1] /\ Len(v) >= 1
        <5>1. Len(b) \in Nat /\ Len(u) \in Nat /\ Len(b) <= Len(u) /\ 1 \in 1 .. Len(u) - Len(b)
          BY <1>3, <2>2, <3>1
        <5>2. /\ Len(From(u, Len(b) + 1)) = Len(u) - Len(b)
              /\ \A j \in 1 .. Len(u) - Len(b) : From(u, Len(b) + 1)[j] = u[Len(b) + j]
          BY <2>2, <5>1, FromPlaces
        <5> QED
          BY <5>1, <5>2
      <4> HIDE DEF v
      <4>4. StartsWith(v, c)
        BY <1>14, <4>1, <4>2
      <4>5. v[1] = Word("State") \/ v[1] = CutWord(Word("State"))
        BY <1>6, <4>3, <4>4 DEF StartsWith
      <4> QED
        BY <4>3, <4>5, WordKinds
    <3>2. ASSUME NEW r \in ReadInstruction(u) PROVE Found(r) = {}
      <4>1. ReadState(r.rest) = {}
        BY <2>2, <2>6, <3>1, NoStateBehind DEF b
      <4> QED
        BY <2>3, <4>1
    <3>3. ReadLines(ws) = {}
      BY <2>4, <3>2
    <3> QED
      BY <2>6, <3>3
  <2>7. CASE Legible(instr)
    <3> DEFINE r0 == [val |-> instr, rest |-> v]
    <3>1. ReadInstruction(u) = IF Len(u) >= Len(b) THEN {r0} ELSE {}
      BY <2>2, <2>7, LegibleRead DEF b
    <3>2. Found(r0) = {[val |-> <<instr, p.val>>, rest |-> p.rest] : p \in ReadState(v)}
      BY <2>3
    <3> HIDE DEF r0, v
    <3>3. CASE ~ AllAhead(u, b)
      <4>1. ReadLines(ws) = {}
        BY <2>4, <2>5, <3>1, <3>3
      <4> QED
        BY <1>8, <1>9, <1>10, <3>3, <4>1 DEF text
    <3>4. CASE AllAhead(u, b)
      <4>1. ReadLines(ws) = Found(r0)
        BY <2>4, <2>5, <3>1, <3>4
      <4>2. AllAhead(ws, ab)
        BY <1>9, <1>10, <1>17, <3>4
      <4>3. v \in Seq(S) /\ StartsWith(v, c)
        BY <1>8, <1>14, <4>2
      <4> DEFINE ahead == LegibleState(post) /\ AllAhead(v, c)
      <4>4. ReadState(v) = IF ahead THEN {[val |-> post, rest |-> w]} ELSE {}
        BY <4>3, StateRead DEF c
      <4>5. AllAhead(ws, text) <=> AllAhead(v, c)
        BY <1>8, <1>14, <4>2
      <4> HIDE DEF w
      <4>6. CASE ahead
        <5>1. ReadState(v) = {[val |-> post, rest |-> w]}
          BY <4>4, <4>6
        <5>2. Found(r0) = {[val |-> <<instr, post>>, rest |-> w]}
          BY <3>2, <5>1
        <5> QED
          BY <1>15, <2>7, <4>1, <4>5, <4>6, <5>2 DEF text
      <4>7. CASE ~ ahead
        <5>1. ReadState(v) = {}
          BY <4>4, <4>7
        <5>2. Found(r0) = {}
          BY <3>2, <5>1
        <5> QED
          BY <4>1, <4>5, <4>7, <5>2 DEF text
      <4> QED
        BY <4>6, <4>7
    <3> QED
      BY <3>3, <3>4
  <2> QED
    BY <2>6, <2>7
<1> QED
  BY <1>16, <1>17

\* The words of a transition.
LEMMA TransitionSeq ==
    ASSUME NEW index \in Nat, NEW instr, IsInstruction(instr),
           NEW post, IsState(post), UnmistakableState(post)
    PROVE  \E U : TransitionWords(index, instr, post) \in Seq(U)
<1> DEFINE a == <<Number(index)>>
           b == InstructionWords(instr)
           c == StateWords(post)
           A == {Number(index)}
           B == ToSet(b)
<1>1. PICK C : c \in Seq(C)
  BY StateWordsSeq
<1>2. b \in Seq(B)
  BY InstructionSeq
<1>3. a \in Seq(A)
  OBVIOUS
<1>4. TransitionWords(index, instr, post) = a \o b \o c
  BY DEF TransitionWords
<1> HIDE DEF a, b, c, A, B
<1>5. a \in Seq(A \cup B \cup C) /\ b \in Seq(A \cup B \cup C) /\ c \in Seq(A \cup B \cup C)
  BY <1>1, <1>2, <1>3
<1>6. a \o b \o c \in Seq(A \cup B \cup C)
  BY <1>5
<1> QED
  BY <1>4, <1>6

\* What was written is read back, and nothing of what is behind it.
ReadsBack(words, behind, instr, post) ==
    ReadLines(words \o behind) =
        IF Legible(instr) /\ LegibleState(post)
        THEN {[val |-> <<instr, post>>, rest |-> behind]} ELSE {}

LEMMA WholeLinesRead ==
    ASSUME NEW index \in Nat, NEW instr, IsInstruction(instr), Unmistakable(instr),
           NEW post, IsState(post), UnmistakableState(post),
           NEW words, words = TransitionWords(index, instr, post),
           NEW U, NEW behind \in Seq(U)
    PROVE  ReadsBack(words, behind, instr, post)
<1> DEFINE ws == words \o behind
           n == Len(words)
           l == Len(behind)
<1>1. PICK T : words \in Seq(T)
  BY TransitionSeq
<1>2. words \in Seq(T \cup U) /\ behind \in Seq(T \cup U)
  BY <1>1
<1>3. /\ ws \in Seq(T \cup U) /\ Len(ws) = n + l /\ n \in Nat /\ l \in Nat
      /\ \A j \in 1 .. n : ws[j] = words[j]
      /\ \A j \in 1 .. l : ws[n + j] = behind[j]
      /\ behind = [j \in 1 .. l |-> behind[j]]
  BY <1>2
<1> HIDE DEF ws
<1>4. AllAhead(ws, words) /\ StartsWith(ws, words)
  BY <1>3 DEF AllAhead, StartsWith
<1>5. From(ws, n + 1) = behind
  <2> DEFINE rest == From(ws, n + 1)
  <2>1. n \in Nat /\ n <= Len(ws) /\ Len(ws) - n = l
    BY <1>3
  <2>2. /\ rest \in Seq(T \cup U) /\ Len(rest) = Len(ws) - n
        /\ \A j \in 1 .. Len(ws) - n : rest[j] = ws[n + j]
    <3> HIDE DEF n
    <3> QED
      BY <1>3, <2>1, FromPlaces
  <2> HIDE DEF rest, n, l
  <2>3. rest = [j \in 1 .. l |-> rest[j]] /\ \A j \in 1 .. l : rest[j] = behind[j]
    BY <1>3, <2>1, <2>2
  <2>4. rest = behind
    BY <1>3, <2>3
  <2> QED
    BY <2>4 DEF rest
<1>6. ReadLines(ws) =
         IF Legible(instr) /\ LegibleState(post) /\ AllAhead(ws, words)
         THEN {[val |-> <<instr, post>>, rest |-> From(ws, n + 1)]} ELSE {}
  <2>1. StartsWith(ws, TransitionWords(index, instr, post))
    BY <1>4
  <2> QED
    BY <1>3, <2>1, LinesRead
<1>7. ReadLines(ws) = IF Legible(instr) /\ LegibleState(post)
                      THEN {[val |-> <<instr, post>>, rest |-> behind]} ELSE {}
  BY <1>4, <1>5, <1>6
<1> QED
  BY <1>7 DEF ws, ReadsBack

\* Nothing is read of a part of what was written, be its last word cut or not.
LEMMA CutLinesRead ==
    ASSUME NEW index \in Nat, NEW instr, IsInstruction(instr), Unmistakable(instr),
           NEW post, IsState(post), UnmistakableState(post),
           NEW words, words = TransitionWords(index, instr, post),
           NEW k \in DOMAIN words
    PROVE  /\ ReadLines(SubSeq(words, 1, k - 1)) = {}
           /\ k < Len(words) => ReadLines(Append(SubSeq(words, 1, k - 1), CutWord(words[k]))) = {}
<1> DEFINE before == SubSeq(words, 1, k - 1)
           last == CutWord(words[k])
           cut == Append(before, last)
<1>1. PICK T : words \in Seq(T)
  BY TransitionSeq
<1>2. k \in 1 .. Len(words) /\ Len(words) \in Nat
  BY <1>1
<1>3. before \in Seq(T) /\ Len(before) = k - 1 /\ \A j \in 1 .. k - 1 : before[j] = words[j]
  BY <1>1, <1>2
<1>4. ASSUME NEW S, NEW ws \in Seq(S), StartsWith(ws, words), Len(ws) < Len(words)
      PROVE  ReadLines(ws) = {}
  <2>1. ~ AllAhead(ws, words)
    BY <1>2, <1>4 DEF AllAhead
  <2>2. StartsWith(ws, TransitionWords(index, instr, post))
    BY <1>4
  <2> QED
    BY <2>1, <2>2, LinesRead
<1> HIDE DEF before
<1>5. ReadLines(before) = {}
  <2>1. StartsWith(before, words)
    BY <1>2, <1>3 DEF StartsWith
  <2>2. Len(before) < Len(words)
    BY <1>2, <1>3
  <2> QED
    BY <1>3, <1>4, <2>1, <2>2
<1>6. ASSUME k < Len(words) PROVE ReadLines(cut) = {}
  <2>1. before \in Seq(T \cup {last}) /\ last \in T \cup {last}
    BY <1>3
  <2> HIDE DEF last
  <2>2. /\ cut \in Seq(T \cup {last}) /\ Len(cut) = k /\ cut[k] = last
        /\ \A j \in 1 .. k - 1 : cut[j] = words[j]
    BY <1>2, <1>3, <2>1
  <2> HIDE DEF cut
  <2>3. StartsWith(cut, words)
    <3> SUFFICES ASSUME NEW j \in 1 .. Len(words), j <= Len(cut)
                 PROVE  cut[j] = words[j] \/ (j = Len(cut) /\ cut[j] = CutWord(words[j]))
      BY DEF StartsWith
    <3>1. CASE j = k
      BY <2>2, <3>1 DEF last
    <3>2. CASE j # k
      BY <1>2, <2>2, <3>2
    <3> QED
      BY <3>1, <3>2
  <2>4. Len(cut) < Len(words)
    BY <1>6, <2>2
  <2> QED
    BY <1>4, <2>2, <2>3, <2>4
<1> QED
  BY <1>5, <1>6 DEF before
=============================================================================
