-------------------------- MODULE ExecutionIOProofs --------------------------
(***************************************************************************)
(* Proofs about ExecutionIO, from the inductive invariant IOInv: the       *)
(* transitions of an execution stay chained, what is read is a prefix of   *)
(* what was written, and an incomplete text is noticed, for all            *)
(* instructions, states and lengths.                                       *)
(***************************************************************************)
EXTENDS ExecutionIOInvariant, TextFormatsProofs

(***************************************************************************)
(* The lines of a text                                                     *)
(***************************************************************************)
\* A sequence is one of its own elements.
LEMMA SeqOfElements ==
    ASSUME NEW n \in Nat, NEW s, s = [k \in 1 .. n |-> s[k]]
    PROVE  /\ s \in Seq({s[k] : k \in 1 .. n})
           /\ Len(s) = n /\ DOMAIN s = 1 .. n
<1>1. DOMAIN s = 1 .. n
  OBVIOUS
<1>2. s \in [1 .. n -> {s[k] : k \in 1 .. n}]
  OBVIOUS
<1> QED
  BY <1>1, <1>2

\* The members of an execution.
LEMMA ExecutionFields ==
    ASSUME NEW X \in Executions
    PROVE  /\ X = [mExecution |-> X.mExecution, mS0 |-> X.mS0, mThreads |-> X.mThreads,
                   mStatus |-> X.mStatus, mContainsLocks |-> X.mContainsLocks]
           /\ X.mExecution \in Seq(Transitions) /\ Len(X.mExecution) \in Nat
           /\ DOMAIN X.mExecution = 1 .. Len(X.mExecution)
           /\ X.mS0 \in States \cup {NoState, CutState}
           /\ X.mThreads \subseteq Thread /\ X.mStatus \in ExecutionStatus
           /\ X.mContainsLocks \in BOOLEAN
BY DEF Executions

\* The lines of its transitions.
LEMMA TransitionLines ==
    ASSUME NEW X \in Executions
    PROVE  /\ LinesOf(X) \in Seq({LinesOf(X)[l] : l \in 1 .. 2 * Len(X.mExecution)})
           /\ Len(LinesOf(X)) = 2 * Len(X.mExecution)
           /\ \A k \in 1 .. Len(X.mExecution) :
                 /\ LinesOf(X)[2 * k - 1] = InstructionLine(X.mExecution[k].mInstr)
                 /\ LinesOf(X)[2 * k] = StateLine(X.mExecution[k].mPost)
<1> DEFINE lines == LinesOf(X)
           n == Len(X.mExecution)
           m == 2 * n
<1>0. n \in Nat
  BY ExecutionFields
<1>1. lines = [l \in 1 .. m |-> PostLines(X.mExecution[(l + 1) \div 2])[2 - (l % 2)]]
  BY DEF LinesOf
<1>2. ASSUME NEW k \in 1 .. n
      PROVE  /\ lines[2 * k - 1] = InstructionLine(X.mExecution[k].mInstr)
             /\ lines[2 * k] = StateLine(X.mExecution[k].mPost)
  <2>1. /\ 2 * k - 1 \in 1 .. m
        /\ 2 * k \in 1 .. m
        /\ (2 * k - 1 + 1) \div 2 = k /\ (2 * k + 1) \div 2 = k
        /\ 2 - ((2 * k - 1) % 2) = 1 /\ 2 - ((2 * k) % 2) = 2
    BY <1>0
  <2> HIDE DEF lines, m
  <2>2. /\ lines[2 * k - 1] = PostLines(X.mExecution[k])[1]
        /\ lines[2 * k] = PostLines(X.mExecution[k])[2]
    BY <2>1, <1>1
  <2> QED
    BY <2>2 DEF PostLines
<1>3. m \in Nat
  BY <1>0
<1> HIDE DEF lines, m
<1>4. lines = [l \in 1 .. m |-> lines[l]]
  BY <1>1
<1>5. lines \in Seq({lines[l] : l \in 1 .. m}) /\ Len(lines) = m
  BY <1>3, <1>4, SeqOfElements
<1> QED
  BY <1>2, <1>5 DEF lines, m

\* The text of an execution is its first state, two lines for each transition, and
\* the two of the end.
LEMMA TextLines ==
    ASSUME NEW X \in Executions, Initialized(X)
    PROVE  LET text == Text(X)
               n == Len(X.mExecution)
           IN  /\ text \in Seq({text[l] : l \in 1 .. 2 * n + 3})
               /\ Len(text) = 2 * n + 3
               /\ text[1] = StateLine(X.mS0)
               /\ \A k \in 1 .. n :
                     /\ text[2 * k] = InstructionLine(X.mExecution[k].mInstr)
                     /\ text[2 * k + 1] = StateLine(X.mExecution[k].mPost)
               /\ text[2 * n + 2] = SeparatorLine
               /\ text[2 * n + 3] = StatusLine(X.mStatus)
<1> DEFINE text == Text(X)
           n == Len(X.mExecution)
<1>0. n \in Nat
  BY ExecutionFields
<1> DEFINE lines == LinesOf(X)
           S == {lines[l] : l \in 1 .. 2 * n}
                \cup {StateLine(X.mS0), SeparatorLine, StatusLine(X.mStatus)}
           first == <<StateLine(X.mS0)>>
           end == <<SeparatorLine, StatusLine(X.mStatus)>>
           front == first \o lines
<1>1. text = front \o end
  BY DEF Text
<1> HIDE DEF text
<1>2. /\ lines \in Seq(S) /\ Len(lines) = 2 * n
      /\ \A k \in 1 .. n :
            /\ lines[2 * k - 1] = InstructionLine(X.mExecution[k].mInstr)
            /\ lines[2 * k] = StateLine(X.mExecution[k].mPost)
  <2>1. lines \in Seq({lines[l] : l \in 1 .. 2 * n})
    BY TransitionLines
  <2>2. lines \in Seq(S)
    BY <2>1
  <2> QED
    BY <2>2, TransitionLines
<1>3. /\ first \in Seq(S) /\ Len(first) = 1 /\ first[1] = StateLine(X.mS0)
      /\ end \in Seq(S) /\ Len(end) = 2
      /\ end[1] = SeparatorLine /\ end[2] = StatusLine(X.mStatus)
  OBVIOUS
<1> HIDE DEF lines, S, first, end, n
<1>4. /\ front \in Seq(S) /\ Len(front) = 1 + 2 * n
      /\ \A k \in 1 .. 1 : front[k] = first[k]
      /\ \A k \in 1 .. 2 * n : front[1 + k] = lines[k]
  <2>1. /\ front \in Seq(S) /\ Len(front) = Len(first) + Len(lines)
        /\ \A k \in 1 .. Len(first) : front[k] = first[k]
        /\ \A k \in 1 .. Len(lines) : front[Len(first) + k] = lines[k]
    <3>1. first \in Seq(S) /\ lines \in Seq(S)
      BY <1>2, <1>3
    <3> QED
      BY <3>1 DEF front
  <2> HIDE DEF front
  <2> QED
    BY <2>1, <1>2, <1>3
<1> HIDE DEF front
<1>5. /\ text \in Seq(S) /\ Len(text) = (1 + 2 * n) + 2
      /\ \A k \in 1 .. 1 + 2 * n : text[k] = front[k]
      /\ \A k \in 1 .. 2 : text[(1 + 2 * n) + k] = end[k]
  <2>1. /\ front \o end \in Seq(S) /\ Len(front \o end) = Len(front) + Len(end)
        /\ \A k \in 1 .. Len(front) : (front \o end)[k] = front[k]
        /\ \A k \in 1 .. Len(end) : (front \o end)[Len(front) + k] = end[k]
    <3>1. front \in Seq(S) /\ end \in Seq(S)
      BY <1>3, <1>4
    <3> QED
      BY <3>1
  <2> QED
    BY <2>1, <1>1, <1>3, <1>4
<1>6. ASSUME NEW k \in 1 .. n
      PROVE  /\ text[2 * k] = InstructionLine(X.mExecution[k].mInstr)
             /\ text[2 * k + 1] = StateLine(X.mExecution[k].mPost)
  <2>1. /\ 2 * k - 1 \in 1 .. 2 * n /\ 2 * k \in 1 .. 2 * n
        /\ 1 + (2 * k - 1) = 2 * k /\ 1 + 2 * k = 2 * k + 1
        /\ 2 * k \in 1 .. 1 + 2 * n /\ 2 * k + 1 \in 1 .. 1 + 2 * n
    BY <1>0
  <2>2. text[2 * k] = lines[2 * k - 1] /\ text[2 * k + 1] = lines[2 * k]
    BY <1>4, <1>5, <2>1
  <2> QED
    BY <2>2, <1>2
<1>7. text[1] = StateLine(X.mS0)
  BY <1>0, <1>3, <1>4, <1>5
<1>8. text[2 * n + 2] = SeparatorLine /\ text[2 * n + 3] = StatusLine(X.mStatus)
  <2>1. (1 + 2 * n) + 1 = 2 * n + 2 /\ (1 + 2 * n) + 2 = 2 * n + 3
    BY <1>0
  <2> QED
    BY <1>3, <1>5, <2>1
<1>9. text \in Seq({text[l] : l \in 1 .. 2 * n + 3}) /\ Len(text) = 2 * n + 3
  BY <1>0, <1>5
<1> QED
  BY <1>6, <1>7, <1>8, <1>9 DEF text, n

(***************************************************************************)
(* What the operations make of an execution                                *)
(***************************************************************************)
\* The state an execution ends in, if it has one.
LEMMA FinalState ==
    ASSUME NEW X \in Executions, Initialized(X)
    PROVE  /\ FinalPtr(X) \in States \cup {CutState}
           /\ FinalPtr(X) = IF Len(X.mExecution) = 0 THEN X.mS0
                            ELSE X.mExecution[Len(X.mExecution)].mPost
<1>1. CASE X.mExecution = <<>>
  BY <1>1 DEF FinalPtr, Empty, Initialized, Executions
<1>2. CASE X.mExecution # <<>>
  <2>1. /\ Len(X.mExecution) \in 1 .. Len(X.mExecution)
        /\ Len(X.mExecution) # 0
        /\ X.mExecution[Len(X.mExecution)] \in Transitions
    BY <1>2, ExecutionFields
  <2> QED
    BY <1>2, <2>1 DEF FinalPtr, Empty, Transitions, Last
<1> QED
  BY <1>1, <1>2

LEMMA InstructionOperand ==
    ASSUME NEW instr \in Instructions
    PROVE  instr.op = "Spawn" => instr.operand \in Thread
<1>1. Bare(instr) \in Instruction
  BY IOAssumption DEF IsInstruction
<1> QED
  BY <1>1 DEF Bare, Instruction, MemoryOp, LockOp, ManageOp

\* push_back adds a transition that starts where the execution ends.
LEMMA Pushed ==
    ASSUME NEW X \in Executions, Initialized(X), Len(X.mExecution) < MaxTransitions,
           NEW instr \in Instructions, NEW post \in States,
           NEW Y, Y = PushBack(X, instr, post), NEW n \in Nat, n = Len(X.mExecution)
    PROVE  /\ Y \in Executions
           /\ Len(Y.mExecution) = n + 1
           /\ \A k \in 1 .. n : Y.mExecution[k] = X.mExecution[k]
           /\ Y.mExecution[n + 1] = Transition(n + 1, FinalPtr(X), instr, post)
           /\ Y.mS0 = X.mS0 /\ Y.mStatus = X.mStatus
           /\ Y.mThreads = X.mThreads \cup (IF instr.op = "Spawn" THEN {instr.operand} ELSE {})
<1> DEFINE trans == Transition(n + 1, FinalPtr(X), instr, post)
<1>1. trans \in Transitions
  BY FinalState, IOAssumption DEF Transition, Transitions
<1>2. /\ Y.mExecution = Append(X.mExecution, trans)
      /\ Y.mS0 = X.mS0 /\ Y.mStatus = X.mStatus
      /\ Y.mThreads = X.mThreads \cup (IF instr.op = "Spawn" THEN {instr.operand} ELSE {})
      /\ Y.mContainsLocks = (X.mContainsLocks \/ instr.op \in LockOp)
      /\ Y = [mExecution |-> Y.mExecution, mS0 |-> Y.mS0, mThreads |-> Y.mThreads,
              mStatus |-> Y.mStatus, mContainsLocks |-> Y.mContainsLocks]
  <2> DEFINE execution == Append(X.mExecution, trans)
             locks == X.mContainsLocks \/ instr.op \in LockOp
             threads == X.mThreads \cup (IF instr.op = "Spawn" THEN {instr.operand} ELSE {})
  <2>1. Y = [X EXCEPT !.mExecution = execution, !.mContainsLocks = locks, !.mThreads = threads]
    BY DEF PushBack
  <2>2. X = [mExecution |-> X.mExecution, mS0 |-> X.mS0, mThreads |-> X.mThreads,
             mStatus |-> X.mStatus, mContainsLocks |-> X.mContainsLocks]
    BY ExecutionFields
  <2> HIDE DEF execution, locks, threads
  <2>3. Y = [mExecution |-> execution, mS0 |-> X.mS0, mThreads |-> threads,
             mStatus |-> X.mStatus, mContainsLocks |-> locks]
    BY <2>1, <2>2
  <2>4. /\ Y.mExecution = execution /\ Y.mS0 = X.mS0 /\ Y.mStatus = X.mStatus
        /\ Y.mThreads = threads /\ Y.mContainsLocks = locks
    BY <2>3
  <2> QED
    BY <2>3, <2>4 DEF execution, locks, threads
<1> HIDE DEF trans
<1>3. /\ Y.mExecution \in Seq(Transitions)
      /\ Len(Y.mExecution) = n + 1
      /\ \A k \in 1 .. n : Y.mExecution[k] = X.mExecution[k]
      /\ Y.mExecution[n + 1] = trans
  BY <1>1, <1>2, ExecutionFields
<1>4. Y.mThreads \subseteq Thread
  BY <1>2, ExecutionFields, InstructionOperand
<1>5. Y.mContainsLocks \in BOOLEAN
  BY <1>2, ExecutionFields
<1>6. Y \in Executions
  BY <1>2, <1>3, <1>4, <1>5, ExecutionFields DEF Executions
<1> QED
  BY <1>2, <1>3, <1>6 DEF trans

LEMMA PushedChained ==
    ASSUME NEW X \in Executions, Initialized(X), Len(X.mExecution) < MaxTransitions, Chained(X),
           NEW instr \in Instructions, NEW post \in States
    PROVE  Chained(PushBack(X, instr, post))
<1> DEFINE Y == PushBack(X, instr, post)
           n == Len(X.mExecution)
<1> n \in Nat
  BY ExecutionFields
<1>1. /\ Y \in Executions
      /\ Len(Y.mExecution) = n + 1
      /\ \A k \in 1 .. n : Y.mExecution[k] = X.mExecution[k]
      /\ Y.mExecution[n + 1] = Transition(n + 1, FinalPtr(X), instr, post)
      /\ Y.mS0 = X.mS0
  BY Pushed
<1>2. /\ FinalPtr(X) = IF n = 0 THEN X.mS0 ELSE X.mExecution[n].mPost
      /\ DOMAIN X.mExecution = 1 .. n
  BY FinalState, ExecutionFields
<1> HIDE DEF Y, n
<1>3. DOMAIN Y.mExecution = 1 .. n + 1
  BY <1>1, ExecutionFields
<1>4. ASSUME NEW k \in 1 .. n + 1
      PROVE  /\ Y.mExecution[k].mIndex = k
             /\ Y.mExecution[k].mPre = IF k = 1 THEN Y.mS0 ELSE Y.mExecution[k - 1].mPost
  <2>1. CASE k \in 1 .. n
    <3>1. /\ Y.mExecution[k] = X.mExecution[k]
          /\ k # 1 => k - 1 \in 1 .. n /\ Y.mExecution[k - 1] = X.mExecution[k - 1]
      BY <1>1, <2>1
    <3>2. /\ X.mExecution[k].mIndex = k
          /\ X.mExecution[k].mPre = IF k = 1 THEN X.mS0 ELSE X.mExecution[k - 1].mPost
      BY <1>2, <2>1 DEF Chained
    <3> QED
      BY <1>1, <3>1, <3>2
  <2>2. CASE k = n + 1
    <3>1. k # 1 => n \in 1 .. n /\ k - 1 = n /\ n # 0
      BY <2>2
    <3> QED
      BY <1>1, <1>2, <2>2, <3>1 DEF Transition
  <2> QED
    BY <2>1, <2>2
<1>5. Chained(Y)
  BY <1>3, <1>4 DEF Chained
<1> QED
  BY <1>5 DEF Y

\* pop_last takes the last transition back.
LEMMA Popped ==
    ASSUME NEW X \in Executions, ~ Empty(X), NEW Y, Y = PopLast(X),
           NEW n \in Nat, n = Len(X.mExecution)
    PROVE  /\ Y \in Executions /\ n > 0
           /\ Len(Y.mExecution) = n - 1
           /\ Y.mS0 = X.mS0
           /\ Chained(X) => Chained(Y)
<1> DEFINE execution == Front(X.mExecution)
<1>1. n > 0
  BY ExecutionFields DEF Empty
<1>2. /\ execution \in Seq(Transitions) /\ Len(execution) = n - 1
      /\ DOMAIN execution = 1 .. n - 1
      /\ \A k \in 1 .. n - 1 : execution[k] = X.mExecution[k]
  BY <1>1, ExecutionFields DEF Front
<1>3. Y = [X EXCEPT !.mExecution = execution]
  BY DEF PopLast
<1> HIDE DEF execution
<1>4. Y = [mExecution |-> execution, mS0 |-> X.mS0, mThreads |-> X.mThreads,
           mStatus |-> X.mStatus, mContainsLocks |-> X.mContainsLocks]
  BY <1>3, ExecutionFields
<1>5. Y \in Executions /\ Y.mExecution = execution /\ Y.mS0 = X.mS0
  BY <1>2, <1>4, ExecutionFields DEF Executions
<1>6. Chained(X) => Chained(Y)
  <2> SUFFICES ASSUME Chained(X), NEW k \in 1 .. n - 1
               PROVE  /\ execution[k].mIndex = k
                      /\ execution[k].mPre = IF k = 1 THEN X.mS0 ELSE execution[k - 1].mPost
    BY <1>2, <1>5 DEF Chained
  <2>1. k \in DOMAIN X.mExecution /\ (k # 1 => k - 1 \in 1 .. n - 1)
    BY ExecutionFields
  <2> QED
    BY <1>2, <2>1 DEF Chained
<1> QED
  BY <1>1, <1>2, <1>5, <1>6

\* close changes where the execution ends, and its status.
LEMMA Closed ==
    ASSUME NEW X \in Executions, ~ Empty(X), NEW post \in States, NEW status \in Statuses,
           NEW Y, Y = SetStatus(SetLastPost(X, post), status)
    PROVE  /\ Y \in Executions
           /\ Len(Y.mExecution) = Len(X.mExecution)
           /\ Y.mS0 = X.mS0
           /\ Chained(X) => Chained(Y)
<1> DEFINE n == Len(X.mExecution)
           execution == [X.mExecution EXCEPT ![n] = [@ EXCEPT !.mPost = post]]
<1>1. n \in Nat /\ n > 0 /\ X.mExecution[n] \in Transitions
  BY ExecutionFields DEF Empty
<1>2. Y = [X EXCEPT !.mExecution = execution, !.mStatus = status]
  BY DEF SetStatus, SetLastPost
<1>3. /\ [X.mExecution[n] EXCEPT !.mPost = post] \in Transitions
      /\ [X.mExecution[n] EXCEPT !.mPost = post].mIndex = X.mExecution[n].mIndex
      /\ [X.mExecution[n] EXCEPT !.mPost = post].mPre = X.mExecution[n].mPre
  BY <1>1 DEF Transitions
<1>4. /\ execution \in Seq(Transitions) /\ Len(execution) = n /\ DOMAIN execution = 1 .. n
      /\ \A k \in 1 .. n : k # n => execution[k] = X.mExecution[k]
      /\ \A k \in 1 .. n : /\ execution[k].mIndex = X.mExecution[k].mIndex
                           /\ execution[k].mPre = X.mExecution[k].mPre
  BY <1>1, <1>3, ExecutionFields
<1> HIDE DEF execution
<1>5. Y = [mExecution |-> execution, mS0 |-> X.mS0, mThreads |-> X.mThreads,
           mStatus |-> status, mContainsLocks |-> X.mContainsLocks]
  BY <1>2, ExecutionFields
<1>6. Y \in Executions /\ Y.mExecution = execution /\ Y.mS0 = X.mS0
  BY <1>4, <1>5, ExecutionFields, IOAssumption DEF Executions
<1>7. Chained(X) => Chained(Y)
  <2> SUFFICES ASSUME Chained(X), NEW k \in 1 .. n
               PROVE  /\ execution[k].mIndex = k
                      /\ execution[k].mPre = IF k = 1 THEN X.mS0 ELSE execution[k - 1].mPost
    BY <1>4, <1>6 DEF Chained
  <2>1. /\ k \in DOMAIN X.mExecution
        /\ k # 1 => k - 1 \in 1 .. n /\ k - 1 # n
    BY <1>1, ExecutionFields
  <2> QED
    BY <1>4, <2>1 DEF Chained
<1> QED
  BY <1>4, <1>6, <1>7

(***************************************************************************)
(* The invariant                                                           *)
(***************************************************************************)
LEMMA NewExecution ==
    ASSUME NEW s0 \in States \cup {NoState}, NEW X \in NewExecutions(s0)
    PROVE  /\ X \in Executions /\ X.mExecution = <<>> /\ X.mS0 = s0
           /\ Len(X.mExecution) = 0 /\ DOMAIN X.mExecution = {}
           /\ X.mThreads = {0}
           /\ Chained(X)
<1>1. 0 \in Thread
  BY NrThreadsAssumption DEF Thread
<1>2. PICK b \in BOOLEAN :
          X = [mExecution |-> <<>>, mS0 |-> s0, mThreads |-> {0}, mStatus |-> "RUNNING",
               mContainsLocks |-> b]
  BY DEF NewExecutions
<1>3. <<>> \in Seq(Transitions) /\ Len(<<>>) = 0 /\ DOMAIN <<>> = {}
  OBVIOUS
<1>4. "RUNNING" \in ExecutionStatus
  BY DEF ExecutionStatus
<1>5. X \in Executions /\ X.mExecution = <<>> /\ X.mS0 = s0 /\ X.mThreads = {0}
  BY <1>1, <1>2, <1>3, <1>4 DEF Executions
<1> QED
  BY <1>3, <1>5 DEF Chained

LEMMA InitInv == Init => IOInv
<1> SUFFICES ASSUME Init PROVE IOInv
  OBVIOUS
<1>1. PICK s0 \in States : E \in NewExecutions(s0)
  BY DEF Init
<1>2. /\ E \in Executions /\ Len(E.mExecution) = 0 /\ E.mS0 = s0 /\ Chained(E)
  BY <1>1, NewExecution
<1>3. /\ R \in Executions /\ R.mExecution = <<>> /\ Len(R.mExecution) = 0
      /\ R.mS0 = NoState /\ Chained(R)
  BY NewExecution DEF Init
<1>4. TypeOK
  <2>1. MaxTransitions \in Nat
    BY IOAssumption
  <2>2. good \in BOOLEAN /\ i = 0 /\ rpc = "idle" /\ whole \in BOOLEAN
    BY DEF Init
  <2> QED
    BY <1>2, <1>3, <2>1, <2>2 DEF TypeOK
<1>5. S0Inv
  BY <1>2, <1>3 DEF S0Inv, Empty
<1>6. ExecutionsChained
  BY <1>2, <1>3 DEF ExecutionsChained
<1> QED
  BY <1>4, <1>5, <1>6
  DEF Init, IOInv, InputInv, ReadingInv, WholeInv, DoneInv, GoodReadIsComplete,
      WholeRecordIsRead, Reading

\* A change of the execution takes the stream away.
LEMMA ChangeInv ==
    ASSUME IOInv, NEW F \in Executions, F.mS0 = E.mS0,
           Len(F.mExecution) <= MaxTransitions, Chained(F), Change(F)
    PROVE  IOInv'
<1>1. TypeOK'
  <2>1. /\ E' = F /\ R' = R /\ i' = 0 /\ rpc' = "idle"
        /\ good' \in BOOLEAN /\ whole' \in BOOLEAN
    BY DEF Change
  <2>2. R \in Executions /\ Len(R.mExecution) <= MaxTransitions /\ Len(R.mExecution) \in Nat
    BY ExecutionFields DEF IOInv, TypeOK
  <2> QED
    BY <2>1, <2>2 DEF TypeOK
<1>2. S0Inv'
  BY DEF IOInv, S0Inv, Change, Initialized, Empty
<1>3. ExecutionsChained'
  BY DEF IOInv, ExecutionsChained, Change, Chained
<1> QED
  BY <1>1, <1>2, <1>3
  DEF Change, IOInv, InputInv, ReadingInv, WholeInv, DoneInv, GoodReadIsComplete,
      WholeRecordIsRead, Reading

LEMMA PushInv == IOInv /\ Push => IOInv'
<1> SUFFICES ASSUME IOInv, Push PROVE IOInv'
  OBVIOUS
<1>1. PICK instr \in Instructions, post \in States :
          Len(E.mExecution) < MaxTransitions /\ Change(PushBack(E, instr, post))
  BY DEF Push
<1> DEFINE F == PushBack(E, instr, post)
<1>2. E \in Executions /\ Initialized(E) /\ Chained(E) /\ Len(E.mExecution) \in Nat
  BY NoStateAssumption, ExecutionFields
  DEF IOInv, TypeOK, S0Inv, Initialized, ExecutionsChained
<1>3. F \in Executions /\ F.mS0 = E.mS0 /\ Len(F.mExecution) = Len(E.mExecution) + 1
  BY <1>1, <1>2, Pushed
<1>4. Chained(F)
  BY <1>1, <1>2, PushedChained
<1> HIDE DEF F
<1>5. Len(F.mExecution) <= MaxTransitions /\ Change(F)
  BY <1>1, <1>2, <1>3, IOAssumption DEF F
<1> QED
  BY <1>3, <1>4, <1>5, ChangeInv

LEMMA PopInv == IOInv /\ Pop => IOInv'
<1> SUFFICES ASSUME IOInv, Pop PROVE IOInv'
  OBVIOUS
<1> DEFINE F == PopLast(E)
<1>1. E \in Executions /\ Chained(E) /\ Len(E.mExecution) \in Nat
      /\ Len(E.mExecution) <= MaxTransitions
  BY ExecutionFields DEF IOInv, TypeOK, ExecutionsChained
<1>2. /\ F \in Executions /\ Len(F.mExecution) = Len(E.mExecution) - 1 /\ F.mS0 = E.mS0
      /\ Chained(F)
  BY <1>1, Popped DEF Pop
<1> HIDE DEF F
<1>3. Len(F.mExecution) <= MaxTransitions
  BY <1>1, <1>2, IOAssumption
<1>4. Change(F)
  BY DEF Pop, F
<1> QED
  BY <1>2, <1>3, <1>4, ChangeInv

LEMMA CloseInv == IOInv /\ Close => IOInv'
<1> SUFFICES ASSUME IOInv, Close PROVE IOInv'
  OBVIOUS
<1>1. PICK post \in States, status \in Statuses :
          ~ Empty(E) /\ Change(SetStatus(SetLastPost(E, post), status))
  BY DEF Close
<1> DEFINE F == SetStatus(SetLastPost(E, post), status)
<1>2. E \in Executions /\ Chained(E) /\ Len(E.mExecution) <= MaxTransitions
  BY DEF IOInv, TypeOK, ExecutionsChained
<1>3. /\ F \in Executions /\ Len(F.mExecution) = Len(E.mExecution) /\ F.mS0 = E.mS0
      /\ Chained(F)
  BY <1>1, <1>2, Closed
<1> HIDE DEF F
<1>4. Change(F)
  BY <1>1 DEF F
<1> QED
  BY <1>2, <1>3, <1>4, ChangeInv

(***************************************************************************)
(* Reading                                                                 *)
(***************************************************************************)
\* No line of a text is taken for one that is cut.
LEMMA TextKinds ==
    ASSUME NEW X \in Executions, Initialized(X), NEW l \in DOMAIN Text(X)
    PROVE  Text(X)[l].kind # "cut"
<1> DEFINE text == Text(X)
           n == Len(X.mExecution)
<1>1. n \in Nat /\ n = Len(X.mExecution) /\ text = Text(X)
  BY ExecutionFields
<1> HIDE DEF text, n
<1>2. /\ text \in Seq({text[k] : k \in 1 .. 2 * n + 3}) /\ Len(text) = 2 * n + 3
      /\ text[1] = StateLine(X.mS0)
      /\ \A k \in 1 .. n :
            /\ text[2 * k] = InstructionLine(X.mExecution[k].mInstr)
            /\ text[2 * k + 1] = StateLine(X.mExecution[k].mPost)
      /\ text[2 * n + 2] = SeparatorLine
      /\ text[2 * n + 3] = StatusLine(X.mStatus)
  BY <1>1, TextLines
<1>3. l \in 1 .. 2 * n + 3
  BY <1>1, <1>2, SMTT(30) DEF text
<1>4. \/ l = 1 \/ l = 2 * n + 2 \/ l = 2 * n + 3
      \/ \E k \in 1 .. n : l = 2 * k
      \/ \E k \in 1 .. n : l = 2 * k + 1
  <2>1. CASE l > 1 /\ l < 2 * n + 2
    <3>1. /\ l \div 2 \in 1 .. n
          /\ l = 2 * (l \div 2) \/ l = 2 * (l \div 2) + 1
      BY <1>1, <1>3, <2>1
    <3> QED
      BY <3>1
  <2> QED
    BY <1>1, <1>3, <2>1
<1>5. text[l].kind # "cut"
  <2>1. /\ \A val : StateLine(val).kind # "cut" /\ InstructionLine(val).kind # "cut"
        /\ SeparatorLine.kind # "cut" /\ \A val : StatusLine(val).kind # "cut"
    BY DEF StateLine, InstructionLine, SeparatorLine, StatusLine, Line
  <2>2. CASE l = 1 \/ l = 2 * n + 2 \/ l = 2 * n + 3
    BY <1>2, <2>1, <2>2
  <2>3. CASE \E k \in 1 .. n : l = 2 * k
    BY <1>2, <2>1, <2>3
  <2>4. CASE \E k \in 1 .. n : l = 2 * k + 1
    BY <1>2, <2>1, <2>4
  <2> QED
    BY <1>4, <2>2, <2>3, <2>4
<1> QED
  BY <1>1, <1>5

LEMMA BeginningLines ==
    ASSUME NEW n \in Nat, NEW text, text \in Seq({text[l] : l \in 1 .. n}), Len(text) = n,
           \A l \in DOMAIN text : text[l].kind # "cut",
           NEW lines, lines \in Beginnings(text)
    PROVE  /\ Len(lines) \in Nat /\ lines = [l \in 1 .. Len(lines) |-> lines[l]]
           /\ \A l \in 1 .. Len(lines) : IsLineOf(lines[l], text, l)
<1>1. DOMAIN text = 1 .. n
  OBVIOUS
<1>2. ASSUME NEW k \in 0 .. n, lines = SubSeq(text, 1, k)
      PROVE  /\ Len(lines) \in Nat /\ lines = [l \in 1 .. Len(lines) |-> lines[l]]
             /\ \A l \in 1 .. Len(lines) : IsLineOf(lines[l], text, l)
  <2>1. /\ Len(lines) = k /\ lines \in Seq({text[l] : l \in 1 .. n})
        /\ \A l \in 1 .. k : lines[l] = text[l]
    BY <1>2
  <2>2. lines = [l \in 1 .. Len(lines) |-> lines[l]]
    BY <2>1
  <2> QED
    BY <1>1, <2>1, <2>2 DEF IsLineOf
<1>3. ASSUME NEW k \in 1 .. n, NEW line, line = Line("cut", text[k].kind),
             lines = Append(SubSeq(text, 1, k - 1), line)
      PROVE  /\ Len(lines) \in Nat /\ lines = [l \in 1 .. Len(lines) |-> lines[l]]
             /\ \A l \in 1 .. Len(lines) : IsLineOf(lines[l], text, l)
  <2> DEFINE S == {text[l] : l \in 1 .. n} \cup {line}
             front == SubSeq(text, 1, k - 1)
  <2>1. /\ front \in Seq(S) /\ Len(front) = k - 1
        /\ \A l \in 1 .. k - 1 : front[l] = text[l]
    OBVIOUS
  <2> line \in S
    OBVIOUS
  <2> HIDE DEF S, front
  <2>2. /\ lines \in Seq(S) /\ Len(lines) = k
        /\ \A l \in 1 .. k - 1 : lines[l] = text[l]
        /\ lines[k] = line
    BY <1>3, <2>1 DEF front
  <2>3. lines = [l \in 1 .. Len(lines) |-> lines[l]]
    BY <2>2
  <2> QED
    BY <1>1, <1>3, <2>2, <2>3 DEF IsLineOf, Line
<1>4. \/ \E k \in 0 .. n : lines = SubSeq(text, 1, k)
      \/ \E k \in 1 .. n : lines = Append(SubSeq(text, 1, k - 1), Line("cut", text[k].kind))
  BY <1>1 DEF Beginnings
<1> QED
  BY <1>2, <1>3, <1>4

\* What IsPrefix says of the contents of two executions.
LEMMA ContentPrefix ==
    ASSUME NEW X \in Executions, NEW Y \in Executions
    PROVE  IsPrefix(Content(X), Content(Y)) <=> Begins(X, Y)
<1> DEFINE c == Content(X)
           d == Content(Y)
           m == Len(X.mExecution)
           n == Len(Y.mExecution)
           S == {c[k] : k \in 1 .. m} \cup {d[k] : k \in 1 .. n}
<1>1. /\ m \in Nat /\ DOMAIN X.mExecution = 1 .. m
      /\ n \in Nat /\ DOMAIN Y.mExecution = 1 .. n
  BY ExecutionFields
<1>2. /\ c = [k \in 1 .. m |-> <<X.mExecution[k].mInstr, X.mExecution[k].mPost>>]
      /\ d = [k \in 1 .. n |-> <<Y.mExecution[k].mInstr, Y.mExecution[k].mPost>>]
  BY <1>1 DEF Content
<1>3. c \in Seq(S) /\ Len(c) = m /\ d \in Seq(S) /\ Len(d) = n
  <2> HIDE DEF m, n, c, d
  <2>1. c \in [1 .. m -> S] /\ d \in [1 .. n -> S]
    BY <1>2
  <2> QED
    BY <1>1, <2>1, SMTT(30)
<1> HIDE DEF S, c, d, m, n
<1>4. IsPrefix(c, d) <=> m <= n /\ \A k \in 1 .. m : c[k] = d[k]
  <2>1. IsPrefix(c, d) <=> m <= n /\ SubSeq(c, 1, m) = SubSeq(d, 1, m)
    BY <1>3 DEF IsPrefix
  <2>2. ASSUME m <= n
        PROVE  /\ SubSeq(c, 1, m) \in Seq(S) /\ Len(SubSeq(c, 1, m)) = m
               /\ SubSeq(d, 1, m) \in Seq(S) /\ Len(SubSeq(d, 1, m)) = m
               /\ \A k \in 1 .. m : SubSeq(c, 1, m)[k] = c[k] /\ SubSeq(d, 1, m)[k] = d[k]
    BY <1>1, <1>3, <2>2
  <2> QED
    BY <1>1, <2>1, <2>2
<1>5. m <= n => \A k \in 1 .. m :
          c[k] = d[k] <=> /\ X.mExecution[k].mInstr = Y.mExecution[k].mInstr
                          /\ X.mExecution[k].mPost = Y.mExecution[k].mPost
  BY <1>1, <1>2
<1> QED
  BY <1>1, <1>4, <1>5 DEF Begins, c, d, m, n

LEMMA StartReadInv == IOInv /\ StartRead => IOInv'
<1> SUFFICES ASSUME IOInv, StartRead PROVE IOInv'
  OBVIOUS
<1> DEFINE text == Text(E)
           n == 2 * Len(E.mExecution) + 3
<1>1. /\ E \in Executions /\ Initialized(E) /\ R \in Executions
      /\ Len(E.mExecution) \in Nat
  BY NoStateAssumption, ExecutionFields DEF IOInv, TypeOK, S0Inv, Initialized
<1>2. /\ E' = E /\ rpc' = "loop" /\ i' = 0 /\ good' = TRUE
      /\ input' \in Beginnings(text)
  BY DEF StartRead
<1>3. \/ /\ R' \in NewExecutions(NoState)
         /\ whole' = (input' = text)
      \/ /\ Initialized(R) /\ IsPrefix(Content(R), Content(E))
         /\ whole' = FALSE /\ R' = R
  BY DEF StartRead
<1>4. /\ n \in Nat /\ text \in Seq({text[l] : l \in 1 .. n}) /\ Len(text) = n
      /\ \A l \in DOMAIN text : text[l].kind # "cut"
      /\ DOMAIN text = 1 .. n
  <2>1. text \in Seq({text[l] : l \in 1 .. n}) /\ Len(text) = n
    BY <1>1, TextLines
  <2>2. \A l \in DOMAIN text : text[l].kind # "cut"
    BY <1>1, TextKinds
  <2> HIDE DEF text
  <2> QED
    BY <1>1, <2>1, <2>2
<1> HIDE DEF text, n
<1>5. /\ Len(input') \in Nat /\ input' = [l \in 1 .. Len(input') |-> input'[l]]
      /\ \A l \in 1 .. Len(input') : IsLineOf(input'[l], text, l)
  BY <1>2, <1>4, BeginningLines
<1>6. InputInv'
  BY <1>2, <1>5 DEF InputInv, Consumed, text
<1>7. /\ R' \in Executions /\ Begins(R, E)' /\ Chained(R)'
      /\ Len(R'.mExecution) <= MaxTransitions /\ Len(R'.mExecution) \in Nat
      /\ R'.mS0 \in {NoState, E.mS0, CutState}
      /\ ~ Initialized(R') => Empty(R')
  <2>1. CASE R' \in NewExecutions(NoState)
    <3>1. /\ R' \in Executions /\ R'.mExecution = <<>> /\ R'.mS0 = NoState
          /\ Len(R'.mExecution) = 0 /\ DOMAIN R'.mExecution = {} /\ Chained(R')
      BY <2>1, NewExecution
    <3>2. Begins(R', E')
      BY <1>1, <1>2, <3>1 DEF Begins
    <3>3. MaxTransitions \in Nat
      BY IOAssumption
    <3> QED
      BY <1>2, <3>1, <3>2, <3>3 DEF Empty, Begins, Chained
  <2>2. CASE IsPrefix(Content(R), Content(E)) /\ R' = R
    <3>1. Begins(R, E)
      BY <1>1, <2>2, ContentPrefix
    <3> QED
      BY <1>1, <1>2, <2>2, <3>1, ExecutionFields
      DEF Begins, IOInv, TypeOK, S0Inv, ExecutionsChained, Chained
  <2> QED
    BY <1>3, <2>1, <2>2
<1>8. TypeOK' /\ S0Inv' /\ ExecutionsChained'
  <2>1. whole' \in BOOLEAN
    BY <1>3
  <2> QED
    BY <1>2, <1>7, <2>1
    DEF IOInv, TypeOK, S0Inv, ExecutionsChained, Chained, Initialized, Empty
<1>9. WholeInv'
  <2> SUFFICES ASSUME whole'
               PROVE  /\ Len(input') = Len(text)
                      /\ \A l \in 1 .. Len(input') : input'[l].kind # "cut"
                      /\ 0 = Len(R'.mExecution)
                      /\ R'.mS0 = NoState
                      /\ R'.mThreads = {0} \cup CreatedBy(R')
    BY <1>2, <1>4, <1>5 DEF WholeInv, Consumed, text, CreatedBy
  <2>1. R' \in NewExecutions(NoState) /\ input' = text
    BY <1>3
  <2>2. /\ R'.mExecution = <<>> /\ R'.mS0 = NoState
        /\ Len(R'.mExecution) = 0 /\ R'.mThreads = {0} /\ DOMAIN R'.mExecution = {}
    BY <2>1, NewExecution
  <2>3. CreatedBy(R') = {}
    BY <2>2 DEF CreatedBy, ToSet
  <2> QED
    BY <1>4, <2>1, <2>2, <2>3
<1> QED
  BY <1>2, <1>6, <1>7, <1>8, <1>9
  DEF IOInv, ReadingInv, DoneInv, GoodReadIsComplete, WholeRecordIsRead

\* The two lines of the text behind j transitions.
LEMMA TextAt ==
    ASSUME NEW X \in Executions, Initialized(X),
           NEW j \in Nat, j <= Len(X.mExecution)
    PROVE  /\ Len(Text(X)) = 2 * Len(X.mExecution) + 3
           /\ Text(X)[1] = StateLine(X.mS0)
           /\ j < Len(X.mExecution) =>
                 /\ Text(X)[2 * j + 1 + 1] = InstructionLine(X.mExecution[j + 1].mInstr)
                 /\ Text(X)[2 * j + 1 + 2] = StateLine(X.mExecution[j + 1].mPost)
           /\ j = Len(X.mExecution) =>
                 /\ Text(X)[2 * j + 1 + 1] = SeparatorLine
                 /\ Text(X)[2 * j + 1 + 2] = StatusLine(X.mStatus)
<1> DEFINE text == Text(X)
           n == Len(X.mExecution)
<1>1. /\ Len(text) = 2 * n + 3
      /\ text[1] = StateLine(X.mS0)
      /\ \A k \in 1 .. n :
            /\ text[2 * k] = InstructionLine(X.mExecution[k].mInstr)
            /\ text[2 * k + 1] = StateLine(X.mExecution[k].mPost)
      /\ text[2 * n + 2] = SeparatorLine
      /\ text[2 * n + 3] = StatusLine(X.mStatus)
  BY TextLines
<1>2. n \in Nat
  BY ExecutionFields
<1> HIDE DEF text, n
<1>3. 2 * j + 1 + 1 = 2 * (j + 1) /\ 2 * j + 1 + 2 = 2 * (j + 1) + 1
  OBVIOUS
<1>4. ASSUME j < n
      PROVE  /\ text[2 * j + 1 + 1] = InstructionLine(X.mExecution[j + 1].mInstr)
             /\ text[2 * j + 1 + 2] = StateLine(X.mExecution[j + 1].mPost)
  <2>1. j + 1 \in 1 .. n
    BY <1>2, <1>4
  <2> QED
    BY <1>1, <1>3, <2>1
<1>5. ASSUME j = n
      PROVE  /\ text[2 * j + 1 + 1] = SeparatorLine
             /\ text[2 * j + 1 + 2] = StatusLine(X.mStatus)
  <2>1. 2 * j + 1 + 1 = 2 * n + 2 /\ 2 * j + 1 + 2 = 2 * n + 3
    BY <1>5
  <2> QED
    BY <1>1, <2>1
<1> QED
  BY <1>1, <1>4, <1>5 DEF text, n

\* What IOInv says of the stream while operator>> runs.
LEMMA StreamFacts ==
    ASSUME IOInv, Reading
    PROVE  /\ E \in Executions /\ Initialized(E) /\ R \in Executions
           /\ Len(E.mExecution) \in Nat /\ Len(R.mExecution) \in Nat
           /\ i \in Nat /\ i <= Len(R.mExecution)
           /\ Len(R.mExecution) <= Len(E.mExecution)
           /\ Len(E.mExecution) <= MaxTransitions
           /\ Len(input) \in Nat /\ DOMAIN input = 1 .. Len(input)
           /\ \A l \in 1 .. Len(input) :
                 /\ Consumed + l \in DOMAIN Text(E)
                 /\ input[l].kind = "cut" => input[l].val = Text(E)[Consumed + l].kind
                 /\ input[l].kind # "cut" => input[l] = Text(E)[Consumed + l]
           /\ Begins(R, E) /\ Chained(E) /\ Chained(R)
<1>1. /\ E \in Executions /\ E.mS0 \in States /\ R \in Executions
      /\ i \in Nat /\ i <= Len(R.mExecution) /\ Len(E.mExecution) <= MaxTransitions
      /\ Chained(E) /\ Chained(R)
  BY DEF IOInv, TypeOK, S0Inv, ExecutionsChained
<1>2. Begins(R, E)
  BY DEF IOInv, ReadingInv
<1>3. /\ Len(input) \in Nat /\ input = [l \in 1 .. Len(input) |-> input[l]]
      /\ \A l \in 1 .. Len(input) : IsLineOf(input[l], Text(E), Consumed + l)
  BY DEF IOInv, InputInv
<1>4. Initialized(E)
  BY <1>1, NoStateAssumption DEF Initialized
<1>5. Len(R.mExecution) <= Len(E.mExecution)
  BY <1>2 DEF Begins
<1>6. DOMAIN input = 1 .. Len(input)
  BY <1>3
<1> QED
  BY <1>1, <1>2, <1>3, <1>4, <1>5, <1>6, ExecutionFields DEF IsLineOf

\* The separator is behind the last transition, whole or cut.
LEMMA SeparatorIsEnd ==
    ASSUME IOInv, Reading, SeparatorAhead
    PROVE  Consumed # 0 => i = Len(E.mExecution) /\ Len(input) > 0
<1>1. /\ 1 \in 1 .. Len(input)
      /\ input[1].kind = "separator" \/ (input[1].kind = "cut" /\ input[1].val = "separator")
  BY StreamFacts DEF SeparatorAhead, Ahead
<1>2. Text(E)[Consumed + 1].kind = "separator"
  BY <1>1, StreamFacts
<1>3. ASSUME Consumed # 0, i < Len(E.mExecution) PROVE FALSE
  <2>1. Consumed = 2 * i + 1
    BY <1>3 DEF Consumed
  <2>2. Text(E)[2 * i + 1 + 1] = InstructionLine(E.mExecution[i + 1].mInstr)
    BY <1>3, StreamFacts, TextAt
  <2> QED
    BY <1>2, <2>1, <2>2 DEF InstructionLine, Line
<1> QED
  BY <1>1, <1>3, StreamFacts

LEMMA SeparatorIsNotFirst ==
    ASSUME IOInv, rpc = "loop", SeparatorAhead
    PROVE  i # 0
<1> SUFFICES ASSUME i = 0 PROVE FALSE
  OBVIOUS
<1>1. Reading /\ Consumed = 0
  BY DEF Reading, Consumed
<1>2. /\ 1 \in 1 .. Len(input)
      /\ input[1].kind = "separator" \/ (input[1].kind = "cut" /\ input[1].val = "separator")
  BY <1>1, StreamFacts DEF SeparatorAhead, Ahead
<1>3. Text(E)[Consumed + 1].kind = "separator"
  BY <1>1, <1>2, StreamFacts
<1>4. Text(E)[1] = StateLine(E.mS0)
  BY <1>1, StreamFacts, TextAt
<1> QED
  BY <1>1, <1>3, <1>4 DEF StateLine, Line

\* What is left when m lines are skipped.
LEMMA SkippedLines ==
    ASSUME IOInv, Reading, NEW m \in Nat, NEW rest, rest = SubSeq(input, m + 1, Len(input))
    PROVE  /\ Len(rest) \in Nat /\ rest = [l \in 1 .. Len(rest) |-> rest[l]]
           /\ m <= Len(input) => Len(rest) = Len(input) - m
           /\ \A l \in 1 .. Len(rest) :
                 l + m \in 1 .. Len(input) /\ rest[l] = input[l + m]
<1> DEFINE n == Len(input)
           S == {input[l] : l \in 1 .. n}
<1>1. n \in Nat /\ input = [l \in 1 .. n |-> input[l]]
  BY DEF IOInv, InputInv
<1>2. input \in Seq(S)
  BY <1>1, SeqOfElements
<1> HIDE DEF S
<1>3. CASE m <= n
  <2>1. /\ rest \in Seq(S) /\ Len(rest) = n - m
        /\ \A l \in 1 .. n - m : rest[l] = input[l + m]
    BY <1>1, <1>2, <1>3
  <2>2. rest = [l \in 1 .. Len(rest) |-> rest[l]]
    BY <2>1
  <2>3. \A l \in 1 .. n - m : l + m \in 1 .. n
    BY <1>1
  <2>4. n - m \in Nat
    BY <1>1, <1>3
  <2> HIDE DEF n
  <2> QED
    BY <2>1, <2>2, <2>3, <2>4 DEF n
<1>4. CASE ~ m <= n
  <2>1. rest = <<>>
    BY <1>1, <1>2, <1>4
  <2> QED
    BY <1>4, <2>1
<1> QED
  BY <1>3, <1>4

\* The stream behind m lines, when the reader has consumed them.
LEMMA SkippedInv ==
    ASSUME IOInv, Reading, NEW m \in Nat, input' = SubSeq(input, m + 1, Len(input)),
           E' = E, Consumed' = Consumed + m
    PROVE  InputInv'
<1>1. /\ Len(input') \in Nat /\ input' = [l \in 1 .. Len(input') |-> input'[l]]
      /\ \A l \in 1 .. Len(input') :
            l + m \in 1 .. Len(input) /\ input'[l] = input[l + m]
  BY SkippedLines
<1>2. ASSUME NEW l \in 1 .. Len(input')
      PROVE  IsLineOf(input'[l], Text(E), Consumed' + l)
  <2>1. IsLineOf(input[l + m], Text(E), Consumed + (l + m))
    BY <1>1, <1>2 DEF IOInv, InputInv
  <2>2. Consumed + (l + m) = Consumed' + l
    <3>1. Consumed \in Nat /\ l \in Nat
      <4>1. i \in Nat
        BY StreamFacts, Zenon
      <4>2. l \in Nat
        <5>1. Len(input') \in Nat
          BY <1>1, Zenon
        <5> QED
          BY <5>1
      <4> QED
        BY <4>1, <4>2 DEF Consumed
    <3>2. Consumed' = Consumed + m
      OBVIOUS
    <3> HIDE DEF Consumed
    <3> QED
      BY <3>1, <3>2
  <2> QED
    BY <1>1, <1>2, <2>1, <2>2
<1> QED
  BY <1>1, <1>2 DEF InputInv

LEMMA StatusSet ==
    ASSUME NEW X \in Executions, NEW status \in ExecutionStatus, NEW Y, Y = SetStatus(X, status)
    PROVE  /\ Y \in Executions /\ Y.mExecution = X.mExecution /\ Y.mS0 = X.mS0
           /\ Y.mThreads = X.mThreads /\ Y.mStatus = status
<1>1. Y = [mExecution |-> X.mExecution, mS0 |-> X.mS0, mThreads |-> X.mThreads,
           mStatus |-> status, mContainsLocks |-> X.mContainsLocks]
  BY ExecutionFields DEF SetStatus
<1> QED
  BY <1>1, ExecutionFields DEF Executions

LEMMA S0Set ==
    ASSUME NEW X \in Executions, NEW s0 \in States \cup {CutState},
           NEW Y, Y = [X EXCEPT !.mS0 = s0]
    PROVE  /\ Y \in Executions /\ Y.mExecution = X.mExecution /\ Y.mS0 = s0
           /\ Y.mThreads = X.mThreads /\ Y.mStatus = X.mStatus
<1>1. Y = [mExecution |-> X.mExecution, mS0 |-> s0, mThreads |-> X.mThreads,
           mStatus |-> X.mStatus, mContainsLocks |-> X.mContainsLocks]
  BY ExecutionFields
<1> QED
  BY <1>1, ExecutionFields DEF Executions

\* An execution that begins another one and is as long has the same content, and
\* the same transitions if both start alike.
LEMMA SameContent ==
    ASSUME NEW X \in Executions, NEW Y \in Executions, Begins(X, Y),
           Len(X.mExecution) = Len(Y.mExecution)
    PROVE  Content(X) = Content(Y)
<1>1. DOMAIN X.mExecution = DOMAIN Y.mExecution
  BY ExecutionFields
<1> QED
  BY <1>1 DEF Content, Begins

LEMMA SameTransitions ==
    ASSUME NEW X \in Executions, NEW Y \in Executions, Begins(X, Y),
           Len(X.mExecution) = Len(Y.mExecution), X.mS0 = Y.mS0, Chained(X), Chained(Y)
    PROVE  X.mExecution = Y.mExecution
<1> DEFINE n == Len(X.mExecution)
<1>1. /\ n \in Nat
      /\ X.mExecution \in Seq(Transitions) /\ DOMAIN X.mExecution = 1 .. n
      /\ Y.mExecution \in Seq(Transitions) /\ DOMAIN Y.mExecution = 1 .. n
      /\ Len(Y.mExecution) = n
  BY ExecutionFields
<1> HIDE DEF n
<1>2. ASSUME NEW k \in 1 .. n
      PROVE  X.mExecution[k] = Y.mExecution[k]
  <2>1. X.mExecution[k] \in Transitions /\ Y.mExecution[k] \in Transitions
    BY <1>1
  <2>2. /\ X.mExecution[k].mInstr = Y.mExecution[k].mInstr
        /\ X.mExecution[k].mPost = Y.mExecution[k].mPost
    BY <1>1 DEF Begins
  <2>3. X.mExecution[k].mIndex = Y.mExecution[k].mIndex
    BY <1>1 DEF Chained
  <2>4. X.mExecution[k].mPre = Y.mExecution[k].mPre
    <3>1. CASE k = 1
      BY <1>1, <3>1 DEF Chained
    <3>2. CASE k # 1
      <4>1. k - 1 \in 1 .. n
        BY <1>1, <3>2
      <4>2. X.mExecution[k - 1].mPost = Y.mExecution[k - 1].mPost
        BY <1>1, <4>1 DEF Begins
      <4> QED
        BY <1>1, <3>2, <4>2 DEF Chained
    <3> QED
      BY <3>1, <3>2
  <2> QED
    BY <2>1, <2>2, <2>3, <2>4 DEF Transitions
<1> QED
  BY <1>1, <1>2

\* The status is read behind the last transition.
LEMMA ReadStatusInv == IOInv /\ ReadStatus => IOInv'
<1> SUFFICES ASSUME IOInv, ReadStatus PROVE IOInv'
  OBVIOUS
<1>1. /\ rpc = "loop" /\ SeparatorAhead /\ rpc' = "done"
      /\ E' = E /\ i' = i /\ whole' = whole
  BY DEF ReadStatus
<1>2. /\ StatusAhead(2) => R' = SetStatus(R, input[2].val) /\ good' = TRUE
      /\ ~ StatusAhead(2) =>
            (\E status \in ExecutionStatus : R' = SetStatus(R, status)) /\ good' = FALSE
  BY DEF ReadStatus
<1>3. Reading /\ i # 0 /\ Consumed = 2 * i + 1
  BY <1>1, SeparatorIsNotFirst DEF Reading, Consumed
<1>4. /\ E \in Executions /\ Initialized(E) /\ R \in Executions /\ i \in Nat
      /\ Begins(R, E) /\ Chained(R) /\ Chained(E)
      /\ Len(E.mExecution) \in Nat /\ Len(input) \in Nat /\ DOMAIN input = 1 .. Len(input)
  BY <1>3, StreamFacts
<1>5. i = Len(E.mExecution) /\ Len(R.mExecution) = Len(E.mExecution)
  <2>1. i = Len(E.mExecution)
    BY <1>1, <1>3, <1>4, SeparatorIsEnd
  <2> QED
    BY <1>3, <2>1, StreamFacts
<1>6. R.mS0 \in {E.mS0, CutState}
  BY <1>1, <1>3, <1>4 DEF IOInv, ReadingInv, S0Inv, Initialized
<1>7. 2 \in 1 .. Len(input) /\ input[2].kind # "cut" =>
          input[2].kind = "status" /\ input[2].val = E.mStatus
  <2>1. Text(E)[2 * i + 1 + 2] = StatusLine(E.mStatus)
    <3>1. i <= Len(E.mExecution)
      BY <1>4, <1>5
    <3> QED
      BY <1>4, <1>5, <3>1, TextAt
  <2> QED
    BY <1>3, <2>1, StreamFacts DEF StatusLine, Line
<1>8. StatusAhead(2) => input[2].val = E.mStatus
  BY <1>4, <1>7 DEF StatusAhead, Ahead
<1>9. PICK status \in ExecutionStatus :
          R' = SetStatus(R, status) /\ (StatusAhead(2) => status = E.mStatus)
  BY <1>2, <1>4, <1>8, ExecutionFields
<1>10. /\ R' \in Executions /\ R'.mExecution = R.mExecution /\ R'.mS0 = R.mS0
       /\ R'.mThreads = R.mThreads /\ R'.mStatus = status
  BY <1>4, <1>9, StatusSet
<1>11. good' \in BOOLEAN /\ (good' => StatusAhead(2))
  BY <1>2
<1>12. TypeOK'
  BY <1>1, <1>10, <1>11 DEF IOInv, TypeOK
<1>13. S0Inv'
  BY <1>1, <1>10 DEF IOInv, S0Inv, Initialized, Empty
<1>14. ExecutionsChained'
  BY <1>1, <1>10 DEF IOInv, ExecutionsChained, Chained
<1>15. DoneInv'
  BY <1>1, <1>4, <1>10 DEF DoneInv, Begins
<1>16. Content(R') = Content(E)
  BY <1>4, <1>5, <1>10, SameContent DEF Content
<1>17. GoodReadIsComplete'
  BY <1>1, <1>6, <1>9, <1>10, <1>11, <1>16 DEF GoodReadIsComplete, Content
<1>18. WholeRecordIsRead'
  <2> SUFFICES ASSUME whole
               PROVE  /\ good'
                      /\ R'.mExecution = E.mExecution /\ R'.mS0 = E.mS0
                      /\ R'.mStatus = E.mStatus
                      /\ R'.mThreads = {0} \cup CreatedBy(E)
    BY <1>1 DEF WholeRecordIsRead, CreatedBy
  <2>1. /\ Len(input) = Len(Text(E)) - Consumed
        /\ \A l \in 1 .. Len(input) : input[l].kind # "cut"
        /\ R.mS0 = E.mS0
        /\ R.mThreads = {0} \cup CreatedBy(R)
    BY <1>3, <1>4 DEF IOInv, WholeInv
  <2>2. Len(Text(E)) = 2 * i + 3
    BY <1>4, <1>5, TextAt
  <2>3. 2 \in 1 .. Len(input)
    BY <1>3, <1>4, <2>1, <2>2
  <2>4. StatusAhead(2)
    BY <1>4, <1>7, <2>1, <2>3 DEF StatusAhead, Ahead
  <2>5. R.mExecution = E.mExecution
    BY <1>4, <1>5, <2>1, SameTransitions
  <2>6. good'
    BY <1>2, <2>4
  <2> QED
    BY <1>9, <1>10, <2>1, <2>4, <2>5, <2>6 DEF CreatedBy
<1> QED
  BY <1>1, <1>12, <1>13, <1>14, <1>15, <1>17, <1>18
  DEF IOInv, InputInv, ReadingInv, WholeInv, Reading

(***************************************************************************)
(* The other steps of the reader                                           *)
(***************************************************************************)
\* A reading that fails keeps what was read, and may leave a part of s0.
LEMMA FailInv ==
    ASSUME IOInv, Reading, Fail, R' \in Executions, R'.mExecution = R.mExecution,
           R'.mS0 = R.mS0 \/ (R'.mS0 = CutState /\ Empty(R)),
           ~ (whole /\ ~ Empty(E) /\ LegibleRecord(E))
    PROVE  IOInv'
<1>1. /\ rpc' = "done" /\ good' = FALSE /\ E' = E /\ i' = i /\ whole' = whole
  BY DEF Fail
<1>2. /\ E \in Executions /\ R \in Executions /\ Begins(R, E) /\ Chained(R) /\ Chained(E)
  BY StreamFacts
<1>3. TypeOK'
  BY <1>1 DEF IOInv, TypeOK
<1>4. S0Inv'
  BY <1>1, IOAssumption DEF IOInv, S0Inv, Initialized, Empty
<1>5. Chained(R')
  <2>1. CASE R'.mS0 = R.mS0
    BY <1>2, <2>1 DEF Chained
  <2>2. CASE Empty(R)
    BY <2>2 DEF Chained, Empty
  <2> QED
    BY <2>1, <2>2
<1>6. ExecutionsChained'
  BY <1>1, <1>2, <1>5 DEF ExecutionsChained, Chained
<1>7. DoneInv'
  BY <1>1, <1>2 DEF DoneInv, Begins
<1>8. GoodReadIsComplete'
  BY <1>1 DEF GoodReadIsComplete
<1>9. WholeRecordIsRead'
  BY <1>1 DEF WholeRecordIsRead, Empty, LegibleRecord
<1> QED
  BY <1>1, <1>3, <1>4, <1>6, <1>7, <1>8, <1>9
  DEF IOInv, InputInv, ReadingInv, WholeInv, Reading

LEMMA ReadS0Inv == IOInv /\ ReadS0 => IOInv'
<1> SUFFICES ASSUME IOInv, ReadS0 PROVE IOInv'
  OBVIOUS
<1>1. rpc = "loop" /\ i = 0 /\ ~ Initialized(R) /\ Reading /\ Consumed = 0
  BY DEF ReadS0, Reading, Consumed
<1>2. /\ E \in Executions /\ Initialized(E) /\ R \in Executions
      /\ Begins(R, E) /\ Chained(R) /\ Chained(E)
      /\ Len(E.mExecution) \in Nat /\ Len(input) \in Nat /\ DOMAIN input = 1 .. Len(input)
  BY <1>1, StreamFacts
<1>3. E.mS0 \in States /\ Empty(R)
  BY <1>1 DEF IOInv, S0Inv
<1>4. Text(E)[1] = StateLine(E.mS0)
  BY <1>2, TextAt
<1>5. StateAhead(1) => Len(input) > 0 /\ Head(input).val = E.mS0
  <2> SUFFICES ASSUME StateAhead(1) PROVE Len(input) > 0 /\ Head(input).val = E.mS0
    OBVIOUS
  <2>1. 1 \in 1 .. Len(input) /\ input[1].kind = "state"
    BY <1>2 DEF StateAhead, Ahead
  <2>2. input[1] = StateLine(E.mS0)
    BY <1>1, <1>4, <2>1, StreamFacts
  <2> QED
    BY <1>2, <2>1, <2>2 DEF StateLine, Line
<1>6. CASE StateAhead(1)
  <2>1. /\ R' = [R EXCEPT !.mS0 = E.mS0] /\ input' = Tail(input)
        /\ rpc' = "transition" /\ E' = E /\ good' = good /\ i' = i /\ whole' = whole
    BY <1>5, <1>6 DEF ReadS0
  <2>2. /\ R' \in Executions /\ R'.mExecution = R.mExecution /\ R'.mS0 = E.mS0
        /\ R'.mThreads = R.mThreads
    BY <1>2, <1>3, <2>1, S0Set
  <2>3. TypeOK'
    BY <2>1, <2>2 DEF IOInv, TypeOK
  <2>4. S0Inv' /\ Initialized(R')
    BY <1>3, <2>1, <2>2, NoStateAssumption DEF S0Inv, Initialized
  <2>5. ExecutionsChained'
    BY <1>2, <1>3, <2>1, <2>2 DEF ExecutionsChained, Chained, Empty
  <2>6. Begins(R', E')
    BY <1>2, <2>1, <2>2 DEF Begins
  <2>7. Consumed' = Consumed + 1
    BY <1>1, <2>1 DEF Consumed
  <2>8. input' = SubSeq(input, 1 + 1, Len(input))
    <3>1. input \in Seq({input[l] : l \in 1 .. Len(input)})
      BY <1>1, <1>2, SeqOfElements DEF IOInv, InputInv
    <3>2. Len(input) > 0
      BY <1>5, <1>6
    <3> QED
      BY <1>2, <2>1, <3>1, <3>2
  <2>9. InputInv'
    BY <1>1, <2>1, <2>7, <2>8, SkippedInv
  <2>10. WholeInv'
    <3> SUFFICES ASSUME whole
                 PROVE  /\ Len(input') = Len(Text(E)) - Consumed'
                        /\ \A l \in 1 .. Len(input') : input'[l].kind # "cut"
                        /\ i = Len(R.mExecution)
                        /\ R.mThreads = {0} \cup CreatedBy(R)
      BY <1>1, <2>1, <2>2, <2>7 DEF WholeInv, CreatedBy
    <3>1. /\ Len(input) = Len(Text(E)) - Consumed
          /\ \A l \in 1 .. Len(input) : input[l].kind # "cut"
          /\ i = Len(R.mExecution)
          /\ R.mThreads = {0} \cup CreatedBy(R)
      BY <1>1 DEF IOInv, WholeInv
    <3>2. /\ Len(input') = Len(input) - 1
          /\ \A l \in 1 .. Len(input') : l + 1 \in 1 .. Len(input) /\ input'[l] = input[l + 1]
      BY <1>1, <1>2, <1>5, <1>6, <2>8, SkippedLines
    <3>3. Len(Text(E)) \in Nat
      BY <1>2, TextAt
    <3> QED
      BY <1>1, <2>7, <3>1, <3>2, <3>3
  <2> QED
    BY <1>1, <2>1, <2>3, <2>4, <2>5, <2>6, <2>9, <2>10
    DEF IOInv, ReadingInv, DoneInv, GoodReadIsComplete, WholeRecordIsRead
<1>7. CASE ~ StateAhead(1)
  <2>1. /\ Fail
        /\ R' = R \/ R' = [R EXCEPT !.mS0 = CutState]
    BY <1>7 DEF ReadS0
  <2>2. /\ R' \in Executions /\ R'.mExecution = R.mExecution
        /\ R'.mS0 = R.mS0 \/ (R'.mS0 = CutState /\ Empty(R))
    <3>1. CASE R' = R
      BY <1>2, <3>1
    <3>2. CASE R' = [R EXCEPT !.mS0 = CutState]
      BY <1>2, <1>3, <3>2, S0Set
    <3> QED
      BY <2>1, <3>1, <3>2
  <2>3. ASSUME whole, LegibleRecord(E) PROVE FALSE
    <3>1. /\ Len(input) = Len(Text(E)) - Consumed
          /\ \A l \in 1 .. Len(input) : input[l].kind # "cut"
      BY <1>1, <2>3 DEF IOInv, WholeInv
    <3>2. Len(Text(E)) = 2 * Len(E.mExecution) + 3
      BY <1>2, TextAt
    <3>3. 1 \in 1 .. Len(input)
      BY <1>1, <1>2, <3>1, <3>2
    <3>4. input[1] = StateLine(E.mS0)
      BY <1>1, <1>4, <3>1, <3>3, StreamFacts
    <3> QED
      BY <1>2, <1>7, <2>3, <3>3, <3>4 DEF StateAhead, Ahead, LegibleRecord, StateLine, Line
  <2> QED
    BY <1>1, <2>1, <2>2, <2>3, FailInv
<1> QED
  BY <1>6, <1>7

\* s0 is skipped only if there is one, so not by a new Execution.
LEMMA SkipS0Inv == IOInv /\ SkipS0 => IOInv'
<1> SUFFICES ASSUME IOInv, SkipS0 PROVE IOInv'
  OBVIOUS
<1>1. rpc = "loop" /\ i = 0 /\ Initialized(R) /\ Reading /\ Consumed = 0
  BY DEF SkipS0, Reading, Consumed
<1>2. /\ E \in Executions /\ R \in Executions
      /\ Begins(R, E) /\ Chained(R) /\ Chained(E)
  BY <1>1, StreamFacts
<1>3. ~ whole
  BY <1>1 DEF IOInv, WholeInv, Initialized
<1>4. CASE /\ input' = Skipped(1) /\ rpc' = "transition"
           /\ E' = E /\ R' = R /\ good' = good /\ i' = i /\ whole' = whole
  <2>1. Consumed' = Consumed + 1
    BY <1>1, <1>4 DEF Consumed
  <2>2. InputInv'
    BY <1>1, <1>4, <2>1, SkippedInv DEF Skipped
  <2>3. TypeOK' /\ S0Inv' /\ ExecutionsChained'
    BY <1>4 DEF IOInv, TypeOK, S0Inv, ExecutionsChained, Chained, Initialized, Empty
  <2>4. ReadingInv'
    BY <1>1, <1>2, <1>4 DEF ReadingInv, Begins, Initialized
  <2> QED
    BY <1>3, <1>4, <2>2, <2>3, <2>4
    DEF IOInv, WholeInv, DoneInv, GoodReadIsComplete, WholeRecordIsRead
<1>5. CASE R' = R /\ Fail
  BY <1>1, <1>2, <1>3, <1>5, FailInv
<1> QED
  BY <1>4, <1>5 DEF SkipS0

\* Where a transition is read or skipped, and what is ahead there.
LEMMA TransitionPlace ==
    ASSUME IOInv, AtTransition
    PROVE  /\ Reading /\ Initialized(R) /\ Consumed = 2 * i + 1
           /\ i = Len(E.mExecution) /\ Len(input) > 0 /\ input[1].kind # "cut" => i = 0
<1>1. Reading /\ Initialized(R) /\ Consumed = 2 * i + 1
  BY DEF AtTransition, Reading, Consumed, IOInv, TypeOK, ReadingInv
<1>2. ASSUME i = Len(E.mExecution), Len(input) > 0, input[1].kind # "cut", i # 0 PROVE FALSE
  <2>1. /\ E \in Executions /\ Initialized(E) /\ i \in Nat /\ i <= Len(E.mExecution)
        /\ Len(input) \in Nat /\ DOMAIN input = 1 .. Len(input)
    BY <1>1, <1>2, StreamFacts
  <2>2. Text(E)[2 * i + 1 + 1] = SeparatorLine
    BY <1>2, <2>1, TextAt
  <2>3. 1 \in 1 .. Len(input)
    BY <1>2, <2>1
  <2>4. input[1] = SeparatorLine
    BY <1>1, <1>2, <2>2, <2>3, StreamFacts
  <2>5. SeparatorAhead
    <3>1. SeparatorLine.kind = "separator"
      BY DEF SeparatorLine, Line
    <3>2. 1 \in DOMAIN input /\ input[1].kind = "separator"
      BY <2>1, <2>3, <2>4, <3>1
    <3> QED
      BY <3>2 DEF SeparatorAhead, Ahead
  <2> QED
    BY <1>2, <2>5 DEF AtTransition, IOInv, ReadingInv
<1> QED
  BY <1>1, <1>2

\* A transition that can be read is the next one of the execution that is written.
LEMMA TransitionAhead ==
    ASSUME IOInv, AtTransition, InstructionAhead(1), StateAhead(2)
    PROVE  /\ 2 <= Len(input) /\ i < Len(E.mExecution)
           /\ Head(input).val = E.mExecution[i + 1].mInstr
           /\ input[2].val = E.mExecution[i + 1].mPost
<1>1. Reading /\ Consumed = 2 * i + 1
  BY TransitionPlace
<1>2. /\ E \in Executions /\ Initialized(E) /\ i \in Nat /\ i <= Len(E.mExecution)
      /\ Len(E.mExecution) \in Nat
      /\ Len(input) \in Nat /\ DOMAIN input = 1 .. Len(input)
  BY <1>1, StreamFacts
<1>3. /\ 1 \in 1 .. Len(input) /\ input[1].kind = "instr"
      /\ 2 \in 1 .. Len(input) /\ input[2].kind = "state"
  BY <1>2 DEF InstructionAhead, StateAhead, Ahead
<1>4. /\ input[1] = Text(E)[2 * i + 1 + 1]
      /\ input[2] = Text(E)[2 * i + 1 + 2]
  BY <1>1, <1>3, StreamFacts
<1>5. i < Len(E.mExecution)
  <2> SUFFICES ASSUME i = Len(E.mExecution) PROVE FALSE
    BY <1>2
  <2>1. Text(E)[2 * i + 1 + 1] = SeparatorLine
    BY <1>2, TextAt
  <2> QED
    <3>1. SeparatorLine.kind = "separator"
      BY DEF SeparatorLine, Line
    <3>2. input[1].kind = "separator"
      BY <1>4, <2>1, <3>1
    <3> QED
      BY <1>3, <3>2
<1>6. /\ Text(E)[2 * i + 1 + 1] = InstructionLine(E.mExecution[i + 1].mInstr)
      /\ Text(E)[2 * i + 1 + 2] = StateLine(E.mExecution[i + 1].mPost)
  BY <1>2, <1>5, TextAt
<1>7. Head(input) = input[1]
  OBVIOUS
<1> QED
  BY <1>2, <1>3, <1>4, <1>5, <1>6, <1>7 DEF InstructionLine, StateLine, Line

\* In a whole text that is legible there is a transition to read.
LEMMA LegibleAhead ==
    ASSUME IOInv, AtTransition, whole, ~ Empty(E), LegibleRecord(E)
    PROVE  InstructionAhead(1) /\ StateAhead(2)
<1>1. Reading /\ Consumed = 2 * i + 1
  BY TransitionPlace
<1>2. /\ E \in Executions /\ Initialized(E) /\ i \in Nat /\ i <= Len(E.mExecution)
      /\ Len(E.mExecution) \in Nat /\ DOMAIN E.mExecution = 1 .. Len(E.mExecution)
      /\ Len(input) \in Nat /\ DOMAIN input = 1 .. Len(input)
  BY <1>1, StreamFacts, ExecutionFields
<1>3. /\ Len(input) = Len(Text(E)) - Consumed
      /\ \A l \in 1 .. Len(input) : input[l].kind # "cut"
  BY <1>1 DEF IOInv, WholeInv
<1>4. Len(Text(E)) = 2 * Len(E.mExecution) + 3
  BY <1>2, TextAt
<1>5. 1 \in 1 .. Len(input) /\ 2 \in 1 .. Len(input)
  BY <1>1, <1>2, <1>3, <1>4
<1>6. i < Len(E.mExecution)
  <2>1. Len(E.mExecution) # 0
    BY ExecutionFields, <1>2 DEF Empty
  <2> QED
    BY <1>2, <1>3, <1>5, <2>1, TransitionPlace
<1>7. /\ Text(E)[2 * i + 1 + 1] = InstructionLine(E.mExecution[i + 1].mInstr)
      /\ Text(E)[2 * i + 1 + 2] = StateLine(E.mExecution[i + 1].mPost)
  BY <1>2, <1>6, TextAt
<1>8. /\ input[1] = InstructionLine(E.mExecution[i + 1].mInstr)
      /\ input[2] = StateLine(E.mExecution[i + 1].mPost)
  BY <1>1, <1>3, <1>5, <1>7, StreamFacts
<1>9. i + 1 \in DOMAIN E.mExecution
  BY <1>2, <1>6
<1> QED
  BY <1>2, <1>5, <1>8, <1>9
  DEF InstructionAhead, StateAhead, Ahead, LegibleRecord, InstructionLine, StateLine, Line

\* The threads that a transition adds.
LEMMA CreatedPushed ==
    ASSUME NEW X \in Executions, NEW Y \in Executions, NEW n \in Nat, n = Len(X.mExecution),
           Len(Y.mExecution) = n + 1,
           \A k \in 1 .. n : Y.mExecution[k] = X.mExecution[k],
           NEW instr, Y.mExecution[n + 1].mInstr = instr
    PROVE  CreatedBy(Y) = CreatedBy(X) \cup (IF instr.op = "Spawn" THEN {instr.operand} ELSE {})
<1>1. DOMAIN X.mExecution = 1 .. n /\ DOMAIN Y.mExecution = 1 .. n + 1
  BY ExecutionFields
<1>2. CreatedBy(X) = {X.mExecution[k].mInstr.operand :
                          k \in {j \in 1 .. n : X.mExecution[j].mInstr.op = "Spawn"}}
  BY <1>1 DEF CreatedBy, ToSet
<1>3. CreatedBy(Y) = {Y.mExecution[k].mInstr.operand :
                          k \in {j \in 1 .. n + 1 : Y.mExecution[j].mInstr.op = "Spawn"}}
  BY <1>1 DEF CreatedBy, ToSet
<1>4. 1 .. n + 1 = (1 .. n) \cup {n + 1}
  OBVIOUS
<1> DEFINE Spawned(Z, k, u) == /\ Z.mExecution[k].mInstr.op = "Spawn"
                              /\ u = Z.mExecution[k].mInstr.operand
<1>5. \A u : u \in CreatedBy(X) <=> \E k \in 1 .. n : Spawned(X, k, u)
  BY <1>2, Zenon
<1>6. \A u : u \in CreatedBy(Y) <=> \E k \in 1 .. n + 1 : Spawned(Y, k, u)
  BY <1>3, Zenon
<1>7. \A k \in 1 .. n : \A u : Spawned(X, k, u) <=> Spawned(Y, k, u)
  BY Zenon
<1>8. \A u : Spawned(Y, n + 1, u) <=> instr.op = "Spawn" /\ u = instr.operand
  BY Zenon
<1> DEFINE A == CreatedBy(X)
           B == CreatedBy(Y)
           C == IF instr.op = "Spawn" THEN {instr.operand} ELSE {}
<1>9. \A u : u \in C <=> instr.op = "Spawn" /\ u = instr.operand
  OBVIOUS
<1> HIDE DEF Spawned, A, B, C
<1>10. ASSUME NEW u \in B PROVE u \in A \cup C
  <2>1. PICK k \in 1 .. n + 1 : Spawned(Y, k, u)
    BY <1>10, <1>6, Zenon DEF B
  <2>2. CASE k \in 1 .. n
    <3>1. u \in A
      BY <2>1, <2>2, <1>5, <1>7, Zenon DEF A
    <3> QED
      BY <3>1, Zenon
  <2>3. CASE k = n + 1
    <3>1. u \in C
      BY <2>1, <2>3, <1>8, <1>9, Zenon
    <3> QED
      BY <3>1, Zenon
  <2> QED
    BY <1>4, <2>2, <2>3, Zenon
<1>11. ASSUME NEW u \in A PROVE u \in B
  <2>1. PICK k \in 1 .. n : Spawned(X, k, u)
    BY <1>11, <1>5, Zenon DEF A
  <2>2. k \in 1 .. n + 1 /\ Spawned(Y, k, u)
    BY <1>4, <2>1, <1>7, Zenon
  <2> QED
    BY <2>2, <1>6, Zenon DEF B
<1>12. ASSUME NEW u \in C PROVE u \in B
  <2>1. n + 1 \in 1 .. n + 1 /\ Spawned(Y, n + 1, u)
    BY <1>4, <1>8, <1>9, <1>12, Zenon
  <2> QED
    BY <2>1, <1>6, Zenon DEF B
<1>13. B = A \cup C
  BY <1>10, <1>11, <1>12, Zenon
<1> QED
  BY <1>13 DEF A, B, C

LEMMA ReadTransitionInv == IOInv /\ ReadTransition => IOInv'
<1> SUFFICES ASSUME IOInv, ReadTransition PROVE IOInv'
  OBVIOUS
<1>1. AtTransition /\ i = Len(R.mExecution)
  BY DEF ReadTransition
<1>2. Reading /\ Initialized(R) /\ Consumed = 2 * i + 1
  BY <1>1, TransitionPlace
<1>3. /\ E \in Executions /\ Initialized(E) /\ R \in Executions /\ i \in Nat
      /\ Begins(R, E) /\ Chained(R) /\ Chained(E)
      /\ Len(E.mExecution) \in Nat /\ Len(R.mExecution) \in Nat
      /\ Len(E.mExecution) <= MaxTransitions /\ Len(input) \in Nat
  BY <1>2, StreamFacts
<1>4. CASE ~ (InstructionAhead(1) /\ StateAhead(2))
  <2>1. R' = R /\ Fail
    BY <1>4 DEF ReadTransition
  <2> QED
    BY <1>1, <1>2, <1>3, <1>4, <2>1, LegibleAhead, FailInv
<1>5. CASE InstructionAhead(1) /\ StateAhead(2)
  <2> DEFINE instr == E.mExecution[i + 1].mInstr
             post == E.mExecution[i + 1].mPost
  <2>1. 2 <= Len(input) /\ i < Len(E.mExecution) /\ Len(R.mExecution) < MaxTransitions
    <3>1. 2 <= Len(input) /\ i < Len(E.mExecution)
      BY <1>1, <1>5, TransitionAhead
    <3>2. MaxTransitions \in Nat
      BY IOAssumption
    <3> QED
      BY <1>1, <1>3, <3>1, <3>2
  <2>2. instr \in Instructions /\ post \in States
    <3>1. E.mExecution[i + 1] \in Transitions
      BY <1>3, <2>1, ExecutionFields
    <3> QED
      BY <3>1 DEF Transitions
  <2>3. /\ R' = PushBack(R, instr, post) /\ input' = Skipped(2)
        /\ i' = i + 1 /\ rpc' = "loop" /\ E' = E /\ good' = good /\ whole' = whole
    BY <1>1, <1>5, TransitionAhead DEF ReadTransition
  <2>4. /\ R' \in Executions /\ Len(R'.mExecution) = i + 1
        /\ \A k \in 1 .. i : R'.mExecution[k] = R.mExecution[k]
        /\ R'.mExecution[i + 1] = Transition(i + 1, FinalPtr(R), instr, post)
        /\ R'.mS0 = R.mS0
        /\ R'.mThreads = R.mThreads \cup (IF instr.op = "Spawn" THEN {instr.operand} ELSE {})
    <3> DEFINE Y == PushBack(R, instr, post)
               n == Len(R.mExecution)
    <3>1. /\ Y \in Executions /\ Len(Y.mExecution) = n + 1
          /\ \A k \in 1 .. n : Y.mExecution[k] = R.mExecution[k]
          /\ Y.mExecution[n + 1] = Transition(n + 1, FinalPtr(R), instr, post)
          /\ Y.mS0 = R.mS0
          /\ Y.mThreads = R.mThreads \cup (IF instr.op = "Spawn" THEN {instr.operand} ELSE {})
      <4>1. instr \in Instructions /\ post \in States
        BY <2>2
      <4> HIDE DEF instr, post
      <4> QED
        BY <1>2, <1>3, <2>1, <4>1, Pushed
    <3> HIDE DEF Y, n, instr, post
    <3>2. Y = R' /\ n = i
      BY <1>1, <2>3 DEF Y, n
    <3> QED
      BY <3>1, <3>2
  <2>5. Chained(R')
    BY <1>2, <1>3, <2>1, <2>2, <2>3, PushedChained
  <2> HIDE DEF instr, post
  <2>6. TypeOK'
    <3>1. MaxTransitions \in Nat
      BY IOAssumption
    <3> QED
      BY <1>3, <2>1, <2>3, <2>4, <3>1 DEF IOInv, TypeOK
  <2>7. S0Inv' /\ Initialized(R')
    BY <1>2, <2>3, <2>4 DEF IOInv, S0Inv, Initialized
  <2>8. ExecutionsChained'
    BY <1>3, <2>3, <2>5 DEF ExecutionsChained, Chained
  <2>9. Begins(R', E')
    <3>1. DOMAIN R'.mExecution = 1 .. i + 1 /\ DOMAIN R.mExecution = 1 .. i
      BY <1>1, <1>3, <2>4, ExecutionFields
    <3>2. ASSUME NEW k \in 1 .. i + 1
          PROVE  /\ R'.mExecution[k].mInstr = E.mExecution[k].mInstr
                 /\ R'.mExecution[k].mPost = E.mExecution[k].mPost
      <4>1. CASE k \in 1 .. i
        BY <1>3, <2>4, <3>1, <4>1 DEF Begins
      <4>2. CASE k = i + 1
        BY <2>4, <4>2 DEF Transition, instr, post
      <4> QED
        BY <1>3, <4>1, <4>2
    <3> QED
      BY <1>3, <2>1, <2>3, <2>4, <3>1, <3>2 DEF Begins
  <2>10. Consumed' = Consumed + 2
    BY <1>2, <1>3, <2>3 DEF Consumed
  <2>11. InputInv'
    BY <1>2, <2>3, <2>10, SkippedInv DEF Skipped
  <2>12. WholeInv'
    <3> SUFFICES ASSUME whole
                 PROVE  /\ Len(input') = Len(Text(E)) - Consumed'
                        /\ \A l \in 1 .. Len(input') : input'[l].kind # "cut"
                        /\ R.mS0 = E.mS0
                        /\ R'.mThreads = {0} \cup CreatedBy(R')
      <4>1. Consumed' # 0
        BY <1>2, <1>3, <2>10
      <4>2. R'.mS0 = R.mS0 /\ i' = Len(R'.mExecution) /\ whole' = whole /\ E' = E
        BY <2>3, <2>4
      <4> HIDE DEF Consumed
      <4> QED
        BY <4>1, <4>2 DEF WholeInv, CreatedBy
    <3>1. /\ Len(input) = Len(Text(E)) - Consumed
          /\ \A l \in 1 .. Len(input) : input[l].kind # "cut"
          /\ R.mS0 = E.mS0
          /\ R.mThreads = {0} \cup CreatedBy(R)
      BY <1>2, <1>3 DEF IOInv, WholeInv
    <3>2. /\ Len(input') = Len(input) - 2
          /\ \A l \in 1 .. Len(input') : l + 2 \in 1 .. Len(input) /\ input'[l] = input[l + 2]
      BY <1>2, <2>1, <2>3, SkippedLines DEF Skipped
    <3>3. Len(Text(E)) \in Nat
      BY <1>3, TextAt
    <3>4. R'.mExecution[i + 1].mInstr = instr
      BY <2>4 DEF Transition
    <3>5. CreatedBy(R') =
              CreatedBy(R) \cup (IF instr.op = "Spawn" THEN {instr.operand} ELSE {})
      <4> DEFINE Y == R'
      <4>1. /\ Y \in Executions /\ Len(Y.mExecution) = i + 1
            /\ \A k \in 1 .. i : Y.mExecution[k] = R.mExecution[k]
            /\ Y.mExecution[i + 1].mInstr = instr
        BY <2>4, <3>4
      <4> HIDE DEF Y
      <4>2. CreatedBy(Y) =
                CreatedBy(R) \cup (IF instr.op = "Spawn" THEN {instr.operand} ELSE {})
        BY <1>1, <1>3, <4>1, CreatedPushed
      <4> QED
        BY <4>2 DEF Y, CreatedBy
    <3>6. Len(input') = Len(Text(E)) - Consumed'
      BY <1>2, <1>3, <2>10, <3>1, <3>2, <3>3
    <3> QED
      BY <2>4, <3>1, <3>2, <3>5, <3>6
  <2> QED
    BY <1>3, <2>3, <2>6, <2>7, <2>8, <2>9, <2>11, <2>12
    DEF IOInv, ReadingInv, DoneInv, GoodReadIsComplete, WholeRecordIsRead
<1> QED
  BY <1>4, <1>5

\* A transition is skipped only by an Execution that has it.
LEMMA SkipTransitionInv == IOInv /\ SkipTransition => IOInv'
<1> SUFFICES ASSUME IOInv, SkipTransition PROVE IOInv'
  OBVIOUS
<1>1. AtTransition /\ i # Len(R.mExecution)
  BY DEF SkipTransition
<1>2. Reading /\ Initialized(R) /\ Consumed = 2 * i + 1
  BY <1>1, TransitionPlace
<1>3. /\ R \in Executions /\ i \in Nat /\ i < Len(R.mExecution)
      /\ Begins(R, E) /\ Len(R.mExecution) \in Nat
  BY <1>1, <1>2, StreamFacts
<1>4. ~ whole
  BY <1>1, <1>2 DEF IOInv, WholeInv
<1>5. CASE /\ input' = Skipped(2) /\ i' = i + 1 /\ rpc' = "loop"
           /\ E' = E /\ R' = R /\ good' = good /\ whole' = whole
  <2>1. Consumed' = Consumed + 2
    BY <1>2, <1>3, <1>5 DEF Consumed
  <2>2. InputInv'
    BY <1>2, <1>5, <2>1, SkippedInv DEF Skipped
  <2>3. TypeOK'
    BY <1>3, <1>5 DEF IOInv, TypeOK
  <2>4. S0Inv' /\ ExecutionsChained'
    BY <1>5 DEF IOInv, S0Inv, ExecutionsChained, Chained, Initialized, Empty
  <2>5. ReadingInv'
    BY <1>2, <1>3, <1>5 DEF ReadingInv, Begins, Initialized
  <2> QED
    BY <1>4, <1>5, <2>2, <2>3, <2>4, <2>5
    DEF IOInv, WholeInv, DoneInv, GoodReadIsComplete, WholeRecordIsRead
<1>6. CASE R' = R /\ Fail
  BY <1>2, <1>3, <1>4, <1>6, FailInv
<1> QED
  BY <1>5, <1>6 DEF SkipTransition

(***************************************************************************)
(* The theorems                                                            *)
(***************************************************************************)
\* The inductive invariant: the reader is where it takes itself to be in the text
\* of the execution, whatever the text was cut to and whatever was read before.
THEOREM ReaderInvariance == Spec => []IOInv
<1>1. Init => IOInv
  BY InitInv
<1>2. IOInv /\ [Next]_vars => IOInv'
  <2> SUFFICES ASSUME IOInv, [Next]_vars PROVE IOInv'
    OBVIOUS
  <2>1. CASE Push
    BY <2>1, PushInv
  <2>2. CASE Pop
    BY <2>2, PopInv
  <2>3. CASE Close
    BY <2>3, CloseInv
  <2>4. CASE StartRead
    BY <2>4, StartReadInv
  <2>5. CASE ReadStatus
    BY <2>5, ReadStatusInv
  <2>6. CASE ReadS0
    BY <2>6, ReadS0Inv
  <2>7. CASE SkipS0
    BY <2>7, SkipS0Inv
  <2>8. CASE ReadTransition
    BY <2>8, ReadTransitionInv
  <2>9. CASE SkipTransition
    BY <2>9, SkipTransitionInv
  <2>10. CASE UNCHANGED vars
    BY <2>10
    DEF vars, IOInv, TypeOK, S0Inv, InputInv, ReadingInv, WholeInv, DoneInv,
        ExecutionsChained, GoodReadIsComplete, WholeRecordIsRead, Reading, Consumed,
        Begins, Chained, Initialized, Empty
  <2> QED
    BY <2>1, <2>2, <2>3, <2>4, <2>5, <2>6, <2>7, <2>8, <2>9, <2>10 DEF Next, ReaderStep
<1> QED
  BY <1>1, <1>2, PTL DEF Spec

\* Each transition starts where the one before it ended and has its place as its
\* index, in the execution that is recorded and in the one that is read, after any
\* push_back, pop_last, close and operator>>.
THEOREM TransitionsAreChained == Spec => []ExecutionsChained
<1>1. IOInv => ExecutionsChained
  BY DEF IOInv
<1> QED
  BY <1>1, ReaderInvariance, PTL

\* operator>> leaves a good stream only if it has read the execution that was
\* written to its end.
THEOREM IncompleteIsNoticed == Spec => []GoodReadIsComplete
<1>1. IOInv => GoodReadIsComplete
  BY DEF IOInv
<1> QED
  BY <1>1, ReaderInvariance, PTL

\* A whole record whose file names are single words is read completely.
THEOREM WholeIsRead == Spec => []WholeRecordIsRead
<1>1. IOInv => WholeRecordIsRead
  BY DEF IOInv
<1> QED
  BY <1>1, ReaderInvariance, PTL

\* What was read is a prefix of what was written, however the text was cut.
THEOREM PrefixIsRead == Spec => []ReadIsPrefix
<1>1. IOInv => ReadIsPrefix
  <2> SUFFICES ASSUME IOInv, rpc # "idle" PROVE IsPrefix(Content(R), Content(E))
    BY DEF ReadIsPrefix
  <2>1. E \in Executions /\ R \in Executions
    BY DEF IOInv, TypeOK
  <2>2. Begins(R, E)
    BY DEF IOInv, ReadingInv, DoneInv, Reading
  <2> QED
    BY <2>1, <2>2, ContentPrefix
<1> QED
  BY <1>1, ReaderInvariance, PTL

\* The lines of each transition of a record are read back word by word as they were
\* written if its file names are single words, and nothing of what is behind them;
\* nothing is read of them otherwise, or if some words at their end are not there or
\* the last one is cut.
THEOREM LinesAreReadBack == Spec => []LinesAreRead
<1>1. IOInv => LinesAreRead
  <2> SUFFICES ASSUME IOInv, NEW k \in DOMAIN E.mExecution,
                      NEW instr, instr = E.mExecution[k].mInstr,
                      NEW post, post = E.mExecution[k].mPost,
                      NEW words, words = TransitionWords(k, instr, post),
                      NEW behind, behind = TransitionWords(k + 1, instr, post)
               PROVE  /\ ReadLines(words \o behind) =
                             IF Legible(instr) /\ LegibleState(post)
                             THEN {[val |-> <<instr, post>>, rest |-> behind]} ELSE {}
                      /\ \A n \in DOMAIN words :
                            /\ ReadLines(SubSeq(words, 1, n - 1)) = {}
                            /\ n < Len(words) =>
                                  ReadLines(Append(SubSeq(words, 1, n - 1), CutWord(words[n]))) = {}
    BY DEF LinesAreRead
  <2>1. k \in Nat /\ k + 1 \in Nat /\ instr \in Instructions /\ post \in States
    <3>1. E.mExecution \in Seq(Transitions)
      BY DEF IOInv, TypeOK, Executions
    <3>2. k \in Nat /\ E.mExecution[k] \in Transitions
      BY <3>1
    <3> QED
      BY <3>2 DEF Transitions
  <2>2. /\ IsInstruction(instr) /\ Unmistakable(instr)
        /\ IsState(post) /\ UnmistakableState(post)
    BY <2>1, IOAssumption, NamesAssumption
  <2>3. PICK U : behind \in Seq(U)
    BY <2>1, <2>2, TransitionSeq
  <2>4. ReadsBack(words, behind, instr, post)
    BY <2>1, <2>2, <2>3, WholeLinesRead
  <2>5. ASSUME NEW n \in DOMAIN words
        PROVE  /\ ReadLines(SubSeq(words, 1, n - 1)) = {}
               /\ n < Len(words) =>
                     ReadLines(Append(SubSeq(words, 1, n - 1), CutWord(words[n]))) = {}
    BY <2>1, <2>2, <2>5, CutLinesRead
  <2> QED
    BY <2>4, <2>5 DEF ReadsBack
<1> QED
  BY <1>1, ReaderInvariance, PTL
=============================================================================
