---------------------------- MODULE ExecutionIO ----------------------------
(***************************************************************************)
(* An Execution that grows, the text operator<< writes of it, and          *)
(* operator>>, which reads such a text into an Execution: into a new one,  *)
(* or into one read earlier, which then catches up with the text           *)
(* (program-model/execution_io.cpp, transition_io.cpp, state_io.cpp).      *)
(*                                                                         *)
(* The text is a sequence of lines.  What is read may be any beginning of  *)
(* it, the last line cut: the scheduler writes the record while it can be  *)
(* killed by a timeout, and the reader does not wait for it.  The words of *)
(* a line and how they are read are in TextFormats; LinesAreRead relates   *)
(* the two.                                                                *)
(***************************************************************************)
EXTENDS Execution, TextFormats

CONSTANTS
    Instructions,   \* the instructions of the execution
    Statuses,       \* the statuses it is given
    CutState,       \* a State of which only the beginning was read
    MaxTransitions  \* bound on the length of the execution

ASSUME IOAssumption ==
    /\ \A instr \in Instructions : IsInstruction(instr)
    /\ \A state \in States : IsState(state)
    /\ Statuses \subseteq ExecutionStatus
    /\ CutState \notin States \cup {NoState}
    /\ MaxTransitions \in Nat

\* The file names are not checked by anyone.  One that goes on like the record does
\* behind it, "my 2 State [" for instance, may be read as something else.
ASSUME NamesAssumption ==
    /\ \A instr \in Instructions : Unmistakable(instr)
    /\ \A state \in States : UnmistakableState(state)

VARIABLES
    E,       \* the execution that is written
    R,       \* the execution that is read
    input,   \* what is left of the stream
    good,    \* the state of the stream: no failbit
    i,       \* the counter of operator>>
    rpc,     \* where operator>> is, "idle" before and "done" after
    whole    \* history: a whole text is read into a new Execution

vars == <<E, R, input, good, i, rpc, whole>>

\* The lines of the text.  Each of them starts differently, with its tag, an index
\* or a separator, and ends with what it is about.
Line(kind, val) == [kind |-> kind, val |-> val]

\* State: the tag, the enabled threads, the next instructions.
StateLine(state) == Line("state", state)

\* The kind of the instruction, is_atomic for a memory_instruction, then its members.
InstructionLine(instr) == Line("instr", instr)

StatusLine(status) == Line("status", status)
SeparatorLine == Line("separator", "")

\* The two lines of a transition: its index and instruction, then its post.
PostLines(trans) == <<InstructionLine(trans.mInstr), StateLine(trans.mPost)>>

\* The lines of all of them.
LinesOf(X) ==
    [n \in 1 .. 2 * Len(X.mExecution) |->
        PostLines(X.mExecution[(n + 1) \div 2])[2 - (n % 2)]]

\* operator<<(Execution)
Text(X) ==
    IF Initialized(X)
    THEN <<StateLine(X.mS0)>> \o LinesOf(X) \o <<SeparatorLine, StatusLine(X.mStatus)>>
    ELSE <<>>

\* What may be in the file: the text up to some line, which may be cut.
Beginnings(text) ==
    {SubSeq(text, 1, k) : k \in 0 .. Len(text)}
        \cup {Append(SubSeq(text, 1, k - 1), Line("cut", text[k].kind)) :
                  k \in DOMAIN text}

\* The n-th line ahead is of this kind, and whole.
Ahead(n, kind) == n \in DOMAIN input /\ input[n].kind = kind

\* What can be read: a State and an instruction if the words fit, a status if it is
\* one of the enumerators.  Otherwise failbit is set.
StateAhead(n) == Ahead(n, "state") /\ LegibleState(input[n].val)
InstructionAhead(n) == Ahead(n, "instr") /\ Legible(input[n].val)
StatusAhead(n) == Ahead(n, "status")

\* peek() finds an equals sign, which the beginning of a separator satisfies as well.
SeparatorAhead == Ahead(1, "separator") \/ (Ahead(1, "cut") /\ input[1].val = "separator")

\* utils::io::skip(is, '\n', n)
Skipped(n) == SubSeq(input, n + 1, Len(input))
-----------------------------------------------------------------------------
Init ==
    /\ \E s0 \in States : E \in NewExecutions(s0)
    /\ R \in NewExecutions(NoState)
    /\ input = <<>>
    /\ good = TRUE
    /\ i = 0
    /\ rpc = "idle"
    /\ whole = FALSE

Reading == rpc \notin {"idle", "done"}

\* The execution changes between two readings; the stream and the counter are gone.
Change(F) ==
    /\ ~ Reading
    /\ E' = F
    /\ input' = <<>> /\ good' = TRUE /\ i' = 0
    /\ rpc' = "idle"
    /\ whole' = FALSE
    /\ UNCHANGED R

Push ==
    /\ Len(E.mExecution) < MaxTransitions
    /\ \E instr \in Instructions, post \in States : Change(PushBack(E, instr, post))

Pop == ~ Empty(E) /\ Change(PopLast(E))

\* Scheduler::close: the last post, and the status.
Close ==
    /\ ~ Empty(E)
    /\ \E post \in States, status \in Statuses :
           Change(SetStatus(SetLastPost(E, post), status))
-----------------------------------------------------------------------------
\* What operator>> keeps of a transition.
Content(X) == [k \in DOMAIN X.mExecution |->
                   <<X.mExecution[k].mInstr, X.mExecution[k].mPost>>]

\* The text as it is in the file is opened, and operator>> called with a new
\* Execution, or with one whose transitions are the first ones of the text.
StartRead ==
    /\ rpc = "idle"
    /\ input' \in Beginnings(Text(E))
    /\ \/ /\ R' \in NewExecutions(NoState)
          /\ whole' = (input' = Text(E))
       \/ /\ Initialized(R) /\ IsPrefix(Content(R), Content(E))
          /\ whole' = FALSE
          /\ UNCHANGED R
    /\ good' = TRUE
    /\ i' = 0
    /\ rpc' = "loop"
    /\ UNCHANGED E

\* The separator: the rest of its line is skipped, the status is read and set.
\* If it cannot be read, set_status is given an uninitialized status.
ReadStatus ==
    /\ rpc = "loop" /\ SeparatorAhead
    /\ IF StatusAhead(2)
       THEN /\ R' = SetStatus(R, input[2].val)
            /\ good' = TRUE
       ELSE /\ \E status \in ExecutionStatus : R' = SetStatus(R, status)
            /\ good' = FALSE
    /\ input' = Skipped(2)
    /\ rpc' = "done"
    /\ UNCHANGED <<E, i, whole>>

\* Mutants of Fail: the loop goes on; the failure is forgotten.
FailGoesOn ==
    /\ good' = FALSE
    /\ rpc' = "loop"
    /\ UNCHANGED <<E, input, i, whole>>

FailUnnoticed ==
    /\ rpc' = "done"
    /\ UNCHANGED <<E, input, good, i, whole>>

\* A failed read leaves the loop.
Fail ==
    /\ good' = FALSE
    /\ rpc' = "done"
    /\ UNCHANGED <<E, input, i, whole>>

\* The first line, s0, is read if there is none yet.  A line that is cut fails,
\* but may leave the state that was begun: operator>> for a shared_ptr assigns it
\* without a look at the stream.
ReadS0 ==
    /\ rpc = "loop" /\ i = 0 /\ ~ SeparatorAhead /\ ~ Initialized(R)
    /\ IF StateAhead(1)
       THEN /\ R' = [R EXCEPT !.mS0 = Head(input).val]
            /\ input' = Tail(input)
            /\ rpc' = "transition"
            /\ UNCHANGED <<E, good, i, whole>>
       ELSE /\ \/ UNCHANGED R
               \/ Ahead(1, "cut") /\ R' = [R EXCEPT !.mS0 = CutState]
            /\ Fail

\* ... and skipped otherwise.  Whether skip fails at the end of the text is
\* not known.
SkipS0 ==
    /\ rpc = "loop" /\ i = 0 /\ ~ SeparatorAhead /\ Initialized(R)
    /\ \/ /\ input' = Skipped(1)
          /\ rpc' = "transition"
          /\ UNCHANGED <<E, R, good, i, whole>>
       \/ Len(input) <= 1 /\ UNCHANGED R /\ Fail

AtTransition ==
    \/ rpc = "transition"
    \/ rpc = "loop" /\ i > 0 /\ ~ SeparatorAhead

\* Mutant of ReadTransition: it also reads a transition that R has.
ReadTransitionAgain ==
    /\ AtTransition
    /\ IF InstructionAhead(1) /\ StateAhead(2)
       THEN /\ R' = PushBack(R, Head(input).val, input[2].val)
            /\ input' = Skipped(2)
            /\ i' = i + 1
            /\ rpc' = "loop"
            /\ UNCHANGED <<E, good, whole>>
       ELSE UNCHANGED R /\ Fail

\* A transition that R does not have: index, instruction and post are read.
\* push_back numbers it anew.
ReadTransition ==
    /\ AtTransition /\ i = Len(R.mExecution)
    /\ IF InstructionAhead(1) /\ StateAhead(2)
       THEN /\ R' = PushBack(R, Head(input).val, input[2].val)
            /\ input' = Skipped(2)
            /\ i' = i + 1
            /\ rpc' = "loop"
            /\ UNCHANGED <<E, good, whole>>
       ELSE UNCHANGED R /\ Fail

\* A transition that R has already: its two lines are skipped.
SkipTransition ==
    /\ AtTransition /\ i # Len(R.mExecution)
    /\ \/ /\ input' = Skipped(2)
          /\ i' = i + 1
          /\ rpc' = "loop"
          /\ UNCHANGED <<E, R, good, whole>>
       \/ Len(input) <= 2 /\ UNCHANGED R /\ Fail

ReaderStep == ReadStatus \/ ReadS0 \/ SkipS0 \/ ReadTransition \/ SkipTransition

Next == Push \/ Pop \/ Close \/ StartRead \/ ReaderStep

Spec == Init /\ [][Next]_vars
FairSpec == Spec /\ WF_vars(ReaderStep)
-----------------------------------------------------------------------------
Transitions ==
    [mIndex : 1 .. MaxTransitions, mPre : States \cup {CutState},
     mInstr : Instructions, mPost : States]

Executions ==
    [mExecution : Seq(Transitions), mS0 : States \cup {NoState, CutState},
     mThreads : SUBSET Thread, mStatus : ExecutionStatus, mContainsLocks : BOOLEAN]

\* The values the variables may have.
TypeOK ==
    /\ E \in Executions /\ R \in Executions
    /\ Len(E.mExecution) <= MaxTransitions
    /\ Len(R.mExecution) <= MaxTransitions
    /\ good \in BOOLEAN
    /\ i \in Nat /\ i <= Len(R.mExecution)
    /\ rpc \in {"idle", "loop", "transition", "done"}
    /\ whole \in BOOLEAN

\* Each transition of an execution, recorded or read, starts in the state the
\* one before it ended in, the first one in s0, and has its place as its index,
\* whatever was pushed, popped or closed before (the assertions of push_back and
\* final_ptr are about this chain).
Chained(X) ==
    \A k \in DOMAIN X.mExecution :
        /\ X.mExecution[k].mIndex = k
        /\ X.mExecution[k].mPre = IF k = 1 THEN X.mS0 ELSE X.mExecution[k - 1].mPost

ExecutionsChained == Chained(E) /\ Chained(R)

\* If the stream is good after operator>>, the execution read is the one that was
\* written, s0 excepted if an earlier reading was cut there.  So a record that is
\* incomplete is noticed, and one that grew is read up to its end.
GoodReadIsComplete ==
    rpc = "done" /\ good =>
        /\ Content(R) = Content(E)
        /\ R.mStatus = E.mStatus
        /\ R.mS0 \in {E.mS0, CutState}

\* However the text is cut and in whatever number of readings, the transitions
\* read are the first ones of those written.
ReadIsPrefix == rpc # "idle" => IsPrefix(Content(R), Content(E))

\* operator>> returns, also from a text that is cut.
ReadEnds == Reading ~> ~ Reading

\* The lines of each transition of a whole record are read back word by word as they
\* were written, and nothing more or less is consumed; if some of the words at the
\* end are not there, the last one is cut, or a file name is not one word, the
\* reading fails and nothing is taken for something else.
LinesAreRead ==
    rpc = "loop" /\ i = 0 /\ whole =>
        \A k \in DOMAIN E.mExecution :
            LET instr == E.mExecution[k].mInstr
                post == E.mExecution[k].mPost
                words == TransitionWords(k, instr, post)
                behind == TransitionWords(k + 1, instr, post)
            IN  /\ ReadLines(words \o behind) =
                       IF Legible(instr) /\ LegibleState(post)
                       THEN {[val |-> <<instr, post>>, rest |-> behind]} ELSE {}
                /\ \A n \in DOMAIN words :
                       LET before == SubSeq(words, 1, n - 1)
                       IN  /\ ReadLines(before) = {}
                           /\ n < Len(words) =>
                                  ReadLines(Append(before, CutWord(words[n]))) = {}

\* The threads that the transitions of X create.
CreatedBy(X) ==
    {trans.mInstr.operand : trans \in {t \in ToSet(X.mExecution) : t.mInstr.op = "Spawn"}}

\* The names of the files in a record are single words.
LegibleRecord(X) ==
    /\ LegibleState(X.mS0)
    /\ \A k \in DOMAIN X.mExecution :
          Legible(X.mExecution[k].mInstr) /\ LegibleState(X.mExecution[k].mPost)

\* A whole text of an execution that has transitions, as the scheduler writes it,
\* is read completely, with the threads that its transitions create, provided that
\* it is legible.
WholeRecordIsRead ==
    rpc = "done" /\ whole /\ ~ Empty(E) /\ LegibleRecord(E) =>
        /\ good
        /\ R.mExecution = E.mExecution /\ R.mS0 = E.mS0 /\ R.mStatus = E.mStatus
        /\ R.mThreads = {0} \cup CreatedBy(E)
=============================================================================
