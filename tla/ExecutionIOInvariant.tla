------------------------ MODULE ExecutionIOInvariant ------------------------
(***************************************************************************)
(* The inductive invariant of ExecutionIO.  It says where the reader is in *)
(* the text of the execution: how many lines it has consumed, and that     *)
(* what is left of the stream are the lines that follow.                   *)
(***************************************************************************)
EXTENDS ExecutionIO

\* An execution that is written has a first state, one that is read has it from there.
S0Inv ==
    /\ E.mS0 \in States
    /\ R.mS0 \in {NoState, E.mS0, CutState}
    /\ ~ Initialized(R) => Empty(R)

\* The transitions of X are the first ones of Y.
Begins(X, Y) ==
    /\ Len(X.mExecution) <= Len(Y.mExecution)
    /\ \A k \in DOMAIN X.mExecution :
          /\ X.mExecution[k].mInstr = Y.mExecution[k].mInstr
          /\ X.mExecution[k].mPost = Y.mExecution[k].mPost

\* The lines that operator>> has consumed: s0, and two lines of each transition.
Consumed == IF rpc = "loop" /\ i = 0 THEN 0 ELSE 2 * i + 1

\* A line of the stream is the one of the text, or the beginning of it.
IsLineOf(line, text, n) ==
    /\ n \in DOMAIN text
    /\ IF line.kind = "cut" THEN line.val = text[n].kind ELSE line = text[n]

InputInv ==
    Reading =>
        /\ Len(input) \in Nat
        /\ input = [n \in 1 .. Len(input) |-> input[n]]
        /\ \A n \in 1 .. Len(input) : IsLineOf(input[n], Text(E), Consumed + n)

ReadingInv ==
    /\ Reading => Begins(R, E)
    /\ rpc = "transition" => i = 0
    /\ rpc = "transition" \/ (rpc = "loop" /\ i > 0) => Initialized(R)

\* A new Execution has no more than what was read, and all of a whole text is ahead.
WholeInv ==
    whole /\ Reading =>
        /\ Len(input) = Len(Text(E)) - Consumed
        /\ \A n \in 1 .. Len(input) : input[n].kind # "cut"
        /\ i = Len(R.mExecution)
        /\ R.mS0 = IF Consumed = 0 THEN NoState ELSE E.mS0
        /\ R.mThreads = {0} \cup CreatedBy(R)

DoneInv == rpc = "done" => Begins(R, E)

IOInv ==
    /\ TypeOK /\ S0Inv /\ InputInv /\ ReadingInv /\ WholeInv /\ DoneInv
    /\ ExecutionsChained /\ GoodReadIsComplete /\ WholeRecordIsRead
=============================================================================
