----------------------- MODULE RecordReplayInvariant -----------------------
(***************************************************************************)
(* The inductive invariant of RecordReplay.                                *)
(*                                                                         *)
(* FilesInv is about the files and the executable that the calls leave     *)
(* behind.  TraceInv is about determinism: if only the main thread creates *)
(* threads, then a tid determines a routine, and so the tids of an         *)
(* execution determine its instructions, whatever the order was in which   *)
(* the threads announced them.                                             *)
(***************************************************************************)
EXTENDS RecordReplay

\* The fields of a file.
IsFile(file) ==
    /\ file = [program |-> file.program, run |-> file.run, execution |-> file.execution,
               end |-> file.end, strategy |-> file.strategy, scheduled |-> file.scheduled,
               whole |-> file.whole]
    /\ file.run \in Nat
    /\ file.whole \in BOOLEAN

AreFiles(files) ==
    /\ files = [record |-> files.record, short |-> files.short]
    /\ IsFile(files.record) /\ IsFile(files.short)

FilesTyped ==
    /\ runs \in Nat
    /\ rpc \in {"idle", "fork", "renamed", "returned", "threw"}
    /\ ppc \in {"off", "running", "over"}
    /\ AreFiles(cwd) /\ AreFiles(out)

\* A process runs only during the call, and only what was to be built.
CallInv ==
    /\ program \in {wanted, NoProgram} /\ program \in DOMAIN Programs \cup {NoProgram}
    /\ ppc = "running" => rpc = "fork" /\ program # NoProgram
    /\ rpc \in {"fork", "renamed"} => runs > 0

\* record.txt is one of this call, from its opening until it is moved.
RecordInv ==
    /\ AtCaller => cwd = NoFiles
    /\ cwd.record # NoFile =>
          rpc = "fork" /\ cwd.record.run = runs /\ cwd.record.program = wanted
    /\ rpc \in {"renamed", "returned"} =>
          out.record.run = runs /\ out.record.program = wanted

\* record_short.txt is opened after record.txt is complete, wherever that one is.
ShortInv ==
    LET record == IF rpc = "fork" THEN cwd.record ELSE out.record
    IN  cwd.short # NoFile =>
            /\ record.run = runs /\ record.whole
            /\ cwd.short = [record EXCEPT !.whole = cwd.short.whole]

\* A sequence, of whatever.
IsSequence(s) == s \in Seq(ToSet(s))

\* The schedule of a whole record is as long as the record.
LengthsInv ==
    /\ Len(schedule) \in Nat
    /\ \A execution \in {trace, cwd.record.execution, out.record.execution, source.execution} :
          IsSequence(execution)
    /\ source # NoFile /\ source.whole => Len(schedule) = Len(source.execution)

FilesInv == FilesTyped /\ CallInv /\ RecordInv /\ ShortInv /\ ReturnsOwnRecord
-----------------------------------------------------------------------------
\* The programs in which only the main thread creates threads, and none of them runs
\* main again.
OneCreator ==
    {name \in DOMAIN Programs :
        \A r \in DOMAIN Programs[name] : \A j \in DOMAIN Programs[name][r] :
            Programs[name][r][j].op = "Spawn" => r = "main" /\ Programs[name][r][j].arg # "main"}
OnlyMainCreates(name) == name \in OneCreator

\* A thread t > 0 is created by the t-th creation of main.
NrCreations(name, n) == Cardinality(Creations(Programs[name]["main"], n))

CreationOf(name, t) ==
    CHOOSE n \in DOMAIN Programs[name]["main"] :
        Programs[name]["main"][n].op = "Spawn" /\ NrCreations(name, n) = t
RoutineOf(name, t) ==
    IF t = 0 THEN "main" ELSE Programs[name]["main"][CreationOf(name, t)].arg

\* The threads that t has created when n steps of it are announced.
ChildrenOf(name, t, n) == IF t = 0 THEN [k \in 1 .. NrCreations(name, n) |-> k] ELSE <<>>

\* The n-th instruction of the thread with the tid t.
InstructionOf(name, t, n) ==
    LET step == Programs[name][RoutineOf(name, t)][n]
    IN  [tid |-> t, op |-> step.op, atomic |-> FALSE,
         operand |-> CASE step.op = "Spawn" -> NrCreations(name, n)
                       [] step.op = "Join" -> ChildrenOf(name, t, n - 1)[step.arg]
                       [] OTHER -> step.arg]

\* The transitions of t among the first n of an execution.
TransitionsOf(execution, t, n) == {k \in 1 .. n : execution[k].tid = t}
NrTransitions(execution, t, n) == Cardinality(TransitionsOf(execution, t, n))

\* Each transition of the execution is the next instruction of its thread.
IsExecutionOf(execution, name) ==
    /\ execution \in Seq(Instruction)
    /\ \A k \in DOMAIN execution :
          LET t == execution[k].tid
          IN  execution[k] = InstructionOf(name, t, NrTransitions(execution, t, k - 1) + 1)
-----------------------------------------------------------------------------
Running == ppc = "running" /\ OnlyMainCreates(program)

\* Without a process its variables have their initial values.
NoProcess ==
    ppc # "running" =>
        /\ stage = [t \in Thread |-> IF t = 0 THEN "busy" ELSE "unborn"]
        /\ task = [t \in Thread |-> NoTask]
        /\ nextTid = 1 /\ status = "RUNNING" /\ unrecorded = NoTask
        /\ routine = [t \in Thread |-> "main"]
        /\ at = [t \in Thread |-> 0]
        /\ children = [t \in Thread |-> <<>>]
        /\ trace = <<>>

Controls == Running /\ status = "RUNNING"

ProcessTyped ==
    Controls =>
        /\ stage \in [Thread -> Stage]
        /\ at \in [Thread -> Nat]
        /\ routine \in [Thread -> DOMAIN Programs[program]]
        /\ DOMAIN task = Thread /\ DOMAIN children = Thread

\* A tid says of a thread what it runs.
ThreadsInv ==
    Controls =>
        /\ nextTid = 1 + NrCreations(program, at[0])
        /\ \A t \in Thread :
              /\ t < nextTid => routine[t] = RoutineOf(program, t)
              /\ 0 < t /\ t < nextTid => routine[t] # "main"
              /\ nextTid <= t => stage[t] = "unborn"
              /\ stage[t] = "unborn" => at[t] = 0
              /\ at[t] <= Len(Programs[program][routine[t]])
              /\ children[t] = ChildrenOf(program, t, at[t])

\* What they have announced, and what they have performed.
IsAnnounced(t) == stage[t] \in {"waiting", "granted"}
IsPerformed(t) == unrecorded # NoTask /\ unrecorded.tid = t

AnnouncedInv ==
    Controls =>
        \A t \in Thread :
            /\ at[t] = NrTransitions(trace, t, Len(trace))
                       + (IF IsPerformed(t) THEN 1 ELSE 0) + (IF IsAnnounced(t) THEN 1 ELSE 0)
            /\ IsAnnounced(t) =>
                  /\ task[t] = InstructionOf(program, t, at[t])
                  /\ task[t] \in Instruction
                  /\ task[t].op = "Spawn" =>
                        t = 0 /\ task[t].operand = nextTid - 1 /\ stage[nextTid - 1] = "unborn"

GrantedInv ==
    Controls =>
        \A t \in Thread :
            stage[t] = "granted" =>
                /\ unrecorded = NoTask
                /\ \A u \in Thread : stage[u] = "granted" => u = t
                /\ Replays /\ Scheduled => t = Entry

UnrecordedInv ==
    Controls /\ unrecorded # NoTask =>
        LET t == unrecorded.tid
        IN  /\ t \in Thread
            /\ unrecorded = InstructionOf(program, t, NrTransitions(trace, t, Len(trace)) + 1)
            /\ unrecorded \in Instruction
            /\ Replays /\ Scheduled => t = Entry

\* The records are executions of their programs, as what is recorded.
ExecutionsInv ==
    /\ Running => IsExecutionOf(trace, program)
    /\ \A file \in {cwd.record, out.record, source} :
          file # NoFile /\ OnlyMainCreates(file.program) =>
              IsExecutionOf(file.execution, file.program)

\* The schedule of a replay names the threads of the record.
ScheduleInv ==
    source # NoFile /\ OnlyMainCreates(source.program) =>
        /\ schedule \in Seq(Thread)
        /\ Len(schedule) <= Len(source.execution)
        /\ \A k \in DOMAIN schedule : schedule[k] = source.execution[k].tid

FollowsInv ==
    Running /\ Replays =>
        \A k \in DOMAIN trace \cap DOMAIN schedule : trace[k].tid = schedule[k]

TraceInv ==
    /\ NoProcess /\ ProcessTyped /\ ThreadsInv /\ AnnouncedInv /\ GrantedInv /\ UnrecordedInv
    /\ ExecutionsInv /\ ScheduleInv /\ FollowsInv
-----------------------------------------------------------------------------
(***************************************************************************)
(* The state that the program is in after the first n transitions of an    *)
(* execution, as far as it decides who can go on.                          *)
(***************************************************************************)
CreatedAfter(execution, t, n) ==
    \/ t = 0
    \/ \E k \in 1 .. n : execution[k].op = "Spawn" /\ execution[k].operand = t

HeldAfter(execution, mutex, n) ==
    \E k \in 1 .. n :
        /\ execution[k].op = "Lock" /\ execution[k].operand = mutex
        /\ \A j \in k + 1 .. n : execution[j].op = "Unlock" => execution[j].operand # mutex

HasStepsAfter(name, execution, t, n) ==
    NrTransitions(execution, t, n) < Len(Programs[name][RoutineOf(name, t)])

WaitsAfter(name, execution, t, n) ==
    CreatedAfter(execution, t, n) /\ HasStepsAfter(name, execution, t, n)
EndedAfter(name, execution, t, n) ==
    CreatedAfter(execution, t, n) /\ ~ HasStepsAfter(name, execution, t, n)

NextAfter(name, execution, t, n) ==
    InstructionOf(name, t, NrTransitions(execution, t, n) + 1)

GoesOnAfter(name, execution, instr, n) ==
    /\ instr.op = "Lock" => ~ HeldAfter(execution, instr.operand, n)
    /\ instr.op = "Join" => EndedAfter(name, execution, instr.operand, n)

WaitingAfter(name, execution, n) == {t \in Thread : WaitsAfter(name, execution, t, n)}
ReadyAfter(name, execution, n) ==
    {t \in WaitingAfter(name, execution, n) :
        GoesOnAfter(name, execution, NextAfter(name, execution, t, n), n)}

\* The choice of NonPreemptive.
PreferredAfter(name, execution, n) ==
    LET ready == ReadyAfter(name, execution, n)
    IN  IF n > 0 /\ execution[n].tid \in ready THEN {execution[n].tid}
        ELSE {t \in ready : \A u \in ready : t <= u}

\* May t be chosen after n transitions, of which the schedule has decided so many?
MayBeChosen(name, execution, t, n, strategy, scheduled) ==
    /\ t \in ReadyAfter(name, execution, n)
    /\ strategy = "NonPreemptive" /\ ~ n < scheduled => t \in PreferredAfter(name, execution, n)

\* The last transition of a deadlock was not performed.
NrPerformed(execution, end) == IF end = "DEADLOCK" THEN Len(execution) - 1 ELSE Len(execution)

\* Every transition was chosen in its turn, and the end is what it is called.
IsRunOf(name, execution, end, strategy, scheduled) ==
    LET nr == NrPerformed(execution, end)
    IN  /\ nr \in Nat
        /\ \A k \in 1 .. nr :
              MayBeChosen(name, execution, execution[k].tid, k - 1, strategy, scheduled)
        /\ end = "DONE" => WaitingAfter(name, execution, nr) = {}
        /\ end = "DEADLOCK" =>
              WaitingAfter(name, execution, nr) # {} /\ ReadyAfter(name, execution, nr) = {}
-----------------------------------------------------------------------------
\* The execution, with what was performed and is not recorded yet.
Performed == IF unrecorded = NoTask THEN trace ELSE Append(trace, unrecorded)

\* The threads and mutexes of the process are as the execution says.
StagesInv ==
    Controls =>
        \A t \in Thread :
            /\ stage[t] # "unborn" <=> CreatedAfter(Performed, t, Len(Performed))
            /\ stage[t] = "ended" => at[t] = Len(Programs[program][routine[t]])

HoldersInv ==
    /\ ppc # "running" => holder = [mutex \in Mutexes |-> NoThread]
    /\ Controls =>
          /\ DOMAIN holder = Mutexes
          /\ \A mutex \in Mutexes :
                holder[mutex] # NoThread <=> HeldAfter(Performed, mutex, Len(Performed))

\* The choice that is going to be recorded was right.
IsChosen(t) == MayBeChosen(program, trace, t, Len(trace), StrategyTag, Len(schedule))

ChosenInv ==
    Controls =>
        /\ \A t \in Thread : stage[t] = "granted" => IsChosen(t)
        /\ unrecorded # NoTask => IsChosen(unrecorded.tid)

\* The same for all transitions of the process, and of the records.
RunsInv ==
    /\ Running => IsRunOf(program, trace, status, StrategyTag, Len(schedule))
    /\ \A file \in {cwd.record, out.record, source} :
          file # NoFile /\ OnlyMainCreates(file.program) =>
              /\ IsRunOf(file.program, file.execution, file.end, file.strategy, file.scheduled)
              /\ file.scheduled \in Nat

\* The schedule was followed to its end, if the thread that it names could go on.
EndInv ==
    Running =>
        /\ status \in {"RUNNING", "DONE", "DEADLOCK", "ERROR"}
        /\ status = "DONE" => ~ Scheduled
        /\ status = "DEADLOCK" => ~ Len(trace) - 1 < Len(schedule)
        /\ status = "ERROR" => Scheduled /\ Entry \notin ReadyAfter(program, trace, Len(trace))

\* Two runs of NonPreemptive go on alike behind the schedule.
AlikeInv ==
    Running /\ Replays /\ ContinuesAlike =>
        \A k \in 1 .. NrPerformed(trace, status) :
            k <= NrPerformed(source.execution, source.end) =>
                trace[k].tid = source.execution[k].tid

OutcomeInv ==
    /\ StagesInv /\ HoldersInv /\ ChosenInv /\ RunsInv /\ EndInv /\ AlikeInv
-----------------------------------------------------------------------------
\* What TypeOK rests on, under the scheduler and, after a selection error, without it:
\* there is a tid for each creation, and a thread for each join.
WorkInv ==
    Running =>
        /\ at \in [Thread -> Nat] /\ routine \in [Thread -> DOMAIN Programs[program]]
        /\ children \in [Thread -> Seq(Thread)]
        /\ nextTid = 1 + NrCreations(program, at[0])
        /\ \A t \in Thread :
              /\ t = 0 => routine[t] = "main"
              /\ routine[t] = "main" => t = 0 \/ nextTid <= t
              /\ nextTid <= t => stage[t] = "unborn"
              /\ stage[t] = "unborn" => at[t] = 0
              /\ at[t] <= Len(Programs[program][routine[t]])
              /\ Len(children[t]) =
                    Cardinality(Creations(Programs[program][routine[t]], at[t]))
              /\ IsAnnounced(t) /\ task[t].op = "Spawn" =>
                    task[t].operand \in 0 .. nextTid - 1

RecordReplayInv == TypeOK /\ FilesInv /\ LengthsInv /\ TraceInv /\ WorkInv
=============================================================================
