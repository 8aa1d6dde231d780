---------------------------- MODULE RecordReplay ----------------------------
(***************************************************************************)
(* instrument and run_under_schedule (scheduler/replay.cpp), called again  *)
(* and again.  The one builds an executable from a source; the other       *)
(* writes a schedule and settings, runs the executable under the           *)
(* scheduler, which reads them and writes a record, and moves the record   *)
(* away, which stays until the next record is moved there.  The next       *)
(* schedule may be the one of a record (scheduler/schedule.cpp), which is  *)
(* how an execution is replayed.                                           *)
(*                                                                         *)
(* The program is deterministic: each thread has a routine, a sequence of  *)
(* visible instructions, and only their order differs from run to run.     *)
(* The scheduler takes turns as TurnTaking says, which it does for threads *)
(* that end after an instruction of their own (RoutinesAssumption).        *)
(* fork_process may end the process at any moment (a timeout).             *)
(***************************************************************************)
EXTENDS TurnTaking, SequencesExt

CONSTANTS
    Programs,   \* the sources by name, as functions from the names of routines to
                \* sequences of steps
    Unsupported,\* the names of other sources, neither .c nor .cpp
    NoProgram,  \* the absence of an executable
    Schedules,  \* the schedules that are not taken from a record
    Settings,   \* the strategy tags that are given as settings
    MaxCalls    \* bound: how often instrument and run_under_schedule are called

Sources == DOMAIN Programs \cup Unsupported

ASSUME NoProgramAssumption == NoProgram \notin Sources

ASSUME MaxCallsAssumption == MaxCalls \in Nat

\* The creations of threads among the first n steps of a routine.
Creations(steps, n) == {k \in 1 .. n : steps[k].op = "Spawn"}

\* Every program has a main, whose threads there is room for.  A routine creates threads
\* with the routines of its program, and joins threads that it has created.
ASSUME ProgramsAssumption ==
    \A name \in DOMAIN Programs :
        /\ "main" \in DOMAIN Programs[name]
        /\ LET main == Programs[name]["main"]
           IN  Cardinality(Creations(main, Len(main))) < NrThreads
        /\ \A r \in DOMAIN Programs[name] :
              LET steps == Programs[name][r]
              IN  /\ Len(steps) \in Nat /\ DOMAIN steps = 1 .. Len(steps)
                  /\ \A k \in DOMAIN steps :
                        /\ steps[k].op \in MemoryOp \cup LockOp \cup ManageOp
                        /\ OnObject(steps[k]) => steps[k].arg \in Objects
                        /\ steps[k].op \in LockOp => steps[k].arg \in Mutexes
                        /\ steps[k].op = "Spawn" => steps[k].arg \in DOMAIN Programs[name]
                        /\ steps[k].op = "Join" =>
                              steps[k].arg \in 1 .. Cardinality(Creations(steps, k - 1))

\* Does the routine hold the mutex after n of its steps?
HoldsAfter(steps, n, mutex) ==
    \E k \in 1 .. n :
        /\ steps[k] = [op |-> "Lock", arg |-> mutex]
        /\ \A l \in k + 1 .. n : steps[l] # [op |-> "Unlock", arg |-> mutex]

\* The programs are those for which Scheduler implements TurnTaking (there: NextInstructions,
\* and MayReturn without EagerExit).  A thread comes to some instruction and does not end
\* right after a creation, so that it ends in its own turn: elsewhere its end may leave a
\* joiner disabled, or lock the mutexes of the pool in the opposite order to a post.  It
\* unlocks only what it holds, and joins a thread once.
ASSUME RoutinesAssumption ==
    \A name \in DOMAIN Programs : \A r \in DOMAIN Programs[name] :
        LET steps == Programs[name][r]
        IN  /\ steps # <<>> /\ steps[Len(steps)].op # "Spawn"
            /\ \A k \in DOMAIN steps :
                  /\ steps[k].op = "Unlock" => HoldsAfter(steps, k - 1, steps[k].arg)
                  /\ steps[k].op = "Join" => \A l \in 1 .. k - 1 : steps[l] # steps[k]

\* The schedules name threads.
ASSUME SchedulesAssumption == Schedules \subseteq Seq(Thread)

VARIABLES
    \* the process
    routine,   \* the routine of each thread
    at,        \* how many steps of it the thread has announced
    children,  \* the tids of the threads it has created, in its own order
    trace,     \* E: the instructions of the transitions recorded so far
    ppc,       \* where the process is
    \* its caller, and the files
    program,   \* the executable: the source it was built from, or NoProgram
    wanted,    \* history: the source that instrument was called with last
    builds,    \* how often instrument has been called
    rpc,       \* where run_under_schedule is
    runs,      \* how often it has been called
    schedule,  \* schedules/schedule.txt
    settings,  \* schedules/settings.txt: a strategy tag, or "none" if there is no file
    cwd,       \* record.txt and record_short.txt, where the process writes them
    out,       \* the same in output_dir
    source     \* history: the record the schedule was taken from, or NoFile

processVars == <<turnVars, routine, at, children, trace, ppc>>
buildVars == <<program, wanted, builds>>
callerVars == <<buildVars, rpc, runs, schedule, settings, cwd, out, source>>
vars == <<processVars, callerVars>>

NoFile == [program |-> NoProgram, run |-> 0, execution |-> <<>>, end |-> "none",
           strategy |-> "none", scheduled |-> 0, whole |-> FALSE]
NoFiles == [record |-> NoFile, short |-> NoFile]

\* A step of a routine.  What is created is a routine, what is joined is the n-th
\* thread that the thread has created.
Step(op, arg) == [op |-> op, arg |-> arg]

\* Mutant of ScheduleOf: the last transition is left out.
ScheduleWithoutLast(execution) == [k \in 1 .. Len(execution) - 1 |-> execution[k].tid]

\* schedule(E)
ScheduleOf(execution) == [k \in DOMAIN execution |-> execution[k].tid]

ProcessInit ==
    /\ TurnInit
    /\ routine = [t \in Thread |-> "main"]
    /\ at = [t \in Thread |-> 0]
    /\ children = [t \in Thread |-> <<>>]
    /\ trace = <<>>

Init ==
    /\ ProcessInit
    /\ program = NoProgram /\ wanted = NoProgram
    /\ ppc = "off" /\ rpc = "idle"
    /\ builds = 0 /\ runs = 0
    /\ schedule = <<>> /\ settings = "none"
    /\ cwd = NoFiles /\ out = NoFiles
    /\ source = NoFile
\* The process is gone, the next one starts from the beginning.
Gone ==
    /\ ppc' = "over"
    /\ stage' = [t \in Thread |-> IF t = 0 THEN "busy" ELSE "unborn"]
    /\ task' = [t \in Thread |-> NoTask]
    /\ nextTid' = 1
    /\ holder' = [m \in Mutexes |-> NoThread]
    /\ status' = "RUNNING"
    /\ recorded' = [nr |-> 0, last |-> NoTask]
    /\ unrecorded' = NoTask
    /\ routine' = [t \in Thread |-> "main"]
    /\ at' = [t \in Thread |-> 0]
    /\ children' = [t \in Thread |-> <<>>]
    /\ trace' = <<>>
-----------------------------------------------------------------------------
(***************************************************************************)
(* The process.                                                            *)
(***************************************************************************)
Controlled == ppc = "running" /\ status = "RUNNING"

NextStep(t) == Programs[program][routine[t]][at[t] + 1]
HasStep(t) == at[t] < Len(Programs[program][routine[t]])

NextTask(t) ==
    LET step == NextStep(t)
    IN  [tid |-> t, op |-> step.op, atomic |-> FALSE,
         operand |-> CASE step.op = "Spawn" -> nextTid
                       [] step.op = "Join" -> children[t][step.arg]
                       [] OTHER -> step.arg]

\* A thread announces its next instruction; get_fresh_tid gives it a tid at once.
AnnounceNext(t) ==
    /\ ppc = "running" /\ status \in {"RUNNING", "ERROR"}
    /\ stage[t] = "busy" /\ HasStep(t)
    /\ Announce(NextTask(t))
    /\ at' = [at EXCEPT ![t] = @ + 1]
    /\ IF NextStep(t).op = "Spawn"
       THEN /\ routine' = [routine EXCEPT ![nextTid] = NextStep(t).arg]
            /\ children' = [children EXCEPT ![t] = Append(@, nextTid)]
       ELSE UNCHANGED <<routine, children>>
    /\ UNCHANGED <<trace, ppc, callerVars>>

\* exit_function of the first function, in the thread's own turn (RoutinesAssumption), or
\* without the scheduler after an error.
ThreadEnds(t) ==
    /\ ppc = "running" /\ status \in {"RUNNING", "ERROR"}
    /\ ~ HasStep(t)
    /\ End(t)
    /\ UNCHANGED <<routine, at, children, trace, ppc, callerVars>>

PerformGranted(t) ==
    /\ Controlled
    /\ Perform(t)
    /\ UNCHANGED <<routine, at, children, trace, ppc, callerVars>>

RecordPerformed ==
    /\ Controlled
    /\ Record
    /\ trace' = Append(trace, unrecorded)
    /\ UNCHANGED <<routine, at, children, ppc, callerVars>>

\* Selector::select: the task number is the number of transitions.
Scheduled == Len(trace) < Len(schedule)
Entry == schedule[Len(trace) + 1]

\* Mutant of SelectScheduled: the schedule is taken one entry too late.
SelectScheduledLate ==
    /\ Controlled
    /\ Len(trace) < Len(schedule) - 1
    /\ Choose(schedule[Len(trace) + 2])
    /\ UNCHANGED <<routine, at, children, trace, ppc, callerVars>>

SelectScheduled ==
    /\ Controlled
    /\ Scheduled /\ Choose(Entry)
    /\ UNCHANGED <<routine, at, children, trace, ppc, callerVars>>

\* SchedulerSettings::read_from_file, with its default.
StrategyTag == IF settings = "none" THEN "Random" ELSE settings

\* NonPreemptive prefers the thread that came last, then the lowest tid.
Ready == {t \in WaitingThreads : CanGoOn(task[t])}

Preferred ==
    IF trace # <<>> /\ Last(trace).tid \in Ready THEN {Last(trace).tid}
    ELSE {t \in Ready : \A u \in Ready : t <= u}

SelectByStrategy ==
    /\ Controlled
    /\ ~ Scheduled
    /\ \E t \in IF StrategyTag = "Random" THEN Ready ELSE Preferred : Choose(t)
    /\ UNCHANGED <<routine, at, children, trace, ppc, callerVars>>

\* The thread that the schedule names cannot go on: a selection error.
SelectionError ==
    /\ Controlled
    /\ Scheduled /\ Settled
    /\ stage[Entry] = "ended" \/ (stage[Entry] = "waiting" /\ ~ CanGoOn(task[Entry]))
    /\ status' = "ERROR"
    /\ UNCHANGED <<stage, task, nextTid, holder, recorded, unrecorded, routine, at,
                   children, trace, ppc, callerVars>>

\* It names a thread that is not registered: TaskPool::status asserts that it is.
UnknownThread ==
    /\ Controlled
    /\ Scheduled /\ Settled /\ stage[Entry] = "unborn"
    /\ Gone
    /\ UNCHANGED callerVars

SelectDone ==
    /\ Controlled
    /\ ~ Scheduled
    /\ Done
    /\ UNCHANGED <<routine, at, children, trace, ppc, callerVars>>

\* Mutant of SelectDeadlock: nothing is pushed onto E.
SelectDeadlockUnpushed ==
    /\ Controlled
    /\ ~ Scheduled
    /\ Deadlock
    /\ UNCHANGED <<routine, at, children, trace, ppc, callerVars>>

SelectDeadlock ==
    /\ Controlled
    /\ ~ Scheduled
    /\ Deadlock
    /\ trace' = Append(trace, recorded'.last)
    /\ UNCHANGED <<routine, at, children, ppc, callerVars>>

\* After the error the threads go on without the scheduler.
PerformFreely(t) ==
    /\ ppc = "running" /\ status = "ERROR"
    /\ stage[t] = "waiting" /\ CanGoOn(task[t])
    /\ Performs(t)
    /\ UNCHANGED <<routine, at, children, trace, ppc, callerVars>>

\* close and dump_execution: the assertion in last() fails if E is empty; record.txt
\* is opened, written, and record_short.txt after it.
OpenRecord ==
    /\ ppc = "running" /\ status # "RUNNING" /\ cwd.record.run # runs
    /\ IF trace = <<>>
       THEN Gone /\ UNCHANGED cwd
       ELSE /\ cwd' = [cwd EXCEPT !.record =
                         [program |-> program, run |-> runs, execution |-> trace,
                          end |-> status, strategy |-> StrategyTag,
                          scheduled |-> Len(schedule), whole |-> FALSE]]
            /\ UNCHANGED processVars
    /\ UNCHANGED <<buildVars, rpc, runs, schedule, settings, out, source>>

WriteRecord ==
    /\ ppc = "running"
    /\ cwd.record.run = runs /\ ~ cwd.record.whole
    /\ cwd' = [cwd EXCEPT !.record.whole = TRUE]
    /\ UNCHANGED <<processVars, buildVars, rpc, runs, schedule, settings, out, source>>

OpenShortRecord ==
    /\ ppc = "running"
    /\ cwd.record.run = runs /\ cwd.record.whole /\ cwd.short.run # runs
    /\ cwd' = [cwd EXCEPT !.short = [cwd.record EXCEPT !.whole = FALSE]]
    /\ UNCHANGED <<processVars, buildVars, rpc, runs, schedule, settings, out, source>>

WriteShortRecord ==
    /\ ppc = "running"
    /\ cwd.short.run = runs /\ ~ cwd.short.whole
    /\ cwd' = [cwd EXCEPT !.short.whole = TRUE]
    /\ UNCHANGED <<processVars, buildVars, rpc, runs, schedule, settings, out, source>>

\* Mutant of Exit: a deadlock does not terminate the process.
ExitWhenMainEnds ==
    /\ ppc = "running"
    /\ cwd.short.run = runs /\ cwd.short.whole
    /\ stage[0] = "ended"
    /\ Gone
    /\ UNCHANGED callerVars

\* A deadlock terminates the process; otherwise main joins the scheduler thread
\* when it ends.
Exit ==
    /\ ppc = "running"
    /\ cwd.short.run = runs /\ cwd.short.whole
    /\ status = "DEADLOCK" \/ stage[0] = "ended"
    /\ Gone
    /\ UNCHANGED callerVars

\* fork_process ends the process when the time is over.
Timeout ==
    /\ ppc = "running"
    /\ Gone
    /\ UNCHANGED callerVars

ProcessStep ==
    \/ \E t \in Thread :
           \/ AnnounceNext(t) \/ ThreadEnds(t) \/ PerformGranted(t) \/ PerformFreely(t)
    \/ RecordPerformed \/ SelectScheduled \/ SelectByStrategy \/ SelectionError
    \/ UnknownThread \/ SelectDone \/ SelectDeadlock
    \/ OpenRecord \/ WriteRecord \/ OpenShortRecord \/ WriteShortRecord \/ Exit
-----------------------------------------------------------------------------
(***************************************************************************)
(* instrument, run_under_schedule and their caller.                        *)
(***************************************************************************)
AtCaller == rpc \in {"idle", "returned", "threw"}

\* The executables there may be after the three commands.  Each of them may fail, and
\* leaves no file or an empty one; instrument does not look at their results.
CompileToLlvmIr(name) == {name, NoProgram}
RunInstrumentationPass(ir) == {ir, NoProgram}
LinkWithSchedulerLibrary(ir) == {ir, NoProgram}

Built(name) ==
    UNION {UNION {LinkWithSchedulerLibrary(instrumented) :
                      instrumented \in RunInstrumentationPass(ir)} :
           ir \in CompileToLlvmIr(name)}

\* Mutant of Executables: output_dir is not emptied first.
ExecutablesKept(name) ==
    IF name \in Unsupported THEN {program}
    ELSE {IF built = NoProgram THEN program ELSE built : built \in Built(name)}

\* output_dir is emptied, with the executable that was there; get_compiler then throws
\* if it does not know the extension.
Executables(name) == IF name \in Unsupported THEN {NoProgram} ELSE Built(name)

\* instrument, in a directory of its own or the one the records are moved to.
Instrument ==
    /\ AtCaller
    /\ builds + runs < MaxCalls
    /\ builds' = builds + 1
    /\ \E name \in Sources :
          /\ wanted' = name
          /\ program' \in Executables(name)
          /\ rpc' = IF name \in Unsupported THEN "threw" ELSE "idle"
    /\ out' \in {out, NoFiles}
    /\ UNCHANGED <<processVars, runs, schedule, settings, cwd, source>>

\* The executions that may be read from a record: any beginning if it was cut.
Readable(file) ==
    IF file.whole THEN {file.execution}
    ELSE {SubSeq(file.execution, 1, k) : k \in 0 .. Len(file.execution)}

\* write_schedules, with a schedule of the caller's own or of an earlier record.
WriteSchedules ==
    \/ schedule' \in Schedules /\ source' = NoFile
    \/ /\ out.record # NoFile
       /\ \E execution \in Readable(out.record) : schedule' = ScheduleOf(execution)
       /\ source' = out.record

\* write_settings, if there are any: otherwise those of an earlier call stay.
WriteSettings == settings' \in Settings \cup {settings}

\* write_settings, write_schedules, then fork_process: without an executable it has nothing to run.
RunUnderSchedule ==
    /\ AtCaller
    /\ builds + runs < MaxCalls
    /\ WriteSettings /\ WriteSchedules
    /\ runs' = runs + 1
    /\ rpc' = "fork"
    /\ ppc' = IF program = NoProgram THEN "over" ELSE "running"
    /\ UNCHANGED <<turnVars, routine, at, children, trace, buildVars, cwd, out>>

\* Mutant of Moved: the file is copied.
Copied(file) == out' = [out EXCEPT ![file] = cwd[file]] /\ UNCHANGED cwd

Moved(file) ==
    /\ out' = [out EXCEPT ![file] = cwd[file]]
    /\ cwd' = [cwd EXCEPT ![file] = NoFile]

\* boost::filesystem::rename throws if there is no such file.
Rename(file, to) ==
    IF cwd[file] = NoFile
    THEN rpc' = "threw" /\ UNCHANGED <<cwd, out>>
    ELSE rpc' = to /\ Moved(file)

RenameRecord ==
    /\ rpc = "fork" /\ ppc = "over"
    /\ Rename("record", "renamed")
    /\ UNCHANGED <<processVars, buildVars, runs, schedule, settings, source>>

RenameShortRecord ==
    /\ rpc = "renamed"
    /\ Rename("short", "returned")
    /\ UNCHANGED <<processVars, buildVars, runs, schedule, settings, source>>

Next ==
    ProcessStep \/ Timeout \/ Instrument \/ RunUnderSchedule \/ RenameRecord \/ RenameShortRecord

Spec == Init /\ [][Next]_vars
FairSpec == Spec /\ WF_vars(ProcessStep)
-----------------------------------------------------------------------------
\* The values the variables may have.
Files == [program : Sources \cup {NoProgram}, run : 0 .. MaxCalls, execution : Seq(Instruction),
          end : {"none", "DONE", "DEADLOCK", "ERROR"}, strategy : Settings \cup {"none", "Random"},
          scheduled : Nat, whole : BOOLEAN]

ProcessTypes ==
    /\ stage \in [Thread -> Stage]
    /\ task \in [Thread -> Instruction \cup {NoTask}]
    /\ nextTid \in 1 .. NrThreads
    /\ holder \in [Mutexes -> Thread \cup {NoThread}]
    /\ status \in {"RUNNING", "DONE", "DEADLOCK", "ERROR"}
    /\ trace \in Seq(Instruction)
    /\ recorded = [nr |-> Len(trace), last |-> IF trace = <<>> THEN NoTask ELSE Last(trace)]

CallTypes ==
    /\ {program, wanted} \subseteq Sources \cup {NoProgram}
    /\ ppc \in {"off", "running", "over"}
    /\ rpc \in {"idle", "fork", "renamed", "returned", "threw"}
    /\ schedule \in Seq(Thread) /\ settings \in Settings \cup {"none"}
    /\ builds \in Nat /\ runs \in Nat /\ builds + runs <= MaxCalls

FileTypes == {cwd.record, cwd.short, out.record, out.short, source} \subseteq Files

TypeOK == ProcessTypes /\ CallTypes /\ FileTypes

\* The schedule comes from a record of the program that is run.
Replays == source # NoFile /\ source.program = program

\* As long as it lasts, the schedule of a record makes the program perform the
\* instructions of the record one by one, each by the thread with the tid that it had,
\* in whatever order the threads announce them, and also if the record was cut.
ReplayFollows ==
    Replays /\ ~ AtCaller =>
        \A k \in DOMAIN trace \cap DOMAIN schedule : trace[k] = source.execution[k]

\* Both runs follow NonPreemptive where their schedules end, and the schedule of the
\* replay is at least as long as that of the record.
ContinuesAlike ==
    /\ {StrategyTag, source.strategy} = {"NonPreemptive"}
    /\ source.scheduled <= Len(schedule)

\* If the program's threads end in their own turn, the replay of a whole record ends as
\* the record does, with the same execution.  The record of a deadlock has an instruction
\* that was not performed: its replay performs the others, and ends with a selection
\* error.  The replay of a beginning of a record comes to the same end if both runs go on
\* with NonPreemptive, which decides nothing by chance.
ReplayOutcome ==
    Replays /\ ~ AtCaller /\ status # "RUNNING" =>
        /\ source.end = "DONE" /\ (source.whole \/ ContinuesAlike) =>
              status = "DONE" /\ trace = source.execution
        /\ source.end = "DEADLOCK" /\ source.whole =>
              status = "ERROR" /\ trace = Front(source.execution)
        /\ source.end = "DEADLOCK" /\ ContinuesAlike
                /\ Len(schedule) < Len(source.execution) =>
              status = "DEADLOCK" /\ Front(trace) = Front(source.execution)

\* If run_under_schedule returns, and does not throw, then the two files in output_dir
\* are those of this run, and record.txt is complete, whatever runs were killed before.
\* record_short.txt may have been cut by a timeout.
ReturnsOwnRecord ==
    rpc = "returned" =>
        /\ out.record.run = runs /\ out.record.whole
        /\ out.short = [out.record EXCEPT !.whole = out.short.whole]

\* The record that run_under_schedule returns is one of the source that instrument was
\* called with last: if it could not be built, no earlier program runs in its place.
RunsWhatWasInstrumented == rpc = "returned" => out.record.program = wanted

\* The process of a program whose threads end in their own turn ends by itself, without a
\* timeout, unless there was a selection error: then the program is on its own, and may
\* be in a deadlock.
ProcessEnds == ppc = "running" ~> ppc = "over" \/ status = "ERROR"
=============================================================================
