# Record-Replay in TLA+

Record-Replay instruments a multithreaded program so that every visible
instruction (memory access, mutex operation, thread creation, join) is announced
to a scheduler before it is performed. The scheduler lets one thread at a time
go on, records the execution, and can be given a schedule to replay one. This
directory holds a model of it, the runs that model-check the model with TLC, and
the theorems about it that TLAPS checks.

Paths below are relative to the repository's `src/`.

## The system

| component | state | operations | correct when |
|---|---|---|---|
| visible instructions (`program-model/visible_instruction.hpp`) | none | the three kinds of instruction, visitors | operation and operand are told apart |
| `object_state` | two wait sets, the parity of the last operation | `request`, `perform`, `get_data_races` | a mutex is held for the pool iff it is held in the program; races are found |
| `thread_state` | the joiners of a thread | `request` | a join is enabled iff the thread has finished |
| `TaskPool` | posted tasks, thread statuses, current task, objects, two mutexes, a condition variable | `register_thread`, `post`, `yield`, `finish`, `set_current`, `wait_until_unfinished_threads_have_posted`, `program_state` | statuses are accurate when a thread is selected; no deadlock on its mutexes; no notification is lost |
| `Selector` and strategies | none | `select` | the schedule comes first; only an enabled thread is chosen beyond it; deadlock and end are told apart |
| `Scheduler` | tids, registration, status of the execution, the scheduler thread | the wrappers the instrumented program calls; `run`, `schedule_thread`, `close` | one thread at a time; every instruction recorded once, in order; every execution ends |
| `controllable_thread` | a binary semaphore, a call stack | `post_task`, `grant_execution_right`, `enter_function`, `exit_function` | a turn is taken once; the thread finishes with its first function |
| `Execution`, `Transition`, `State` | the recorded transitions | `push_back`, `last`, `pop_last`, ... | each transition starts in the state the last one ended in |
| text formats (`*_io.cpp`) | none | `<<`, `>>` | what is written is read back, or the reading fails |
| replay (`replay.cpp`), `SchedulerSettings` | files | `instrument`, `run_under_schedule` | the record moved is the record of this run, of the program that was asked for |
| instrumentation pass (`llvm-pass`) | none | one call before each visible instruction, calls at entry and exit of functions | each visible instruction is announced exactly once, also in what a failing pass leaves |

**Interaction.** A thread of the program calls a `wrapper_post_*` function before a
visible instruction. `Scheduler::post_task` finds its tid, lets the pool handle
what the thread performed last (`TaskPool::yield`), posts the new instruction
(`TaskPool::post`) and waits on the semaphore of its `controllable_thread`. The
scheduler thread runs rounds: it waits until every unfinished thread has posted,
records the current task, selects a thread, moves its task from `mTasks` to
`mCurrentTask` and posts its semaphore. `exit_function` of a thread's first
function yields and finishes it. The shared state is guarded by `mMutex`,
`m_objects_mutex`, `mRegMutex` and `mStatusMutex`; the rounds rely on the fact that
nobody else is in the pool.

**Hard behaviours.** What the program does and what the pool believes advance at
different times: a lock is taken by the program when it is granted and by the pool
when its thread announces the next instruction. The status of a waiting thread is
changed by others. A created thread is registered by its creator, after it may
have started. A thread may end while another one runs. The mutexes of the pool
are nested in both orders. A selection error turns the control off while threads
wait. `PROJECT.json` lists these under `hazards`, each at its line.

## Modules

| module | models |
|---|---|
| `VisibleInstruction` | the instructions and visitors |
| `ObjectState` | `object_state`, as operators on a record of the wait sets and the parity |
| `TaskPool` | the state of the pool, and its operations split where threads can interleave |
| `Selector` | the schedule, `NonPreemptive`, and `Random` as any choice |
| `Scheduler` | the program's threads and the scheduler thread; composes the four above |
| `SchedulerProperties` | its properties, and the refinement mapping to `TurnTaking` |
| `SchedulerInvariant` | the inductive invariants `IInv` and `RecordInv`, in named parts |
| `PoolInvariant` | the inductive invariant `PoolInv`, on top of them |
| `SchedulerSafety`, `SchedulerPool` | the proofs, each built on the one before |
| `TurnTaking` | what the scheduler promises: the abstract specification |
| `Registration` | `pthread_t` values, tids, threads the scheduler does not know, creations that fail |
| `RegistrationInvariant`, `RegistrationProofs` | its inductive invariant `RegInv`, and the proofs |
| `Execution` | the container of transitions, as operators on a record |
| `TextFormats`, `TextFormatsProofs` | the words of instructions and states, and how they are read; the proofs about them |
| `ExecutionIO` | an `Execution` that changes, and the reader of its text, line by line; composes the two above |
| `ExecutionIOInvariant`, `ExecutionIOProofs` | its inductive invariant `IOInv`, and the proofs |
| `RecordReplay` | `instrument` and `run_under_schedule` called again and again, their files, the schedule of a record, the settings; runs a program under `TurnTaking` |
| `RecordReplayInvariant`, `RecordReplayProofs` | its inductive invariants, in named parts, and the proofs |
| `InstrumentationPass` | the pass, as functions on sequences of instructions, and the order in which it visits functions |
| `InstrumentedThread` | a thread of a program the pass has instrumented; composes it with the call stack |
| `InstrumentedThreadInvariant`, `InstrumentedThreadProofs` | the inductive invariant `ThreadInv` of a thread that runs it, and the proofs, with what the pass makes of any function |
| `SequenceLemmas` | smallest numbers and concatenated sequences, for the proofs |
| `MC...` | the sets and programs the configurations use |

### Scheduler

**State.** The variables of `TaskPool` and `Scheduler` have the names of the code's
members; `mMutex`, `mObjectsMutex` and `mRegMutex` hold the thread that keeps the
mutex from one action to the next. `pc` says where a thread is in the code
(`ThreadPc` lists the places), `spc` where the scheduler thread is.
`owner` and `joined` belong to the program: the real mutexes and joins, against which the pool's
idea of them is compared. `performed` is a history variable. Of the execution, `recorded` keeps the number of
transitions, the instruction of the last one and the `State` it ends in, which is all that a step of the scheduler adds to.

**Actions.** A critical section is one action, unless another mutex is acquired
inside it; then it is split there, which is what makes the lock order visible.
`Post`/`PostRequest`/`EndPost` are `TaskPool::post`: the insertion into `mTasks`
with `mMutex` taken, the request under `m_objects_mutex`, and the status, which is set
after that mutex is released. `Yield`/`EndYield`, `RegisterInPool`/`EndRegister`
and `Finish`/`EndFinish` are split likewise. A round of the scheduler thread is
`Record`, `Select`, `Dispatch`, `MakeCurrent`, `Grant`. An assertion that fails, or an exception nobody
catches, sets `failed`.

**The program.** It is any program: `Announce` lets a running thread come to any
visible instruction that is legal for it (it unlocks only what it holds, joins a
thread once and never joins main, and joins registered threads), and `Execute` performs it with real
mutexes and joins. `EagerExit` separates two classes. When it is `TRUE` a thread
may end at any moment. When it is `FALSE` a thread ends only after a visible
instruction of its own other than a creation, so that it is the current task while it ends and
nobody else is moving: it ends in its own turn. The two defects `lost_wakeup` and `lock_cycle` below need
`EagerExit`, and their consequences (a false deadlock, a hang) would drown the rest; the
runs `core` and `three` therefore keep to the second class, and `any_program` to the
first, with the properties that hold there too. `Registration` and `RecordReplay` build on the second
class as well: what they say of deadlocks and ends is not true of a program that has a thread that ends
right after a creation, or without any visible instruction.

**What it promises.** `TurnTaking` has no pool, no mutexes and no semaphores: threads announce,
one that can go on is chosen when all have announced, it performs, the execution grows by its
instruction, and the end is told. `Turns` in `SchedulerProperties` maps the state of
`Scheduler` to it: `StageOf` forgets where a thread is inside a call. The statuses of
the pool are gone in `TurnTaking`; whether a thread can go on is decided from the mutexes and
the threads of the program, so that the refinement says the pool's idea of them is right.

### Registration

`Scheduler` identifies a thread with its tid. Here a thread of the program knows its
`pthread_t`, and every call goes through `mThreads`. A call is one step up to its wait, since
`Scheduler` has the sections of the mutexes. This is justified because a thread of instrumented code ends in its own turn
only (`MayEnd`, as `MayReturn` of `Scheduler` without `EagerExit`): the last visible instruction it has come to was posted and is no
creation, so that all other threads wait, have ended, or are unknown to the scheduler (`EndsAlone`, a part of `RegInv`). No `finish` then falls between
the request of a join and its status in `post` (`task_pool.cpp:292`, `:294`), nor meets another call that locks the two mutexes of the pool
in the other order. Two posts at a time remain possible, of a thread and of one it has created; they change different statuses and tasks. A thread is created by instrumented code
(`PostSpawnInstruction`, `Perform`, `RegisterCreatedThread`) or by a library
(`CreateInLibrary`), and joined by its creator; a join of a thread the scheduler
does not know is not posted (`pc = "uncontrolled"`). `ReusePids` lets the system use a `pthread_t`
again after the join. `MayFail` lets one creation fail: the registration that the pass has inserted
follows it anyway, with the tid that was taken and whatever is in the `pthread_t`, and that tid never posts (`failed` remembers it). `givenTid` is a history variable.

### Execution and its text

`Execution` has the record and `push_back`, `pop_last`, `set_status` and the assignment `close` makes
to the last `post`. In `ExecutionIO` an execution grows, shrinks and is closed; between two
changes any beginning of its text is read, into a new `Execution` or into one read earlier.
A line is a kind and a value, and a line that is cut is
recognized as such, except that a separator is known by its first character and that a
`State` may be assigned when half of it was read (`CutState`). One turn of the loop in
`operator>>` is one or two actions.

What a line consists of is in `TextFormats`: each `operator<<` gives a sequence of words, each `operator>>` takes words from
the front and returns what it read and what is left, or nothing. A word is a string, a number or an address; white space separates
words, ends of lines as well. File names are the point where this is fragile: they are written as
they are and read as one word, so a name with a space gives two words. `LinesAreRead` connects the two modules: what the line model
assumes of a line (whole and legible ones are read, others fail) is what the words do.

### Record and replay

A program is a set of routines, sequences of visible instructions, so that what differs between
two runs is their order and the tids only. The routines are those for which `Scheduler` implements
`TurnTaking` (`RoutinesAssumption`): none is empty or ends with a creation, a mutex is unlocked by a thread that has locked it, a thread is joined once. In another program a thread may end
while others post, which may leave a joiner disabled or lock the pool's mutexes in opposite order, and the process ends in another way than `TurnTaking` says, or not at all. The process is `TurnTaking` with the
choice bound by the schedule; `trace` is the execution it has recorded. It writes two files,
in four steps (`OpenRecord`, `WriteRecord`, `OpenShortRecord`, `WriteShortRecord`), and `Timeout` may end it
before, between or after them. `instrument` empties its output directory and runs three commands whose results it does not
look at; each may fail and leave nothing of use. `run_under_schedule` writes the settings, if it is given any, and the schedule, starts the process
if there is an executable, and moves the files, if they are there. Behind the schedule the process follows `NonPreemptive`, or chooses as it likes
(`Random`, the default when there is no settings file). The next schedule is one of the user's or `ScheduleOf` a
record in the output directory, whole or cut.

### Instrumentation

`InstrumentationPass` rewrites a function, a sequence of instructions with labels, branches, calls, invokes and
resumes, as `wrap`, `runOnVisibleInstruction` and `instrumentFunction` do, and visits the functions in any order.
The pass throws when a type or a declaration is missing, before it has changed anything, and when a join has an operand of neither type, halfway through a function; `runOnModule`
catches the exception and leaves the module as it is then (`gave_up`). An assertion, or a null that is used, crashes it.
`InstrumentedThread` runs the result: main, a created thread or a static initializer.
It has the stack of the program, with exceptions and `pthread_exit`, and `m_call_stack`.

**External code.** `BinarySem`, `fork_process` and `utils_io` come from a submodule
that is not in the repository. The semaphore is modelled from its use: a Boolean
that `grant_execution_right` raises and `wait` lowers. `fork_process` is assumed to end the process at
some point when it is given a timeout, and to return; `skip` to leave out whole lines.

## Runs

| run | bounds | checks |
|---|---|---|
| `core` | 2 threads, 4 instructions each, 2 mutexes, 1 location, `EagerExit = FALSE` | `TypeOK`, `MutexMirrored`, `GrantedNeverBlocks`, `NoFailure`, `ImplementsTurnTaking` |
| `three` | 3 threads, 4 instructions each, 1 mutex, both strategies, the schedules `<<>>` and `<<0, 1>>`, `EagerExit = FALSE` | `StatusAccurate`, `NoPreemption`, `Terminates` |
| `any_program` | 2 threads, 3 instructions each, 1 mutex, 1 location, four schedules, `EagerExit = TRUE` | `PoolInv`, `RoundExclusive`, `OnlyCurrentPerforms`, `DoneMeansFinished`, `RecordComplete`, `RecordedTransitions`, `FinishedForever`, `ErrorReleases` |
| `registration` | 3 threads, 3 `pthread_t` values, 5 calls of a thread, no reuse, one creation may fail, threads end in their own turn | `RegInv`, `OwnTid`, `JoinsItsThread`, `NoFalseDeadlock`, `DoneMeansEnded`, `Ends` |
| `execution_io` | 2 transitions, 3 instructions, one of them in a file whose name has a space, 2 states, 1 status | `IOInv`, `ExecutionsChained`, `GoodReadIsComplete`, `ReadIsPrefix`, `WholeRecordIsRead`, `LinesAreRead`, `ReadEnds` |
| `record_replay` | 3 programs of up to 3 threads that end in their own turn and a source that cannot be built, 3 schedules or that of a record, settings or none, 4 calls | `RecordReplayInv`, `ReplayFollows`, `ReplayOutcome`, `ReturnsOwnRecord`, `RunsWhatWasInstrumented`, `ProcessEnds` |
| `instrumented_thread` | about 5300 programs of up to 4 functions | `ThreadInv`, `AnnouncedIffPerformed`, `CreatedIsRegisteredNext`, `CallStackIsStack`, `FinishedIffEnded` |
| `lost_wakeup` | 2 threads, 2 instructions, `EagerExit = TRUE` | violates `JoinersEnabled` |
| `lock_cycle` | the same | violates `NoLockCycle` |
| `data_races` | 2 threads, 2 stores, `EagerExit = FALSE` | violates `DataRacesFound` |
| `fresh_tids` | one program, two threads that create one each | violates `ReplayFollows` |
| `pid_reuse` | as `registration`, with reuse | violates `OwnTid` |

**What the passing runs show.**
- `core`: for every program of this size and every choice of the scheduler, deadlocks
  included, the scheduler is `TurnTaking`. `MutexMirrored` says the pool's mutexes agree with the real
  ones whenever a thread is selected.
- `three`: the statuses in the pool are the truth when a thread is selected (`StatusAccurate`), with several threads waiting for one, `NonPreemptive` keeps to a
  thread that can go on, and every execution comes to its end.
- `any_program`: what remains true when threads end while others run, and under schedules that do not fit. Of the
  record it says that it is complete when a thread is selected, and that a recorded transition starts in a state in which
  its instruction is next and enabled, and ends in one in which the other threads still wait with theirs.
- `registration`: a thread acts and is joined under the tid its creator took, whoever is
  registered when, and threads the scheduler does not know neither stop it nor count. That no deadlock is reported (`NoFalseDeadlock`) and that every
  execution ends (`Ends`) is shown for threads that end in their own turn; what goes wrong otherwise is in `lost_wakeup` and `lock_cycle`. After a creation that failed the
  execution does not end, since a tid is waited for that nobody has, but it is never called done or a deadlock.
- `execution_io`: however a record is cut, and in however many readings, what is read is a prefix of what was written,
  and a good stream means all of it. The words of every kind of instruction are read back as they were written; a file name with a space
  makes the reading fail and is never read as something else.
- `record_replay`: for programs whose threads end in their own turn, a replay does what the record says and ends as it ended, and a process ends by itself; `run_under_schedule` returns the files of its own
  run or throws; what it returns is of the source that `instrument` was called with last, however its commands failed.
  The replay of a beginning of a record comes to the same end if both runs go on with `NonPreemptive` (`ContinuesAlike`).
- `instrumented_thread`: each visible instruction is announced once, right before it is performed; a created thread is
  registered next; the call stack is right as long as no exception skips an exit; a program that the pass has given up announces nothing.

**Why the bounds are enough.** Two threads and two mutexes give the deadlock in which
each thread holds what the other one wants; four instructions allow a creation and
three operations, so that a mutex is locked, contended, unlocked and locked again.
Three threads give two waiting threads that one unlock, or one finish, enables, and
a thread created by a created thread. The schedules of `any_program` contain ones that fit, ones
that name a blocked thread, and ones that end early. `MaxCalls` (of `Scheduler`: instructions of a thread; of `RecordReplay`: calls of the two functions; of `Registration`: calls of a thread) is the only bound on a behaviour, with
`MaxTransitions` in `ExecutionIO`. In `Registration` one call is kept for the instruction after which a thread may end (`CallLeft`), so that a creation, a creation in a library and a
join without a tid are followed by it, and nobody gets stuck at the bound. Two transitions give a record that can be extended after it was
read, cut in its second half, and popped. Four calls give a build, a record, its replay and
the replay of that, or a killed run or a failed build in between. The programs of `instrumented_thread` combine calls, invokes,
handlers that stop an exception and handlers that do not, and functions of the C library with visible effects.

**Deadlock** is checked in `core`, `three`, `execution_io` and `data_races`: the model never gets stuck before the
process is over. It is not in `any_program`, `lost_wakeup` and
`lock_cycle`, where the system may really stop, by the lock cycle, nor where the model
ends by itself: in `instrumented_thread` and `registration` with the thread or the execution, in
`record_replay` and `fresh_tids` after `MaxCalls` calls. There `Ends` and `ProcessEnds` say that it is the end.

**Fairness.** The operating system runs what can run: `Fairness` is weak fairness of the scheduler thread and of each
thread of the program, and so is that of `Registration`. Weak fairness
suffices because a thread that waits for a mutex of the scheduler competes for
it only finitely often. `ExecutionIO` and `RecordReplay` assume that a sequential
reader, and the process as a whole, go on when they can. It is used by `Terminates`, `ErrorReleases`, `Ends`,
`ReadEnds` and `ProcessEnds`.

**Disagreements with the documentation.** The five violation runs are findings,
described with their lines in `PROJECT.json`:
- `lost_wakeup`: a joiner may be disabled for ever, and a deadlock be reported of a
  program that has none, because the status is set after the mutex is released.
- `lock_cycle`: `finish` takes the two mutexes in the opposite order.

  Both need a thread that ends while another one is in a call. The properties about deadlocks and ends of `core`, `three`, `registration` and `record_replay` leave such
  programs out, and do not hold of them.
- `data_races`: the race detection never runs, because its argument is the variant.
- `fresh_tids`: a tid is taken before the turn, so that a replay may give two threads
  each other's tids.
- `pid_reuse`: a `pthread_t` that is used again leads to the tid of the thread that had it before.

Others are part of the models' behaviour and have no run of their own:
- `close` takes the last transition of an execution that may be empty (`CloseExecution` sets `failed`; in
  `RecordReplay`, `OpenRecord` ends the process without a record), where `Execution::last` asserts that there is one.
- The record of a deadlock has a transition for an instruction that nobody performed (`SelectDeadlock`); its replay
  ends in a selection error, as `ReplayOutcome` says.
- An execution without transitions is written and cannot be read back: the reader
  expects a transition after the initial state. `WholeRecordIsRead` is about the others.
- A compare-exchange is not announced (`AnnouncedIffPerformed`), and an indirect call makes the pass crash.
- A record with a file name that has a space cannot be read (`LinesAreRead`).
- A thread that could not be created is registered all the same, and the execution does not end (`Ends` leaves this case out).
- A call of `run_under_schedule` without settings runs under those of an earlier call (`WriteSettings`).

## Proofs

### Scheduler and its pool

What is proved of `Scheduler` holds for every number of threads, every set of mutexes and locations, every
program of bounded length, every set of schedules, and with `EagerExit` or without, unless the table says otherwise. The
assumptions are `NrThreadsAssumption`, `NoTaskAssumption` and
`WorkloadAssumption`, about the constants; the last one says that a mutex is not used as a memory location too.

| theorem | says | if |
|---|---|---|
| `TypeCorrect` (`SchedulerSafety`) | `Spec => []TypeOK` | |
| `Invariance` (`SchedulerSafety`) | `Spec => []IInv` | |
| `RoundsAreExclusive` | `Spec => []RoundExclusive`: the question of the `#todo` above `Scheduler::run` | |
| `OneAtATime` | `Spec => []OnlyCurrentPerforms` | |
| `DoneIsFinished` | `Spec => []DoneMeansFinished` | |
| `RecordInvariance` | `Spec => []RecordInv` | |
| `RecordIsComplete` | `Spec => []RecordComplete` | |
| `RecordFits` | `Spec => RecordedTransitions`, an action property | |
| `PoolInvariance` (`SchedulerPool`) | `Spec => []PoolInv` | |
| `PoolMirrorsMutexes` | `Spec => []MutexMirrored` | |
| `GrantsNeverBlock` | `Spec => []GrantedNeverBlocks` | |
| `FailuresHaveCause` | `Spec => []FailureCause` | |
| `FinishedIsForever` | `Spec => FinishedForever`, an action property | |
| `StatusesAreAccurate` | `Spec => []StatusAccurate` | `EagerExit = FALSE` |
| `NonPreemptiveStays` | `Spec => NoPreemption`, an action property | `EagerExit = FALSE` |
| `NothingFails` | `Spec => []NoFailure` | `EagerExit = FALSE`, no schedule |
| `TurnsAreTaken` | each step is one of `TurnTaking`, hides in one, or ends the execution by an error or an eager deadlock | |
| `SchedulerImplementsTurns` | `Spec => ImplementsTurnTaking` | `EagerExit = FALSE`, no schedule |

The conditions are needed. With `EagerExit` a joiner's status may be wrong (`lost_wakeup`), and a deadlock be reported
that is none; a schedule may name a thread that cannot go on, which is an error that `TurnTaking` does not have.

`TypeOK` is not inductive: an instruction that is posted must be one, so `TypeInv`
adds `CallOK` (a thread that is announcing or registering has an instruction of its own)
and `SelectedOK`.

`IInv` is `TypeInv`, the three properties, and what they rest on. When the
scheduler thread wakes, it knows that every registered thread that is not finished has an
entry in `mTasks`. That this means that nobody is in the pool (lemma
`PostedMeansQuiet`) takes: a thread with an entry is in `post` or waits
(`TaskPosted`); one in `post` holds `mMutex`, which is free (`InPostHoldsMutex`);
a finished thread is leaving (`FinishedLeaves`); a thread without an entry in
`mThreads` has not started (`UnregisteredIdle`), and if it is created, its creator has
not posted yet (`BornIsRegistered`), which needs that tids are fresh (`FreshTids`).
During a round the pool stays still because the semaphores are down (`RoundPosted`,
`ControlIsTurn`), and a semaphore is raised for the current task only
(`GrantedIsWaiting`, `TaskIsCall`). These parts are stated for `Open` states, those
in which the execution runs and nothing has failed; after the end `FinalSettled` says that no thread
moves. The proof goes action by action: `ThreadStepTurn` and
`ThreadStepRegistration` for the threads, `SchedulerStepInv` for the scheduler
thread.

`RecordInv` adds the record to it. `push_back` writes an instruction a round after it was granted, so that
three counters run apart: `TransitionCount` says how far the record is behind `mTaskNr`, `PerformedCount`
that all of what was granted is performed but for the one thread that has its turn, which `IInv` knows to be
the current task's (lemma `TurnIsCurrent`). In a round nobody has it (`RoundPerformed`), and the three agree, which is
`RecordComplete`. For `RecordedTransitions` the invariant remembers across a round that the current
task was next and enabled in the state recorded last (`CurrentWasNext`, from `FinalIsState` and `SelectedEnabled`),
and that nobody else's task has changed since: the others may only post, and one that posts had no task
(`ThreadStepTasks`).

`PoolInv` relates what the pool believes to what the program does. The wait sets hold exactly the instructions that are
requested and not yielded (`WaitSets`, with `Requested`); this is what makes the assertions of `object_state` true. The parity of a mutex is the
real state of the mutex except between the execution of a `Lock` or an `Unlock` and the next `yield` of the same thread (`MutexHeld`,
with `CurrentPending`), and no thread can be between the two in a round, which is `MutexMirrored`. `StatusReady` says what a status
means while things move: an instruction the pool holds for enabled can be performed, one it holds for disabled
cannot, and only of a joiner may the pool miss that it can, if a thread ends while another one runs (`Missed`, which is `lost_wakeup`). It is stated
from the moment the request has found out (`enabling`, `disabling`), before the status is
written. A status that was found out in `post` is still true when it is written because who could change it is not in the pool:
`TurnsAlone` says that a thread that performs, or goes on after its instruction, is the only one that moves, unless that
instruction created a thread, which holds up nothing. A `yield` of another thread sets the status of exactly the posted instructions of
its object (`WokenWait`), a `finish` those of the joiners (`JoinsOnce`). `GrantedCanPerform` then follows when the task is made current (`SelectedCanPerform`), and is kept
by `UnlockOwned` and by the thread being alone. The proof of a thread's step has one lemma for each
part, over lemmas that say once what the actions do: `StepMoves`, `StepCalls`, `StepRequested`, `StepObjects`, `StepJoiners`, `StepStatuses`.
TLC checks `PoolInv`, and with it `RecordInv` and `IInv`, in the run `any_program`.

The refinement maps the state with named functions (`stageBar`, `taskBar`, `nextTidBar`, `recordedBar`, `unrecordedBar` in
`SchedulerProperties`). `PoolInv` gives each step its counterpart: the end of a `post` is hidden, since a thread is waiting for
`TurnTaking` from its announcement on; `Dispatch` and `MakeCurrent` are hidden up to the grant; `Record` is
the growth of the execution by what was performed. `TakesTurn` adds to the
steps of `TurnTaking` the two ends it does not have, and the theorem `SchedulerImplementsTurns` excludes both.

### Registration

| theorem (`RegistrationProofs`) | says | if |
|---|---|---|
| `RegistrationTyped` | `Spec => []TypeInv` | |
| `RegistrationInvariance` | `Spec => []RegInv`, with `EndsAlone` | `ReusePids = FALSE` |
| `TidsAreOwn` | `Spec => []OwnTid` | `ReusePids = FALSE` |
| `JoinsAreRight` | `Spec => []JoinsItsThread` | `ReusePids = FALSE` |
| `NoDeadlockIsInvented` | `Spec => []NoFalseDeadlock` | `ReusePids = FALSE` |
| `DoneIsEnded` | `Spec => []DoneMeansEnded` | `ReusePids = FALSE` |

For every number of threads, every set of `pthread_t` values that is large enough (`RegistrationAssumption`), every number of calls, with a creation that may fail
or without, and for threads that end in their own turn (`MayEnd` is a guard of `ExitFunction`). With reuse `OwnTid` is false (`pid_reuse`).

`TypeInv` holds in any case. That a fresh tid is one of the tids takes a count (`TidsLeft`): a thread is left to be created for every
`get_fresh_tid` that is not followed by its creation yet. `RegInv` adds three groups. Who is who: pthread_t values are distinct, a
tid that was taken is in no map and in no status before its registration (`FreshTids`), and what is in the maps comes from a registration or from
a creation that failed (`Registry`), so that `Insert`, which keeps an entry that is there, always finds none. Who may
go on: a posted task is that of the thread that waits under its tid, a semaphore is up only for a thread that waits, a thread has finished
its tid iff it has ended (`Statuses`), and `OneTurn`. After a failed creation: it is
the last thing that happens in a turn, and leaves a tid that is registered and never posts, so that no round comes again
(`Failure`, `Lost`, lemma `RoundPlace`). `NoFalseDeadlock` needs the order in which threads are created (`CreatorsFirst`): a thread that
waits in a join waits for a later one, and so the last thread that waits is enabled (`NobodyBlocked`). The proof has one lemma for each action.

`RegInv` is `RegistryInv`, these parts, and `EndsAlone`, which says that the single steps of the model lose nothing: while a thread has been granted its turn, or goes on in
it and may end, all others rest. A round comes only when everybody has posted or has ended (`RoundPlace`), and whoever moves later was created by the thread that has
the turn, which may not end until it has posted again. Its lemmas follow the others, one for each action (`MovesAlone` has what they share).

### Execution and its text

| theorem (`ExecutionIOProofs`) | says |
|---|---|
| `ReaderInvariance` | `Spec => []IOInv` |
| `TransitionsAreChained` | `Spec => []ExecutionsChained` |
| `IncompleteIsNoticed` | `Spec => []GoodReadIsComplete` |
| `PrefixIsRead` | `Spec => []ReadIsPrefix` |
| `WholeIsRead` | `Spec => []WholeRecordIsRead` |
| `LinesAreReadBack` | `Spec => []LinesAreRead` |

For all instructions, states, statuses and lengths (`IOAssumption` says what an instruction and a state are). `LinesAreReadBack`
also uses `NamesAssumption`, which is about the environment: a file name of several words holds none of the words `State`,
`enabled` and `disabled`, which the reader looks for behind an instruction. The code does not check names, and in a file `my 2 State [ ] [ ]`
the reader could find a `State` that nobody has written. A name that is one word may be anything.

`IOInv` says where the reader is: `Consumed` lines are behind it, and what is left of the stream are the lines that follow in the text of
the execution, the last one perhaps cut (`InputInv`). Since the text has one line for s0, two for each transition and two at the end (lemma
`TextLines`), a separator, or the beginning of one, is ahead iff all transitions are behind (`SeparatorIsEnd`), and an instruction that can be read is that of the next transition
(`TransitionAhead`). With `Begins`, which holds of what was read from the first line on, a good stream means that all was read. That the two executions are then *equal*, and not only
alike, is `SameTransitions`: their indices and first states are determined by `ExecutionsChained`, which is why it is part of the invariant.
`WholeInv` follows a whole text that is read into a new `Execution`: nothing is cut in what is left, and no transition is skipped.

`LinesAreRead` is about `TextFormats` and proved there (`TextFormatsProofs`). A stream is described by the text that it starts with and by how far it goes, the last word perhaps cut
(`StartsWith`, `AllAhead`); for a word, a tid, an instruction, a `next_t`, a container and a `State` a lemma says that it is read as it was written if all of it is there and its
file names are single words, and that nothing is read otherwise. The lemmas are put together by `AheadParts`: a stream that starts with a text of two parts starts with the first
one, and goes on with the second. A file name of several words takes an argument of its own (`IllegibleRead`, `NoStateBehind`): its beginning may be read as a name and a line, as in `my 2.c`, but what is left is not what should
follow. A container has any number of elements, and is read by a recursion along the stream: since each element consumes some words (`Shortens`) the recursion defines
a function (`ReadingExists`), which is followed from the end of the container to its beginning (`ContainerRead`); both inductions are made on a smallest counterexample.

### Record and replay

| theorem | says | if |
|---|---|---|
| `FilesInvariance` (`RecordReplayProofs`) | `Spec => []FilesInv` | |
| `OwnRecordIsReturned` | `Spec => []ReturnsOwnRecord` | |
| `WhatWasInstrumentedIsRun` | `Spec => []RunsWhatWasInstrumented` | |
| `TraceInvariance` | `Spec => []TraceInv` | |
| `ReplayIsFollowed` | `Spec => []ReplayFollows` | only main creates threads, in each of the programs |
| `LengthsInvariance` | `Spec => []LengthsInv` | |
| `OutcomeInvariance` | `Spec => []OutcomeInv` | no routine is empty or ends with a creation (`RoutinesAssumption`) |
| `ReplayEndsAsRecorded` | `Spec => []ReplayOutcome` | only main creates threads, in each of the programs, and no routine is empty or ends with a creation (`RoutinesAssumption`) |
| `RecordReplayInvariance` | `Spec => []RecordReplayInv` | only main creates threads, in each of the programs |

For all programs that satisfy `ProgramsAssumption` (a join is of a thread that its routine has created before it, mutexes are what is locked, and there are tids for all creations), all schedules of threads
(`SchedulesAssumption`) and settings, and however a process or a command ends. `RoutinesAssumption` is not used by the steps of the proofs. It is what makes `TurnTaking` the
right process: without it, what `OutcomeInvariance` and `ReplayEndsAsRecorded` say of a record's end would be true of the model and not of the code. TLC evaluates it for the programs of the runs.

`FilesInv` follows a file from its opening to the caller: `record.txt` in the working directory is always of this call
(`RecordInv`), and `record_short.txt` is opened only when `record.txt` is complete (`ShortInv`), so that the file that exists last proves the one that is returned.

`TraceInv` is why a replay does what the record says. The process does not look at the record, only at its tids. If only main creates threads, a tid determines
a routine (`ThreadsInv`: the thread t > 0 is created by the t-th creation of main), and the n-th instruction of a tid is a function
of the program (`InstructionOf`), whatever the order was in which the threads announced theirs. So an execution is determined by its tids: each transition is the next instruction of its thread (`IsExecutionOf`, kept by
`AnnouncedInv`, `GrantedInv` and `UnrecordedInv` from the announcement to the record). So two executions that have the same tids up to some place have the same
instructions there (lemma `TidsDetermine`). The condition is needed: if created threads create threads, tids are taken in the order of announcements, which no schedule
controls (`fresh_tids`). `TraceInv` says it program by program (`OnlyMainCreates`), so that TLC checks it in `record_replay` and the condition is one on programs only.

`OutcomeInv` is why it also *ends* as the record did, which the instructions alone do not tell: a deadlock, and what `NonPreemptive` prefers, depend on who can go on. The
answer is again in the execution. After its first n transitions a thread is there iff main's creation of it is among them, has ended iff as many of them are its as
its routine has steps, and a mutex is held iff the last operation on it is a lock; from these follow the threads that wait, those that can go on, and the one that is preferred
(`WaitingAfter`, `ReadyAfter`, `PreferredAfter`). `StagesInv` and `HoldersInv` say that the process is in the state that its execution gives, `ChosenInv` that who has the turn was one that
could go on and, behind the schedule, the preferred one; `RunsInv` keeps this for every transition of the process and of the three records that may be replayed, and
says of each end what it means. `EndInv` adds how far the schedule was followed. Now let a replay end whose tids are those of the record up to the end of the shorter one. Executions that are equal up to n agree on who is ready
after n (lemma `AlikeState`): the process cannot be done, in a deadlock or in a selection error while the record goes on, nor go on where the record ended, and the two ends are the same. A schedule gives equal tids up
to its length (`LengthsInv`: that of a whole record is as long as the record); behind it `AlikeInv` gives them if both follow `NonPreemptive`.

`RecordReplayInv`, the invariant that TLC checks, puts `TypeOK` together with `FilesInv`, `LengthsInv` and `TraceInv`. What `TypeOK` rests on is `WorkInv`: a tid is free for each
creation that main has announced and not performed, and each join has a child to be joined, since a routine joins only what it has created before. `TraceInv` knows this only as long as the scheduler
controls the threads, and after a selection error they go on without it, so that `WorkInv` says it again without the execution, by counting. The condition is needed here too: `ProgramsAssumption` leaves room for the threads that main creates.

`OutcomeInv` is not part of `RecordReplayInv`: TLC finds it true in all states of the run `record_replay`, but needs more time for it than for all the rest.

### Instrumentation

| theorem | says | if |
|---|---|---|
| `PassInstruments` (`InstrumentedThreadProofs`) | of every function body, what `Instrumented` makes of it | |
| `ThreadInvariance` | `Spec => []ThreadInv` | |
| `EachIsAnnounced` | `Spec => []AnnouncedIffPerformed` | |
| `CallStackIsRight` | `Spec => []CallStackIsStack` | |
| `FinishedWhenEnded` | `Spec => []FinishedIffEnded` | |
| `CreatedAreRegistered` | `Spec => []CreatedIsRegisteredNext` | `CreatesInOrder`, in each of the modules |

For all modules: any set of functions of any length, with any labels, branches, calls, invokes and handlers (`ProgramsAssumption` of `InstrumentationPass` says that a block ends
where it does in LLVM, that there is a main, and that the library's functions have no body; `FirstAssumption`, that the function a thread starts with is one that the pass instruments).

`PassInstruments` is about the loops of `instrumentFunction` and `wrap`, over all blocks and instructions. The rewritten function is a concatenation of small pieces, one for each
instruction. That the instructions are in it where they should be is `IsWeave`: an increasing map gives each instruction its place, and between two places there are only calls of wrappers. For a
concatenation of any length this takes an induction, which is made on a smallest counterexample (`SmallestNumber`). Two passes over a function, for the entry and exits and for the visible
instructions, are composed (`KeepsTransitive`), and the second one does not come between an exit and the call that announces it. Of a function in which a join is refused the part
before that place is instrumented, and of the pass that gives up the invariant keeps nothing but that nobody is registered, which is what makes a half instrumented module harmless (`GaveUpInv`).

`CoreInv` follows a thread through such a module. `PassInv` says which functions the pass has been through when it stops in the middle, and, when it is over, that each function is blacklisted, empty or
`IsInstrumented`. `StackInv` says that every activation below the top one has called the next one where it is, which is where it goes on, or meets the exception. `CallsInv` relates `m_call_stack` to the
stack of the program at every instruction, and not only where `CallStackIsStack` looks: the top activation counts only between its entry and its exit (`Inside`), and the activations of
blacklisted functions not at all (`Rank`). A return and an exception that is caught remove several activations at once, and what remains of the call stack must be that of the one that is met. `FinishedInv` says
that a thread is finished between the exit of its first function and the instruction that leaves it, and nowhere else.

`CreatedAreRegistered` has a condition that is needed: `runOnVisibleInstruction` puts the registration behind the creation in the layout of the function, for an `invoke` at the
beginning of the block that follows it (`FollowsSpawn`), and not where the control flow goes on. Under `CreatesInOrder` the two are the same: an invoked creation goes on with the block that follows it, and nothing else goes on with that
block. The pass does not check it; for the programs of `instrumented_thread` TLC does (`ProgramsCreateInOrder`).

### What is not proved

All safety properties of the passing runs are stated by a theorem. Model-checked only:
- liveness under fairness (`Terminates`, `ErrorReleases`, `Ends`, `ReadEnds`, `ProcessEnds`), which is out of the prover's reach.

## Not modelled

- `thread_state::perform`, `wait_all_finished`, `all_finished` (whose condition is
  the opposite of its description), `has_next`, `nextset_protected`,
  `set_s0`, `set_pre`: nothing in the repository calls them.
- Memory values and the real outcome of a race: the scheduler does not see them.
- `concurrency_error.cpp`: it formats deadlocks and data races for a stream, changes no state, and nothing reads what it writes. The
  exception that carries a deadlock is `SelectDeadlock`. The short and pre/post forms of a transition and debug output likewise.
- The commands that `instrument` runs, beyond that each works or fails, and the file system beyond `rename`, `remove_all` and writing in place.
- Destroyed mutexes whose address is used again: the model's objects are distinct. It would take a program that frees and
  initialises objects, for one more way in which the parity in `object_state` is behind the program.
- Instructions announced after the end of a thread or of the execution, by destructors of thread-local or static objects. Every property about the end of an
  execution would need an exception for them, and no document says what should happen.

## Plan

Done: the scheduler and its pool, `TurnTaking` and the refinement, `Execution`,
`TextFormats` and `ExecutionIO`, `RecordReplay` with `instrument` and the settings, `Registration` with creations that fail, the instrumentation with the modules it gives
up, and the proofs above, of all safety properties that the passing runs check.
