------------------------- MODULE InstrumentedThread -------------------------
(***************************************************************************)
(* A thread of an instrumented program: the control flow of the program,   *)
(* with calls, exceptions and pthread_exit, and what the wrappers do with  *)
(* the call stack of its controllable_thread                               *)
(* (scheduler/controllable_thread.cpp, enter_function and exit_function of *)
(* scheduler/scheduler.cpp).  The program is what InstrumentationPass has  *)
(* made of it, or has left of it when it gave up.  The other threads and   *)
(* the turns are those of Scheduler.                                       *)
(***************************************************************************)
EXTENDS InstrumentationPass

CONSTANTS
    StartRoutine,       \* the first function of a thread that main creates
    StaticInitializer   \* a function that the loader calls before main

\* None of them is a function that the pass leaves out.
ASSUME FirstAssumption ==
    /\ {"main", StartRoutine, StaticInitializer} \cap BlackListed = {}
    /\ "none" \notin {"main", StartRoutine, StaticInitializer}

VARIABLES
    first,        \* the function the thread starts with
    frames,       \* its stack: function and instruction of each activation
    callStack,    \* m_call_stack of its controllable_thread
    registered,   \* the thread has been registered
    unregistered, \* it has created a thread and not registered it yet
    announced,    \* the operation it has announced and not performed yet
    finished,     \* exit_function has taken it for finished
    left,         \* how it ended, "no" as long as it runs
    unwound       \* history: an exception has passed a function without a handler

threadVars == <<first, frames, callStack, registered, unregistered, announced,
                finished, left, unwound>>
vars == <<passVars, threadVars>>

Frame(f, at) == [fn |-> f, at |-> at]

ThreadInit ==
    /\ first = "none" /\ frames = <<>> /\ callStack = <<>>
    /\ registered = FALSE /\ unregistered = FALSE
    /\ announced = NotVisible
    /\ finished = FALSE /\ left = "no" /\ unwound = FALSE

Init == PassInit /\ ThreadInit

Running == frames # <<>> /\ left = "no"

HasBody(f) == f \in DOMAIN program /\ program[f] # <<>>

\* How many of the first d activations are of functions that the pass goes through.
Rank(d) == Cardinality({e \in 1 .. d : frames[e].fn \notin BlackListed})

Top == Last(frames)
Current == program[Top.fn][Top.at]

\* The instruction after the label l of function f.
AfterLabel(f, l) ==
    1 + CHOOSE k \in DOMAIN program[f] : program[f][k] = Label(l)

\* Where f goes on after the instruction at k has been executed.  No block runs on into
\* the next one.
Following(f, k) ==
    LET instr == program[f][k]
    IN  IF instr.kind \in {"invoke", "branch"} THEN AfterLabel(f, instr.to[1])
        ELSE k + 1

\* The stack when the activation on top of fs has executed its instruction.
Advanced(fs) ==
    Append(Front(fs), Frame(Last(fs).fn, Following(Last(fs).fn, Last(fs).at)))

Advance == frames' = Advanced(frames)
-----------------------------------------------------------------------------
\* The main thread comes to main, or to a static initializer before it.  A
\* created thread is registered by its creator, and enter_function waits for that.
\* Nobody is registered in a program the pass gave up, since main is not.
Start ==
    /\ ppc \in {"run", "gave_up"} /\ first = "none"
    /\ \E f \in {"main", StartRoutine, StaticInitializer} :
           /\ HasBody(f)
           /\ f = "main" => ~ HasBody(StaticInitializer)
           /\ first' = f
           /\ frames' = <<Frame(f, 1)>>
           /\ registered' = (ppc = "run" /\ f = StartRoutine)
    /\ UNCHANGED <<passVars, callStack, unregistered, announced, finished, left, unwound>>

RegisterMain ==
    /\ Running /\ Current = RegisterMainThread
    /\ registered' = TRUE
    /\ Advance
    /\ UNCHANGED <<passVars, first, callStack, unregistered, announced, finished, left, unwound>>

\* wrapper_post_..._instruction
Post ==
    /\ Running /\ Current.kind = "post"
    /\ registered
    /\ announced' = Current.what
    /\ Advance
    /\ UNCHANGED <<passVars, first, callStack, registered, unregistered, finished, left, unwound>>

Register ==
    /\ Running /\ Current = RegisterThread
    /\ unregistered' = FALSE
    /\ Advance
    /\ UNCHANGED <<passVars, first, callStack, registered, announced, finished, left, unwound>>

\* enter_function, which waits until the thread is registered.
Enter ==
    /\ Running /\ Current.kind = "enter"
    /\ registered
    /\ callStack' = Append(callStack, Current.what)
    /\ Advance
    /\ UNCHANGED <<passVars, first, registered, unregistered, announced, finished, left, unwound>>

\* exit_function: the thread is finished when the stack gets empty.
Exit ==
    /\ Running /\ Current.kind = "exit"
    /\ registered
    /\ callStack # <<>> /\ Last(callStack) = Current.what
    /\ callStack' = Front(callStack)
    /\ finished' = (finished \/ callStack' = <<>>)
    /\ Advance
    /\ UNCHANGED <<passVars, first, registered, unregistered, announced, left, unwound>>

\* exit_function throws an invalid_argument, which nobody catches.
InvalidCallStack ==
    /\ Running /\ Current.kind = "exit"
    /\ registered
    /\ callStack = <<>> \/ Last(callStack) # Current.what
    /\ left' = "invalid"
    /\ UNCHANGED <<passVars, first, frames, callStack, registered, unregistered, announced,
                   finished, unwound>>
-----------------------------------------------------------------------------
\* A call of a function of the module that has a body.
CallFunction ==
    /\ Running /\ IsCall(Current)
    /\ HasBody(Current.what)
    /\ frames' = Append(frames, Frame(Current.what, 1))
    /\ UNCHANGED <<passVars, first, callStack, registered, unregistered, announced,
                   finished, left, unwound>>

\* The visible operation that an instruction performs.
Performs(instr) ==
    LET operationOf == [pthread_create |-> "Spawn", pthread_mutex_lock |-> "Lock",
                        pthread_mutex_unlock |-> "Unlock"]
        visibleAccesses == {"Load", "Store", "ReadModifyWrite"}
    IN  IF instr.kind = "access" /\ instr.what \in visibleAccesses THEN instr.what
        ELSE IF IsCall(instr) /\ instr.what \in Joins THEN "Join"
        ELSE IF IsCall(instr) /\ instr.what \in DOMAIN operationOf
        THEN operationOf[instr.what]
        ELSE NotVisible

\* Any other instruction of the program.
Perform ==
    /\ Running
    /\ \/ Current.kind \in {"access", "branch"}
       \/ IsCall(Current) /\ ~ HasBody(Current.what) /\ Current.what \notin Leaving
    /\ announced' = NotVisible
    /\ unregistered' = (unregistered \/ Performs(Current) = "Spawn")
    /\ Advance
    /\ UNCHANGED <<passVars, first, callStack, registered, finished, left, unwound>>

ReturnFromFunction ==
    /\ Running /\ Current = Return
    /\ IF Len(frames) = 1
       THEN left' = "returned" /\ UNCHANGED frames
       ELSE frames' = Advanced(Front(frames)) /\ UNCHANGED left
    /\ UNCHANGED <<passVars, first, callStack, registered, unregistered, announced,
                   finished, unwound>>

ExitThread ==
    /\ Running /\ IsCall(Current) /\ Current.what = "pthread_exit"
    /\ left' = "exited"
    /\ UNCHANGED <<passVars, first, frames, callStack, registered, unregistered, announced,
                   finished, unwound>>

\* An exception leaves the activations above depth: the innermost one of the
\* others that is in an invoke goes on with its handler.
Unwind(depth) ==
    LET handlers == {d \in 1 .. depth :
                         program[frames[d].fn][frames[d].at].kind = "invoke"}
        h == frames[Max(handlers)]
    IN  IF handlers = {}
        THEN left' = "terminated" /\ UNCHANGED <<frames, unwound>>
        ELSE /\ frames' = Append(SubSeq(frames, 1, Max(handlers) - 1),
                                 Frame(h.fn, AfterLabel(h.fn, program[h.fn][h.at].to[2])))
             /\ unwound' = (unwound \/ Max(handlers) < depth)
             /\ UNCHANGED left

\* The program throws, or a function that is not instrumented may.
Throw ==
    /\ Running /\ IsCall(Current) /\ Current.what \in {"throw", "library"}
    /\ Unwind(Len(frames))
    /\ UNCHANGED <<passVars, first, callStack, registered, unregistered, announced, finished>>

\* resume goes on with an exception that a handler has seen.
ResumeException ==
    /\ Running /\ Current = Resume
    /\ Unwind(Len(frames) - 1)
    /\ UNCHANGED <<passVars, first, callStack, registered, unregistered, announced, finished>>

ThreadNext ==
    \/ Start \/ RegisterMain \/ Post \/ Register \/ Enter \/ Exit \/ InvalidCallStack
    \/ CallFunction \/ Perform \/ ReturnFromFunction \/ ExitThread \/ Throw
    \/ ResumeException

Next == (PassNext /\ UNCHANGED threadVars) \/ ThreadNext

Spec == Init /\ [][Next]_vars
-----------------------------------------------------------------------------
\* The values the variables may have.
TypeOK ==
    /\ todo \subseteq DOMAIN program
    /\ ppc \in {"start", "functions", "run", "gave_up", "crashed"}
    /\ first \in DOMAIN program \cup {"none"}
    /\ \A d \in DOMAIN frames :
           frames[d].fn \in DOMAIN program /\ frames[d].at \in DOMAIN program[frames[d].fn]
    /\ ToSet(callStack) \subseteq DOMAIN program
    /\ {registered, unregistered, finished, unwound} \subseteq BOOLEAN
    /\ left \in {"no", "returned", "exited", "invalid", "terminated"}

\* A thread performs a visible instruction iff the last thing it did is to announce
\* the same operation, also after calls, invokes and handlers: none is missed, none
\* is announced and not performed, and none is announced twice.  A function whose name
\* is blacklisted is not instrumented, and a compare-exchange is not announced.
\* A program that the pass gave up half way announces nothing at all, so that there is
\* no record in which some of its instructions are missing.
AnnouncedIffPerformed ==
    /\ Running /\ ppc = "run" =>
           announced = IF Top.fn \in BlackListed THEN NotVisible ELSE Performs(Current)
    /\ ppc = "gave_up" => announced = NotVisible

\* A thread that has been created is registered by the very next step of its
\* creator, before it can announce anything else, and nothing else is registered: the
\* scheduler waits for the posts of registered threads only.
CreatedIsRegisteredNext ==
    Running /\ ppc = "run" => (unregistered <=> Current = RegisterThread)

\* While no exception has passed a function without a handler, the call stack of
\* the controllable_thread names the functions the thread is in whenever it
\* announces or performs an instruction, so that it is never invalid.
CallStackIsStack ==
    /\ left = "invalid" => unwound
    /\ Running /\ announced # NotVisible /\ ~ unwound =>
           /\ Len(callStack) = Rank(Len(frames))
           /\ \A d \in DOMAIN frames :
                 frames[d].fn \notin BlackListed => callStack[Rank(d)] = frames[d].fn

\* A thread is taken for finished when it ends, and not before the end of its first
\* function: after a return always, after a pthread_exit that is called iff its first
\* function calls it (one that an inner function calls, or one that is invoked, leaves
\* the scheduler waiting).
FinishedIffEnded ==
    /\ finished /\ ~ unwound => left # "no" \/ (Len(frames) = 1 /\ IsExit(Current))
    /\ left = "returned" /\ ~ unwound /\ ppc = "run" => finished
    /\ left = "exited" /\ ~ unwound /\ ppc = "run" =>
           (finished <=> Len(frames) = 1 /\ Current.kind = "call")
=============================================================================
