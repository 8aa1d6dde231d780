------------------------- MODULE InstrumentationPass -------------------------
(***************************************************************************)
(* The instrumentation pass (llvm-pass): it goes through the functions of  *)
(* a module and inserts a call of a wrapper before each visible            *)
(* instruction, after each creation of a thread, and at the entry and the  *)
(* exits of each function.                                                 *)
(*                                                                         *)
(* A function is the sequence of its instructions in the order of an       *)
(* inst_iterator.  Basic blocks begin with a label, which is no            *)
(* instruction: an iterator steps over it.  Operands are left out.         *)
(***************************************************************************)
EXTENDS Integers, FiniteSets, SequencesExt

CONSTANT Programs   \* modules: functions from names to sequences of instructions

Kinds ==
    {"access", "call", "invoke", "label", "branch", "return", "resume",
     "post", "register", "register_main", "enter", "exit"}

\* The calls that the pass inserts.
Wrappers == {"post", "register", "register_main", "enter", "exit"}

\* What the scheduler is told of.
Operations == {"Load", "Store", "ReadModifyWrite", "Spawn", "Join", "Lock", "Unlock"}

\* what: the operation of an access, the function that is called or invoked, the
\* name of a label, or nothing.  to: the labels a branch or an invoke may go on with.
Instruction ==
    [kind : Kinds, what : STRING \cup Operations \cup {""}, to : Seq(STRING)]

Instr(kind, what, to) == [kind |-> kind, what |-> what, to |-> to]

Access(op) == Instr("access", op, <<>>)
Call(f) == Instr("call", f, <<>>)
Invoke(f, normal, unwind) == Instr("invoke", f, <<normal, unwind>>)
Label(l) == Instr("label", l, <<>>)
Branch(l) == Instr("branch", "", <<l>>)
Return == Instr("return", "", <<>>)
Resume == Instr("resume", "", <<>>)

\* The wrappers, with the operation or the function name they are given.
PostInstruction(op) == Instr("post", op, <<>>)
RegisterThread == Instr("register", "", <<>>)
RegisterMainThread == Instr("register_main", "", <<>>)
EnterFunction(f) == Instr("enter", f, <<>>)
ExitFunction(f) == Instr("exit", f, <<>>)

VARIABLES
    program,  \* the module, as far as it has been instrumented
    todo,     \* the functions the pass still has to go through
    ppc       \* where the pass is

passVars == <<program, todo, ppc>>

IsCall(instr) == instr.kind \in {"call", "invoke"}

NotVisible == "none"

\* The last one is std::thread::join on a type that is not known as std::thread.
Joins == {"pthread_join", "thread::join", "renamed thread::join"}

\* Calls that do not come back.
Leaving == {"pthread_exit", "throw"}

\* A block ends with such an instruction, and nowhere else.
EndsBlock(instr) ==
    \/ instr.kind \in {"invoke", "branch", "return", "resume"}
    \/ instr.kind = "call" /\ instr.what \in Leaving

\* A function is made of blocks: after a label, or the entry, come instructions up to one
\* that ends the block, and what it may go on with is there.
HasBlocks(body) ==
    /\ body \in Seq(Instruction)
    /\ body # <<>> => body[1].kind # "label"
    /\ \A k \in DOMAIN body :
          /\ body[k].kind = "return" => body[k] = Return
          /\ body[k].kind = "resume" => body[k] = Resume
          /\ body[k].kind = "branch" => Len(body[k].to) = 1
          /\ body[k].kind = "invoke" => Len(body[k].to) = 2
          /\ \A i \in DOMAIN body[k].to :
                \E j \in DOMAIN body : body[j] = Label(body[k].to[i])
          /\ ~ EndsBlock(body[k]) => k < Len(body) /\ body[k + 1].kind # "label"

\* A function as a compiler makes it.
IsFunctionBody(body) ==
    HasBlocks(body) /\ \A k \in DOMAIN body : body[k].kind \notin Wrappers

\* What the program is linked with; no module has a body for these functions.
Library ==
    {"pthread_create", "pthread_mutex_lock", "pthread_mutex_unlock"} \cup Joins \cup Leaving

\* Modules have a main.  A declaration has an empty body.
ASSUME ProgramsAssumption ==
    \A module \in Programs :
        /\ "main" \in DOMAIN module /\ module["main"] # <<>>
        /\ DOMAIN module \subseteq STRING
        /\ \A f \in DOMAIN module :
              /\ IsFunctionBody(module[f])
              /\ f \in Library => module[f] = <<>>

\* Mutant of Visit: what is invoked is not looked at.
VisitCallsOnly(instr) ==
    CASE instr.kind = "access" /\ instr.what \in {"Load", "Store", "ReadModifyWrite"}
             -> instr.what
      [] instr.kind = "call" /\ instr.what = "pthread_create" -> "Spawn"
      [] instr.kind = "call" /\ instr.what \in Joins -> "Join"
      [] instr.kind = "call" /\ instr.what = "pthread_mutex_lock" -> "Lock"
      [] instr.kind = "call" /\ instr.what = "pthread_mutex_unlock" -> "Unlock"
      [] OTHER -> NotVisible

\* creator::visit: the operation of a visible instruction.  A compare-exchange has
\* no visitor, and an indirect call no callee.
Visit(instr) ==
    CASE instr.kind = "access" /\ instr.what \in {"Load", "Store", "ReadModifyWrite"}
             -> instr.what
      [] IsCall(instr) /\ instr.what = "pthread_create" -> "Spawn"
      [] IsCall(instr) /\ instr.what \in Joins -> "Join"
      [] IsCall(instr) /\ instr.what = "pthread_mutex_lock" -> "Lock"
      [] IsCall(instr) /\ instr.what = "pthread_mutex_unlock" -> "Unlock"
      [] OTHER -> NotVisible

\* Functions::blacklisted; the wrappers, blacklisted as well, have no body.
BlackListed ==
    {"fflush", "llvm.memcpy.p0i8.p0i8.i64", "malloc", "printf", "pthread_exit",
     "pthread_mutex_lock", "pthread_mutex_unlock", "pthread_create"}
-----------------------------------------------------------------------------
\* Mutants of IsExit: pthread_exit is no exit; resume is no exit.
IsReturnOrResume(instr) == instr.kind \in {"return", "resume"}

IsReturnOrPthreadExit(instr) ==
    \/ instr.kind = "return"
    \/ instr.kind = "call" /\ instr.what = "pthread_exit"

\* The instructions before which LightWeightPass::instrumentFunction exits.
IsExit(instr) ==
    \/ instr.kind \in {"return", "resume"}
    \/ instr.kind = "call" /\ instr.what = "pthread_exit"

\* It asks for the name of the callee of every call, which an indirect one lacks.
CallsIndirectly(body) ==
    \E k \in DOMAIN body : body[k].kind = "call" /\ body[k].what = "indirect"

AddExits(f, body) ==
    FlattenSeq([k \in DOMAIN body |->
                   (IF IsExit(body[k]) THEN <<ExitFunction(f)>> ELSE <<>>)
                   \o <<body[k]>>])

\* Mutant of FollowsSpawn: a creation that is invoked is passed over.
FollowsSpawnCall(body, k) ==
    /\ k > 1
    /\ body[k - 1].kind = "call"
    /\ Visit(body[k - 1]) = "Spawn"

\* The next instruction after a creation, the next one in the order of the
\* function and not of its control flow.
FollowsSpawn(body, k) ==
    LET before == {j \in 1 .. k - 1 : body[j].kind # "label"}
    IN  /\ body[k].kind # "label"
        /\ before # {}
        /\ Visit(body[Max(before)]) = "Spawn"

\* runOnVisibleInstruction for each visible instruction before the n-th instruction:
\* wrap.
WrapBefore(body, n) ==
    FlattenSeq([k \in DOMAIN body |->
        (IF k <= n /\ FollowsSpawn(body, k) THEN <<RegisterThread>> ELSE <<>>)
        \o (IF k < n /\ Visit(body[k]) # NotVisible
            THEN <<PostInstruction(Visit(body[k]))>> ELSE <<>>)
        \o <<body[k]>>])

\* A join whose operand has neither of the two types is refused: wrap throws.
Refused(body) == {k \in DOMAIN body : body[k].what = "renamed thread::join"}

\* A creation that is the last instruction has none after it: the end of the
\* function is dereferenced.
EndsInSpawn(body) == Visit(Last(body)) = "Spawn"

\* What instrumentFunction makes of the function f.
Entered(f, body) == <<EnterFunction(f)>> \o AddExits(f, body)

\* Mutant of Instrumented: the name of the global string instead of the string.
InstrumentedWithVariableName(f, body) ==
    LET entered == <<EnterFunction("_recrep_function_name_")>> \o AddExits(f, body)
    IN  WrapBefore(entered, Min(Refused(entered) \cup {Len(entered) + 1}))

\* instrumentFunction, then the loop over the visible instructions, up to one that is
\* refused.
Instrumented(f, body) ==
    LET entered == Entered(f, body)
    IN  WrapBefore(entered, Min(Refused(entered) \cup {Len(entered) + 1}))
-----------------------------------------------------------------------------
PassInit ==
    /\ program \in Programs
    /\ todo = DOMAIN program
    /\ ppc = "start"

\* A module has the declarations and the types of what it uses.
Uses(names) ==
    \E f \in DOMAIN program : \E k \in DOMAIN program[f] :
        IsCall(program[f][k]) /\ program[f][k].what \in names

\* onStartOfPass, Functions::initialize: without the type pthread_t it throws, which
\* runOnModule catches, and the instructions stay as they are.  A missing
\* pthread_create is cast first: an assertion fails, or the null is noticed and it throws.
OnStartOfPass ==
    /\ ppc = "start"
    /\ \/ Uses({"pthread_create"}) /\ ppc' = "functions"
       \/ ~ Uses({"pthread_create"}) /\ ppc' = "gave_up"
       \/ ~ Uses({"pthread_create"}) /\ Uses(Joins) /\ ppc' = "crashed"
    /\ UNCHANGED <<program, todo>>

\* runOnFunction.  A declaration has an empty body.  When it throws, runOnModule leaves
\* the module as far as it is instrumented.
RunOnFunction ==
    /\ ppc = "functions"
    /\ \E f \in todo :
           /\ todo' = todo \ {f}
           /\ IF f \in BlackListed \/ program[f] = <<>>
              THEN UNCHANGED <<program, ppc>>
              ELSE IF CallsIndirectly(program[f])
                      \/ (EndsInSpawn(program[f]) /\ Refused(program[f]) = {})
              THEN ppc' = "crashed" /\ UNCHANGED program
              ELSE /\ program' = [program EXCEPT ![f] = Instrumented(f, program[f])]
                   /\ ppc' = IF Refused(program[f]) = {} THEN ppc ELSE "gave_up"

\* onEndOfPass: main starts with its registration, before the call that enters it.
OnEndOfPass ==
    /\ ppc = "functions" /\ todo = {}
    /\ program' = [program EXCEPT !["main"] = <<RegisterMainThread>> \o @]
    /\ ppc' = "run"
    /\ UNCHANGED todo

PassNext == OnStartOfPass \/ RunOnFunction \/ OnEndOfPass
=============================================================================
