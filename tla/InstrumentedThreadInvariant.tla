--------------------- MODULE InstrumentedThreadInvariant ---------------------
(***************************************************************************)
(* The inductive invariant of InstrumentedThread, in named parts: what the *)
(* pass makes of a function, and what that means for a thread that runs it.*)
(***************************************************************************)
EXTENDS InstrumentedThread

\* Each visible instruction is announced right before it, and nothing else is.
AnnouncesEach(body) ==
    \A k \in DOMAIN body :
        /\ Performs(body[k]) # NotVisible =>
              k > 1 /\ body[k - 1] = PostInstruction(Performs(body[k]))
        /\ body[k].kind = "post" =>
              /\ k < Len(body) /\ Performs(body[k + 1]) = body[k].what
              /\ body[k].what # NotVisible

\* The n-th instruction is the only one that enters f.
EntersAt(f, body, n) ==
    /\ n \in DOMAIN body /\ body[n] = EnterFunction(f)
    /\ \A k \in DOMAIN body :
          /\ body[k].kind = "enter" => k = n
          /\ k < n => body[k] = RegisterMainThread

\* What leaves f comes right after the exit, and an exit has nothing else behind it.
ExitsLast(f, body) ==
    \A k \in DOMAIN body :
        /\ IsExit(body[k]) => k > 1 /\ body[k - 1] = ExitFunction(f)
        /\ body[k].kind = "exit" =>
              k < Len(body) /\ body[k] = ExitFunction(f) /\ IsExit(body[k + 1])

IsInstrumented(f, body, n) ==
    AnnouncesEach(body) /\ EntersAt(f, body, n) /\ ExitsLast(f, body)

\* The block that a creation goes on with follows it in the layout of the function, and
\* nothing else goes on with that block.  (A creation that nothing follows crashes the
\* pass.)
CreationsInOrder(body) ==
    \A k \in DOMAIN body :
        body[k].kind = "invoke" /\ Visit(body[k]) = "Spawn" /\ k < Len(body) =>
            /\ body[k + 1] = Label(body[k].to[1])
            /\ \A j \in DOMAIN body :
                  /\ body[j] = body[k + 1] => j = k + 1
                  /\ \A i \in DOMAIN body[j].to :
                        body[j].to[i] = body[k].to[1] => j = k /\ i = 1

\* The creation that goes on at k.
CreationBefore(body, k) == IF body[k - 1].kind = "label" THEN k - 2 ELSE k - 1

\* What goes on after a creation registers the thread, and nothing else does.
RegistersCreated(body) ==
    \A k \in DOMAIN body :
        /\ body[k] = RegisterThread =>
              CreationBefore(body, k) \in DOMAIN body
              /\ Visit(body[CreationBefore(body, k)]) = "Spawn"
        /\ Visit(body[k]) = "Spawn" =>
              \E j \in {k + 1, k + 2} \cap DOMAIN body :
                  body[j] = RegisterThread /\ CreationBefore(body, j) = k

\* Everywhere in a module threads are created like this, and by functions that the
\* pass goes through.
CreatesInOrder(module) ==
    \A f \in DOMAIN module :
        /\ CreationsInOrder(module[f])
        /\ f \in BlackListed =>
              \A k \in DOMAIN module[f] : Visit(module[f][k]) # "Spawn"
-----------------------------------------------------------------------------
Entry(f) == IF f = "main" /\ ppc = "run" THEN 2 ELSE 1

PassInv ==
    /\ "main" \in DOMAIN program /\ program["main"] # <<>>
    /\ DOMAIN program \subseteq STRING
    /\ \A f \in DOMAIN program :
          /\ HasBlocks(program[f])
          /\ f \in Library => program[f] = <<>>
          /\ f \in BlackListed => IsFunctionBody(program[f])
          /\ f \in todo /\ ppc \in {"start", "functions"} => IsFunctionBody(program[f])
          /\ f \notin todo \cup BlackListed /\ ppc \in {"functions", "run"} =>
                program[f] = <<>> \/ IsInstrumented(f, program[f], Entry(f))
          /\ ppc # "run" => \A k \in DOMAIN program[f] : program[f][k] # RegisterMainThread
    /\ ppc = "start" => todo = DOMAIN program
    /\ ppc = "run" => todo = {}

\* The same for the threads that are created.
CreationInv ==
    CreatesInOrder(program)
    /\ (\A f \in DOMAIN program :
          f \notin todo \cup BlackListed /\ ppc \in {"functions", "run"} =>
              RegistersCreated(program[f]))

\* The thread starts when the pass is over, at the bottom of its stack.
StartInv ==
    /\ first \in {"none", "main", StartRoutine, StaticInitializer}
    /\ ppc \notin {"run", "gave_up"} => first = "none"
    /\ first = "none" => frames = <<>> /\ ThreadInit
    /\ first # "none" => frames # <<>> /\ frames[1].fn = first

\* The activations below the top one are where they have called the next one.
At(d) == program[frames[d].fn][frames[d].at]

StackInv ==
    /\ frames \in Seq([fn : DOMAIN program, at : Nat])
    /\ callStack \in Seq(DOMAIN program)
    /\ \A d \in DOMAIN frames : d < Len(frames) => IsCall(At(d)) /\ HasBody(At(d).what)

\* In a program that the pass gave up nobody is registered, and so nobody gets anywhere.
GaveUpInv ==
    ppc = "gave_up" => ~ registered /\ callStack = <<>> /\ ~ finished /\ left # "invalid"

\* The top activation has entered its function, and not left it.
Inside ==
    /\ Top.fn \notin BlackListed
    /\ Top.at > Entry(Top.fn) /\ ~ IsExit(Current)

CallsInv ==
    Running /\ ppc = "run" /\ ~ unwound =>
        /\ Len(callStack) = Rank(Len(frames) - 1) + (IF Inside THEN 1 ELSE 0)
        /\ \A d \in DOMAIN frames :
              d < Len(frames) /\ frames[d].fn \notin BlackListed =>
                  callStack[Rank(d)] = frames[d].fn
        /\ Inside => Last(callStack) = Top.fn

FinishedInv ==
    Running /\ ppc = "run" /\ ~ unwound =>
        (finished <=> Len(frames) = 1 /\ IsExit(Current))

\* How it ended agrees with what exit_function took it for.
EndedInv ==
    /\ left = "invalid" => unwound
    /\ left = "returned" /\ ~ unwound /\ ppc = "run" => finished
    /\ left = "exited" /\ ~ unwound /\ ppc = "run" =>
          (finished <=> Len(frames) = 1 /\ Current.kind = "call")

\* The part that is inductive by itself.
CoreInv ==
    /\ TypeOK /\ PassInv /\ StartInv /\ StackInv /\ GaveUpInv
    /\ AnnouncedIffPerformed /\ CallsInv /\ FinishedInv /\ EndedInv

ThreadInv == CoreInv /\ CallStackIsStack /\ FinishedIffEnded
=============================================================================
