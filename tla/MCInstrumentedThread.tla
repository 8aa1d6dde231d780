------------------------ MODULE MCInstrumentedThread ------------------------
(* Programs for InstrumentedThread. *)
EXTENDS InstrumentedThreadInvariant

\* What a straight function may do, one after the other.
Steps ==
    {Access("Store"), Access("CompareExchange"), Call("pthread_create"),
     Call("pthread_mutex_lock"), Call("thread::join"), Call("inner"),
     Call("pthread_exit"), Call("malloc")}

Straight(steps) == steps \o <<Return>>

\* main creates a thread, and calls what the thread calls, too.
StraightPrograms ==
    {"main" :> Straight(<<Call("pthread_create")>> \o one)
         @@ "routine" :> Straight(two)
         @@ "inner" :> Straight(three)
         @@ "malloc" :> Straight(<<Access("Load")>>) :
     one \in BoundedSeq(Steps, 1), two \in BoundedSeq(Steps, 2),
     three \in BoundedSeq(Steps \ {Call("inner")}, 1)}

\* A creation that is invoked, as in the constructor of std::thread, in a function
\* with a handler that gives the exception on, or with one that ends it.
Creating(handled) ==
    <<Invoke("pthread_create", "created", "failed"), Label("created"),
      Access("Store"), Return, Label("failed"), Access("Load"),
      IF handled THEN Return ELSE Resume>>

\* A function that calls another one where an exception passes, or where it is met.
Guarding(f, handled) ==
    <<Invoke(f, "done", "failed"), Label("done"), Access("Load"), Return,
      Label("failed"), Access("Store"), IF handled THEN Return ELSE Resume>>

Throwing == <<Access("Store"), Call("throw")>>

InvokingPrograms ==
    {"main" :> <<Call("pthread_create")>> \o Guarding("middle", one)
         @@ "routine" :> middle
         @@ "middle" :> middle
         @@ "inner" :> inner :
     one \in BOOLEAN,
     middle \in {Guarding("inner", TRUE), Guarding("inner", FALSE),
                 Guarding("library", FALSE), Guarding("library", TRUE),
                 Guarding("pthread_exit", TRUE),
                 Straight(<<Call("inner"), Access("Load")>>), Creating(TRUE)},
     inner \in {Throwing, Creating(TRUE), Creating(FALSE)}}

\* What the pass gives up or cannot handle, a static initializer, a declaration.
OddPrograms ==
    {"main" :> Straight(<<Call("pthread_create"), Call("indirect")>>),
     "main" :> Straight(<<Access("Store")>>),
     "main" :> Straight(<<Call("pthread_join")>>),
     "main" :> Straight(<<Call("pthread_create"), Call("inner"),
                          Call("renamed thread::join")>>)
         @@ "routine" :> Straight(<<Call("inner")>>)
         @@ "inner" :> Straight(<<Access("Store")>>),
     "main" :> Straight(<<Call("pthread_create"), Access("Store")>>)
         @@ "routine" :> Straight(<<Access("Load"), Call("inner")>>)
         @@ "inner" :> <<Branch("start"), Label("end"), Return, Label("failed"), Resume,
                         Label("start"), Call("renamed thread::join"),
                         Invoke("pthread_create", "end", "failed")>>,
     "main" :> Straight(<<Call("pthread_create")>>)
         @@ "initializer" :> Straight(<<Access("Store")>>)
         @@ "inner" :> <<>>,
     "main" :> Straight(<<Call("pthread_create"), Call("inner")>>)
         @@ "inner" :> <<>>,
     "main" :> <<Branch("start"), Label("end"), Return, Label("failed"), Resume,
                 Label("start"), Invoke("pthread_create", "end", "failed")>>}

SomePrograms == StraightPrograms \cup InvokingPrograms \cup OddPrograms

\* What the theorem CreatedAreRegistered takes for granted is true of all of them.
ASSUME ProgramsCreateInOrder == \A module \in SomePrograms : CreatesInOrder(module)
=============================================================================
