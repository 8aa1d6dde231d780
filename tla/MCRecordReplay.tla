--------------------------- MODULE MCRecordReplay ---------------------------
(* Programs for RecordReplay. *)
EXTENDS RecordReplayInvariant

CONSTANTS m, n  \* two mutexes

TwoMutexes == {m, n}

Locked(o) == <<Step("Lock", o), Step("Unlock", o)>>

\* Two threads that compete for a mutex; two that take two mutexes in opposite order;
\* a thread that creates another one, and nobody waits for it.
SomePrograms ==
    [compete |->
        "main" :> <<Step("Spawn", "child")>> \o Locked(m) \o <<Step("Join", 1)>>
            @@ "child" :> Locked(m),
     oppose |->
        "main" :> <<Step("Spawn", "child"), Step("Lock", m), Step("Lock", n)>>
            @@ "child" :> <<Step("Lock", n), Step("Lock", m)>>,
     detach |->
        "main" :> <<Step("Spawn", "child"), Step("Lock", n)>>
            @@ "child" :> <<Step("Spawn", "leaf"), Step("Lock", m)>>
            @@ "leaf" :> Locked(n)]

\* Two threads that each create another one, at the same time, and join one thread.
RacingCreations ==
    [race |->
        "main" :> <<Step("Spawn", "creator"), Step("Spawn", "left"), Step("Join", 1)>>
            @@ "creator" :> <<Step("Spawn", "right"), Step("Join", 1)>>
            @@ "left" :> Locked(m)
            @@ "right" :> Locked(n)]

\* The first names a thread before it is created.  The second keeps to the beginning
\* of all programs and may then name a thread that cannot go on.
SomeSchedules == {<<>>, <<1>>, <<0, 1, 0, 0>>}

NoSchedule == {<<>>}
=============================================================================
