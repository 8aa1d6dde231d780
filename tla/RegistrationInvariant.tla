----------------------- MODULE RegistrationInvariant -----------------------
(***************************************************************************)
(* RegInv, the inductive invariant behind OwnTid, JoinsItsThread,          *)
(* NoFalseDeadlock and DoneMeansEnded: who has which tid, who has the      *)
(* turn, and what a creation that fails does to both.  EndsAlone is why a  *)
(* call may be one step: while a thread can end, no other one is in a      *)
(* call.  TypeInv holds in any case, the rest as long as no pthread_t is   *)
(* used again.                                                             *)
(***************************************************************************)
EXTENDS Registration

InstrOp == {"none", "Access", "Spawn", "Join"}

InstrOK ==
    /\ instr \in [Thread -> [op : InstrOp, thread : Thread \cup {None}, tid : Tid \cup {None}]]
    /\ task \in [Tid -> [op : InstrOp, tid : Tid \cup {None}]]

\* A tid is left for every thread that is about to be created, and one for main.
TidsLeft ==
    /\ Cardinality(Spawning) + (IF failed THEN 1 ELSE 0) <= Cardinality(Unborn)
    /\ mNrRegistered + (IF pc[0] = "main" THEN 1 ELSE 0) + Cardinality(Unborn)
         <= NrThreads + Cardinality(Spawning) + (IF failed THEN 1 ELSE 0)

CallKinds ==
    \A t \in Thread :
        /\ pc[t] \in {"waiting", "uncontrolled"} => instr[t].op # "none"
        /\ pc[t] = "uncontrolled" => instr[t].op = "Join"

TypeInv ==
    /\ TypeOK
    /\ InstrOK
    /\ TidsLeft
    /\ CallKinds
    /\ \A t \in Thread : creator[t] # None => pid[t] # None

Given(t) == givenTid[t] # None

\* These threads act under their tid.
Acting == {"running", "waiting", "uncontrolled", "registering"}

\* From get_fresh_tid to the registration.
Creating(t) == pc[t] \in {"waiting", "registering"} /\ instr[t].op = "Spawn"

PidsDistinct ==
    /\ \A t \in Thread : pid[t] = None <=> pc[t] = "unborn"
    /\ \A t, u \in Thread : t # u /\ pid[t] # None => pid[t] # pid[u]

\* Threads are created in the order of their numbers, by one that is there.
CreatorsFirst ==
    /\ \A t, u \in Thread : pc[t] = "unborn" /\ t <= u => pc[u] = "unborn"
    /\ \A u \in Thread : creator[u] # None => creator[u] < u /\ pc[u] # "unborn"
    /\ \A t \in Thread : instr[t].thread # None => creator[instr[t].thread] = t

MainFirst ==
    \A t \in Thread :
        pc[t] = "main" =>
            /\ t = 0 /\ mNrRegistered = 0
            /\ \A u \in Thread : u # 0 => pc[u] = "unborn"

\* Who has a tid, and who is about to get one.
Places ==
    \A t \in Thread :
        /\ pc[t] \in Acting => Given(t)
        /\ pc[t] \in {"main", "unborn", "library"} => ~ Given(t)
        /\ pc[t] = "born" =>
              Given(t) \/ \E c \in Thread : pc[c] = "registering" /\ instr[c].thread = t
        /\ pc[t] = "waiting" /\ instr[t].op = "Spawn" => instr[t].thread = None
        /\ pc[t] = "registering" =>
              /\ instr[t].op = "Spawn"
              /\ instr[t].thread # None =>
                    pc[instr[t].thread] = "born" /\ ~ Given(instr[t].thread)
        /\ pc[t] = "uncontrolled" \/ (pc[t] = "waiting" /\ instr[t].op = "Join") =>
              instr[t].thread # None

\* Nothing is known of the tid yet.
Fresh(tid) ==
    /\ status[tid] = "none" /\ mControllableThreads[tid] = None
    /\ task[tid] = NoTask /\ ~ control[tid]
    /\ \A t \in Thread : givenTid[t] # tid
    /\ \A p \in Pids : mThreads[p] # tid

FreshTids ==
    /\ \A tid \in Tid : tid >= mNrRegistered => Fresh(tid)
    /\ \A t \in Thread : Creating(t) =>
          instr[t].tid \in Tid /\ instr[t].tid < mNrRegistered /\ Fresh(instr[t].tid)
    /\ \A t, u \in Thread : t # u /\ Creating(t) /\ Creating(u) => instr[t].tid # instr[u].tid

\* The maps agree with what the creators took; what else is registered comes from a
\* creation that failed.
Registry ==
    /\ \A t, u \in Thread : t # u /\ Given(t) => givenTid[t] # givenTid[u]
    /\ \A t \in Thread : Given(t) =>
          mThreads[pid[t]] = givenTid[t] /\ mControllableThreads[givenTid[t]] = pid[t]
    /\ \A p \in Pids : mThreads[p] # None =>
          failed \/ \E t \in Thread : pid[t] = p /\ Given(t)

\* The status, the task and the semaphore of a tid are those of its thread.
Statuses ==
    /\ \A t \in Thread : Given(t) =>
          /\ status[givenTid[t]] # "none"
          /\ status[givenTid[t]] = "FINISHED" <=> pc[t] \in {"ended", "joined"}
          /\ pc[t] = "waiting" => status[givenTid[t]] \in {"ENABLED", "DISABLED"}
    /\ \A tid \in Tid : task[tid] # NoTask =>
          \E t \in Thread :
              /\ givenTid[t] = tid /\ pc[t] = "waiting" /\ ~ control[tid]
              /\ task[tid] = [op |-> instr[t].op, tid |-> instr[t].tid]
    /\ \A tid \in Tid : control[tid] =>
          \E t \in Thread : givenTid[t] = tid /\ pc[t] = "waiting"

\* A tid is disabled only by a join of a thread that has not finished.
DisabledJoins ==
    \A tid \in Tid : status[tid] = "DISABLED" =>
        task[tid].op = "Join" /\ task[tid].tid # None /\ status[task[tid].tid] # "FINISHED"

\* The thread was granted its turn and has not finished what it does in it.
HasTurn(t) == Given(t) /\ (control[givenTid[t]] \/ pc[t] = "registering")

OneTurn == \A t, u \in Thread : HasTurn(t) /\ HasTurn(u) => t = u

\* A tid that was registered for no thread: no round ever comes again.
Lost(tid) ==
    /\ status[tid] = "START" /\ task[tid] = NoTask
    /\ \A t \in Thread : givenTid[t] # tid

\* The creation that failed is the last thing a thread does in its turn.
Failure ==
    /\ \A t \in Thread : pc[t] = "registering" /\ instr[t].thread = None => failed
    /\ failed =>
          \/ \E t \in Thread : pc[t] = "registering" /\ instr[t].thread = None
          \/ (\A t \in Thread : ~ HasTurn(t)) /\ \E tid \in Tid : Lost(tid)

\* A thread that is not there, that the scheduler does not know, or that waits for its turn.
Resting(t) ==
    \/ pc[t] \in {"unborn", "library", "ended", "joined"}
    \/ pc[t] = "waiting" /\ ~ control[givenTid[t]]

\* The thread has been granted its turn, or goes on in it and may end.
InOwnTurn(t) ==
    \/ Given(t) /\ control[givenTid[t]]
    \/ pc[t] = "running" /\ MayEnd(t)

\* While a thread ends, all others rest: nobody is about to post, to yield or to register,
\* and nobody reads the status of the thread or takes a mutex of the pool.
EndsAlone ==
    /\ \A t, u \in Thread : t # u /\ InOwnTurn(t) => Resting(u)
    /\ \A t \in Thread :
          /\ pc[t] \in {"main", "unborn", "born", "library"} => instr[t].op = "none"
          /\ pc[t] = "uncontrolled" => instr[t].tid = None

RegistryInv ==
    /\ TypeInv
    /\ PidsDistinct
    /\ CreatorsFirst
    /\ MainFirst
    /\ Places
    /\ FreshTids
    /\ Registry
    /\ Statuses
    /\ DisabledJoins
    /\ OneTurn
    /\ Failure
    /\ JoinsItsThread
    /\ NoFalseDeadlock
    /\ DoneMeansEnded

RegInv == RegistryInv /\ EndsAlone
=============================================================================
