------------------------- MODULE RegistrationProofs -------------------------
(***************************************************************************)
(* The proofs about Registration: the type invariant for any constants,    *)
(* RegInv and the properties that follow from it if no pthread_t is used   *)
(* again.                                                                  *)
(***************************************************************************)
EXTENDS RegistrationInvariant, TLAPS, FiniteSetTheorems, WellFoundedInduction

\* The sets that the room for a thread is counted with are finite.
LEMMA CountedSets ==
  /\ IsFiniteSet(Spawning) /\ Cardinality(Spawning) \in Nat
  /\ IsFiniteSet(Unborn) /\ Cardinality(Unborn) \in Nat
  <1>1. IsFiniteSet(Thread)
    BY RegistrationAssumption, FS_Interval DEF Thread
  <1>2. Spawning \in SUBSET Thread /\ Unborn \in SUBSET Thread
    BY DEF Spawning, Unborn
  <1>3. IsFiniteSet(Spawning) /\ IsFiniteSet(Unborn)
    BY <1>1, <1>2, FS_Subset
  <1>. QED  BY <1>3, FS_CardinalityType

\* A thread that takes a fresh tid counts as one that is about to create another.
LEMMA SpawningGrows ==
  ASSUME NEW t, t \notin Spawning, Spawning' = Spawning \cup {t}
  PROVE  Cardinality(Spawning)' = Cardinality(Spawning) + 1
  BY CountedSets, FS_AddElement

\* After the creation, or when it has failed, it does not count any longer.
LEMMA SpawningShrinks ==
  ASSUME NEW t, t \in Spawning, Spawning' = Spawning \ {t}
  PROVE  /\ Cardinality(Spawning)' = Cardinality(Spawning) - 1
         /\ Cardinality(Spawning) > 0
  <1>1. Cardinality(Spawning)' = Cardinality(Spawning) - 1
    BY CountedSets, FS_RemoveElement
  <1>2. Cardinality(Spawning) # 0
    BY CountedSets, FS_EmptySet
  <1>. QED  BY <1>1, <1>2, CountedSets

LEMMA UnbornShrinks ==
  ASSUME NEW u, u \in Unborn, Unborn' = Unborn \ {u}
  PROVE  Cardinality(Unborn)' = Cardinality(Unborn) - 1
  BY CountedSets, FS_RemoveElement

\* Initially all threads but main are to be created.
LEMMA InitType == Init => TypeInv
  <1>. SUFFICES ASSUME Init PROVE TypeInv
    OBVIOUS
  <1>. USE RegistrationAssumption
  <1>1. 0 \in Thread /\ 0 \in Tid
    BY DEF Thread, Tid
  <1>2. TypeOK
    <2>1. PICK p \in Pids : pid = [t \in Thread |-> IF t = 0 THEN p ELSE None]
      BY DEF Init
    <2>2. pid \in [Thread -> Pids \cup {None}]
      BY <2>1
    <2>3. /\ calls \in [Thread -> 0 .. MaxCalls]
          /\ creator \in [Thread -> Thread \cup {None}]
          /\ givenTid \in [Thread -> Tid \cup {None}]
      BY DEF Init
    <2>4. /\ mThreads \in [Pids -> Tid \cup {None}]
          /\ mControllableThreads \in [Tid -> Pids \cup {None}]
          /\ control \in [Tid -> BOOLEAN]
          /\ mNrRegistered \in 0 .. NrThreads
      BY DEF Init
    <2>5. /\ failed \in BOOLEAN
          /\ status \in [Tid -> {"none", "START", "ENABLED", "DISABLED", "FINISHED"}]
          /\ execution \in {"RUNNING", "DONE", "DEADLOCK"}
      BY DEF Init
    <2>6. pc \in [Thread -> {"main", "unborn", "born", "running", "waiting", "uncontrolled",
                            "registering", "library", "ended", "joined"}]
      BY DEF Init
    <2>. QED  BY <2>2, <2>3, <2>4, <2>5, <2>6 DEF TypeOK
  <1>3. InstrOK
    BY <1>1 DEF Init, InstrOK, InstrOp, NoInstr, NoTask
  <1>4. CallKinds /\ \A t \in Thread : creator[t] # None => pid[t] # None
    BY DEF Init, CallKinds
  <1>5. TidsLeft
    <2>1. Spawning = {} /\ Unborn = 1 .. NrThreads - 1
      BY DEF Init, Spawning, Unborn, Thread
    <2>2. Cardinality(Spawning) = 0 /\ Cardinality(Unborn) = NrThreads - 1
      BY <2>1, FS_EmptySet, FS_Interval
    <2>. QED  BY <1>1, <2>2 DEF Init, TidsLeft
  <1>. QED  BY <1>2, <1>3, <1>4, <1>5 DEF TypeInv

\* What a step does to the two sets.
LEMMA StepCounts ==
  ASSUME TypeInv, NEW t \in Thread, ThreadStep(t) \/ CreationFails(t)
  PROVE  \/ Spawning' = Spawning /\ Unborn' = Unborn /\ mNrRegistered' = mNrRegistered /\ failed' = failed
         \/ /\ PostSpawnInstruction(t) /\ t \notin Spawning /\ Spawning' = Spawning \cup {t}
            /\ Unborn' = Unborn /\ failed' = failed
         \/ /\ t \in Spawning /\ Spawning' = Spawning \ {t}
            /\ \E u \in Unborn : Unborn' = Unborn \ {u}
            /\ mNrRegistered' = mNrRegistered /\ failed' = failed
         \/ /\ Room /\ Spawning' = Spawning
            /\ \E u \in Unborn : Unborn' = Unborn \ {u}
            /\ mNrRegistered' = mNrRegistered /\ failed' = failed
         \/ /\ t \in Spawning /\ Spawning' = Spawning \ {t} /\ Unborn' = Unborn
            /\ mNrRegistered' = mNrRegistered /\ ~ failed /\ failed' = TRUE
  <1>. USE DEF TypeInv, TypeOK, InstrOK, CallKinds, Spawning, Unborn, GoTo
  <1>1. CASE EnterFunction(t) /\ failed' = failed
    BY <1>1 DEF EnterFunction, registryVars
  <1>2. CASE PostInstruction(t) /\ failed' = failed
    BY <1>2 DEF PostInstruction, PostTask
  <1>3. CASE PostSpawnInstruction(t) /\ failed' = failed
    BY <1>3 DEF PostSpawnInstruction, PostTask
  <1>4. CASE PostJoinInstruction(t) /\ failed' = failed
    BY <1>4 DEF PostJoinInstruction, PostTask, registryVars
  <1>5. CASE Perform(t) /\ failed' = failed
    <2>1. CASE instr[t].op = "Access"
      BY <1>5, <2>1 DEF Perform, registryVars
    <2>2. CASE instr[t].op = "Spawn"
      <3>1. PICK u \in Unborn :
              /\ instr' = [instr EXCEPT ![t].thread = u]
              /\ pc' = [pc EXCEPT ![t] = "registering", ![u] = "born"]
        BY <1>5, <2>2 DEF Perform, Creates
      <3>2. /\ pc[t] \in {"waiting", "uncontrolled"} /\ failed' = failed
            /\ mNrRegistered' = mNrRegistered
        BY <1>5 DEF Perform, registryVars
      <3>3. t \in Spawning /\ Spawning' = Spawning \ {t}
        BY <2>2, <3>1, <3>2
      <3>4. Unborn' = Unborn \ {u}
        BY <3>1, <3>2
      <3>. QED  BY <3>2, <3>3, <3>4
    <2>3. CASE instr[t].op = "Join"
      <3>1. /\ pc' = [pc EXCEPT ![t] = "running", ![instr[t].thread] = "joined"]
            /\ pc[instr[t].thread] = "ended" /\ instr' = instr
        BY <1>5, <2>3 DEF Perform
      <3>2. /\ pc[t] \in {"waiting", "uncontrolled"} /\ failed' = failed
            /\ mNrRegistered' = mNrRegistered
        BY <1>5 DEF Perform, registryVars
      <3>3. Spawning' = Spawning
        BY <2>3, <3>1, <3>2
      <3>4. Unborn' = Unborn
        BY <3>1, <3>2
      <3>. QED  BY <3>2, <3>3, <3>4
    <2>. QED  BY <1>5, <2>1, <2>2, <2>3 DEF Perform, InstrOp
  <1>6. CASE RegisterCreatedThread(t) /\ failed' = failed
    BY <1>6 DEF RegisterCreatedThread
  <1>7. CASE ExitFunction(t) /\ failed' = failed
    BY <1>7 DEF ExitFunction, registryVars
  <1>8. CASE CreateInLibrary(t) /\ failed' = failed
    BY <1>8 DEF CreateInLibrary, Creates, registryVars
  <1>9. CASE EndInLibrary(t) /\ failed' = failed
    BY <1>9 DEF EndInLibrary, registryVars
  <1>10. CASE CreationFails(t)
    BY <1>10 DEF CreationFails, registryVars
  <1>. QED
    BY <1>1, <1>2, <1>3, <1>4, <1>5, <1>6, <1>7, <1>8, <1>9, <1>10 DEF ThreadStep

\* A tid is left for every thread to come, after a step of a thread.
LEMMA StepTidsLeft ==
  ASSUME TypeInv, NEW t \in Thread, ThreadStep(t) \/ CreationFails(t), pc'[0] = "main" => pc[0] = "main"
  PROVE  TidsLeft'
  <1>. DEFINE S == Cardinality(Spawning)
              U == Cardinality(Unborn)
  <1>0. /\ S \in Nat /\ U \in Nat /\ mNrRegistered \in Nat /\ NrThreads \in Nat /\ failed \in BOOLEAN
        /\ S + (IF failed THEN 1 ELSE 0) <= U
        /\ mNrRegistered + (IF pc[0] = "main" THEN 1 ELSE 0) + U
             <= NrThreads + S + (IF failed THEN 1 ELSE 0)
    BY CountedSets, RegistrationAssumption DEF TypeInv, TypeOK, TidsLeft
  <1>. SUFFICES /\ S' + (IF failed' THEN 1 ELSE 0) <= U'
                /\ mNrRegistered' + (IF pc'[0] = "main" THEN 1 ELSE 0) + U'
                     <= NrThreads + S' + (IF failed' THEN 1 ELSE 0)
    BY DEF TidsLeft
  <1>1. CASE /\ Spawning' = Spawning /\ Unborn' = Unborn
             /\ mNrRegistered' = mNrRegistered /\ failed' = failed
    <2>1. S' = S /\ U' = U
      BY <1>1
    <2>. QED  BY <1>0, <1>1, <2>1
  <1>2. CASE /\ PostSpawnInstruction(t) /\ t \notin Spawning /\ Spawning' = Spawning \cup {t}
             /\ Unborn' = Unborn /\ failed' = failed
    <2>1. S' = S + 1 /\ U' = U
      BY <1>2, SpawningGrows
    <2>2. S + (IF failed THEN 1 ELSE 0) < U /\ mNrRegistered' = mNrRegistered + 1
      BY <1>2 DEF PostSpawnInstruction, Room
    <2>3. pc[0] # "main" => pc'[0] # "main"
      OBVIOUS
    <2>. HIDE DEF S, U
    <2>. QED  BY <1>0, <1>2, <2>1, <2>2, <2>3
  <1>3. CASE /\ t \in Spawning /\ Spawning' = Spawning \ {t}
             /\ \E u \in Unborn : Unborn' = Unborn \ {u}
             /\ mNrRegistered' = mNrRegistered /\ failed' = failed
    <2>1. S' = S - 1 /\ U' = U - 1
      BY <1>3, SpawningShrinks, UnbornShrinks
    <2>. HIDE DEF S, U
    <2>. QED  BY <1>0, <1>3, <2>1
  <1>4. CASE /\ Room /\ Spawning' = Spawning
             /\ \E u \in Unborn : Unborn' = Unborn \ {u}
             /\ mNrRegistered' = mNrRegistered /\ failed' = failed
    <2>1. S' = S /\ U' = U - 1 /\ S + (IF failed THEN 1 ELSE 0) < U
      BY <1>4, UnbornShrinks DEF Room
    <2>. HIDE DEF S, U
    <2>. QED  BY <1>0, <1>4, <2>1
  <1>5. CASE /\ t \in Spawning /\ Spawning' = Spawning \ {t} /\ Unborn' = Unborn
             /\ mNrRegistered' = mNrRegistered /\ ~ failed /\ failed' = TRUE
    <2>1. S' = S - 1 /\ U' = U
      BY <1>5, SpawningShrinks
    <2>. HIDE DEF S, U
    <2>. QED  BY <1>0, <1>5, <2>1
  <1>. QED  BY <1>1, <1>2, <1>3, <1>4, <1>5, StepCounts

\* While there is room, there is a fresh tid.
LEMMA RoomForTid ==
  ASSUME TypeInv, Room \/ pc[0] = "main"
  PROVE  mNrRegistered \in Tid /\ mNrRegistered + 1 \in 0 .. NrThreads
  <1>. DEFINE S == Cardinality(Spawning)
              U == Cardinality(Unborn)
  <1>1. /\ S \in Nat /\ U \in Nat /\ mNrRegistered \in Nat /\ NrThreads \in Nat /\ failed \in BOOLEAN
        /\ S + (IF failed THEN 1 ELSE 0) <= U
        /\ mNrRegistered + (IF pc[0] = "main" THEN 1 ELSE 0) + U
             <= NrThreads + S + (IF failed THEN 1 ELSE 0)
        /\ S + (IF failed THEN 1 ELSE 0) < U \/ pc[0] = "main"
    BY CountedSets, RegistrationAssumption DEF TypeInv, TypeOK, TidsLeft, Room
  <1>. HIDE DEF S, U
  <1>. QED  BY <1>1 DEF Tid

\* A step of a thread keeps the values of the variables in their sets.
LEMMA StepTypes ==
  ASSUME TypeInv, NEW t \in Thread, ThreadStep(t) \/ CreationFails(t)
  PROVE  /\ TypeOK' /\ InstrOK' /\ CallKinds'
         /\ \A u \in Thread : creator'[u] # None => pid'[u] # None
         /\ pc'[0] = "main" => pc[0] = "main"
  <1>. DEFINE Same ==
         /\ TypeOK' /\ InstrOK' /\ CallKinds'
         /\ \A u \in Thread : creator'[u] # None => pid'[u] # None
         /\ pc'[0] = "main" => pc[0] = "main"
  <1>0. None \notin Pids /\ 0 \in Thread /\ MaxCalls \in Nat
    BY RegistrationAssumption DEF Thread
  <1>. USE DEF TypeInv, TypeOK, InstrOK, InstrOp, CallKinds, GoTo, registryVars, poolVars, NoTask
  <1>12. CallLeft(t) => calls[t] + 1 \in 0 .. MaxCalls
    BY <1>0 DEF CallLeft
  <1>1. CASE EnterFunction(t) /\ failed' = failed
    BY <1>0, <1>1 DEF EnterFunction
  <1>2. ASSUME NEW new \in [op : InstrOp \ {"none"}, thread : Thread \cup {None}, tid : Tid \cup {None}],
               PostTask(t, new), failed' = failed, mNrRegistered' \in 0 .. NrThreads
        PROVE  Same
    <2>1. InstrOK' /\ CallKinds' /\ (pc'[0] = "main" => pc[0] = "main")
      <3>1. task' \in [Tid -> [op : InstrOp, tid : Tid \cup {None}]]
        BY <1>2 DEF PostTask
      <3>2. instr' \in [Thread -> [op : InstrOp, thread : Thread \cup {None}, tid : Tid \cup {None}]]
        BY <1>2 DEF PostTask
      <3>. QED  BY <1>0, <1>2, <3>1, <3>2 DEF PostTask
    <2>2. TypeOK'
      <3>1. status' \in [Tid -> {"none", "START", "ENABLED", "DISABLED", "FINISHED"}]
        BY <1>2 DEF PostTask
      <3>2. calls' \in [Thread -> 0 .. MaxCalls]
        BY <1>0, <1>2 DEF PostTask
      <3>. QED  BY <1>0, <1>2, <3>1, <3>2 DEF PostTask
    <2>. QED  BY <1>2, <2>1, <2>2 DEF PostTask
  <1>3. CASE PostInstruction(t) /\ failed' = failed
    BY <1>2, <1>3 DEF PostInstruction
  <1>4. CASE PostSpawnInstruction(t) /\ failed' = failed
    BY <1>2, <1>4, RoomForTid DEF PostSpawnInstruction
  <1>5. CASE PostJoinInstruction(t) /\ failed' = failed
    <2>1. PICK u \in Joinable(t) :
            LET join == [op |-> "Join", thread |-> u, tid |-> FindTid(pid[u])]
            IN  IF join.tid # None
                THEN PostTask(t, join) /\ UNCHANGED mNrRegistered
                ELSE /\ pc[t] = "running" /\ CallLeft(t)
                     /\ calls' = [calls EXCEPT ![t] = @ + 1]
                     /\ instr' = [instr EXCEPT ![t] = join]
                     /\ GoTo(t, "uncontrolled")
                     /\ UNCHANGED <<pid, creator, givenTid, registryVars, control, poolVars,
                                    execution>>
      BY <1>5 DEF PostJoinInstruction
    <2>2. u \in Thread /\ pid[u] \in Pids /\ FindTid(pid[u]) \in Tid \cup {None}
      <3>1. u \in Thread /\ creator[u] # None
        BY <1>0, <2>1 DEF Joinable, Thread, None
      <3>. QED  BY <3>1 DEF FindTid
    <2>3. CASE FindTid(pid[u]) # None
      BY <1>2, <1>5, <2>1, <2>2, <2>3
    <2>4. CASE FindTid(pid[u]) = None
      <3>1. /\ pc[t] = "running" /\ pc' = [pc EXCEPT ![t] = "uncontrolled"]
            /\ calls' = [calls EXCEPT ![t] = @ + 1] /\ calls[t] + 1 \in 0 .. MaxCalls
            /\ instr' = [instr EXCEPT ![t] = [op |-> "Join", thread |-> u, tid |-> None]]
            /\ UNCHANGED <<pid, creator, givenTid, registryVars, control, poolVars, execution>>
        BY <1>12, <2>1, <2>4
      <3>2. calls' \in [Thread -> 0 .. MaxCalls]
        BY <3>1
      <3>3. instr' \in [Thread -> [op : InstrOp, thread : Thread \cup {None}, tid : Tid \cup {None}]]
        BY <2>2, <3>1
      <3>4. TypeOK' /\ InstrOK'
        BY <1>5, <3>1, <3>2, <3>3
      <3>5. CallKinds' /\ (pc'[0] = "main" => pc[0] = "main")
        BY <1>0, <3>1
      <3>. QED  BY <3>1, <3>4, <3>5
    <2>. QED  BY <2>3, <2>4
  <1>6. CASE Perform(t) /\ failed' = failed
    <2>1. CASE instr[t].op = "Access"
      <3>1. /\ pc[t] \in {"waiting", "uncontrolled"} /\ pc' = [pc EXCEPT ![t] = "running"]
            /\ UNCHANGED <<calls, pid, creator, instr, givenTid, registryVars, poolVars,
                           execution>>
            /\ \/ control' = control
               \/ control' = [control EXCEPT ![TidOf(t)] = FALSE]
        BY <1>6, <2>1 DEF Perform
      <3>2. TypeOK'
        BY <1>6, <3>1
      <3>3. InstrOK' /\ CallKinds'
        BY <3>1
      <3>4. pc'[0] = "main" => pc[0] = "main"
        BY <1>0, <3>1
      <3>. QED  BY <3>1, <3>2, <3>3, <3>4
    <2>2. CASE instr[t].op = "Spawn"
      <3>1. PICK p \in Pids, u \in Unborn :
              /\ p \in FreePids
              /\ pid' = [pid EXCEPT ![u] = p]
              /\ creator' = [creator EXCEPT ![u] = t]
              /\ instr' = [instr EXCEPT ![t].thread = u]
              /\ pc' = [pc EXCEPT ![t] = "registering", ![u] = "born"]
        BY <1>6, <2>2 DEF Perform, Creates
      <3>2. u \in Thread
        BY DEF Unborn
      <3>3. InstrOK'
        BY <1>6, <2>2, <3>1, <3>2 DEF Perform
      <3>4. TypeOK'
        BY <1>6, <2>2, <3>1, <3>2 DEF Perform
      <3>5. pc'[0] = "main" => pc[0] = "main"
        BY <1>0, <1>6, <2>2, <3>1, <3>2 DEF Perform
      <3>6. CallKinds'
        BY <1>0, <1>6, <2>2, <3>1, <3>2 DEF Perform
      <3>7. ASSUME NEW v \in Thread, creator'[v] # None PROVE pid'[v] # None
        BY <1>0, <3>1, <3>2, <3>7
      <3>. QED  BY <3>3, <3>4, <3>5, <3>6, <3>7
    <2>3. CASE instr[t].op = "Join"
      <3>1. /\ pc[t] \in {"waiting", "uncontrolled"}
            /\ pc' = [pc EXCEPT ![t] = "running", ![instr[t].thread] = "joined"]
            /\ UNCHANGED <<calls, pid, creator, instr, givenTid, registryVars, poolVars,
                           execution>>
            /\ \/ control' = control
               \/ control' = [control EXCEPT ![TidOf(t)] = FALSE]
        BY <1>6, <2>3 DEF Perform
      <3>2. TypeOK'
        BY <1>6, <3>1
      <3>3. InstrOK' /\ CallKinds'
        BY <3>1
      <3>4. pc'[0] = "main" => pc[0] = "main"
        BY <1>0, <3>1
      <3>. QED  BY <3>1, <3>2, <3>3, <3>4
    <2>. QED  BY <1>6, <2>1, <2>2, <2>3 DEF Perform
  <1>7. CASE RegisterCreatedThread(t) /\ failed' = failed
    <2>1. PICK p \in CreatedPids(t) : RegisterThread(p, instr[t].tid)
      BY <1>7 DEF RegisterCreatedThread
    <2>2. p \in Pids \cup {None} /\ instr[t].tid \in Tid \cup {None}
      BY DEF CreatedPids
    <2>3. TypeOK'
      <3>1. /\ mThreads' \in [Pids -> Tid \cup {None}]
            /\ mControllableThreads' \in [Tid -> Pids \cup {None}]
            /\ status' \in [Tid -> {"none", "START", "ENABLED", "DISABLED", "FINISHED"}]
        BY <2>1, <2>2 DEF RegisterThread, Insert
      <3>2. /\ givenTid' \in [Thread -> Tid \cup {None}]
            /\ pc' \in [Thread -> {"main", "unborn", "born", "running", "waiting", "uncontrolled",
                          "registering", "library", "ended", "joined"}]
        BY <1>7, <2>2 DEF RegisterCreatedThread
      <3>. QED  BY <1>7, <3>1, <3>2 DEF RegisterCreatedThread
    <2>. QED  BY <1>0, <1>7, <2>3 DEF RegisterCreatedThread
  <1>8. CASE ExitFunction(t) /\ failed' = failed
    BY <1>0, <1>8 DEF ExitFunction, FinishedStatuses
  <1>9. CASE CreateInLibrary(t) /\ failed' = failed
    <2>1. PICK p \in Pids, u \in Unborn :
            /\ pid' = [pid EXCEPT ![u] = p]
            /\ creator' = [creator EXCEPT ![u] = t]
            /\ instr' = [instr EXCEPT ![t].thread = u]
            /\ pc' = [pc EXCEPT ![t] = @, ![u] = "library"]
      BY <1>9 DEF CreateInLibrary, Creates
    <2>2. u \in Thread /\ pc[u] = "unborn" /\ pc[t] = "running"
      BY <1>9 DEF Unborn, CreateInLibrary
    <2>3. InstrOK'
      <3>1. task' = task
        BY <1>9 DEF CreateInLibrary
      <3>2. instr[t] \in [op : InstrOp, thread : Thread \cup {None}, tid : Tid \cup {None}]
        OBVIOUS
      <3>3. instr' \in [Thread -> [op : InstrOp, thread : Thread \cup {None},
                                  tid : Tid \cup {None}]]
        BY <2>1, <2>2, <3>2
      <3>. QED  BY <3>1, <3>3
    <2>4. TypeOK'
      <3>1. calls' \in [Thread -> 0 .. MaxCalls]
        BY <1>9, <1>12 DEF CreateInLibrary
      <3>2. /\ pid' \in [Thread -> Pids \cup {None}]
            /\ creator' \in [Thread -> Thread \cup {None}]
        BY <2>1, <2>2
      <3>3. pc' \in [Thread -> {"main", "unborn", "born", "running", "waiting", "uncontrolled",
                               "registering", "library", "ended", "joined"}]
        BY <2>1, <2>2
      <3>4. UNCHANGED <<failed, givenTid, registryVars, control, poolVars, execution>>
        BY <1>9 DEF CreateInLibrary
      <3>. QED  BY <3>1, <3>2, <3>3, <3>4
    <2>5. pc'[0] = "main" => pc[0] = "main"
      BY <1>0, <2>1, <2>2
    <2>6. CallKinds'
      BY <1>9, <2>1, <2>2 DEF CreateInLibrary
    <2>7. ASSUME NEW v \in Thread, creator'[v] # None PROVE pid'[v] # None
      BY <1>0, <2>1, <2>2, <2>7
    <2>. QED  BY <2>3, <2>4, <2>5, <2>6, <2>7
  <1>10. CASE EndInLibrary(t) /\ failed' = failed
    BY <1>0, <1>10 DEF EndInLibrary
  <1>11. CASE CreationFails(t)
    BY <1>0, <1>11 DEF CreationFails
  <1>. QED
    BY <1>1, <1>3, <1>4, <1>5, <1>6, <1>7, <1>8, <1>9, <1>10, <1>11 DEF ThreadStep

\* A thread's step preserves the type invariant.
LEMMA ThreadStepType ==
  ASSUME TypeInv, NEW t \in Thread, ThreadStep(t) \/ CreationFails(t)
  PROVE  TypeInv'
  BY StepTypes, StepTidsLeft DEF TypeInv

\* So does the registration of main,
LEMMA RegisterMainType ==
  ASSUME TypeInv, RegisterMainThread
  PROVE  TypeInv'
  <1>1. mNrRegistered \in Tid /\ mNrRegistered + 1 \in 0 .. NrThreads
    BY RoomForTid DEF RegisterMainThread
  <1>2. pid[0] \in Pids \cup {None} /\ 0 \in Thread
    BY RegistrationAssumption DEF TypeInv, TypeOK, Thread
  <1>. USE DEF TypeInv, TypeOK, InstrOK, CallKinds, GoTo, RegisterMainThread
  <1>3. /\ mThreads' \in [Pids -> Tid \cup {None}]
        /\ mControllableThreads' \in [Tid -> Pids \cup {None}]
        /\ status' \in [Tid -> {"none", "START", "ENABLED", "DISABLED", "FINISHED"}]
    BY <1>1, <1>2 DEF RegisterThread, Insert
  <1>4. TypeOK'
    BY <1>1, <1>2, <1>3
  <1>5. InstrOK' /\ CallKinds' /\ \A u \in Thread : creator'[u] # None => pid'[u] # None
    OBVIOUS
  <1>6. TidsLeft'
    <2>1. Spawning' = Spawning /\ Unborn' = Unborn
      BY <1>2 DEF Spawning, Unborn
    <2>2. Cardinality(Spawning)' = Cardinality(Spawning) /\ Cardinality(Unborn)' = Cardinality(Unborn)
      BY <2>1
    <2>3. mNrRegistered' = mNrRegistered + 1 /\ pc'[0] # "main" /\ pc[0] = "main"
      BY <1>2
    <2>. QED  BY <2>2, <2>3, CountedSets, RegistrationAssumption DEF TidsLeft
  <1>. QED  BY <1>4, <1>5, <1>6

\* and a round.
LEMMA RoundType ==
  ASSUME TypeInv, Round
  PROVE  TypeInv'
  <1>1. UNCHANGED <<pc, calls, pid, creator, instr, givenTid, failed>>
    BY DEF Round, programVars
  <1>2. UNCHANGED <<mThreads, mControllableThreads, mNrRegistered, status>>
    BY DEF Round, registryVars
  <1>3. task' \in [Tid -> [op : InstrOp, tid : Tid \cup {None}]]
    BY DEF TypeInv, InstrOK, Round, Enabled, Posted, NoTask, InstrOp
  <1>4. TypeOK'
    BY <1>1, <1>2 DEF TypeInv, TypeOK, Round
  <1>5. TidsLeft'
    BY <1>1, <1>2 DEF TypeInv, TidsLeft, Spawning, Unborn
  <1>. QED  BY <1>1, <1>3, <1>4, <1>5 DEF TypeInv, InstrOK, CallKinds

LEMMA NextType == TypeInv /\ [Next]_vars => TypeInv'
  <1>1. ASSUME TypeInv, UNCHANGED vars PROVE TypeInv'
    BY <1>1 DEF vars, programVars, registryVars, poolVars, TypeInv, TypeOK, InstrOK, TidsLeft,
                CallKinds, Spawning, Unborn
  <1>. QED  BY <1>1, ThreadStepType, RegisterMainType, RoundType DEF Next

\* Every variable has a value of its type, with or without reuse of a pthread_t and with
\* creations that fail; in particular a fresh tid is always one of the tids.
THEOREM RegistrationTyped == Spec => []TypeInv
  BY InitType, NextType, PTL DEF Spec

-----------------------------------------------------------------------------
\* The scheduler knows an acting thread under its tid.
LEMMA ActsUnderTid ==
  ASSUME RegistryInv, NEW t \in Thread, pc[t] \in Acting
  PROVE  /\ Given(t) /\ givenTid[t] \in Tid /\ pid[t] \in Pids
         /\ TidOf(t) = givenTid[t]
  <1>1. Given(t) /\ givenTid[t] \in Tid /\ pc[t] # "unborn"
    BY DEF RegistryInv, Places, Given, TypeInv, TypeOK, Acting
  <1>2. pid[t] \in Pids
    BY <1>1 DEF RegistryInv, PidsDistinct, TypeInv, TypeOK
  <1>. QED  BY <1>1, <1>2 DEF RegistryInv, Registry, TidOf

\* After a creation that failed nobody is granted a turn, and its creator does not
\* create another thread in the turn it has.
LEMMA FailedTurn ==
  ASSUME RegistryInv, NEW t \in Thread, HasTurn(t), failed
  PROVE  pc[t] = "registering" /\ instr[t].thread = None
  <1>1. PICK u \in Thread : pc[u] = "registering" /\ instr[u].thread = None
    BY DEF RegistryInv, Failure
  <1>2. HasTurn(u)
    BY <1>1, ActsUnderTid DEF HasTurn, Acting
  <1>. QED  BY <1>1, <1>2 DEF RegistryInv, OneTurn

\* The thread that is registered has a pthread_t that is in no map.
LEMMA NotYetRegistered ==
  ASSUME RegistryInv, NEW c \in Thread, pc[c] = "registering", instr[c].thread # None
  PROVE  /\ ~ failed
         /\ instr[c].thread \in Thread /\ pc[instr[c].thread] = "born"
         /\ pid[instr[c].thread] \in Pids /\ mThreads[pid[instr[c].thread]] = None
  <1>. DEFINE u == instr[c].thread
  <1>1. HasTurn(c)
    BY ActsUnderTid DEF HasTurn, Acting
  <1>2. ~ failed
    BY <1>1, FailedTurn
  <1>3. u \in Thread /\ pc[u] = "born" /\ ~ Given(u)
    BY DEF RegistryInv, TypeInv, InstrOK, Places
  <1>4. pid[u] \in Pids
    BY <1>3 DEF RegistryInv, PidsDistinct, TypeInv, TypeOK
  <1>5. ASSUME NEW v \in Thread, pid[v] = pid[u], Given(v) PROVE FALSE
    BY <1>3, <1>4, <1>5 DEF RegistryInv, PidsDistinct
  <1>. QED  BY <1>2, <1>3, <1>4, <1>5 DEF RegistryInv, Registry

\* A thread enters its first function only after it was registered.
LEMMA EntersRegistered ==
  ASSUME RegistryInv, NEW t \in Thread, EnterFunction(t)
  PROVE  Given(t)
  <1>1. pc[t] = "born" /\ mThreads[pid[t]] # None
    BY DEF EnterFunction, TidOf
  <1>. SUFFICES ASSUME ~ Given(t) PROVE FALSE
    OBVIOUS
  <1>2. PICK c \in Thread : pc[c] = "registering" /\ instr[c].thread = t
    BY <1>1 DEF RegistryInv, Places
  <1>3. t # None
    BY RegistrationAssumption DEF Thread, None
  <1>. QED  BY <1>1, <1>2, <1>3, NotYetRegistered

LEMMA EnterFunctionInv ==
  ASSUME RegistryInv, NEW t \in Thread, EnterFunction(t), failed' = failed, TypeInv'
  PROVE  RegistryInv'
  <1>1. Given(t)
    BY EntersRegistered
  <1>2. /\ pc[t] = "born" /\ pc' = [pc EXCEPT ![t] = "running"]
        /\ UNCHANGED <<calls, pid, creator, instr, givenTid, mThreads, mControllableThreads,
                       mNrRegistered, control, status, task, execution, failed>>
    BY DEF EnterFunction, GoTo, registryVars, poolVars
  <1>. USE DEF RegistryInv, TypeInv, TypeOK, InstrOK
  <1>3. PidsDistinct'
    BY <1>2 DEF PidsDistinct
  <1>4. CreatorsFirst'
    BY <1>2 DEF CreatorsFirst
  <1>5. MainFirst'
    BY <1>2 DEF MainFirst
  <1>6. Places'
    BY <1>1, <1>2 DEF Places, Given, Acting
  <1>7. FreshTids'
    BY <1>2 DEF FreshTids, Fresh, Creating
  <1>8. Registry'
    BY <1>2 DEF Registry, Given
  <1>9. Statuses'
    BY <1>2 DEF Statuses, Given
  <1>10. DisabledJoins'
    BY <1>2 DEF DisabledJoins
  <1>11. OneTurn'
    BY <1>2 DEF OneTurn, HasTurn, Given
  <1>12. Failure'
    BY <1>2 DEF Failure, HasTurn, Given, Lost
  <1>13. JoinsItsThread'
    BY <1>2 DEF JoinsItsThread
  <1>14. NoFalseDeadlock'
    BY <1>2 DEF NoFalseDeadlock
  <1>15. DoneMeansEnded'
    BY <1>2 DEF DoneMeansEnded
  <1>. QED
    BY <1>3, <1>4, <1>5, <1>6, <1>7, <1>8, <1>9, <1>10, <1>11, <1>12, <1>13, <1>14, <1>15

\* What an instruction is when it is posted.
PostedRight(t, new) ==
    \/ new.op = "Access" /\ new.thread = None /\ new.tid = None /\ mNrRegistered' = mNrRegistered
    \/ /\ new.op = "Spawn" /\ new.thread = None /\ new.tid = mNrRegistered
       /\ mNrRegistered \in Tid /\ mNrRegistered' = mNrRegistered + 1
    \/ /\ new.op = "Join" /\ new.thread \in Thread /\ creator[new.thread] = t
       /\ new.tid \in Tid
       /\ \/ new.tid = givenTid[new.thread]
          \/ givenTid[new.thread] = None /\ failed
       /\ mNrRegistered' = mNrRegistered

\* A post of a thread is one under its own tid.
LEMMA PostTaskInv ==
  ASSUME RegistryInv, NEW t \in Thread, failed' = failed, TypeInv',
         NEW new \in [op : InstrOp, thread : Thread \cup {None}, tid : Tid \cup {None}],
         PostTask(t, new), PostedRight(t, new)
  PROVE  RegistryInv'
  <1>. DEFINE g == givenTid[t]
  <1>1. /\ g \in Tid /\ Given(t) /\ TidOf(t) = g /\ pc[t] = "running"
    BY ActsUnderTid DEF Acting, PostTask
  <1>. HIDE DEF g
  <1>2. /\ pc' = [pc EXCEPT ![t] = "waiting"]
        /\ instr' = [instr EXCEPT ![t] = new]
        /\ task' = [task EXCEPT ![g] = [op |-> new.op, tid |-> new.tid]]
        /\ UNCHANGED <<pid, creator, givenTid, mThreads, mControllableThreads,
                       control, execution, failed>>
    BY <1>1 DEF PostTask, GoTo
  <1>3. status' = [status EXCEPT ![g] = IF new.op = "Join" /\ status[new.tid] # "FINISHED"
                                        THEN "DISABLED" ELSE "ENABLED"]
    BY <1>1 DEF PostTask
  <1>4. /\ ~ control[g]
        /\ \A u \in Thread : u # t => givenTid[u] # g
        /\ \A tid \in Tid : Fresh(tid) => tid # g
    BY <1>1 DEF g, RegistryInv, Statuses, Registry, Given, Fresh
  <1>0. None \notin Thread /\ None \notin Tid /\ mNrRegistered \in Nat
    BY RegistrationAssumption DEF Thread, Tid, None, RegistryInv, TypeInv, TypeOK
  <1>. USE DEF RegistryInv, TypeInv, TypeOK, InstrOK
  <1>5. PidsDistinct'
    BY <1>1, <1>2 DEF PidsDistinct
  <1>6. CreatorsFirst'
    BY <1>0, <1>1, <1>2 DEF CreatorsFirst, PostedRight
  <1>7. MainFirst'
    BY <1>1, <1>2 DEF MainFirst
  <1>8. Places'
    BY <1>0, <1>1, <1>2 DEF Places, Given, Acting, PostedRight
  <1>9. FreshTids'
    <2>1. \A tid \in Tid : Fresh(tid) => Fresh(tid)'
      BY <1>2, <1>3, <1>4 DEF Fresh
    <2>2. \A u \in Thread : u # t => (Creating(u)' <=> Creating(u)) /\ instr'[u] = instr[u]
      BY <1>2 DEF Creating
    <2>3. Creating(t)' => instr'[t].tid = mNrRegistered /\ mNrRegistered \in Tid
                          /\ mNrRegistered' = mNrRegistered + 1
      BY <1>1, <1>2 DEF Creating, PostedRight
    <2>4. instr' = [instr EXCEPT ![t] = new] /\ mNrRegistered' \in {mNrRegistered, mNrRegistered + 1}
      BY <1>2 DEF PostedRight
    <2>5. \A tid \in Tid : tid >= mNrRegistered' => Fresh(tid)'
      BY <1>0, <2>1, <2>4 DEF FreshTids, Tid
    <2>6. \A u \in Thread : Creating(u)' =>
            instr'[u].tid \in Tid /\ instr'[u].tid < mNrRegistered' /\ Fresh(instr[u].tid)'
      BY <1>0, <2>1, <2>2, <2>3, <2>4 DEF FreshTids, Tid
    <2>7. \A u, v \in Thread : u # v /\ Creating(u)' /\ Creating(v)' => instr'[u].tid # instr'[v].tid
      BY <1>0, <2>2, <2>3, <2>4 DEF FreshTids, Tid
    <2>. QED  BY <2>5, <2>6, <2>7 DEF FreshTids
  <1>10. Registry'
    BY <1>1, <1>2 DEF Registry, Given
  <1>11. Statuses'
    <2>1. /\ task'[g] = [op |-> new.op, tid |-> new.tid] /\ status'[g] \in {"ENABLED", "DISABLED"}
          /\ pc'[t] = "waiting" /\ instr'[t] = new /\ ~ control'[g] /\ givenTid'[t] = g
      BY <1>1, <1>2, <1>3, <1>4 DEF g
    <2>2. \A u \in Thread : Given(u)' =>
            /\ status'[givenTid'[u]] # "none"
            /\ status'[givenTid'[u]] = "FINISHED" <=> pc'[u] \in {"ended", "joined"}
            /\ pc'[u] = "waiting" => status'[givenTid'[u]] \in {"ENABLED", "DISABLED"}
      BY <1>1, <1>2, <1>3, <1>4, <2>1 DEF Statuses, Given
    <2>3. ASSUME NEW tid \in Tid, task'[tid] # NoTask
          PROVE  \E u \in Thread :
                   /\ givenTid'[u] = tid /\ pc'[u] = "waiting" /\ ~ control'[tid]
                   /\ task'[tid] = [op |-> instr'[u].op, tid |-> instr'[u].tid]
      <3>1. CASE tid = g
        BY <2>1, <3>1
      <3>2. CASE tid # g
        BY <1>1, <1>2, <2>3, <3>2 DEF Statuses, g
      <3>. QED  BY <3>1, <3>2
    <2>4. \A tid \in Tid : control'[tid] =>
            \E u \in Thread : givenTid'[u] = tid /\ pc'[u] = "waiting"
      BY <1>1, <1>2 DEF Statuses
    <2>. QED  BY <2>2, <2>3, <2>4 DEF Statuses, Given
  <1>12. DisabledJoins'
    BY <1>0, <1>1, <1>2, <1>3, <1>4 DEF DisabledJoins, PostedRight
  <1>13. OneTurn'
    BY <1>1, <1>2 DEF OneTurn, HasTurn, Given
  <1>14. Failure'
    BY <1>1, <1>2, <1>3, <1>4 DEF Failure, HasTurn, Given, Lost, g
  <1>15. JoinsItsThread'
    BY <1>1, <1>2 DEF JoinsItsThread, PostedRight
  <1>16. NoFalseDeadlock' /\ DoneMeansEnded'
    BY <1>1, <1>2 DEF NoFalseDeadlock, DoneMeansEnded
  <1>. QED
    BY <1>5, <1>6, <1>7, <1>8, <1>9, <1>10, <1>11, <1>12, <1>13, <1>14, <1>15, <1>16

\* So are the three kinds of posts, and a join that is not posted.
LEMMA PostsInv ==
  ASSUME RegistryInv, NEW t \in Thread, failed' = failed, TypeInv',
         PostInstruction(t) \/ PostSpawnInstruction(t) \/ PostJoinInstruction(t)
  PROVE  RegistryInv'
  <1>0. None \notin Thread /\ None \notin Tid /\ mNrRegistered \in Nat
    BY RegistrationAssumption DEF Thread, Tid, None, RegistryInv, TypeInv, TypeOK
  <1>1. CASE PostInstruction(t)
    BY <1>1, PostTaskInv DEF PostInstruction, PostedRight, InstrOp
  <1>2. CASE PostSpawnInstruction(t)
    BY <1>2, PostTaskInv, RoomForTid DEF PostSpawnInstruction, PostedRight, InstrOp, RegistryInv
  <1>3. CASE PostJoinInstruction(t)
    <2>1. PICK u \in Joinable(t) :
            LET join == [op |-> "Join", thread |-> u, tid |-> FindTid(pid[u])]
            IN  IF join.tid # None
                THEN PostTask(t, join) /\ UNCHANGED mNrRegistered
                ELSE /\ pc[t] = "running" /\ CallLeft(t)
                     /\ calls' = [calls EXCEPT ![t] = @ + 1]
                     /\ instr' = [instr EXCEPT ![t] = join]
                     /\ GoTo(t, "uncontrolled")
                     /\ UNCHANGED <<pid, creator, givenTid, registryVars, control, poolVars,
                                    execution>>
      BY <1>3 DEF PostJoinInstruction
    <2>2. u \in Thread /\ creator[u] = t /\ pid[u] \in Pids /\ pc[u] # "unborn"
      <3>1. u \in Thread /\ creator[u] = t
        BY <2>1 DEF Joinable
      <3>2. pc[u] # "unborn"
        BY <1>0, <3>1 DEF RegistryInv, CreatorsFirst
      <3>. QED  BY <3>1, <3>2 DEF RegistryInv, PidsDistinct, TypeInv, TypeOK
    <2>3. CASE FindTid(pid[u]) # None
      <3>1. FindTid(pid[u]) \in Tid
        BY <2>2, <2>3 DEF FindTid, RegistryInv, TypeInv, TypeOK
      <3>2. FindTid(pid[u]) = givenTid[u] \/ (givenTid[u] = None /\ failed)
        <4>1. CASE Given(u)
          BY <2>2, <4>1 DEF RegistryInv, Registry, FindTid
        <4>2. CASE ~ Given(u) /\ ~ failed
          <5>1. PICK v \in Thread : pid[v] = pid[u] /\ Given(v)
            BY <2>2, <2>3, <4>2 DEF RegistryInv, Registry, FindTid
          <5>. QED  BY <2>2, <4>2, <5>1 DEF RegistryInv, PidsDistinct
        <4>. QED  BY <4>1, <4>2 DEF Given
      <3>. DEFINE join == [op |-> "Join", thread |-> u, tid |-> FindTid(pid[u])]
      <3>3. join \in [op : InstrOp, thread : Thread \cup {None}, tid : Tid \cup {None}]
        BY <2>2, <3>1 DEF InstrOp
      <3>4. PostTask(t, join) /\ PostedRight(t, join)
        BY <2>1, <2>2, <2>3, <3>1, <3>2 DEF PostedRight
      <3>. QED  BY <3>3, <3>4, PostTaskInv
    <2>4. CASE FindTid(pid[u]) = None
      <3>1. /\ pc[t] = "running" /\ pc' = [pc EXCEPT ![t] = "uncontrolled"]
            /\ instr' = [instr EXCEPT ![t] = [op |-> "Join", thread |-> u, tid |-> None]]
            /\ UNCHANGED <<pid, creator, givenTid, mThreads, mControllableThreads,
                       mNrRegistered, control, status, task, execution, failed>>
        BY <2>1, <2>4 DEF GoTo, registryVars, poolVars
      <3>. USE DEF RegistryInv, TypeInv, TypeOK, InstrOK
      <3>2. PidsDistinct' /\ MainFirst'
        BY <3>1 DEF PidsDistinct, MainFirst
      <3>3. CreatorsFirst'
        BY <1>0, <2>2, <3>1 DEF CreatorsFirst
      <3>4. Places'
        BY <1>0, <2>2, <3>1 DEF Places, Given, Acting
      <3>5. FreshTids'
        BY <3>1 DEF FreshTids, Fresh, Creating
      <3>6. Registry' /\ Statuses' /\ DisabledJoins'
        BY <3>1 DEF Registry, Statuses, DisabledJoins, Given
      <3>7. OneTurn' /\ Failure'
        BY <3>1 DEF OneTurn, Failure, HasTurn, Given, Lost
      <3>8. JoinsItsThread' /\ NoFalseDeadlock' /\ DoneMeansEnded'
        BY <3>1 DEF JoinsItsThread, NoFalseDeadlock, DoneMeansEnded
      <3>. QED  BY <3>2, <3>3, <3>4, <3>5, <3>6, <3>7, <3>8
    <2>. QED  BY <2>3, <2>4
  <1>. QED  BY <1>1, <1>2, <1>3

\* The end of a thread finishes its own tid, and enables who joins it.
LEMMA ExitFunctionInv ==
  ASSUME RegistryInv, NEW t \in Thread, ExitFunction(t), failed' = failed, TypeInv'
  PROVE  RegistryInv'
  <1>. DEFINE g == givenTid[t]
  <1>1. /\ g \in Tid /\ Given(t) /\ TidOf(t) = g /\ pc[t] = "running"
    BY ActsUnderTid DEF Acting, ExitFunction
  <1>2. /\ pc' = [pc EXCEPT ![t] = "ended"]
        /\ UNCHANGED <<pid, creator, instr, givenTid, mThreads, mControllableThreads,
                       mNrRegistered, control, task, execution, failed>>
    BY DEF ExitFunction, GoTo, registryVars
  <1>3. status' = [s \in Tid |-> IF s = g THEN "FINISHED"
                                 ELSE IF task[s] = [op |-> "Join", tid |-> g] THEN "ENABLED"
                                 ELSE status[s]]
    BY <1>1 DEF ExitFunction, FinishedStatuses
  <1>. HIDE DEF g
  <1>4. /\ ~ control[g] /\ task[g] = NoTask
        /\ \A u \in Thread : u # t => givenTid[u] # g
    <2>1. \A u \in Thread : u # t => givenTid[u] # g
      BY <1>1 DEF g, RegistryInv, Registry, Given
    <2>2. ~ control[g]
      BY <1>1, <2>1 DEF RegistryInv, Statuses
    <2>3. ASSUME task[g] # NoTask PROVE FALSE
      <3>1. PICK u \in Thread : givenTid[u] = g /\ pc[u] = "waiting"
        BY <1>1, <2>3 DEF RegistryInv, Statuses, TypeInv, TypeOK, InstrOK
      <3>. QED  BY <1>1, <2>1, <3>1
    <2>. QED  BY <2>1, <2>2, <2>3
  <1>5. ASSUME NEW s \in Tid, status'[s] # status[s]
        PROVE  s = g \/ (task[s] # NoTask /\ status'[s] = "ENABLED")
    BY <1>3, <1>5 DEF NoTask
  <1>. USE DEF RegistryInv, TypeInv, TypeOK, InstrOK
  <1>6. PidsDistinct' /\ MainFirst'
    BY <1>1, <1>2 DEF PidsDistinct, MainFirst
  <1>7. CreatorsFirst'
    BY <1>1, <1>2 DEF CreatorsFirst
  <1>8. Places'
    BY <1>1, <1>2 DEF Places, Given, Acting
  <1>9. FreshTids'
    <2>1. \A tid \in Tid : Fresh(tid) => Fresh(tid)'
      BY <1>1, <1>2, <1>5 DEF Fresh, g
    <2>. QED  BY <1>1, <1>2, <2>1 DEF FreshTids, Creating
  <1>10. Registry'
    BY <1>2 DEF Registry, Given
  <1>11. Statuses'
    <2>1. ASSUME NEW u \in Thread, Given(u), u # t
          PROVE  /\ givenTid[u] \in Tid /\ givenTid[u] # g
                 /\ status'[givenTid[u]] # "none"
                 /\ status'[givenTid[u]] = "FINISHED" <=> pc[u] \in {"ended", "joined"}
                 /\ pc[u] = "waiting" => status'[givenTid[u]] \in {"ENABLED", "DISABLED"}
      <3>1. givenTid[u] \in Tid /\ givenTid[u] # g
        BY <1>4, <2>1 DEF Given
      <3>2. CASE task[givenTid[u]] # NoTask
        <4>1. pc[u] = "waiting"
          BY <2>1, <3>1, <3>2 DEF Statuses, Registry, Given
        <4>. QED  BY <1>5, <2>1, <3>1, <4>1 DEF Statuses
      <3>3. CASE task[givenTid[u]] = NoTask
        BY <1>5, <2>1, <3>1, <3>3 DEF Statuses
      <3>. QED  BY <3>1, <3>2, <3>3
    <2>2. status'[g] = "FINISHED" /\ pc'[t] = "ended" /\ givenTid'[t] = g
      BY <1>1, <1>2, <1>3 DEF g
    <2>3. \A u \in Thread : Given(u)' =>
            /\ status'[givenTid'[u]] # "none"
            /\ status'[givenTid'[u]] = "FINISHED" <=> pc'[u] \in {"ended", "joined"}
            /\ pc'[u] = "waiting" => status'[givenTid'[u]] \in {"ENABLED", "DISABLED"}
      BY <1>1, <1>2, <2>1, <2>2 DEF Given
    <2>4. ASSUME NEW tid \in Tid, task'[tid] # NoTask
          PROVE  \E u \in Thread :
                   /\ givenTid'[u] = tid /\ pc'[u] = "waiting" /\ ~ control'[tid]
                   /\ task'[tid] = [op |-> instr'[u].op, tid |-> instr'[u].tid]
      BY <1>1, <1>2, <2>4 DEF Statuses
    <2>5. \A tid \in Tid : control'[tid] =>
            \E u \in Thread : givenTid'[u] = tid /\ pc'[u] = "waiting"
      BY <1>1, <1>2 DEF Statuses
    <2>. QED  BY <2>3, <2>4, <2>5 DEF Statuses, Given
  <1>12. DisabledJoins'
    <2>. SUFFICES ASSUME NEW s \in Tid, status'[s] = "DISABLED"
                  PROVE  task[s].op = "Join" /\ task[s].tid # None /\ status'[task[s].tid] # "FINISHED"
      BY <1>2 DEF DisabledJoins
    <2>1. s # g /\ status[s] = "DISABLED" /\ task[s] # [op |-> "Join", tid |-> g]
      BY <1>3
    <2>2. task[s].op = "Join" /\ task[s].tid \in Tid /\ status[task[s].tid] # "FINISHED"
      BY <2>1 DEF DisabledJoins
    <2>3. task[s].tid # g
      BY <2>1, <2>2
    <2>. QED  BY <1>3, <1>5, <2>2, <2>3 DEF DisabledJoins
  <1>13. OneTurn'
    BY <1>1, <1>2 DEF OneTurn, HasTurn, Given
  <1>14. Failure'
    <2>1. \A tid \in Tid : Lost(tid) => Lost(tid)'
      BY <1>1, <1>2, <1>5 DEF Lost, g
    <2>. QED  BY <1>1, <1>2, <1>4, <2>1 DEF Failure, HasTurn, Given
  <1>15. JoinsItsThread' /\ NoFalseDeadlock' /\ DoneMeansEnded'
    BY <1>1, <1>2 DEF JoinsItsThread, NoFalseDeadlock, DoneMeansEnded
  <1>. QED
    BY <1>6, <1>7, <1>8, <1>9, <1>10, <1>11, <1>12, <1>13, <1>14, <1>15

\* The end of a thread of a library concerns nobody.
LEMMA EndInLibraryInv ==
  ASSUME RegistryInv, NEW t \in Thread, EndInLibrary(t), failed' = failed, TypeInv'
  PROVE  RegistryInv'
  <1>1. /\ pc[t] = "library" /\ pc' = [pc EXCEPT ![t] = "ended"]
        /\ UNCHANGED <<pid, creator, instr, givenTid, mThreads, mControllableThreads,
                       mNrRegistered, control, status, task, execution, failed>>
    BY DEF EndInLibrary, GoTo, registryVars, poolVars
  <1>2. ~ Given(t)
    BY <1>1 DEF RegistryInv, Places
  <1>. USE DEF RegistryInv, TypeInv, TypeOK, InstrOK
  <1>3. PidsDistinct' /\ MainFirst' /\ CreatorsFirst'
    BY <1>1 DEF PidsDistinct, MainFirst, CreatorsFirst
  <1>4. Places'
    BY <1>1 DEF Places, Given, Acting
  <1>5. FreshTids'
    BY <1>1 DEF FreshTids, Fresh, Creating
  <1>6. Registry' /\ Statuses' /\ DisabledJoins'
    BY <1>1, <1>2 DEF Registry, Statuses, DisabledJoins, Given
  <1>7. OneTurn' /\ Failure'
    BY <1>1 DEF OneTurn, Failure, HasTurn, Given, Lost
  <1>8. JoinsItsThread' /\ NoFalseDeadlock' /\ DoneMeansEnded'
    BY <1>1 DEF JoinsItsThread, NoFalseDeadlock, DoneMeansEnded
  <1>. QED  BY <1>3, <1>4, <1>5, <1>6, <1>7, <1>8

\* The thread that has the turn, or performs a join by itself, is the only one that its
\* semaphore concerns.
LEMMA TurnIsTaken ==
  ASSUME RegistryInv, NEW t \in Thread, pc[t] = "waiting", control[TidOf(t)]
  PROVE  /\ Given(t) /\ givenTid[t] \in Tid /\ TidOf(t) = givenTid[t]
         /\ HasTurn(t) /\ ~ failed
         /\ task[givenTid[t]] = NoTask
         /\ \A u \in Thread : u # t => ~ HasTurn(u) /\ givenTid[u] # givenTid[t]
  <1>1. /\ Given(t) /\ givenTid[t] \in Tid /\ TidOf(t) = givenTid[t]
    BY ActsUnderTid DEF Acting
  <1>2. HasTurn(t) /\ ~ failed
    BY <1>1, FailedTurn DEF HasTurn
  <1>3. \A u \in Thread : u # t => ~ HasTurn(u) /\ givenTid[u] # givenTid[t]
    BY <1>1, <1>2 DEF RegistryInv, OneTurn, Registry
  <1>4. task[givenTid[t]] = NoTask
    BY <1>1 DEF RegistryInv, Statuses, TypeInv, TypeOK, InstrOK
  <1>. QED  BY <1>1, <1>2, <1>3, <1>4

\* An access, and a join, end the turn.
LEMMA AccessInv ==
  ASSUME RegistryInv, NEW t \in Thread, Perform(t), failed' = failed, TypeInv',
         instr[t].op = "Access"
  PROVE  RegistryInv'
  <1>. DEFINE g == givenTid[t]
  <1>1. pc[t] = "waiting" /\ control[TidOf(t)] /\ control' = [control EXCEPT ![TidOf(t)] = FALSE]
    BY DEF Perform, RegistryInv, TypeInv, CallKinds
  <1>2. /\ g \in Tid /\ Given(t) /\ TidOf(t) = g
        /\ HasTurn(t) /\ ~ failed /\ task[g] = NoTask
        /\ \A u \in Thread : u # t => ~ HasTurn(u) /\ givenTid[u] # g
    BY <1>1, TurnIsTaken
  <1>. HIDE DEF g
  <1>3. /\ pc' = [pc EXCEPT ![t] = "running"]
        /\ control' = [control EXCEPT ![g] = FALSE]
        /\ UNCHANGED <<pid, creator, instr, givenTid, mThreads, mControllableThreads,
                       mNrRegistered, status, task, execution, failed>>
    BY <1>1, <1>2 DEF Perform, GoTo, registryVars, poolVars
  <1>. USE DEF RegistryInv, TypeInv, TypeOK, InstrOK
  <1>4. PidsDistinct' /\ MainFirst'
    BY <1>1, <1>3 DEF PidsDistinct, MainFirst
  <1>5. CreatorsFirst'
    BY <1>1, <1>3 DEF CreatorsFirst
  <1>6. Places'
    BY <1>1, <1>3 DEF Places, Given, Acting
  <1>7. FreshTids'
    <2>1. \A tid \in Tid : Fresh(tid) => Fresh(tid)'
      BY <1>3 DEF Fresh
    <2>. QED  BY <1>3, <2>1 DEF FreshTids, Creating
  <1>8. Registry' /\ DisabledJoins'
    BY <1>3 DEF Registry, DisabledJoins, Given
  <1>9. Statuses'
    <2>1. \A u \in Thread : Given(u)' =>
            /\ status'[givenTid'[u]] # "none"
            /\ status'[givenTid'[u]] = "FINISHED" <=> pc'[u] \in {"ended", "joined"}
            /\ pc'[u] = "waiting" => status'[givenTid'[u]] \in {"ENABLED", "DISABLED"}
      BY <1>1, <1>3 DEF Statuses, Given
    <2>2. ASSUME NEW tid \in Tid, task'[tid] # NoTask
          PROVE  \E u \in Thread :
                   /\ givenTid'[u] = tid /\ pc'[u] = "waiting" /\ ~ control'[tid]
                   /\ task'[tid] = [op |-> instr'[u].op, tid |-> instr'[u].tid]
      <3>1. tid # g
        BY <1>2, <1>3, <2>2
      <3>. QED  BY <1>3, <2>2, <3>1 DEF Statuses, g
    <2>3. \A tid \in Tid : control'[tid] =>
            \E u \in Thread : givenTid'[u] = tid /\ pc'[u] = "waiting"
      BY <1>2, <1>3 DEF Statuses, g
    <2>. QED  BY <2>1, <2>2, <2>3 DEF Statuses, Given
  <1>10. OneTurn'
    BY <1>2, <1>3 DEF OneTurn, HasTurn, Given
  <1>11. Failure'
    BY <1>2, <1>3 DEF Failure
  <1>12. JoinsItsThread' /\ NoFalseDeadlock' /\ DoneMeansEnded'
    BY <1>1, <1>3 DEF JoinsItsThread, NoFalseDeadlock, DoneMeansEnded
  <1>. QED
    BY <1>4, <1>5, <1>6, <1>7, <1>8, <1>9, <1>10, <1>11, <1>12

LEMMA JoinInv ==
  ASSUME RegistryInv, NEW t \in Thread, Perform(t), failed' = failed, TypeInv',
         instr[t].op = "Join"
  PROVE  RegistryInv'
  <1>. DEFINE g == givenTid[t]
              j == instr[t].thread
  <1>1. /\ pc[t] \in {"waiting", "uncontrolled"}
        /\ j \in Thread /\ pc[j] = "ended" /\ pc' = [pc EXCEPT ![t] = "running", ![j] = "joined"]
        /\ UNCHANGED <<pid, creator, instr, givenTid, mThreads, mControllableThreads,
                       mNrRegistered, status, task, execution, failed>>
    <2>1. pc[t] \in {"waiting", "uncontrolled"}
      BY DEF Perform
    <2>2. j \in Thread
      BY <2>1 DEF RegistryInv, Places, TypeInv, InstrOK
    <2>. QED  BY <2>1, <2>2 DEF Perform, registryVars, poolVars
  <1>2. /\ g \in Tid /\ Given(t) /\ TidOf(t) = g
        /\ \A u \in Thread : u # t => givenTid[u] # g
    BY <1>1, ActsUnderTid DEF Acting, RegistryInv, Registry
  <1>3. task[g] = NoTask /\ control' = [control EXCEPT ![g] = FALSE]
    <2>1. CASE pc[t] = "waiting"
      BY <2>1, TurnIsTaken DEF Perform
    <2>2. CASE pc[t] = "uncontrolled"
      <3>1. ~ control[g] /\ task[g] = NoTask
        BY <1>2, <2>2 DEF RegistryInv, Statuses, TypeInv, TypeOK, InstrOK
      <3>2. control' = control
        BY <2>2 DEF Perform
      <3>. QED  BY <1>2, <3>1, <3>2 DEF RegistryInv, TypeInv, TypeOK
    <2>. QED  BY <1>1, <2>1, <2>2
  <1>. HIDE DEF g, j
  <1>. USE DEF RegistryInv, TypeInv, TypeOK, InstrOK
  <1>4. PidsDistinct' /\ MainFirst'
    BY <1>1 DEF PidsDistinct, MainFirst
  <1>5. CreatorsFirst'
    BY <1>1 DEF CreatorsFirst
  <1>6. Places'
    BY <1>1, <1>2 DEF Places, Given, Acting
  <1>7. FreshTids'
    <2>1. \A tid \in Tid : Fresh(tid) => Fresh(tid)'
      BY <1>1, <1>2, <1>3 DEF Fresh
    <2>2. \A u \in Thread : Creating(u)' => Creating(u)
      BY <1>1 DEF Creating
    <2>. QED  BY <1>1, <2>1, <2>2 DEF FreshTids
  <1>8. Registry' /\ DisabledJoins'
    BY <1>1 DEF Registry, DisabledJoins, Given
  <1>9. Statuses'
    <2>1. \A u \in Thread : Given(u)' =>
            /\ status'[givenTid'[u]] # "none"
            /\ status'[givenTid'[u]] = "FINISHED" <=> pc'[u] \in {"ended", "joined"}
            /\ pc'[u] = "waiting" => status'[givenTid'[u]] \in {"ENABLED", "DISABLED"}
      BY <1>1 DEF Statuses, Given
    <2>2. ASSUME NEW tid \in Tid, task'[tid] # NoTask
          PROVE  \E u \in Thread :
                   /\ givenTid'[u] = tid /\ pc'[u] = "waiting" /\ ~ control'[tid]
                   /\ task'[tid] = [op |-> instr'[u].op, tid |-> instr'[u].tid]
      <3>1. tid # g /\ task[tid] # NoTask
        BY <1>1, <1>3, <2>2
      <3>2. PICK u \in Thread :
              /\ givenTid[u] = tid /\ pc[u] = "waiting" /\ ~ control[tid]
              /\ task[tid] = [op |-> instr[u].op, tid |-> instr[u].tid]
        BY <3>1 DEF Statuses
      <3>3. u # t /\ u # j
        BY <1>1, <3>1, <3>2 DEF g
      <3>. QED  BY <1>1, <1>3, <3>1, <3>2, <3>3
    <2>3. ASSUME NEW tid \in Tid, control'[tid]
          PROVE  \E u \in Thread : givenTid'[u] = tid /\ pc'[u] = "waiting"
      <3>1. tid # g /\ control[tid]
        BY <1>2, <1>3, <2>3
      <3>2. PICK u \in Thread : givenTid[u] = tid /\ pc[u] = "waiting"
        BY <3>1 DEF Statuses
      <3>. QED  BY <1>1, <3>1, <3>2 DEF g
    <2>. QED  BY <2>1, <2>2, <2>3 DEF Statuses, Given
  <1>10. \A u \in Thread : HasTurn(u)' => HasTurn(u)
    BY <1>1, <1>2, <1>3 DEF HasTurn, Given
  <1>11. OneTurn'
    BY <1>10 DEF OneTurn
  <1>12. Failure'
    <2>1. \A tid \in Tid : Lost(tid) => Lost(tid)'
      BY <1>1 DEF Lost
    <2>2. \A u \in Thread : pc'[u] = "registering" <=> pc[u] = "registering"
      BY <1>1
    <2>. QED  BY <1>1, <1>10, <2>1, <2>2 DEF Failure
  <1>13. JoinsItsThread' /\ NoFalseDeadlock' /\ DoneMeansEnded'
    BY <1>1 DEF JoinsItsThread, NoFalseDeadlock, DoneMeansEnded
  <1>. QED
    BY <1>4, <1>5, <1>6, <1>7, <1>8, <1>9, <1>11, <1>12, <1>13

\* The next thread to be created is not known to anybody, and has a pthread_t that no other
\* thread has or had, if none is used again.
LEMMA NextThread ==
  ASSUME RegistryInv, ReusePids = FALSE, NEW u \in Unborn, \A v \in Unborn : u <= v,
         NEW p \in FreePids, NEW t \in Thread, pc[t] # "unborn"
  PROVE  /\ u \in Thread /\ u # t /\ t < u /\ pc[u] = "unborn" /\ pid[u] = None
         /\ creator[u] = None /\ ~ Given(u) /\ u # None
         /\ \A s \in Thread : instr[s].thread # u /\ creator[s] # u
         /\ p \in Pids /\ \A s \in Thread : pid[s] # p
  <1>1. u \in Thread /\ pc[u] = "unborn"
    BY DEF Unborn
  <1>2. u # None /\ u \in Int /\ t \in Int
    BY <1>1 DEF Thread, None
  <1>3. pid[u] = None /\ creator[u] = None /\ ~ Given(u)
    BY <1>1 DEF RegistryInv, PidsDistinct, CreatorsFirst, Places
  <1>4. t < u /\ u # t
    BY <1>1, <1>2 DEF RegistryInv, CreatorsFirst
  <1>5. \A s \in Thread : instr[s].thread # u
    BY <1>1, <1>2, <1>3 DEF RegistryInv, CreatorsFirst, Thread, None
  <1>6. \A s \in Thread : creator[s] # u
    <2>. SUFFICES ASSUME NEW s \in Thread, creator[s] = u PROVE FALSE
      OBVIOUS
    <2>1. u < s /\ pc[s] # "unborn"
      BY <1>2 DEF RegistryInv, CreatorsFirst
    <2>. QED  BY <1>1, <1>2, <2>1 DEF RegistryInv, CreatorsFirst, Thread
  <1>7. p \in Pids /\ \A s \in Thread : pid[s] # p
    BY RegistrationAssumption DEF FreePids
  <1>. QED  BY <1>1, <1>2, <1>3, <1>4, <1>5, <1>6, <1>7

\* Of the creation of a thread the scheduler learns nothing.
LEMMA CreatesOrder ==
  ASSUME RegistryInv, ReusePids = FALSE, NEW u \in Unborn, \A v \in Unborn : u <= v,
         NEW p \in FreePids, NEW t \in Thread, pc[t] \in {"waiting", "running"},
         NEW label \in {"born", "library"}, NEW place \in {"registering", "running"},
         pid' = [pid EXCEPT ![u] = p],
         creator' = [creator EXCEPT ![u] = t],
         instr' = [instr EXCEPT ![t].thread = u],
         pc' = [pc EXCEPT ![t] = place, ![u] = label]
  PROVE  PidsDistinct' /\ CreatorsFirst' /\ (mNrRegistered' = mNrRegistered => MainFirst')
  <1>0. /\ u \in Thread /\ u # t /\ t < u /\ pc[u] = "unborn" /\ pid[u] = None
        /\ creator[u] = None /\ ~ Given(u) /\ u # None
        /\ \A s \in Thread : instr[s].thread # u /\ creator[s] # u
        /\ p \in Pids /\ \A s \in Thread : pid[s] # p
    BY NextThread
  <1>02. t \in Int /\ t # None /\ None \notin Pids /\ 0 \in Thread /\ \A s \in Thread : s \in Int
    BY RegistrationAssumption DEF Thread, None
  <1>01. \A r, s \in Thread : r # u /\ u <= r /\ r <= s => s # u
    BY <1>0 DEF Thread
  <1>. USE DEF RegistryInv, TypeInv, TypeOK, InstrOK
  <1>1. PidsDistinct'
    BY <1>0, <1>02 DEF PidsDistinct
  <1>2. CreatorsFirst'
    <2>1. ASSUME NEW r \in Thread, NEW s \in Thread, pc'[r] = "unborn", r <= s PROVE pc'[s] = "unborn"
      <3>1. pc[r] = "unborn" /\ r # u /\ r # t
        BY <1>0, <2>1
      <3>2. pc[s] = "unborn"
        BY <2>1, <3>1 DEF CreatorsFirst
      <3>3. u <= r
        BY <3>1 DEF Unborn
      <3>4. s # u /\ s # t
        <4>1. s # u
          BY <1>01, <2>1, <3>1, <3>3
        <4>. QED  BY <3>2, <4>1
      <3>. QED  BY <1>0, <3>2, <3>4
    <2>2. ASSUME NEW s \in Thread, creator'[s] # None PROVE creator'[s] < s /\ pc'[s] # "unborn"
      BY <1>0, <1>02, <2>2 DEF CreatorsFirst
    <2>3. ASSUME NEW s \in Thread, instr'[s].thread # None PROVE creator'[instr'[s].thread] = s
      BY <1>0, <1>02, <2>3 DEF CreatorsFirst
    <2>. QED  BY <2>1, <2>2, <2>3 DEF CreatorsFirst
  <1>3. MainFirst' \/ mNrRegistered' # mNrRegistered
    BY <1>0, <1>02 DEF MainFirst
  <1>. QED  BY <1>1, <1>2, <1>3

\* The creation of a thread by instrumented code is followed by its registration.
LEMMA SpawnInv ==
  ASSUME RegistryInv, ReusePids = FALSE, NEW t \in Thread, Perform(t), failed' = failed, TypeInv',
         instr[t].op = "Spawn"
  PROVE  RegistryInv'
  <1>. DEFINE g == givenTid[t]
  <1>1. pc[t] = "waiting" /\ control[TidOf(t)] /\ control' = [control EXCEPT ![TidOf(t)] = FALSE]
    BY DEF Perform, RegistryInv, TypeInv, CallKinds
  <1>2. /\ g \in Tid /\ Given(t) /\ TidOf(t) = g
        /\ HasTurn(t) /\ ~ failed /\ task[g] = NoTask
        /\ \A u \in Thread : u # t => ~ HasTurn(u) /\ givenTid[u] # g
    BY <1>1, TurnIsTaken
  <1>. HIDE DEF g
  <1>3. /\ control' = [control EXCEPT ![g] = FALSE]
        /\ UNCHANGED <<givenTid, mThreads, mControllableThreads,
                       mNrRegistered, status, task, execution, failed>>
    BY <1>1, <1>2 DEF Perform, registryVars, poolVars
  <1>4. PICK p \in Pids, u \in Unborn :
          /\ \A v \in Unborn : u <= v
          /\ p \in FreePids
          /\ pid' = [pid EXCEPT ![u] = p]
          /\ creator' = [creator EXCEPT ![u] = t]
          /\ instr' = [instr EXCEPT ![t].thread = u]
          /\ pc' = [pc EXCEPT ![t] = "registering", ![u] = "born"]
    BY <1>1 DEF Perform, Creates
  <1>5. /\ u \in Thread /\ u # t /\ pc[u] = "unborn" /\ pid[u] = None
        /\ ~ Given(u) /\ u # None
        /\ \A s \in Thread : instr[s].thread # u
        /\ p \in Pids /\ \A s \in Thread : pid[s] # p
    BY <1>1, <1>4, NextThread
  <1>6. PidsDistinct' /\ CreatorsFirst' /\ MainFirst'
    BY <1>1, <1>3, <1>4, CreatesOrder
  <1>. USE DEF RegistryInv, TypeInv, TypeOK, InstrOK
  <1>7. Places'
    BY <1>1, <1>2, <1>3, <1>4, <1>5 DEF Places, Given, Acting
  <1>8. FreshTids'
    <2>1. \A tid \in Tid : Fresh(tid) => Fresh(tid)'
      BY <1>3 DEF Fresh
    <2>2. \A s \in Thread : Creating(s)' => Creating(s) /\ instr'[s].tid = instr[s].tid
      BY <1>1, <1>4, <1>5 DEF Creating
    <2>. QED  BY <1>3, <2>1, <2>2 DEF FreshTids
  <1>9. Registry' /\ DisabledJoins'
    BY <1>3, <1>4, <1>5 DEF Registry, DisabledJoins, Given
  <1>10. Statuses'
    <2>1. \A s \in Thread : Given(s)' =>
            /\ status'[givenTid'[s]] # "none"
            /\ status'[givenTid'[s]] = "FINISHED" <=> pc'[s] \in {"ended", "joined"}
            /\ pc'[s] = "waiting" => status'[givenTid'[s]] \in {"ENABLED", "DISABLED"}
      BY <1>1, <1>3, <1>4, <1>5 DEF Statuses, Given
    <2>2. ASSUME NEW tid \in Tid, task'[tid] # NoTask
          PROVE  \E s \in Thread :
                   /\ givenTid'[s] = tid /\ pc'[s] = "waiting" /\ ~ control'[tid]
                   /\ task'[tid] = [op |-> instr'[s].op, tid |-> instr'[s].tid]
      <3>1. tid # g /\ task[tid] # NoTask
        BY <1>2, <1>3, <2>2
      <3>2. PICK s \in Thread :
              /\ givenTid[s] = tid /\ pc[s] = "waiting" /\ ~ control[tid]
              /\ task[tid] = [op |-> instr[s].op, tid |-> instr[s].tid]
        BY <3>1 DEF Statuses
      <3>3. s # t /\ s # u
        BY <1>5, <3>1, <3>2 DEF g
      <3>. QED  BY <1>3, <1>4, <1>5, <3>1, <3>2, <3>3
    <2>3. ASSUME NEW tid \in Tid, control'[tid]
          PROVE  \E s \in Thread : givenTid'[s] = tid /\ pc'[s] = "waiting"
      <3>1. tid # g /\ control[tid]
        BY <1>2, <1>3, <2>3
      <3>2. PICK s \in Thread : givenTid[s] = tid /\ pc[s] = "waiting"
        BY <3>1 DEF Statuses
      <3>. QED  BY <1>3, <1>4, <1>5, <3>1, <3>2 DEF g
    <2>. QED  BY <2>1, <2>2, <2>3 DEF Statuses, Given
  <1>11. \A s \in Thread : HasTurn(s)' => HasTurn(s)
    BY <1>2, <1>3, <1>4, <1>5 DEF HasTurn, Given
  <1>12. OneTurn'
    BY <1>11 DEF OneTurn
  <1>13. Failure'
    <2>1. ~ failed /\ ~ failed'
      BY <1>2, <1>3
    <2>. QED  BY <1>4, <1>5, <2>1 DEF Failure
  <1>14. JoinsItsThread' /\ NoFalseDeadlock' /\ DoneMeansEnded'
    <2>1. \A s \in Thread : pc'[s] = "waiting" => pc[s] = "waiting" /\ instr'[s] = instr[s]
      BY <1>4, <1>5
    <2>2. execution # "DONE"
      BY <1>1 DEF DoneMeansEnded
    <2>. QED
      BY <1>3, <2>1, <2>2 DEF JoinsItsThread, NoFalseDeadlock, DoneMeansEnded
  <1>. QED
    BY <1>6, <1>7, <1>8, <1>9, <1>10, <1>12, <1>13, <1>14

\* A thread of a library is never registered.
LEMMA CreateInLibraryInv ==
  ASSUME RegistryInv, ReusePids = FALSE, NEW t \in Thread, CreateInLibrary(t), failed' = failed,
         TypeInv'
  PROVE  RegistryInv'
  <1>1. /\ pc[t] = "running"
        /\ UNCHANGED <<givenTid, mThreads, mControllableThreads, control,
                       mNrRegistered, status, task, execution, failed>>
    BY DEF CreateInLibrary, registryVars, poolVars
  <1>2. PICK p \in Pids, u \in Unborn :
          /\ \A v \in Unborn : u <= v
          /\ p \in FreePids
          /\ pid' = [pid EXCEPT ![u] = p]
          /\ creator' = [creator EXCEPT ![u] = t]
          /\ instr' = [instr EXCEPT ![t].thread = u]
          /\ pc' = [pc EXCEPT ![t] = "running", ![u] = "library"]
    BY <1>1 DEF CreateInLibrary, Creates
  <1>3. /\ u \in Thread /\ u # t /\ pc[u] = "unborn" /\ pid[u] = None
        /\ ~ Given(u) /\ u # None
        /\ \A s \in Thread : instr[s].thread # u
        /\ p \in Pids /\ \A s \in Thread : pid[s] # p
    BY <1>1, <1>2, NextThread
  <1>4. PidsDistinct' /\ CreatorsFirst' /\ MainFirst'
    BY <1>1, <1>2, CreatesOrder
  <1>. USE DEF RegistryInv, TypeInv, TypeOK, InstrOK
  <1>5. Places'
    <2>1. \A s \in Thread : s # u => pc'[s] = pc[s]
      BY <1>1, <1>2, <1>3
    <2>2. \A s \in Thread : s # t => instr'[s] = instr[s]
      BY <1>2
    <2>3. pc'[u] = "library"
      BY <1>2, <1>3
    <2>4. ASSUME NEW s \in Thread, pc'[s] = "born", ~ Given(s)'
          PROVE  \E c \in Thread : pc'[c] = "registering" /\ instr'[c].thread = s
      <3>1. pc[s] = "born" /\ ~ Given(s)
        BY <1>1, <2>1, <2>3, <2>4 DEF Given
      <3>2. PICK c \in Thread : pc[c] = "registering" /\ instr[c].thread = s
        BY <3>1 DEF Places
      <3>3. c # t /\ c # u
        BY <1>1, <1>3, <3>2
      <3>. QED  BY <2>1, <2>2, <3>2, <3>3
    <2>. QED  BY <1>1, <1>3, <2>1, <2>2, <2>3, <2>4 DEF Places, Given, Acting
  <1>6. FreshTids'
    <2>1. \A tid \in Tid : Fresh(tid) => Fresh(tid)'
      BY <1>1 DEF Fresh
    <2>2. \A s \in Thread : Creating(s)' => Creating(s) /\ instr'[s].tid = instr[s].tid
      BY <1>1, <1>2, <1>3 DEF Creating
    <2>. QED  BY <1>1, <2>1, <2>2 DEF FreshTids
  <1>7. Registry' /\ DisabledJoins'
    BY <1>1, <1>2, <1>3 DEF Registry, DisabledJoins, Given
  <1>8. Statuses'
    <2>1. \A s \in Thread : pc[s] = "waiting" =>
            pc'[s] = "waiting" /\ instr'[s] = instr[s]
      BY <1>1, <1>2, <1>3
    <2>2. \A s \in Thread : Given(s) => pc'[s] = pc[s]
      BY <1>1, <1>2, <1>3
    <2>. QED  BY <1>1, <2>1, <2>2 DEF Statuses, Given
  <1>9. \A s \in Thread : HasTurn(s)' => HasTurn(s)
    BY <1>1, <1>2, <1>3 DEF HasTurn, Given
  <1>10. OneTurn'
    BY <1>9 DEF OneTurn
  <1>11. Failure'
    <2>1. \A tid \in Tid : Lost(tid) => Lost(tid)'
      BY <1>1 DEF Lost
    <2>2. \A s \in Thread : pc'[s] = "registering" <=> pc[s] = "registering"
      BY <1>1, <1>2, <1>3
    <2>3. \A s \in Thread : pc[s] = "registering" => instr'[s] = instr[s]
      BY <1>1, <1>2
    <2>. QED  BY <1>1, <1>9, <2>1, <2>2, <2>3 DEF Failure
  <1>12. JoinsItsThread'
    BY <1>1, <1>2, <1>3 DEF JoinsItsThread
  <1>13. NoFalseDeadlock'
    BY <1>1, <1>2, <1>3 DEF NoFalseDeadlock
  <1>14. DoneMeansEnded'
    BY <1>1, <1>2, <1>3 DEF DoneMeansEnded
  <1>. QED  BY <1>4, <1>5, <1>6, <1>7, <1>8, <1>10, <1>11, <1>12, <1>13, <1>14

\* A creation that fails takes the turn of its thread, which goes on to the registration.
LEMMA CreationFailsInv ==
  ASSUME RegistryInv, NEW t \in Thread, CreationFails(t), TypeInv'
  PROVE  RegistryInv'
  <1>. DEFINE g == givenTid[t]
  <1>1. pc[t] = "waiting" /\ control[TidOf(t)] /\ instr[t].op = "Spawn"
    BY DEF CreationFails
  <1>2. /\ g \in Tid /\ Given(t) /\ TidOf(t) = g
        /\ HasTurn(t) /\ ~ failed /\ task[g] = NoTask
        /\ \A u \in Thread : u # t => ~ HasTurn(u) /\ givenTid[u] # g
    BY <1>1, TurnIsTaken
  <1>. HIDE DEF g
  <1>3. /\ pc' = [pc EXCEPT ![t] = "registering"]
        /\ control' = [control EXCEPT ![g] = FALSE] /\ failed' = TRUE
        /\ UNCHANGED <<pid, creator, instr, givenTid, mThreads, mControllableThreads,
                       mNrRegistered, status, task, execution>>
    BY <1>1, <1>2 DEF CreationFails, GoTo, registryVars, poolVars
  <1>4. instr[t].thread = None
    BY <1>1 DEF RegistryInv, Places
  <1>. USE DEF RegistryInv, TypeInv, TypeOK, InstrOK
  <1>5. PidsDistinct' /\ MainFirst'
    BY <1>1, <1>3 DEF PidsDistinct, MainFirst
  <1>6. CreatorsFirst'
    BY <1>1, <1>3 DEF CreatorsFirst
  <1>7. Places'
    BY <1>1, <1>3, <1>4 DEF Places, Given, Acting
  <1>8. FreshTids'
    <2>1. \A tid \in Tid : Fresh(tid) => Fresh(tid)'
      BY <1>3 DEF Fresh
    <2>2. \A s \in Thread : Creating(s)' <=> Creating(s)
      BY <1>1, <1>3 DEF Creating
    <2>. QED  BY <1>3, <2>1, <2>2 DEF FreshTids
  <1>9. Registry' /\ DisabledJoins'
    BY <1>3 DEF Registry, DisabledJoins, Given
  <1>10. Statuses'
    <2>1. \A s \in Thread : Given(s)' =>
            /\ status'[givenTid'[s]] # "none"
            /\ status'[givenTid'[s]] = "FINISHED" <=> pc'[s] \in {"ended", "joined"}
            /\ pc'[s] = "waiting" => status'[givenTid'[s]] \in {"ENABLED", "DISABLED"}
      BY <1>1, <1>3 DEF Statuses, Given
    <2>2. ASSUME NEW tid \in Tid, task'[tid] # NoTask
          PROVE  \E s \in Thread :
                   /\ givenTid'[s] = tid /\ pc'[s] = "waiting" /\ ~ control'[tid]
                   /\ task'[tid] = [op |-> instr'[s].op, tid |-> instr'[s].tid]
      <3>1. tid # g
        BY <1>2, <1>3, <2>2
      <3>. QED  BY <1>3, <2>2, <3>1 DEF Statuses, g
    <2>3. \A tid \in Tid : control'[tid] =>
            \E s \in Thread : givenTid'[s] = tid /\ pc'[s] = "waiting"
      BY <1>2, <1>3 DEF Statuses, g
    <2>. QED  BY <2>1, <2>2, <2>3 DEF Statuses, Given
  <1>11. OneTurn'
    <2>1. \A s \in Thread : HasTurn(s)' => HasTurn(s)
      BY <1>2, <1>3 DEF HasTurn, Given
    <2>. QED  BY <2>1 DEF OneTurn
  <1>12. Failure'
    BY <1>3, <1>4 DEF Failure
  <1>13. JoinsItsThread' /\ NoFalseDeadlock'
    BY <1>1, <1>3 DEF JoinsItsThread, NoFalseDeadlock
  <1>14. DoneMeansEnded'
    BY <1>1, <1>3 DEF DoneMeansEnded
  <1>. QED
    BY <1>5, <1>6, <1>7, <1>8, <1>9, <1>10, <1>11, <1>12, <1>13, <1>14

\* The registration gives a thread the tid that was taken for it, or leaves a tid that
\* nobody has.
LEMMA RegisterCreatedInv ==
  ASSUME RegistryInv, NEW t \in Thread, RegisterCreatedThread(t), failed' = failed, TypeInv',
         NEW tid, tid = instr[t].tid, NEW u, u = instr[t].thread, NEW g, g = givenTid[t]
  PROVE  RegistryInv'
  <1>0. None \notin Thread /\ None \notin Tid /\ None \notin Pids
    BY RegistrationAssumption DEF Thread, Tid, None
  <1>1. pc[t] = "registering" /\ instr[t].op = "Spawn" /\ u \in Thread \cup {None}
    BY DEF RegisterCreatedThread, RegistryInv, Places, TypeInv, InstrOK
  <1>2. /\ tid \in Tid /\ tid < mNrRegistered /\ Fresh(tid)
        /\ \A s \in Thread : s # t /\ Creating(s) => instr[s].tid # tid
    BY <1>1 DEF RegistryInv, FreshTids, Creating
  <1>3. g \in Tid /\ Given(t) /\ HasTurn(t) /\ \A s \in Thread : s # t => ~ HasTurn(s)
    BY <1>1, ActsUnderTid DEF Acting, HasTurn, RegistryInv, OneTurn
  <1>4. PICK p \in CreatedPids(t) : RegisterThread(p, tid)
    BY DEF RegisterCreatedThread
  <1>5. /\ pc' = [pc EXCEPT ![t] = "running"]
        /\ givenTid' = [s \in Thread |-> IF s = u THEN tid ELSE givenTid[s]]
        /\ UNCHANGED <<pid, creator, instr, control, mNrRegistered, task, execution, failed>>
    BY DEF RegisterCreatedThread, GoTo
  <1>6. /\ p \in Pids
        /\ u # None => p = pid[u] /\ mThreads[p] = None /\ pc[u] = "born" /\ ~ failed
                       /\ ~ Given(u) /\ u # t
    <2>1. CASE u = None
      BY <1>4, <2>1 DEF CreatedPids
    <2>2. CASE u # None
      BY <1>1, <1>4, <2>2, NotYetRegistered DEF CreatedPids, RegistryInv, Places
    <2>. QED  BY <2>1, <2>2
  <1>7. /\ status' = [status EXCEPT ![tid] = "START"]
        /\ mControllableThreads' = [mControllableThreads EXCEPT ![tid] = p]
        /\ mThreads' = [mThreads EXCEPT ![p] = IF @ = None THEN tid ELSE @]
    BY <1>2, <1>4 DEF RegisterThread, Insert, Fresh
  <1>8. \A s \in Thread : givenTid[s] # tid
    BY <1>2 DEF Fresh
  <1>9. ~ control[g] /\ ~ control[tid] /\ task[tid] = NoTask /\ status[tid] = "none"
    <2>1. ~ control[g]
      BY <1>1, <1>3 DEF RegistryInv, Statuses, Registry, Given
    <2>. QED  BY <1>2, <2>1 DEF Fresh
  <1>. USE DEF RegistryInv, TypeInv, TypeOK, InstrOK
  <1>10. PidsDistinct' /\ MainFirst'
    BY <1>1, <1>5 DEF PidsDistinct, MainFirst
  <1>11. CreatorsFirst'
    BY <1>1, <1>5 DEF CreatorsFirst
  <1>12. \A s \in Thread : s # u => (Given(s)' <=> Given(s)) /\ givenTid'[s] = givenTid[s]
    BY <1>5 DEF Given
  <1>13. u # None => Given(u)' /\ givenTid'[u] = tid
    BY <1>0, <1>1, <1>2, <1>5 DEF Given
  <1>14. Places'
    <2>1. ASSUME NEW s \in Thread, pc'[s] \in Acting PROVE Given(s)'
      <3>1. s = t \/ pc[s] \in Acting
        BY <1>5, <2>1
      <3>2. Given(s)
        BY <1>3, <3>1 DEF Places
      <3>. QED  BY <1>0, <1>12, <1>13, <3>2
    <2>2. ASSUME NEW s \in Thread, pc'[s] \in {"main", "unborn", "library"} PROVE ~ Given(s)'
      <3>1. pc[s] = pc'[s] /\ s # u
        BY <1>0, <1>1, <1>5, <1>6, <2>2
      <3>. QED  BY <1>12, <2>2, <3>1 DEF Places
    <2>3. ASSUME NEW s \in Thread, pc'[s] = "born", ~ Given(s)'
          PROVE  \E c \in Thread : pc'[c] = "registering" /\ instr'[c].thread = s
      <3>1. pc[s] = "born" /\ s # u
        BY <1>0, <1>1, <1>5, <1>13, <2>3
      <3>2. ~ Given(s)
        BY <1>12, <2>3, <3>1
      <3>3. PICK c \in Thread : pc[c] = "registering" /\ instr[c].thread = s
        BY <3>1, <3>2 DEF Places
      <3>4. c # t
        BY <3>1, <3>3
      <3>. QED  BY <1>5, <3>3, <3>4
    <2>4. ASSUME NEW s \in Thread, pc'[s] = "registering", instr'[s].thread # None
          PROVE  pc'[instr'[s].thread] = "born" /\ ~ Given(instr[s].thread)'
      <3>1. pc[s] = "registering" /\ s # t /\ instr'[s] = instr[s]
        BY <1>5, <2>4
      <3>2. HasTurn(s)
        BY <3>1 DEF HasTurn, Places, Acting
      <3>. QED  BY <1>3, <3>1, <3>2
    <2>5. \A s \in Thread : pc'[s] \in {"registering", "waiting", "uncontrolled"} => pc'[s] = pc[s]
      BY <1>5
    <2>. QED  BY <1>5, <2>1, <2>2, <2>3, <2>4, <2>5 DEF Places
  <1>15. FreshTids'
    <2>1. ASSUME NEW x \in Tid, Fresh(x), x # tid PROVE Fresh(x)'
      BY <1>2, <1>5, <1>7, <2>1 DEF Fresh
    <2>2. \A s \in Thread : Creating(s)' => Creating(s) /\ s # t
      BY <1>5 DEF Creating
    <2>3. \A x \in Tid : x >= mNrRegistered => x # tid
      BY <1>2 DEF Tid
    <2>4. \A s \in Thread : Creating(s)' => instr[s].tid # tid
      BY <1>2, <2>2
    <2>. QED  BY <1>5, <2>1, <2>2, <2>3, <2>4 DEF FreshTids
  <1>16. Registry'
    <2>1. \A r, s \in Thread : r # s /\ Given(r)' => givenTid'[r] # givenTid'[s]
      BY <1>5, <1>8 DEF Registry, Given
    <2>2. ASSUME NEW s \in Thread, Given(s)'
          PROVE  mThreads'[pid[s]] = givenTid'[s] /\ mControllableThreads'[givenTid'[s]] = pid[s]
      <3>1. CASE s = u
        BY <1>0, <1>2, <1>6, <1>7, <1>12, <1>13, <2>2, <3>1
      <3>2. CASE s # u
        <4>1. /\ givenTid'[s] = givenTid[s] /\ givenTid[s] \in Tid /\ givenTid[s] # tid
              /\ mThreads[pid[s]] = givenTid[s] /\ mControllableThreads[givenTid[s]] = pid[s]
          BY <1>8, <1>12, <2>2, <3>2 DEF Registry, Given
        <4>. QED  BY <1>0, <1>7, <4>1
      <3>. QED  BY <3>1, <3>2
    <2>3. ASSUME NEW x \in Pids, mThreads'[x] # None, ~ failed
          PROVE  \E s \in Thread : pid[s] = x /\ Given(s)'
      <3>1. u # None
        BY <1>1, <2>3 DEF Failure
      <3>2. CASE x = p
        BY <1>1, <1>6, <1>13, <3>1, <3>2
      <3>3. CASE x # p
        <4>1. PICK s \in Thread : pid[s] = x /\ Given(s)
          BY <1>7, <2>3, <3>3 DEF Registry
        <4>. QED  BY <1>0, <1>12, <1>13, <4>1
      <3>. QED  BY <3>2, <3>3
    <2>. QED  BY <1>5, <2>1, <2>2, <2>3 DEF Registry
  <1>17. Statuses'
    <2>1. ASSUME NEW s \in Thread, Given(s)'
          PROVE  /\ status'[givenTid'[s]] # "none"
                 /\ status'[givenTid'[s]] = "FINISHED" <=> pc'[s] \in {"ended", "joined"}
                 /\ pc'[s] = "waiting" => status'[givenTid'[s]] \in {"ENABLED", "DISABLED"}
      <3>1. CASE s = u
        BY <1>0, <1>1, <1>2, <1>5, <1>6, <1>7, <1>13, <3>1
      <3>2. CASE s # u
        <4>1. givenTid'[s] = givenTid[s] /\ givenTid[s] # tid /\ Given(s)
          BY <1>8, <1>12, <2>1, <3>2
        <4>2. status'[givenTid'[s]] = status[givenTid[s]]
          BY <1>7, <4>1
        <4>. QED  BY <1>1, <1>5, <4>1, <4>2 DEF Statuses
      <3>. QED  BY <3>1, <3>2
    <2>2. ASSUME NEW x \in Tid, task'[x] # NoTask
          PROVE  \E s \in Thread :
                   /\ givenTid'[s] = x /\ pc'[s] = "waiting" /\ ~ control'[x]
                   /\ task'[x] = [op |-> instr'[s].op, tid |-> instr'[s].tid]
      <3>1. PICK s \in Thread :
              /\ givenTid[s] = x /\ pc[s] = "waiting" /\ ~ control[x]
              /\ task[x] = [op |-> instr[s].op, tid |-> instr[s].tid]
        BY <1>5, <2>2 DEF Statuses
      <3>2. s # u /\ s # t
        BY <1>0, <1>1, <1>6, <3>1
      <3>. QED  BY <1>5, <3>1, <3>2
    <2>3. ASSUME NEW x \in Tid, control'[x]
          PROVE  \E s \in Thread : givenTid'[s] = x /\ pc'[s] = "waiting"
      <3>1. PICK s \in Thread : givenTid[s] = x /\ pc[s] = "waiting"
        BY <1>5, <2>3 DEF Statuses
      <3>2. s # u /\ s # t
        BY <1>0, <1>1, <1>6, <3>1
      <3>. QED  BY <1>5, <3>1, <3>2
    <2>. QED  BY <2>1, <2>2, <2>3 DEF Statuses
  <1>18. DisabledJoins'
    BY <1>5, <1>7, <1>9 DEF DisabledJoins
  <1>19. \A s \in Thread : ~ HasTurn(s)'
    <2>1. ASSUME NEW s \in Thread, HasTurn(s)' PROVE FALSE
      <3>1. CASE s = u
        BY <1>0, <1>1, <1>5, <1>6, <1>9, <1>13, <2>1, <3>1 DEF HasTurn
      <3>2. CASE s = t
        BY <1>3, <1>5, <1>9, <1>12, <2>1, <3>1, <3>2 DEF HasTurn
      <3>3. CASE s # u /\ s # t
        BY <1>3, <1>5, <1>12, <2>1, <3>3 DEF HasTurn
      <3>. QED  BY <3>1, <3>2, <3>3
    <2>. QED  BY <2>1
  <1>20. OneTurn'
    BY <1>19 DEF OneTurn
  <1>21. Failure'
    <2>1. \A s \in Thread : pc'[s] # "registering"
      <3>1. ASSUME NEW s \in Thread, pc'[s] = "registering" PROVE FALSE
        <4>1. pc[s] = "registering" /\ s # t
          BY <1>5, <3>1
        <4>. QED  BY <1>3, <4>1 DEF HasTurn, Places, Acting
      <3>. QED  BY <3>1
    <2>2. failed => u = None
      BY <1>6
    <2>3. failed => Lost(tid)'
      BY <1>2, <1>5, <1>7, <1>8, <1>9, <1>12, <2>2, <1>0 DEF Lost
    <2>. QED  BY <1>2, <1>5, <1>19, <2>1, <2>3 DEF Failure
  <1>22. JoinsItsThread'
    <2>. SUFFICES ASSUME NEW s \in Thread, pc'[s] = "waiting", instr'[s].op = "Join"
                  PROVE  \/ instr[s].tid = givenTid'[instr[s].thread]
                         \/ givenTid'[instr[s].thread] = None /\ failed
      BY <1>5 DEF JoinsItsThread
    <2>1. pc[s] = "waiting" /\ instr[s].op = "Join" /\ s # t
      BY <1>5
    <2>2. instr[s].thread \in Thread
      BY <2>1 DEF Places
    <2>3. instr[s].thread # u
      BY SMTT(30), <2>1, <2>2, <1>0 DEF CreatorsFirst
    <2>. QED  BY <1>5, <2>1, <2>2, <2>3 DEF JoinsItsThread
  <1>23. NoFalseDeadlock' /\ DoneMeansEnded'
    BY <1>1, <1>5 DEF NoFalseDeadlock, DoneMeansEnded
  <1>. QED
    BY <1>10, <1>11, <1>14, <1>15, <1>16, <1>17, <1>18, <1>20, <1>21, <1>22, <1>23

\* Main takes the first tid, when there is no other thread.
LEMMA RegisterMainInv ==
  ASSUME RegistryInv, RegisterMainThread, TypeInv'
  PROVE  RegistryInv'
  <1>0. 0 \in Thread /\ 0 \in Tid /\ None \notin Tid /\ None \notin Pids /\ None # 0
    BY RegistrationAssumption DEF Thread, Tid, None
  <1>1. /\ pc[0] = "main" /\ mNrRegistered = 0
        /\ \A u \in Thread : u # 0 => pc[u] = "unborn"
    BY <1>0 DEF RegisterMainThread, RegistryInv, MainFirst
  <1>2. /\ pc' = [pc EXCEPT ![0] = "born"] /\ givenTid' = [givenTid EXCEPT ![0] = 0]
        /\ mNrRegistered' = 1 /\ RegisterThread(pid[0], 0)
        /\ UNCHANGED <<calls, pid, creator, instr, failed, control, task, execution>>
    BY <1>1 DEF RegisterMainThread, GoTo
  <1>3. \A tid \in Tid : Fresh(tid)
    BY <1>1 DEF RegistryInv, FreshTids, Tid
  <1>4. /\ \A u \in Thread : ~ Given(u) /\ ~ HasTurn(u)
        /\ ~ failed
    BY <1>1, <1>3 DEF RegistryInv, Places, HasTurn, Failure, Lost, Fresh
  <1>5. pid[0] \in Pids /\ \A p \in Pids : mThreads[p] = None
    BY <1>0, <1>1, <1>4 DEF RegistryInv, Registry, PidsDistinct, TypeInv, TypeOK
  <1>6. /\ mThreads' = [mThreads EXCEPT ![pid[0]] = 0]
        /\ mControllableThreads' = [mControllableThreads EXCEPT ![0] = pid[0]]
        /\ status' = [status EXCEPT ![0] = "START"]
    BY <1>0, <1>2, <1>3, <1>5 DEF RegisterThread, Insert, Fresh
  <1>7. \A u \in Thread : (Given(u)' <=> u = 0) /\ (u # 0 => givenTid'[u] = None)
    BY <1>0, <1>2, <1>4 DEF Given, RegistryInv, TypeInv, TypeOK
  <1>8. givenTid'[0] = 0 /\ pc'[0] = "born" /\ \A u \in Thread : u # 0 => pc'[u] = "unborn"
    BY <1>0, <1>1, <1>2 DEF RegistryInv, TypeInv, TypeOK
  <1>. USE DEF RegistryInv, TypeInv, TypeOK, InstrOK
  <1>9. PidsDistinct' /\ MainFirst' /\ CreatorsFirst'
    <2>1. PidsDistinct'
      BY <1>0, <1>1, <1>2, <1>8 DEF PidsDistinct
    <2>2. MainFirst'
      BY <1>0, <1>8 DEF MainFirst
    <2>3. CreatorsFirst'
      <3>1. \A r, s \in Thread : pc'[r] = "unborn" /\ r <= s => s # 0
        <4>1. \A r, s \in Thread : r # 0 /\ r <= s => s # 0
          BY DEF Thread
        <4>. QED  BY <1>8, <4>1
      <3>. QED  BY <1>1, <1>2, <1>8, <3>1 DEF CreatorsFirst
    <2>. QED  BY <2>1, <2>2, <2>3
  <1>10. Places'
    BY <1>0, <1>7, <1>8 DEF Places, Acting
  <1>11. FreshTids'
    <2>1. ASSUME NEW tid \in Tid, tid # 0 PROVE Fresh(tid)'
      BY <1>0, <1>2, <1>3, <1>6, <1>7, <1>8, <2>1 DEF Fresh
    <2>2. \A tid \in Tid : tid >= 1 => tid # 0
      BY DEF Tid
    <2>3. \A u \in Thread : ~ Creating(u)'
      BY <1>8 DEF Creating
    <2>. QED  BY <1>2, <2>1, <2>2, <2>3 DEF FreshTids
  <1>12. Registry'
    BY <1>0, <1>2, <1>5, <1>6, <1>7, <1>8 DEF Registry
  <1>13. Statuses' /\ DisabledJoins'
    BY <1>0, <1>2, <1>3, <1>6, <1>7, <1>8 DEF Statuses, DisabledJoins, Fresh
  <1>14. OneTurn' /\ Failure'
    BY <1>2, <1>4, <1>7, <1>8 DEF OneTurn, Failure, HasTurn
  <1>15. JoinsItsThread' /\ NoFalseDeadlock' /\ DoneMeansEnded'
    BY <1>0, <1>1, <1>2, <1>8 DEF JoinsItsThread, NoFalseDeadlock, DoneMeansEnded
  <1>. QED  BY <1>9, <1>10, <1>11, <1>12, <1>13, <1>14, <1>15

\* The relation that orders the natural numbers has no infinite descent.
LEMMA LessRelation ==
  \E R : IsWellFoundedOn(R, Nat) /\ \A x, y \in Nat : x < y => <<x, y>> \in R
  <1>1. \A x, y \in Nat : x < y => <<x, y>> \in OpToRel(<, Nat)
    BY DEF OpToRel
  <1>. QED  BY <1>1, NatLessThanWellFounded

\* So a set of them has a least element.
LEMMA LeastElement ==
  ASSUME NEW S, S \subseteq Nat, S # {}
  PROVE  \E n \in S : \A k \in S : n <= k
  <1>1. PICK R : IsWellFoundedOn(R, Nat) /\ \A x, y \in Nat : x < y => <<x, y>> \in R
    BY LessRelation, Zenon
  <1>2. IsWellFoundedOn(R, Nat)
    BY <1>1
  <1>3. \E n \in S : \A k \in S : ~ (<<k, n>> \in R)
    BY <1>2, WFMin
  <1>4. PICK n \in S : \A k \in S : ~ (<<k, n>> \in R)
    BY <1>3, Zenon
  <1>5. ASSUME NEW k \in S PROVE n <= k
    <2>1. ~ (<<k, n>> \in R) /\ k \in Nat /\ n \in Nat
      BY <1>4, Zenon
    <2>2. ~ (k < n)
      BY <1>1, <2>1, Zenon
    <2>. QED  BY <2>1, <2>2
  <1>. QED  BY <1>4, <1>5

\* And a set of threads has a last one.
LEMMA LastThread ==
  ASSUME NEW S, S \subseteq Thread, S # {}
  PROVE  \E t \in S : \A u \in S : u <= t
  <1>1. NrThreads \in Nat
    BY RegistrationAssumption
  <1>. DEFINE D == {NrThreads - 1 - t : t \in S}
  <1>2. D \subseteq Nat /\ D # {}
    <2>1. \A t \in Thread : NrThreads - 1 - t \in Nat
      BY <1>1 DEF Thread
    <2>. QED  BY <2>1
  <1>3. PICK n \in D : \A k \in D : n <= k
    BY <1>2, LeastElement
  <1>4. PICK t \in S : n = NrThreads - 1 - t
    BY <1>3
  <1>5. \A u \in S : NrThreads - 1 - u \in D /\ u \in Int
    BY DEF Thread
  <1>. HIDE DEF D
  <1>6. \A u \in S : u <= t
    BY <1>1, <1>3, <1>4, <1>5
  <1>. QED  BY <1>6

\* In a round nobody has the turn, and no creation has failed; everybody who has a tid has
\* finished or has posted.
LEMMA RoundPlace ==
  ASSUME RegistryInv, UnfinishedThreadsHavePosted
  PROVE  /\ \A t \in Thread : ~ HasTurn(t)
         /\ ~ failed
         /\ \A t \in Thread : Given(t) /\ pc[t] \notin {"ended", "joined"} =>
               pc[t] = "waiting" /\ task[givenTid[t]] # NoTask
  <1>1. ASSUME NEW t \in Thread, Given(t), pc[t] \notin {"ended", "joined"}
        PROVE  pc[t] = "waiting" /\ task[givenTid[t]] # NoTask
    <2>1. givenTid[t] \in Tid /\ status[givenTid[t]] \notin {"none", "FINISHED"}
      BY <1>1 DEF RegistryInv, Statuses, Given, TypeInv, TypeOK
    <2>2. task[givenTid[t]] # NoTask
      BY <2>1 DEF UnfinishedThreadsHavePosted
    <2>3. PICK u \in Thread : givenTid[u] = givenTid[t] /\ pc[u] = "waiting"
      BY <2>1, <2>2 DEF RegistryInv, Statuses, TypeInv, TypeOK, InstrOK
    <2>4. u = t
      BY <1>1, <2>3 DEF RegistryInv, Registry
    <2>. QED  BY <2>2, <2>3, <2>4
  <1>2. ASSUME NEW t \in Thread, HasTurn(t) PROVE FALSE
    <2>1. Given(t) /\ givenTid[t] \in Tid /\ (control[givenTid[t]] \/ pc[t] = "registering")
      BY <1>2 DEF HasTurn, Given, RegistryInv, TypeInv, TypeOK
    <2>2. pc[t] # "registering" /\ control[givenTid[t]]
      BY <1>1, <2>1
    <2>3. task[givenTid[t]] = NoTask
      BY <2>1, <2>2 DEF RegistryInv, Statuses, TypeInv, TypeOK, InstrOK
    <2>4. PICK u \in Thread : givenTid[u] = givenTid[t] /\ pc[u] = "waiting"
      BY <2>1, <2>2 DEF RegistryInv, Statuses, TypeInv, TypeOK, InstrOK
    <2>5. u = t
      BY <2>1, <2>4 DEF RegistryInv, Registry
    <2>. QED  BY <1>1, <2>1, <2>3, <2>4, <2>5
  <1>3. ~ failed
    <2>1. ASSUME failed PROVE FALSE
      <3>1. ASSUME NEW t \in Thread, pc[t] = "registering" PROVE FALSE
        BY <1>2, <3>1 DEF HasTurn, RegistryInv, Places, Acting
      <3>2. PICK tid \in Tid : Lost(tid)
        BY <2>1, <3>1 DEF RegistryInv, Failure
      <3>. QED  BY <3>2 DEF Lost, UnfinishedThreadsHavePosted
    <2>. QED  BY <2>1
  <1>. QED  BY <1>1, <1>2, <1>3

\* A thread that waits to join another one has a lower number, so that of the threads that
\* wait the last one can go on: a round never finds all of them blocked.
LEMMA NobodyBlocked ==
  ASSUME RegistryInv, UnfinishedThreadsHavePosted, Enabled = {}
  PROVE  Posted = {}
  <1>. SUFFICES ASSUME Posted # {} PROVE FALSE
    OBVIOUS
  <1>. DEFINE W == {t \in Thread : Given(t) /\ pc[t] = "waiting" /\ task[givenTid[t]] # NoTask}
  <1>1. W # {}
    <2>1. PICK tid \in Tid : task[tid] # NoTask
      BY DEF Posted
    <2>2. PICK t \in Thread : givenTid[t] = tid /\ pc[t] = "waiting"
      BY <2>1 DEF RegistryInv, Statuses, TypeInv, TypeOK, InstrOK
    <2>3. Given(t)
      BY <2>2 DEF RegistryInv, Places, Acting
    <2>. QED  BY <2>1, <2>2, <2>3
  <1>2. PICK t \in W : \A u \in W : u <= t
    <2>1. W \subseteq Thread
      OBVIOUS
    <2>. HIDE DEF W
    <2>. QED  BY <1>1, <2>1, LastThread
  <1>. DEFINE g == givenTid[t]
  <1>3. g \in Tid /\ status[g] = "DISABLED" /\ task[g] # NoTask
    <2>1. g \in Tid /\ status[g] \in {"ENABLED", "DISABLED"} /\ task[g] # NoTask
      BY DEF RegistryInv, Statuses, Given, TypeInv, TypeOK
    <2>. QED  BY <2>1 DEF Enabled, Posted
  <1>4. task[g].op = "Join" /\ task[g].tid # None /\ status[task[g].tid] # "FINISHED"
    BY <1>3 DEF RegistryInv, DisabledJoins
  <1>5. task[g] = [op |-> instr[t].op, tid |-> instr[t].tid]
    <2>1. PICK u \in Thread :
            givenTid[u] = g /\ task[g] = [op |-> instr[u].op, tid |-> instr[u].tid]
      BY <1>3 DEF RegistryInv, Statuses, TypeInv, TypeOK, InstrOK
    <2>2. u = t
      BY <2>1 DEF RegistryInv, Registry
    <2>. QED  BY <2>1, <2>2
  <1>6. instr[t].op = "Join" /\ instr[t].tid = task[g].tid
    BY <1>4, <1>5
  <1>. DEFINE u == instr[t].thread
  <1>7. u \in Thread /\ u # None /\ instr[t].tid = givenTid[u]
    <2>1. u \in Thread /\ u # None
      BY <1>6 DEF RegistryInv, Places, TypeInv, InstrOK
    <2>2. ~ failed
      BY RoundPlace
    <2>. QED  BY <1>6, <2>1, <2>2 DEF RegistryInv, JoinsItsThread
  <1>8. Given(u) /\ status[givenTid[u]] # "FINISHED"
    BY <1>4, <1>6, <1>7 DEF Given
  <1>9. pc[u] \notin {"ended", "joined"}
    BY <1>7, <1>8 DEF RegistryInv, Statuses
  <1>10. u \in W
    BY <1>7, <1>8, <1>9, RoundPlace
  <1>11. t < u
    <2>1. t # None
      BY RegistrationAssumption DEF Thread, None
    <2>. QED  BY <1>7, <2>1 DEF RegistryInv, CreatorsFirst
  <1>12. u <= t /\ t \in Int /\ u \in Int
    BY <1>2, <1>7, <1>10 DEF Thread
  <1>. QED  BY <1>11, <1>12

\* A round preserves the invariant.
LEMMA RoundInv ==
  ASSUME RegistryInv, Round, TypeInv'
  PROVE  RegistryInv'
  <1>0. 0 \in Thread /\ 0 \in Tid /\ None \notin Tid
    BY RegistrationAssumption DEF Thread, Tid, None
  <1>1. /\ \A t \in Thread : ~ HasTurn(t)
        /\ ~ failed
        /\ \A t \in Thread : Given(t) /\ pc[t] \notin {"ended", "joined"} =>
               pc[t] = "waiting" /\ task[givenTid[t]] # NoTask
    BY RoundPlace DEF Round
  <1>2. UNCHANGED <<pc, calls, pid, creator, instr, givenTid, failed, mThreads,
                    mControllableThreads, mNrRegistered, status>>
    BY DEF Round, programVars, registryVars
  <1>. USE DEF RegistryInv, TypeInv, TypeOK, InstrOK
  <1>3. PidsDistinct' /\ CreatorsFirst' /\ MainFirst' /\ Places' /\ Registry' /\ JoinsItsThread'
    BY <1>2 DEF PidsDistinct, CreatorsFirst, MainFirst, Places, Registry, JoinsItsThread, Given,
                Acting
  <1>4. CASE \E tid \in Enabled :
               /\ task' = [task EXCEPT ![tid] = NoTask]
               /\ control' = [control EXCEPT ![tid] = TRUE]
               /\ UNCHANGED execution
    <2>1. PICK g \in Tid :
            /\ status[g] = "ENABLED" /\ task[g] # NoTask
            /\ task' = [task EXCEPT ![g] = NoTask]
            /\ control' = [control EXCEPT ![g] = TRUE]
            /\ UNCHANGED execution
      BY <1>4 DEF Enabled, Posted
    <2>2. PICK t \in Thread : givenTid[t] = g /\ pc[t] = "waiting"
      BY <2>1 DEF Statuses
    <2>3. \A u \in Thread : u # t => givenTid[u] # g
      BY <1>0, <2>2 DEF Registry, Given
    <2>4. FreshTids'
      <3>1. \A tid \in Tid : Fresh(tid) => Fresh(tid)'
        BY <1>2, <2>1 DEF Fresh
      <3>. QED  BY <1>2, <3>1 DEF FreshTids, Creating
    <2>5. Statuses'
      <3>1. ASSUME NEW x \in Tid, task'[x] # NoTask
            PROVE  \E s \in Thread :
                     /\ givenTid'[s] = x /\ pc'[s] = "waiting" /\ ~ control'[x]
                     /\ task'[x] = [op |-> instr'[s].op, tid |-> instr'[s].tid]
        <4>1. x # g /\ task[x] # NoTask
          BY <2>1, <3>1
        <4>2. PICK s \in Thread :
                /\ givenTid[s] = x /\ pc[s] = "waiting" /\ ~ control[x]
                /\ task[x] = [op |-> instr[s].op, tid |-> instr[s].tid]
          BY <4>1 DEF Statuses
        <4>. QED  BY <1>2, <2>1, <4>1, <4>2
      <3>2. \A x \in Tid : control'[x] =>
              \E s \in Thread : givenTid'[s] = x /\ pc'[s] = "waiting"
        BY <1>2, <2>1, <2>2 DEF Statuses
      <3>3. \A s \in Thread : Given(s)' =>
              /\ status'[givenTid'[s]] # "none"
              /\ status'[givenTid'[s]] = "FINISHED" <=> pc'[s] \in {"ended", "joined"}
              /\ pc'[s] = "waiting" => status'[givenTid'[s]] \in {"ENABLED", "DISABLED"}
        BY <1>2 DEF Statuses, Given
      <3>. QED  BY <3>1, <3>2, <3>3 DEF Statuses
    <2>6. DisabledJoins'
      BY <1>2, <2>1 DEF DisabledJoins
    <2>7. \A u \in Thread : HasTurn(u)' => u = t
      BY <1>1, <1>2, <2>1, <2>3 DEF HasTurn, Given
    <2>8. OneTurn' /\ Failure'
      <3>1. \A u \in Thread : pc[u] # "registering"
        BY <1>1 DEF HasTurn, Places, Acting
      <3>. QED  BY <1>1, <1>2, <2>7, <3>1 DEF OneTurn, Failure
    <2>9. NoFalseDeadlock' /\ DoneMeansEnded'
      BY <1>2, <2>1 DEF NoFalseDeadlock, DoneMeansEnded
    <2>. QED  BY <1>3, <2>4, <2>5, <2>6, <2>8, <2>9
  <1>5. CASE /\ Enabled = {}
             /\ execution' = IF Posted = {} THEN "DONE" ELSE "DEADLOCK"
             /\ UNCHANGED <<task, control>>
    <2>1. Posted = {} /\ execution' = "DONE"
      BY <1>5, NobodyBlocked DEF Round
    <2>2. FreshTids' /\ Statuses' /\ DisabledJoins'
      BY <1>2, <1>5 DEF FreshTids, Fresh, Creating, Statuses, DisabledJoins, Given
    <2>3. OneTurn' /\ Failure'
      BY <1>2, <1>5 DEF OneTurn, Failure, HasTurn, Given, Lost
    <2>4. NoFalseDeadlock'
      BY <2>1 DEF NoFalseDeadlock
    <2>5. DoneMeansEnded'
      <3>. SUFFICES ASSUME NEW t \in Thread, pc[t] \notin {"unborn", "library", "ended", "joined"}
                    PROVE  FALSE
        BY <1>1, <1>2 DEF DoneMeansEnded
      <3>1. \A u \in Thread : Given(u) => pc[u] \in {"ended", "joined"}
        BY <1>1, <2>1 DEF Posted, Given
      <3>2. ~ Given(t) /\ pc[t] \in {"main", "born"}
        BY <3>1 DEF Places, Acting
      <3>3. CASE pc[t] = "born"
        <4>1. PICK c \in Thread : pc[c] = "registering"
          BY <3>2, <3>3 DEF Places
        <4>. QED  BY <3>1, <4>1 DEF Places, Acting
      <3>4. CASE pc[t] = "main"
        <4>1. mNrRegistered = 0
          BY <3>4 DEF MainFirst
        <4>2. Fresh(0)
          BY <1>0, <4>1 DEF FreshTids
        <4>. QED  BY <4>2 DEF Fresh, Round
      <3>. QED  BY <3>2, <3>3, <3>4
    <2>. QED  BY <1>3, <2>2, <2>3, <2>4, <2>5
  <1>. QED  BY <1>4, <1>5 DEF Round

\* Initially only main is there, and nothing is registered.
LEMMA InitRegistry == Init => RegistryInv
  <1>. SUFFICES ASSUME Init PROVE RegistryInv
    OBVIOUS
  <1>0. 0 \in Thread /\ None \notin Tid /\ None \notin Pids /\ \A tid \in Tid : tid >= 0
    BY RegistrationAssumption DEF Thread, Tid, None
  <1>1. TypeInv
    BY InitType
  <1>2. PICK p \in Pids : pid = [t \in Thread |-> IF t = 0 THEN p ELSE None]
    BY DEF Init
  <1>3. PidsDistinct
    BY <1>0, <1>2 DEF Init, PidsDistinct
  <1>4. CreatorsFirst
    BY DEF Init, CreatorsFirst, NoInstr, Thread
  <1>5. MainFirst
    BY DEF Init, MainFirst
  <1>6. Places
    BY DEF Init, Places, Given, Acting
  <1>7. FreshTids
    BY <1>0 DEF Init, FreshTids, Fresh, Creating
  <1>8. Registry /\ Statuses /\ DisabledJoins
    BY DEF Init, Registry, Statuses, DisabledJoins, Given
  <1>9. OneTurn /\ Failure
    BY DEF Init, OneTurn, Failure, HasTurn, Given
  <1>10. JoinsItsThread /\ NoFalseDeadlock /\ DoneMeansEnded
    BY DEF Init, JoinsItsThread, NoFalseDeadlock, DoneMeansEnded
  <1>. QED  BY <1>1, <1>3, <1>4, <1>5, <1>6, <1>7, <1>8, <1>9, <1>10 DEF RegistryInv

LEMMA NextRegistry ==
  ASSUME ReusePids = FALSE, RegistryInv, [Next]_vars
  PROVE  RegistryInv'
  <1>1. TypeInv'
    BY NextType DEF RegistryInv
  <1>2. CASE RegisterMainThread
    BY <1>1, <1>2, RegisterMainInv
  <1>3. CASE Round
    BY <1>1, <1>3, RoundInv
  <1>4. ASSUME NEW t \in Thread, ThreadStep(t) PROVE RegistryInv'
    <2>. failed' = failed
      BY <1>4 DEF ThreadStep
    <2>1. CASE EnterFunction(t)
      BY <1>1, <2>1, EnterFunctionInv
    <2>2. CASE PostInstruction(t) \/ PostSpawnInstruction(t) \/ PostJoinInstruction(t)
      BY <1>1, <2>2, PostsInv
    <2>3. CASE Perform(t)
      <3>1. instr[t].op \in {"Access", "Spawn", "Join"}
        BY <2>3 DEF Perform, RegistryInv, TypeInv, InstrOK, InstrOp, CallKinds
      <3>. QED  BY <1>1, <2>3, <3>1, AccessInv, SpawnInv, JoinInv
    <2>4. CASE RegisterCreatedThread(t)
      BY <1>1, <2>4, RegisterCreatedInv
    <2>5. CASE ExitFunction(t)
      BY <1>1, <2>5, ExitFunctionInv
    <2>6. CASE CreateInLibrary(t)
      BY <1>1, <2>6, CreateInLibraryInv
    <2>7. CASE EndInLibrary(t)
      BY <1>1, <2>7, EndInLibraryInv
    <2>. QED  BY <1>4, <2>1, <2>2, <2>3, <2>4, <2>5, <2>6, <2>7 DEF ThreadStep
  <1>5. ASSUME NEW t \in Thread, CreationFails(t) PROVE RegistryInv'
    BY <1>1, <1>5, CreationFailsInv
  <1>6. CASE UNCHANGED vars
    BY <1>6 DEF vars, programVars, registryVars, poolVars, RegistryInv, TypeInv, TypeOK, InstrOK,
         TidsLeft, CallKinds, Spawning, Unborn, PidsDistinct, CreatorsFirst, MainFirst, Places,
         FreshTids, Fresh, Creating, Registry, Statuses, DisabledJoins, OneTurn, HasTurn, Failure,
         Lost, Given, JoinsItsThread, NoFalseDeadlock, DoneMeansEnded
  <1>. QED  BY <1>2, <1>3, <1>4, <1>5, <1>6 DEF Next
-----------------------------------------------------------------------------
\* Initially no thread has come to an instruction.
LEMMA InitAlone == Init => EndsAlone
  <1>. SUFFICES ASSUME Init PROVE EndsAlone
    OBVIOUS
  <1>1. \A t \in Thread : instr[t].op = "none" /\ ~ Given(t) /\ pc[t] # "uncontrolled"
    BY DEF Init, NoInstr, Given
  <1>. QED  BY <1>1 DEF EndsAlone, InOwnTurn, MayEnd

\* A semaphore is up only for a thread that waits.
LEMMA NoTurn ==
  ASSUME RegistryInv, NEW t \in Thread, Given(t), pc[t] # "waiting"
  PROVE  ~ control[givenTid[t]]
  <1>. SUFFICES ASSUME control[givenTid[t]] PROVE FALSE
    OBVIOUS
  <1>1. givenTid[t] \in Tid
    BY DEF RegistryInv, TypeInv, TypeOK, Given
  <1>2. PICK u \in Thread : givenTid[u] = givenTid[t] /\ pc[u] = "waiting"
    BY <1>1 DEF RegistryInv, Statuses
  <1>3. u = t
    BY <1>2 DEF RegistryInv, Registry
  <1>. QED  BY <1>2, <1>3

\* A thread in a call has its tid.
LEMMA OwnTidOf ==
  ASSUME RegistryInv, NEW t \in Thread, pc[t] \in Acting
  PROVE  Given(t) /\ TidOf(t) = givenTid[t] /\ givenTid[t] \in Tid
  BY DEF RegistryInv, Places, Registry, TidOf, Given, TypeInv, TypeOK

\* A thread that rests nowhere moves: nobody else can be in its own turn, before its step
\* or after it.
LEMMA MovesAlone ==
  ASSUME EndsAlone, NEW t \in Thread, ~ Resting(t),
         \A v \in Thread \ {t} : InOwnTurn(v)' => InOwnTurn(v),
         InOwnTurn(t)' => \A u \in Thread \ {t} : Resting(u)',
         \A v \in Thread :
           /\ pc'[v] \in {"main", "unborn", "born", "library"} => instr'[v].op = "none"
           /\ pc'[v] = "uncontrolled" => instr'[v].tid = None
  PROVE  EndsAlone'
  <1>1. \A v \in Thread \ {t} : ~ InOwnTurn(v)'
    BY Zenon DEF EndsAlone
  <1>2. ASSUME NEW v \in Thread, NEW u \in Thread, v # u, InOwnTurn(v)'
        PROVE  Resting(u)'
    <2>1. v = t
      BY <1>1, <1>2, Zenon
    <2>. QED  BY <1>2, <2>1, Zenon
  <1>. QED  BY <1>2, Zenon DEF EndsAlone

LEMMA EnterFunctionAlone ==
  ASSUME RegInv, NEW t \in Thread, EnterFunction(t)
  PROVE  EndsAlone'
  <1>. USE DEF RegInv, RegistryInv, TypeInv, TypeOK
  <1>1. /\ pc[t] = "born" /\ pc' = [pc EXCEPT ![t] = "running"]
        /\ UNCHANGED <<instr, givenTid, control>>
    BY DEF EnterFunction, GoTo
  <1>2. ~ Resting(t)
    BY <1>1 DEF Resting
  <1>3. \A v \in Thread \ {t} : InOwnTurn(v)' => InOwnTurn(v)
    BY <1>1 DEF InOwnTurn, Given, MayEnd
  <1>4. ~ InOwnTurn(t)'
    <2>1. Given(t) => ~ control[givenTid[t]]
      BY <1>1, NoTurn
    <2>2. instr[t].op = "none"
      BY <1>1 DEF EndsAlone
    <2>. QED  BY <1>1, <2>1, <2>2 DEF InOwnTurn, Given, MayEnd
  <1>5. \A v \in Thread :
          /\ pc'[v] \in {"main", "unborn", "born", "library"} => instr'[v].op = "none"
          /\ pc'[v] = "uncontrolled" => instr'[v].tid = None
    BY <1>1 DEF EndsAlone
  <1>. QED  BY <1>2, <1>3, <1>4, <1>5, MovesAlone, Zenon

\* A thread that posts, or that waits in a join without having posted it, has no turn.
LEMMA PostsAlone ==
  ASSUME RegInv, NEW t \in Thread,
         PostInstruction(t) \/ PostSpawnInstruction(t) \/ PostJoinInstruction(t)
  PROVE  EndsAlone'
  <1>. USE DEF RegInv, RegistryInv, TypeInv, TypeOK, InstrOK
  <1>1. PICK new : \/ PostTask(t, new)
                   \/ /\ new.tid = None /\ pc[t] = "running"
                      /\ instr' = [instr EXCEPT ![t] = new]
                      /\ GoTo(t, "uncontrolled")
                      /\ UNCHANGED <<givenTid, control>>
    BY DEF PostInstruction, PostSpawnInstruction, PostJoinInstruction
  <1>2. /\ pc[t] = "running" /\ \A v \in Thread \ {t} : pc'[v] = pc[v]
        /\ pc'[t] = "waiting" \/ (pc'[t] = "uncontrolled" /\ new.tid = None)
        /\ instr' = [instr EXCEPT ![t] = new]
        /\ UNCHANGED <<givenTid, control>>
    BY <1>1 DEF PostTask, GoTo
  <1>3. ~ Resting(t)
    BY <1>2 DEF Resting
  <1>4. \A v \in Thread \ {t} : InOwnTurn(v)' => InOwnTurn(v)
    BY <1>2 DEF InOwnTurn, Given, MayEnd
  <1>5. ~ InOwnTurn(t)'
    <2>1. Given(t) => ~ control[givenTid[t]]
      BY <1>2, NoTurn
    <2>2. pc'[t] # "running"
      BY <1>2
    <2>. QED  BY <1>2, <2>1, <2>2 DEF InOwnTurn, Given
  <1>6. ASSUME NEW v \in Thread
        PROVE  /\ pc'[v] \in {"main", "unborn", "born", "library"} => instr'[v].op = "none"
               /\ pc'[v] = "uncontrolled" => instr'[v].tid = None
    <2>1. CASE v = t
      BY <1>2, <2>1
    <2>2. CASE v # t
      BY <1>2, <2>2 DEF EndsAlone
    <2>. QED  BY <2>1, <2>2
  <1>. QED  BY <1>3, <1>4, <1>5, <1>6, MovesAlone, Zenon

\* A thread that has the turn, or that waits without control, does what it has announced.
LEMMA PerformPlace ==
  ASSUME RegInv, NEW t \in Thread, Perform(t) \/ CreationFails(t)
  PROVE  /\ ~ Resting(t)
         /\ Given(t) /\ givenTid[t] \in Tid
         /\ ~ control'[givenTid[t]]
         /\ \A tid \in Tid : control'[tid] => control[tid]
         /\ \/ pc[t] = "waiting" /\ InOwnTurn(t)
            \/ pc[t] = "uncontrolled" /\ instr[t].op = "Join" /\ instr[t].tid = None
         /\ givenTid' = givenTid
  <1>. USE DEF RegInv, RegistryInv, TypeInv, TypeOK
  <1>1. pc[t] \in {"waiting", "uncontrolled"}
    BY DEF Perform, CreationFails
  <1>2. Given(t) /\ TidOf(t) = givenTid[t] /\ givenTid[t] \in Tid
    BY <1>1, OwnTidOf DEF Acting
  <1>3. CASE /\ pc[t] = "waiting" /\ control[TidOf(t)]
             /\ control' = [control EXCEPT ![TidOf(t)] = FALSE]
    BY <1>2, <1>3 DEF Resting, InOwnTurn, Perform, CreationFails
  <1>4. CASE pc[t] = "uncontrolled" /\ UNCHANGED control
    <2>1. ~ control[givenTid[t]]
      BY <1>2, <1>4, NoTurn
    <2>2. instr[t].op = "Join" /\ instr[t].tid = None
      BY <1>4 DEF EndsAlone, CallKinds
    <2>. QED  BY <1>2, <1>4, <2>1, <2>2 DEF Resting, Perform, CreationFails
  <1>. QED  BY <1>3, <1>4 DEF Perform, CreationFails

LEMMA AccessAlone ==
  ASSUME RegInv, NEW t \in Thread, Perform(t), instr[t].op = "Access"
  PROVE  EndsAlone'
  <1>. USE DEF RegInv, RegistryInv, TypeInv, TypeOK
  <1>1. /\ pc' = [pc EXCEPT ![t] = "running"] /\ instr' = instr
    BY DEF Perform, GoTo
  <1>2. \A v \in Thread \ {t} : InOwnTurn(v)' => InOwnTurn(v)
    <2>1. \A v \in Thread : Given(v) => givenTid[v] \in Tid
      BY DEF Given
    <2>. QED  BY <1>1, <2>1, PerformPlace DEF InOwnTurn, Given, MayEnd
  <1>3. ASSUME NEW u \in Thread \ {t} PROVE Resting(u)'
    <2>1. Resting(u)
      BY PerformPlace DEF EndsAlone
    <2>2. pc[u] = "waiting" => givenTid[u] \in Tid
      BY OwnTidOf DEF Acting
    <2>. QED  BY <1>1, <2>1, <2>2, PerformPlace DEF Resting
  <1>4. \A v \in Thread :
          /\ pc'[v] \in {"main", "unborn", "born", "library"} => instr'[v].op = "none"
          /\ pc'[v] = "uncontrolled" => instr'[v].tid = None
    BY <1>1 DEF EndsAlone
  <1>. QED  BY <1>2, <1>3, <1>4, PerformPlace, MovesAlone, Zenon

LEMMA SpawnAlone ==
  ASSUME RegInv, NEW t \in Thread, Perform(t), instr[t].op = "Spawn"
  PROVE  EndsAlone'
  <1>. USE DEF RegInv, RegistryInv, TypeInv, TypeOK, InstrOK
  <1>1. PICK u \in Unborn :
          /\ instr' = [instr EXCEPT ![t].thread = u]
          /\ pc' = [pc EXCEPT ![t] = "registering", ![u] = "born"]
    BY DEF Perform, Creates
  <1>2. u \in Thread /\ pc[u] = "unborn" /\ ~ Given(u) /\ u # t
    BY PerformPlace DEF Unborn, Places
  <1>3. ASSUME NEW v \in Thread \ {t}, InOwnTurn(v)' PROVE InOwnTurn(v)
    <2>1. v # u
      BY <1>1, <1>2, <1>3, PerformPlace DEF InOwnTurn, Given
    <2>2. Given(v) => givenTid[v] \in Tid
      BY DEF Given
    <2>. QED  BY <1>1, <1>2, <1>3, <2>1, <2>2, PerformPlace DEF InOwnTurn, Given, MayEnd
  <1>4. ~ InOwnTurn(t)'
    BY <1>1, <1>2, PerformPlace DEF InOwnTurn
  <1>5. ASSUME NEW v \in Thread
        PROVE  /\ pc'[v] \in {"main", "unborn", "born", "library"} => instr'[v].op = "none"
               /\ pc'[v] = "uncontrolled" => instr'[v].tid = None
    <2>1. CASE v = t
      BY <1>1, <1>2, <2>1
    <2>2. CASE v = u
      BY <1>1, <1>2, <2>2 DEF EndsAlone
    <2>3. CASE v # t /\ v # u
      BY <1>1, <1>2, <2>3 DEF EndsAlone
    <2>. QED  BY <2>1, <2>2, <2>3
  <1>. QED  BY <1>3, <1>4, <1>5, PerformPlace, MovesAlone, Zenon

LEMMA JoinAlone ==
  ASSUME RegInv, NEW t \in Thread, Perform(t), instr[t].op = "Join"
  PROVE  EndsAlone'
  <1>. USE DEF RegInv, RegistryInv, TypeInv, TypeOK
  <1>. DEFINE j == instr[t].thread
  <1>1. /\ pc' = [pc EXCEPT ![t] = "running", ![j] = "joined"] /\ instr' = instr
        /\ pc[j] = "ended" /\ j # t
    BY PerformPlace DEF Perform
  <1>2. \A v \in Thread : Given(v) => givenTid[v] \in Tid
    BY DEF Given
  <1>3. \A v \in Thread \ {t} : pc'[v] = pc[v] \/ (pc[v] = "ended" /\ pc'[v] = "joined")
    BY <1>1
  <1>. HIDE DEF j
  <1>4. \A v \in Thread \ {t} : InOwnTurn(v)' => InOwnTurn(v)
    BY <1>1, <1>2, <1>3, PerformPlace DEF InOwnTurn, Given, MayEnd
  <1>5. ASSUME InOwnTurn(t)', NEW u \in Thread \ {t} PROVE Resting(u)'
    <2>1. InOwnTurn(t)
      BY <1>1, <1>5, PerformPlace DEF InOwnTurn, Given, MayEnd
    <2>2. Resting(u)
      BY <2>1 DEF EndsAlone
    <2>3. pc[u] = "waiting" => givenTid[u] \in Tid
      BY OwnTidOf DEF Acting
    <2>. QED  BY <1>3, <2>2, <2>3, PerformPlace DEF Resting
  <1>6. ASSUME NEW v \in Thread
        PROVE  /\ pc'[v] \in {"main", "unborn", "born", "library"} => instr'[v].op = "none"
               /\ pc'[v] = "uncontrolled" => instr'[v].tid = None
    <2>1. CASE v = t
      BY <1>1, <2>1
    <2>2. CASE v # t
      BY <1>1, <1>3, <2>2 DEF EndsAlone
    <2>. QED  BY <2>1, <2>2
  <1>. QED  BY <1>4, <1>5, <1>6, PerformPlace, MovesAlone, Zenon

\* The new thread gets a tid of which nothing is known yet, and its creator has just created it.
LEMMA RegisterCreatedAlone ==
  ASSUME RegInv, NEW t \in Thread, RegisterCreatedThread(t)
  PROVE  EndsAlone'
  <1>. USE DEF RegInv, RegistryInv, TypeInv, TypeOK
  <1>. DEFINE tid == instr[t].tid
              u == instr[t].thread
  <1>1. /\ pc[t] = "registering" /\ instr[t].op = "Spawn"
        /\ pc' = [pc EXCEPT ![t] = "running"] /\ UNCHANGED <<instr, control>>
        /\ givenTid' = [v \in Thread |-> IF v = u THEN tid ELSE givenTid[v]]
    BY DEF RegisterCreatedThread, GoTo, Places
  <1>2. Given(t) /\ ~ control[givenTid[t]]
    BY <1>1, NoTurn DEF Places, Acting
  <1>3. tid \in Tid /\ ~ control[tid]
    BY <1>1 DEF FreshTids, Fresh, Creating
  <1>4. u \in Thread => pc[u] = "born"
    BY <1>1, RegistrationAssumption DEF Places, Thread, None
  <1>. HIDE DEF u, tid
  <1>5. ASSUME NEW v \in Thread \ {t}, InOwnTurn(v)' PROVE InOwnTurn(v)
    <2>1. v # u
      BY <1>1, <1>3, <1>4, <1>5 DEF InOwnTurn
    <2>. QED  BY <1>1, <1>5, <2>1 DEF InOwnTurn, Given, MayEnd
  <1>6. ~ InOwnTurn(t)' /\ ~ Resting(t)
    BY <1>1, <1>2, <1>3 DEF InOwnTurn, MayEnd, Resting
  <1>7. \A v \in Thread :
          /\ pc'[v] \in {"main", "unborn", "born", "library"} => instr'[v].op = "none"
          /\ pc'[v] = "uncontrolled" => instr'[v].tid = None
    BY <1>1 DEF EndsAlone
  <1>. QED  BY <1>5, <1>6, <1>7, MovesAlone, Zenon

LEMMA ExitFunctionAlone ==
  ASSUME RegInv, NEW t \in Thread, ExitFunction(t)
  PROVE  EndsAlone'
  <1>. USE DEF RegInv, RegistryInv, TypeInv, TypeOK
  <1>1. /\ pc[t] = "running" /\ pc' = [pc EXCEPT ![t] = "ended"]
        /\ UNCHANGED <<instr, givenTid, control>>
    BY DEF ExitFunction, GoTo
  <1>2. \A v \in Thread \ {t} : InOwnTurn(v)' => InOwnTurn(v)
    BY <1>1 DEF InOwnTurn, Given, MayEnd
  <1>3. ~ InOwnTurn(t)' /\ ~ Resting(t)
    BY <1>1, NoTurn DEF InOwnTurn, Given, Resting
  <1>4. \A v \in Thread :
          /\ pc'[v] \in {"main", "unborn", "born", "library"} => instr'[v].op = "none"
          /\ pc'[v] = "uncontrolled" => instr'[v].tid = None
    BY <1>1 DEF EndsAlone
  <1>. QED  BY <1>2, <1>3, <1>4, MovesAlone, Zenon

\* A thread of a library rests, as far as the scheduler is concerned, from its beginning
LEMMA CreateInLibraryAlone ==
  ASSUME RegInv, NEW t \in Thread, CreateInLibrary(t)
  PROVE  EndsAlone'
  <1>. USE DEF RegInv, RegistryInv, TypeInv, TypeOK, InstrOK
  <1>1. PICK u \in Unborn :
          /\ instr' = [instr EXCEPT ![t].thread = u]
          /\ pc' = [pc EXCEPT ![t] = @, ![u] = "library"]
    BY DEF CreateInLibrary, Creates
  <1>2. /\ u \in Thread /\ pc[u] = "unborn" /\ ~ Given(u) /\ u # t /\ pc[t] = "running"
        /\ UNCHANGED <<givenTid, control>>
    BY DEF Unborn, Places, CreateInLibrary
  <1>3. /\ pc'[u] = "library" /\ \A v \in Thread \ {u} : pc'[v] = pc[v]
        /\ \A v \in Thread : instr'[v].op = instr[v].op /\ instr'[v].tid = instr[v].tid
    BY <1>1, <1>2
  <1>4. ASSUME NEW v \in Thread, InOwnTurn(v)' PROVE InOwnTurn(v)
    <2>1. v # u
      BY <1>2, <1>3, <1>4 DEF InOwnTurn, Given
    <2>. QED  BY <1>2, <1>3, <1>4, <2>1 DEF InOwnTurn, Given, MayEnd
  <1>5. ASSUME InOwnTurn(t)', NEW v \in Thread \ {t} PROVE Resting(v)'
    <2>1. Resting(v)
      BY <1>4, <1>5 DEF EndsAlone
    <2>. QED  BY <1>2, <1>3, <2>1 DEF Resting
  <1>6. \A v \in Thread :
          /\ pc'[v] \in {"main", "unborn", "born", "library"} => instr'[v].op = "none"
          /\ pc'[v] = "uncontrolled" => instr'[v].tid = None
    BY <1>2, <1>3 DEF EndsAlone
  <1>7. ~ Resting(t)
    BY <1>2 DEF Resting
  <1>. QED  BY <1>4, <1>5, <1>6, <1>7, MovesAlone, Zenon

\* to its end.
LEMMA EndInLibraryAlone ==
  ASSUME RegInv, NEW t \in Thread, EndInLibrary(t)
  PROVE  EndsAlone'
  <1>. USE DEF RegInv, RegistryInv, TypeInv, TypeOK
  <1>1. /\ pc[t] = "library" /\ pc' = [pc EXCEPT ![t] = "ended"]
        /\ UNCHANGED <<instr, givenTid, control>>
    BY DEF EndInLibrary, GoTo
  <1>2. \A v \in Thread : (InOwnTurn(v)' => InOwnTurn(v)) /\ (Resting(v) => Resting(v)')
    BY <1>1 DEF InOwnTurn, Resting, Given, MayEnd
  <1>3. \A v \in Thread :
          /\ pc'[v] \in {"main", "unborn", "born", "library"} => instr'[v].op = "none"
          /\ pc'[v] = "uncontrolled" => instr'[v].tid = None
    BY <1>1 DEF EndsAlone
  <1>. QED  BY <1>2, <1>3, Zenon DEF EndsAlone

LEMMA CreationFailsAlone ==
  ASSUME RegInv, NEW t \in Thread, CreationFails(t)
  PROVE  EndsAlone'
  <1>. USE DEF RegInv, RegistryInv, TypeInv, TypeOK
  <1>1. pc' = [pc EXCEPT ![t] = "registering"] /\ instr' = instr
    BY DEF CreationFails, GoTo
  <1>2. \A v \in Thread \ {t} : InOwnTurn(v)' => InOwnTurn(v)
    <2>1. \A v \in Thread : Given(v) => givenTid[v] \in Tid
      BY DEF Given
    <2>. QED  BY <1>1, <2>1, PerformPlace DEF InOwnTurn, Given, MayEnd
  <1>3. ~ InOwnTurn(t)'
    BY <1>1, PerformPlace DEF InOwnTurn
  <1>4. \A v \in Thread :
          /\ pc'[v] \in {"main", "unborn", "born", "library"} => instr'[v].op = "none"
          /\ pc'[v] = "uncontrolled" => instr'[v].tid = None
    BY <1>1 DEF EndsAlone
  <1>. QED  BY <1>2, <1>3, <1>4, PerformPlace, MovesAlone, Zenon

LEMMA RegisterMainAlone ==
  ASSUME RegInv, RegisterMainThread
  PROVE  EndsAlone'
  <1>. USE DEF RegInv, RegistryInv, TypeInv, TypeOK
  <1>0. 0 \in Thread /\ 0 \in Tid
    BY RegistrationAssumption DEF Thread, Tid
  <1>1. pc[0] = "main" /\ mNrRegistered = 0
    BY <1>0 DEF RegisterMainThread, MainFirst
  <1>2. /\ pc' = [pc EXCEPT ![0] = "born"] /\ givenTid' = [givenTid EXCEPT ![0] = 0]
        /\ UNCHANGED <<instr, control>>
    BY <1>1 DEF RegisterMainThread, GoTo
  <1>3. ~ control[0]
    BY <1>0, <1>1 DEF FreshTids, Fresh
  <1>4. \A v \in Thread \ {0} : InOwnTurn(v)' => InOwnTurn(v)
    BY <1>2 DEF InOwnTurn, Given, MayEnd
  <1>5. ~ InOwnTurn(0)' /\ ~ Resting(0)
    BY <1>0, <1>1, <1>2, <1>3 DEF InOwnTurn, Resting
  <1>6. \A v \in Thread :
          /\ pc'[v] \in {"main", "unborn", "born", "library"} => instr'[v].op = "none"
          /\ pc'[v] = "uncontrolled" => instr'[v].tid = None
    BY <1>0, <1>1, <1>2 DEF EndsAlone
  <1>. QED  BY <1>0, <1>4, <1>5, <1>6, MovesAlone, Zenon

\* In a round all threads rest, and one is granted its turn.
LEMMA RoundAlone ==
  ASSUME RegInv, Round
  PROVE  EndsAlone'
  <1>. USE DEF RegInv, RegistryInv, TypeInv, TypeOK, InstrOK
  <1>1. /\ \A t \in Thread : ~ HasTurn(t)
        /\ \A t \in Thread : Given(t) /\ pc[t] \notin {"ended", "joined"} => pc[t] = "waiting"
    BY RoundPlace DEF Round
  <1>2. UNCHANGED <<pc, instr, givenTid>>
    BY DEF Round, programVars
  <1>3. \A t \in Thread : pc[t] # "running" /\ (Given(t) => ~ control[givenTid[t]])
    BY <1>1 DEF Places, Acting, HasTurn
  <1>4. \A v \in Thread :
          /\ pc'[v] \in {"main", "unborn", "born", "library"} => instr'[v].op = "none"
          /\ pc'[v] = "uncontrolled" => instr'[v].tid = None
    BY <1>2 DEF EndsAlone
  <1>5. CASE \E tid \in Enabled :
               /\ task' = [task EXCEPT ![tid] = NoTask]
               /\ control' = [control EXCEPT ![tid] = TRUE]
               /\ UNCHANGED execution
    <2>1. PICK g \in Tid : task[g] # NoTask /\ control' = [control EXCEPT ![g] = TRUE]
      BY <1>5 DEF Enabled, Posted
    <2>2. PICK t \in Thread : givenTid[t] = g /\ pc[t] = "waiting"
      BY <2>1 DEF Statuses
    <2>3. \A u \in Thread \ {t} : Given(u) => givenTid[u] # g
      BY <2>2 DEF Registry
    <2>4. \A v \in Thread : InOwnTurn(v)' => v = t
      BY <1>2, <1>3, <2>1, <2>3 DEF InOwnTurn, Given
    <2>5. ASSUME NEW u \in Thread \ {t} PROVE Resting(u)'
      <3>1. CASE Given(u)
        BY <1>1, <1>2, <1>3, <2>1, <2>3, <3>1 DEF Resting
      <3>2. CASE ~ Given(u)
        <4>1. pc[u] \in {"main", "unborn", "born", "library", "ended", "joined"}
          BY <3>2 DEF Places, Acting
        <4>2. pc[u] # "born"
          BY <1>1, <3>2 DEF Places, Acting
        <4>3. pc[u] # "main"
          BY <2>2 DEF MainFirst
        <4>. QED  BY <1>2, <4>1, <4>2, <4>3 DEF Resting
      <3>. QED  BY <3>1, <3>2
    <2>. QED  BY <1>4, <2>4, <2>5 DEF EndsAlone
  <1>6. CASE control' = control
    BY <1>2, <1>3, <1>4, <1>6 DEF EndsAlone, InOwnTurn, Given
  <1>. QED  BY <1>5, <1>6 DEF Round

LEMMA InitReg == Init => RegInv
  BY InitRegistry, InitAlone DEF RegInv

LEMMA NextReg ==
  ASSUME ReusePids = FALSE, RegInv, [Next]_vars
  PROVE  RegInv'
  <1>. SUFFICES EndsAlone'
    BY NextRegistry DEF RegInv
  <1>1. CASE RegisterMainThread
    BY <1>1, RegisterMainAlone
  <1>2. CASE Round
    BY <1>2, RoundAlone
  <1>3. ASSUME NEW t \in Thread, ThreadStep(t) PROVE EndsAlone'
    <2>1. CASE Perform(t)
      <3>1. instr[t].op \in {"Access", "Spawn", "Join"}
        BY <2>1 DEF Perform, RegInv, RegistryInv, TypeInv, InstrOK, InstrOp, CallKinds
      <3>. QED  BY <2>1, <3>1, AccessAlone, SpawnAlone, JoinAlone
    <2>. QED  BY <1>3, <2>1, EnterFunctionAlone, PostsAlone, RegisterCreatedAlone,
                ExitFunctionAlone, CreateInLibraryAlone, EndInLibraryAlone DEF ThreadStep
  <1>4. ASSUME NEW t \in Thread, CreationFails(t) PROVE EndsAlone'
    BY <1>4, CreationFailsAlone
  <1>5. CASE UNCHANGED vars
    BY <1>5 DEF vars, programVars, RegInv, EndsAlone, InOwnTurn, Resting, Given, MayEnd
  <1>. QED  BY <1>1, <1>2, <1>3, <1>4, <1>5 DEF Next
-----------------------------------------------------------------------------
\* If no pthread_t is used again and threads end in their own turn, whoever is registered,
\* whenever, and whether or not a creation fails, the maps, statuses and turns of the
\* scheduler are those of the threads, and while a thread ends nobody else is in a call.
THEOREM RegistrationInvariance ==
  ASSUME ReusePids = FALSE
  PROVE  Spec => []RegInv
  BY InitReg, NextReg, PTL DEF Spec

\* Then a thread acts, is joined and is granted its turns under the tid that its creator
\* took for it.
THEOREM TidsAreOwn ==
  ASSUME ReusePids = FALSE
  PROVE  Spec => []OwnTid
  <1>1. RegInv => OwnTid
    BY DEF RegInv, RegistryInv, Registry, Given, OwnTid, TidOf
  <1>. QED  BY <1>1, RegistrationInvariance, PTL

\* A join is posted for the thread that it joins.
THEOREM JoinsAreRight ==
  ASSUME ReusePids = FALSE
  PROVE  Spec => []JoinsItsThread
  <1>1. RegInv => JoinsItsThread
    BY DEF RegInv, RegistryInv
  <1>. QED  BY <1>1, RegistrationInvariance, PTL

\* Programs whose threads join only what they have created, and end in their own turn
\* (MayEnd), are never found in a deadlock.
THEOREM NoDeadlockIsInvented ==
  ASSUME ReusePids = FALSE
  PROVE  Spec => []NoFalseDeadlock
  <1>1. RegInv => NoFalseDeadlock
    BY DEF RegInv, RegistryInv
  <1>. QED  BY <1>1, RegistrationInvariance, PTL

\* An execution that is done has no thread of instrumented code left.
THEOREM DoneIsEnded ==
  ASSUME ReusePids = FALSE
  PROVE  Spec => []DoneMeansEnded
  <1>1. RegInv => DoneMeansEnded
    BY DEF RegInv, RegistryInv
  <1>. QED  BY <1>1, RegistrationInvariance, PTL
=============================================================================
