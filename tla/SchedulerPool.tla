--------------------------- MODULE SchedulerPool ---------------------------
(***************************************************************************)
(* MutexMirrored, GrantedNeverBlocks, StatusAccurate, NoFailure and        *)
(* FinishedForever, proved from the inductive invariant PoolInv; then that *)
(* the scheduler implements TurnTaking.                                    *)
(***************************************************************************)
EXTENDS SchedulerSafety, PoolInvariant

\* The fields of an instruction, by its operation, and the wait set it goes to.
LEMMA InstructionFields ==
  ASSUME NEW instr \in Instruction
  PROVE  /\ instr # NoTask /\ instr.tid \in Thread
         /\ instr.op \in MemoryOp \cup LockOp \cup ManageOp
         /\ instr.op \in ManageOp => instr.operand \in Thread /\ ~ OnObject(instr)
         /\ instr.op \notin ManageOp => instr.operand \in Objects /\ OnObject(instr)
         /\ OpType(instr) \in {0, 1}
         /\ instr.op = "Lock" => OpType(instr) = 1
         /\ instr.op = "Unlock" => OpType(instr) = 0
  <1>1. instr.op \in MemoryOp \cup LockOp \cup ManageOp /\ instr.tid \in Thread
    BY DEF Instruction
  <1>2. /\ instr.op \in ManageOp => instr.operand \in Thread /\ ~ OnObject(instr)
        /\ instr.op \notin ManageOp => instr.operand \in Objects /\ OnObject(instr)
    BY DEF Instruction, OnObject, MemoryOp, LockOp, ManageOp
  <1>3. /\ OpType(instr) \in {0, 1}
        /\ instr.op = "Lock" => OpType(instr) = 1
        /\ instr.op = "Unlock" => OpType(instr) = 0
    BY <1>1 DEF OpType, OperationAsInt, MemoryOp, LockOp, ManageOp
  <1>. QED  BY <1>1, <1>2, <1>3, NoTaskAssumption

\* What a step of a thread starts from: the execution runs, and still does after it.
LEMMA StepContext ==
  ASSUME PoolInv, ~ Ended, NEW t \in Thread, ThreadStep(t), Open'
  PROVE  /\ Open /\ IInv /\ OpenInv /\ RecordOpen /\ PoolOpen
         /\ TypeInv /\ TypeInv' /\ IInv' /\ OpenInv'
         /\ ~ Still \/ Leave(t)
         /\ UNCHANGED <<mStatus, mCurrentTask, selected, mTaskNr>>
  <1>1. IInv /\ IInv' /\ RecordInv
    BY ThreadStepInv DEF PoolInv, RecordInv
  <1>2. UNCHANGED <<mStatus, mCurrentTask, selected, mTaskNr>> /\ (Still => Leave(t))
    BY <1>1, ThreadStepFrame, ThreadStepKeepsRecord
  <1>3. Open
    BY <1>2 DEF Open, Ended
  <1>. QED  BY <1>1, <1>2, <1>3 DEF IInv, PoolInv, RecordInv

\* What a thread announces has an operand of its kind.
LEMMA NextKindOK ==
  ASSUME NEW t \in Thread, NEW instr \in NextInstructions(t)
  PROVE  KindOK(instr) /\ (instr.op = "Unlock" => owner[instr.operand] = t)
  BY WorkloadAssumption DEF NextInstructions, KindOK, MemoryOp, LockOp

\* A thread is announced to be joined only once.
LEMMA NextJoinFresh ==
  ASSUME NEW t \in Thread, NEW instr \in NextInstructions(t), instr.op = "Join"
  PROVE  instr.operand \notin joined
  <1>1. "Join" \notin MemoryOps
    BY WorkloadAssumption DEF MemoryOp
  <1>. QED  BY <1>1 DEF NextInstructions

\* A thread that moves is the only one that may, unless it only ends.
LEMMA MoverAlone ==
  ASSUME PoolInv, ~ Ended, NEW t \in Thread, ThreadStep(t), Open', ~ Leave(t),
         NEW u \in Thread \ {t}
  PROVE  ~ Granted(u) /\ ~ PastInstruction(u)
  <1>1. OpenInv /\ PoolOpen
    BY StepContext
  <1>2. SUFFICES ASSUME Alone(u) PROVE FALSE
    BY <1>1 DEF PoolOpen, TurnsAlone
  <1>3. pc[t] \in {"unborn", "waiting", "leaving", "exited"} /\ ~ Granted(t)
    BY <1>2 DEF Alone
  <1>4. ~ control[t]
    BY <1>1, <1>3 DEF OpenInv, ControlIsTurn, Granted
  <1>. QED  BY <1>3, <1>4
            DEF ThreadStep, EnterThread, Announce, Return, CheckControlled, Yield,
                EndYield, Post, PostRequest, EndPost, TakeTurn, Execute, Register,
                RegisterInPool, EndRegister, Finish, EndFinish

\* What a step does of the places of the threads, of who is granted, and of the
\* program's mutexes: only a creation moves another thread.
LEMMA StepMoves ==
  ASSUME PoolInv, ~ Ended, NEW t \in Thread, ThreadStep(t), Open'
  PROVE  /\ \A u \in Thread \ {t} :
              \/ pc'[u] = pc[u]
              \/ /\ Execute(t) /\ call[t].op = "Spawn" /\ u = call[t].operand
                 /\ pc[u] = "unborn" /\ pc'[u] = "born"
         /\ \A u \in Thread \ {t} : mTasks'[u] = mTasks[u] /\ (Granted(u)' <=> Granted(u))
         /\ ~ Execute(t) => owner' = owner
         /\ Granted(t)' => Granted(t)
  <1>1. OpenInv /\ PoolOpen /\ TypeInv /\ TypeInv'
    BY StepContext
  <1>2. pc[t] = "executing" /\ call[t].op = "Spawn" => call[t].operand \in Thread
    BY <1>1, SpawnOperand DEF TypeInv, CallOK, Announcing
  <1>3. pc[t] = "executing" /\ call[t].op = "Spawn" => pc[call[t].operand] = "unborn"
    BY <1>1 DEF OpenInv, FreshTids, Announcing
  <1>4. pc[t] \in {"in_post", "enabling", "disabling"} => mTasks[t] # NoTask
    BY <1>1 DEF PoolOpen, InPostPosted
  <1>5. control[t] => mTasks[t] = NoTask
    BY <1>1 DEF OpenInv, ControlIsTurn
  <1>. USE <1>1, <1>2, <1>3, <1>4, <1>5
           DEF TypeInv, TypeOK, PoolTypeOK, GoTo, poolVars, schedulerVars, runVars, otherVars,
               OutsidePool, Granted
  <1>6. CASE EnterThread(t) \/ Announce(t) \/ Return(t) \/ CheckControlled(t)
             \/ Register(t) \/ Leave(t)
    BY <1>6 DEF EnterThread, Announce, Return, CheckControlled, Register, Leave, Open,
                RunsControlled, Execute
  <1>7. CASE TakeTurn(t)
    BY <1>7 DEF TakeTurn, Execute
  <1>8. CASE Execute(t)
    BY <1>8 DEF Execute
  <1>9. CASE Yield(t) \/ EndYield(t)
    BY <1>9 DEF Yield, YieldNothing, YieldCurrent, EndYield, UpdateObjectYield, Execute
  <1>10. CASE Post(t)
    BY <1>10 DEF Post, PostTask, Execute
  <1>11. CASE PostRequest(t) \/ EndPost(t)
    BY <1>11 DEF PostRequest, UpdateObjectPost, EndPost, PostStatus, Execute
  <1>12. CASE RegisterInPool(t) \/ EndRegister(t) \/ Finish(t) \/ EndFinish(t)
    BY <1>12 DEF RegisterInPool, RegisterThread, EndRegister, RegisterThreadState,
                 Finish, FinishJoiners, EndFinish, FinishStatus, Execute
  <1>. QED  BY <1>6, <1>7, <1>8, <1>9, <1>10, <1>11, <1>12 DEF ThreadStep

\* Only an announcement changes what a thread has announced.
LEMMA StepCalls ==
  ASSUME PoolInv, ~ Ended, NEW t \in Thread, ThreadStep(t), Open'
  PROVE  /\ \A u \in Thread \ {t} : call'[u] = call[u]
         /\ ~ Announce(t) => call' = call /\ joined' = joined
  <1>1. TypeInv
    BY StepContext
  <1>. USE <1>1 DEF TypeInv, TypeOK, OutsidePool
  <1>2. CASE Announce(t)
    BY <1>2 DEF Announce
  <1>3. CASE \/ EnterThread(t) \/ Return(t) \/ CheckControlled(t) \/ TakeTurn(t)
             \/ Execute(t) \/ Register(t) \/ EndRegister(t) \/ Leave(t)
    BY <1>3 DEF EnterThread, Return, CheckControlled, TakeTurn, Execute, Register,
                EndRegister, Leave
  <1>4. CASE \/ Yield(t) \/ EndYield(t) \/ Post(t) \/ PostRequest(t) \/ EndPost(t)
             \/ RegisterInPool(t) \/ Finish(t) \/ EndFinish(t)
    BY <1>4 DEF Yield, EndYield, Post, PostRequest, EndPost, RegisterInPool, Finish,
                EndFinish
  <1>. QED  BY <1>2, <1>3, <1>4 DEF ThreadStep

\* A thread that has the turn or is past its instruction stays alone.
LEMMA ThreadStepAlone ==
  ASSUME PoolInv, ~ Ended, NEW t \in Thread, ThreadStep(t), Open'
  PROVE  TurnsAlone'
  <1>1. PoolOpen /\ TypeInv /\ TypeInv' /\ OpenInv
    BY StepContext
  <1>2. ASSUME NEW u \in Thread, u # t, Granted(u)' \/ PastInstruction(u)'
        PROVE  Alone(u)'
    <2>1. Granted(u) \/ PastInstruction(u)
      BY <1>2, StepMoves, StepCalls DEF PastInstruction, Exiting
    <2>2. Leave(t) /\ Alone(u)
      BY <1>1, <1>2, <2>1, MoverAlone DEF PoolOpen, TurnsAlone
    <2>3. pc'[t] = "exited"
      BY <1>1, <2>2 DEF Leave, GoTo, TypeInv, TypeOK
    <2>4. ~ Granted(t)'
      BY <2>3 DEF Granted
    <2>. QED  BY <1>2, <2>2, <2>3, <2>4, StepMoves DEF Alone, Leave, Execute
  <1>3. ASSUME Granted(t)' \/ PastInstruction(t)'
        PROVE  Alone(t)'
    <2>1. ASSUME Alone(t), ~ (Execute(t) /\ call[t].op = "Spawn")
          PROVE  Alone(t)'
      BY <2>1, StepMoves DEF Alone
    <2>2. ASSUME Execute(t), call[t].op = "Spawn" PROVE FALSE
      <3>1. pc'[t] = "registering" /\ call' = call
        <4>1. pc[t] = "executing" /\ call[t].op \notin MemoryOp
          BY <2>2 DEF Execute, MemoryOp
        <4>2. call[t].operand \in Thread /\ call[t].operand # t
          BY <1>1, <4>1, <2>2, SpawnOperand
             DEF TypeInv, CallOK, Announcing, OpenInv, FreshTids
        <4>. QED  BY <1>1, <2>2, <4>1, <4>2 DEF Execute, TypeInv, TypeOK
      <3>. QED  BY <1>3, <3>1 DEF Granted, PastInstruction, Exiting
    <2>3. ASSUME ~ Granted(t), ~ PastInstruction(t) PROVE FALSE
      <3>1. PastInstruction(t)'
        BY <1>3, <2>3, StepMoves
      <3>2. ~ Announce(t)
        BY <1>1, <3>1 DEF Announce, PastInstruction, Exiting, GoTo, TypeInv, TypeOK
      <3>3. call'[t] = call[t]
        BY <3>2, StepCalls
      <3>4. /\ call[t] # NoTask /\ call[t].op # "Spawn"
            /\ pc[t] \notin {"running"} \cup Exiting
            /\ pc'[t] \in {"running"} \cup Exiting
        BY <2>3, <3>1, <3>3 DEF PastInstruction
      <3>5. pc[t] # "born" /\ pc[t] \notin Registering
        BY <1>1, <3>4 DEF PoolOpen, BornSilent, TypeInv, CallOK
      <3>. USE <1>1, <3>4, <3>5
               DEF TypeInv, TypeOK, GoTo, Exiting, Registering
      <3>6. ~ (EnterThread(t) \/ Return(t) \/ CheckControlled(t)
             \/ Register(t) \/ EndRegister(t) \/ Leave(t) \/ TakeTurn(t))
        BY DEF EnterThread, Return, CheckControlled, Register, Leave, EndRegister, TakeTurn
      <3>7. ~ (Yield(t) \/ EndYield(t) \/ Post(t) \/ PostRequest(t) \/ EndPost(t))
        BY DEF Yield, EndYield, Post, PostRequest, EndPost
      <3>8. ~ (RegisterInPool(t) \/ Finish(t) \/ EndFinish(t) \/ Execute(t))
        BY <2>3 DEF RegisterInPool, Finish, EndFinish, Execute, Granted
      <3>. QED  BY <3>2, <3>6, <3>7, <3>8 DEF ThreadStep
    <2>. QED  BY <1>1, <2>1, <2>2, <2>3 DEF PoolOpen, TurnsAlone
  <1>. QED  BY <1>2, <1>3 DEF TurnsAlone

\* It preserves what the program alone decides: the instructions announced, and who
\* may perform them.
LEMMA ThreadStepProgram ==
  ASSUME PoolInv, ~ Ended, NEW t \in Thread, ThreadStep(t), Open'
  PROVE  (BornSilent /\ CurrentPlace /\ InPostPosted /\ OperandKinds /\ UnlockOwned
            /\ GrantedCanPerform)'
  <1>1. /\ PoolOpen /\ TypeInv /\ TypeInv' /\ OpenInv /\ OpenInv'
        /\ mCurrentTask' = mCurrentTask
    BY StepContext
  <1>2. \A u \in Thread : u # t => call'[u] = call[u]
    BY StepCalls
  <1>3. \A u \in Thread : u # t =>
          \/ pc'[u] = pc[u]
          \/ /\ Execute(t) /\ call[t].op = "Spawn" /\ u = call[t].operand
             /\ pc[u] = "unborn" /\ pc'[u] = "born"
    BY StepMoves
  <1>4. BornSilent'
    <2>1. pc'[t] \notin {"unborn", "born"}
      <3>. USE <1>1 DEF TypeInv, TypeOK, GoTo
      <3>1. CASE \/ EnterThread(t) \/ Announce(t) \/ Return(t) \/ CheckControlled(t)
                 \/ TakeTurn(t) \/ Register(t) \/ EndRegister(t) \/ Leave(t)
        BY <3>1 DEF EnterThread, Announce, Return, CheckControlled, TakeTurn,
                    Register, EndRegister, Leave
      <3>2. CASE Execute(t)
        <4>1. call[t].op = "Spawn" => call[t].operand \in Thread /\ call[t].operand # t
          BY <3>2, SpawnOperand DEF Execute, CallOK, Announcing, OpenInv, FreshTids
        <4>. QED  BY <3>2, <4>1 DEF Execute
      <3>3. CASE \/ Yield(t) \/ EndYield(t) \/ Post(t) \/ PostRequest(t) \/ EndPost(t)
                 \/ RegisterInPool(t) \/ Finish(t) \/ EndFinish(t)
        BY <3>3 DEF Yield, EndYield, Post, PostRequest, EndPost, RegisterInPool,
                    Finish, EndFinish
      <3>. QED  BY <3>1, <3>2, <3>3 DEF ThreadStep
    <2>. QED  BY <1>1, <1>2, <1>3, <2>1 DEF PoolOpen, BornSilent
  <1>5. OperandKinds' /\ UnlockOwned'
    <2>1. CASE Announce(t)
      <3>1. PICK instr \in NextInstructions(t) : call' = [call EXCEPT ![t] = instr]
        BY <2>1 DEF Announce
      <3>2. KindOK(instr) /\ (instr.op = "Unlock" => owner[instr.operand] = t)
        BY NextKindOK
      <3>3. owner' = owner /\ call'[t] = instr
        BY <1>1, <2>1, <3>1 DEF Announce, TypeInv, TypeOK
      <3>4. \A u \in Thread : u # t => pc'[u] = pc[u]
        BY <1>1, <2>1 DEF Announce, GoTo, TypeInv, TypeOK
      <3>. QED  BY <1>1, <1>2, <3>2, <3>3, <3>4
                DEF PoolOpen, OperandKinds, UnlockOwned, KindOK
    <2>2. ASSUME ~ Announce(t)
          PROVE  /\ call' = call
                 /\ \A u \in Thread : pc'[u] \in Announcing => pc[u] \in Announcing
      <3>1. call' = call
        BY <2>2, StepCalls
      <3>2. pc'[t] \in Announcing => pc[t] \in Announcing
        <4>. USE <1>1 DEF TypeInv, TypeOK, GoTo, Announcing
        <4>1. CASE \/ EnterThread(t) \/ Return(t) \/ CheckControlled(t)
                   \/ TakeTurn(t) \/ Register(t) \/ EndRegister(t) \/ Leave(t)
          BY <4>1 DEF EnterThread, Return, CheckControlled, TakeTurn, Register,
                      EndRegister, Leave
        <4>2. CASE Execute(t)
          BY <4>2 DEF Execute
        <4>3. CASE \/ Yield(t) \/ EndYield(t) \/ Post(t) \/ PostRequest(t) \/ EndPost(t)
                   \/ RegisterInPool(t) \/ Finish(t) \/ EndFinish(t)
          BY <4>3 DEF Yield, EndYield, Post, PostRequest, EndPost, RegisterInPool,
                      Finish, EndFinish
        <4>. QED  BY <2>2, <4>1, <4>2, <4>3 DEF ThreadStep
      <3>. QED  BY <1>3, <3>1, <3>2 DEF Announcing
    <2>3. ASSUME ~ Announce(t), ~ Execute(t) PROVE OperandKinds' /\ UnlockOwned'
      <3>1. owner' = owner
        BY <2>3, StepMoves
      <3>. QED  BY <1>1, <2>2, <2>3, <3>1
                DEF PoolOpen, OperandKinds, UnlockOwned, KindOK
    <2>4. CASE Execute(t)
      <3>1. ~ Announce(t)
        BY <2>4 DEF Execute, Announce
      <3>2. pc'[t] \notin Announcing
        BY <1>1, <2>4 DEF Execute, TypeInv, TypeOK, GoTo, Announcing
      <3>3. \A u \in Thread : u # t /\ pc[u] \in Announcing /\ call[u].op = "Unlock" =>
              owner'[call[u].operand] = u
        <4>1. \A u \in Thread :
                pc[u] \in Announcing /\ call[u].op = "Unlock" =>
                    call[u].operand \in Mutexes /\ owner[call[u].operand] = u
          BY <1>1 DEF PoolOpen, UnlockOwned, OperandKinds, KindOK, LockOp
        <4>2. pc[t] \in Announcing
          BY <2>4 DEF Execute, Announcing
        <4>3. owner \in [Mutexes -> Thread \cup {NoThread}]
          BY <1>1 DEF TypeInv, TypeOK
        <4>4. NoThread \notin Thread
          BY MainIsThread
        <4>. QED  BY <2>4, <4>1, <4>2, <4>3, <4>4 DEF Execute
      <3>. QED  BY <1>1, <2>2, <3>1, <3>2, <3>3
                DEF PoolOpen, OperandKinds, UnlockOwned, KindOK
    <2>. QED  BY <2>1, <2>3, <2>4
  <1>6. InPostPosted'
    <2>1. pc'[t] \in {"in_post", "enabling", "disabling"} => mTasks'[t] # NoTask
      <3>1. ASSUME pc[t] = "yielded" PROVE call[t] # NoTask
        BY <1>1, <3>1, NoTaskAssumption DEF TypeInv, CallOK, Announcing
      <3>. USE <1>1, <3>1
               DEF PoolOpen, InPostPosted, TypeInv, TypeOK, PoolTypeOK, GoTo
      <3>2. CASE \/ EnterThread(t) \/ Announce(t) \/ Return(t) \/ CheckControlled(t)
                 \/ TakeTurn(t) \/ Register(t) \/ EndRegister(t) \/ Leave(t)
        BY <3>2 DEF EnterThread, Announce, Return, CheckControlled, TakeTurn,
                    Register, EndRegister, Leave
      <3>3. CASE Execute(t)
        BY <3>3 DEF Execute
      <3>4. CASE Post(t)
        BY <3>4 DEF Post, PostTask
      <3>5. CASE PostRequest(t)
        BY <3>5 DEF PostRequest, UpdateObjectPost, poolVars
      <3>6. CASE \/ Yield(t) \/ EndYield(t) \/ EndPost(t)
                 \/ RegisterInPool(t) \/ Finish(t) \/ EndFinish(t)
        BY <3>6 DEF Yield, EndYield, EndPost, RegisterInPool, Finish, EndFinish
      <3>. QED  BY <3>2, <3>3, <3>4, <3>5, <3>6 DEF ThreadStep
    <2>. QED  BY <1>1, <1>3, <2>1, StepMoves DEF PoolOpen, InPostPosted
  <1>7. CurrentPlace'
    <2>1. ASSUME mCurrentTask # NoTask, mCurrentTask.tid = t, pc'[t] \in Registering
          PROVE  mCurrentTask.op = "Spawn"
      <3>1. CASE pc[t] = "executing"
        <4>1. call[t] = mCurrentTask /\ pc[t] \notin Registering
          BY <3>1, StepContext
             DEF IInv, OnlyCurrentPerforms, RunsControlled, Open, Registering
        <4>2. Execute(t)
          BY <3>1 DEF ThreadStep, EnterThread, Announce, Return, CheckControlled, Yield,
                      EndYield, Post, PostRequest, EndPost, TakeTurn, Register,
                      RegisterInPool, EndRegister, Finish, EndFinish, Leave
        <4>. QED  BY <1>1, <2>1, <4>1, <4>2
                  DEF Execute, GoTo, TypeInv, TypeOK, Registering
      <3>2. CASE pc[t] # "executing"
        <4>1. pc[t] \in Registering
          BY <1>1, <2>1, <3>2
             DEF TypeInv, TypeOK, GoTo, Registering, ThreadStep, EnterThread, Announce,
                 Return, CheckControlled, Yield, EndYield, Post, PostRequest, EndPost,
                 TakeTurn, Execute, Register, RegisterInPool, EndRegister, Finish,
                 EndFinish, Leave
        <4>. QED  BY <1>1, <2>1, <4>1 DEF PoolOpen, CurrentPlace
      <3>. QED  BY <3>1, <3>2
    <2>2. pc'[t] \notin {"unborn", "born"}
      BY <1>1, <1>4, NoTaskAssumption
         DEF TypeInv, TypeOK, GoTo, ThreadStep, EnterThread, Announce,
             Return, CheckControlled, Yield, EndYield, Post, PostRequest, EndPost,
             TakeTurn, Execute, Register, RegisterInPool, EndRegister, Finish,
             EndFinish, Leave
    <2>3. mCurrentTask # NoTask => mCurrentTask.tid \in Thread
      BY <1>1, InstructionFields DEF TypeInv, TypeOK, PoolTypeOK
    <2>. QED  BY <1>1, <1>3, <2>1, <2>2, <2>3 DEF PoolOpen, CurrentPlace, Registering
  <1>8. GrantedCanPerform'
    <2>1. ASSUME NEW u \in Thread, Granted(u)' PROVE CanPerform(call[u])'
      <3>1. Granted(u) /\ CanPerform(call[u])
        BY <1>1, <2>1, StepMoves DEF PoolOpen, GrantedCanPerform
      <3>2. u = t => ~ Execute(t)
        BY <1>1, <2>1 DEF Granted, Execute, GoTo, TypeInv, TypeOK
      <3>3. u # t => Leave(t)
        BY <3>1, MoverAlone
      <3>4. owner' = owner /\ call'[u] = call[u]
        BY <3>1, <3>2, <3>3, StepMoves, StepCalls
           DEF Leave, Execute, Announce, Granted
      <3>5. \A v \in Thread : pc[v] \in {"leaving", "exited"} =>
              pc'[v] \in {"leaving", "exited"}
        <4>1. pc[t] \in {"leaving", "exited"} => Leave(t)
          BY DEF ThreadStep, EnterThread, Announce, Return, CheckControlled, Yield,
                 EndYield, Post, PostRequest, EndPost, TakeTurn, Execute, Register,
                 RegisterInPool, EndRegister, Finish, EndFinish
        <4>2. Leave(t) => pc'[t] = "exited"
          BY <1>1 DEF Leave, GoTo, TypeInv, TypeOK
        <4>. QED  BY <1>3, <4>1, <4>2
      <3>6. call[u].op = "Join" => call[u].operand \in Thread
        BY <3>1, <1>1 DEF Granted, TypeInv, CallOK, Announcing, Instruction, MemoryOp, LockOp
      <3>. QED  BY <3>1, <3>4, <3>5, <3>6 DEF CanPerform
    <2>. QED  BY <2>1 DEF GrantedCanPerform
  <1>. QED  BY <1>4, <1>5, <1>6, <1>7, <1>8

\* The current task stops to be pending when its thread yields, and not before.
LEMMA StepPending ==
  ASSUME PoolInv, ~ Ended, NEW t \in Thread, ThreadStep(t), Open'
  PROVE  /\ EndYield(t) => CurrentPending /\ mCurrentTask.tid = t /\ ~ CurrentPending'
         /\ ~ EndYield(t) => (CurrentPending' <=> CurrentPending)
         /\ InYieldCurrent'
  <1>1. /\ PoolOpen /\ OpenInv /\ TypeInv /\ TypeInv' /\ mCurrentTask' = mCurrentTask
    BY StepContext
  <1>2. mCurrentTask # NoTask => mCurrentTask.tid \in Thread
    BY <1>1, InstructionFields DEF TypeInv, TypeOK, PoolTypeOK
  <1>3. EndYield(t) => YieldsCurrent(t) /\ CurrentPending /\ mCurrentTask.tid = t
    BY <1>1 DEF EndYield, PoolOpen, InYieldCurrent, YieldsCurrent, CurrentPending, BeforeYield
  <1>4. EndYield(t) => pc'[t] \in {"yielded", "finishing"}
    BY <1>1 DEF EndYield, GoTo, TypeInv, TypeOK
  <1>5. \A u \in Thread : u # t =>
          /\ Granted(u)' <=> Granted(u)
          /\ \/ pc'[u] = pc[u]
             \/ Execute(t) /\ pc[u] = "unborn" /\ pc'[u] = "born"
    BY StepMoves
  <1>6. ASSUME ~ EndYield(t), YieldsCurrent(t)
        PROVE  pc'[t] \in BeforeYield \/ Granted(t)' <=> pc[t] \in BeforeYield \/ Granted(t)
    <2>1. pc[t] # "born" /\ pc[t] \notin Registering
      BY <1>1, <1>6 DEF YieldsCurrent, PoolOpen, CurrentPlace, OnObject, MemoryOp, LockOp
    <2>2. pc[t] \in {"enabling", "disabling", "in_post"} => mTasks[t] # NoTask
      BY <1>1 DEF PoolOpen, InPostPosted
    <2>3. control[t] => mTasks[t] = NoTask
      BY <1>1 DEF OpenInv, ControlIsTurn
    <2>. USE <1>1, <1>6, <2>1, <2>2, <2>3
             DEF TypeInv, TypeOK, PoolTypeOK, GoTo, Registering, BeforeYield, Granted, poolVars
    <2>4. CASE EnterThread(t) \/ Announce(t) \/ Return(t) \/ Register(t) \/ Leave(t)
      BY <2>4 DEF EnterThread, Announce, Return, Register, Leave
    <2>5. CASE CheckControlled(t) \/ TakeTurn(t)
      BY <2>5, StepContext DEF CheckControlled, TakeTurn, Open, RunsControlled
    <2>6. CASE Execute(t)
      <3>1. call[t] = mCurrentTask
        BY <2>6, StepContext DEF Execute, IInv, OnlyCurrentPerforms, RunsControlled, Open
      <3>2. call[t].op # "Spawn"
        BY <3>1 DEF YieldsCurrent, OnObject, MemoryOp, LockOp
      <3>. QED  BY <2>6, <3>2 DEF Execute
    <2>7. CASE Yield(t)
      BY <2>7 DEF Yield, YieldNothing, YieldCurrent
    <2>8. CASE Post(t)
      BY <2>8 DEF Post, PostTask
    <2>9. CASE PostRequest(t) \/ EndPost(t)
      BY <2>9 DEF PostRequest, UpdateObjectPost, EndPost, PostStatus
    <2>10. CASE RegisterInPool(t) \/ EndRegister(t) \/ Finish(t) \/ EndFinish(t)
      BY <2>10 DEF RegisterInPool, EndRegister, Finish, EndFinish
    <2>. QED  BY <2>4, <2>5, <2>6, <2>7, <2>8, <2>9, <2>10 DEF ThreadStep
  <1>7. InYieldCurrent'
    <2>1. pc'[t] \in {"in_yield", "in_exit_yield"} => YieldsCurrent(t)
      <3>. USE <1>1 DEF TypeInv, TypeOK, PoolTypeOK, GoTo
      <3>1. CASE \/ EnterThread(t) \/ Announce(t) \/ Return(t) \/ CheckControlled(t)
                 \/ TakeTurn(t) \/ Register(t) \/ EndRegister(t) \/ Leave(t)
        BY <3>1 DEF EnterThread, Announce, Return, CheckControlled, TakeTurn,
                    Register, EndRegister, Leave
      <3>2. CASE Execute(t)
        BY <3>2 DEF Execute
      <3>3. CASE Yield(t)
        BY <3>3 DEF Yield, YieldNothing, YieldCurrent
      <3>4. CASE \/ EndYield(t) \/ Post(t) \/ PostRequest(t) \/ EndPost(t)
                 \/ RegisterInPool(t) \/ Finish(t) \/ EndFinish(t)
        BY <3>4 DEF EndYield, Post, PostRequest, EndPost, RegisterInPool, Finish, EndFinish
      <3>. QED  BY <3>1, <3>2, <3>3, <3>4 DEF ThreadStep
    <2>. QED  BY <1>1, <1>5, <2>1 DEF PoolOpen, InYieldCurrent, YieldsCurrent
  <1>8. ASSUME ~ EndYield(t) PROVE CurrentPending' <=> CurrentPending
    <2>1. CASE YieldsCurrent(t)
      BY <1>1, <1>6, <1>8, <2>1 DEF CurrentPending, YieldsCurrent
    <2>2. CASE ~ YieldsCurrent(t)
      BY <1>1, <1>2, <1>5, <2>2 DEF CurrentPending, YieldsCurrent, BeforeYield
    <2>. QED  BY <2>1, <2>2
  <1>9. EndYield(t) => ~ CurrentPending'
    BY <1>1, <1>3, <1>4 DEF CurrentPending, BeforeYield, Granted
  <1>. QED  BY <1>3, <1>7, <1>8, <1>9

\* A request on an object begins with PostRequest, and that of the current task ends with
\* its yield.
LEMMA StepRequested ==
  ASSUME PoolInv, ~ Ended, NEW t \in Thread, ThreadStep(t), Open',
         NEW instr \in Instruction, OnObject(instr)
  PROVE  Requested(instr)' <=>
            \/ Requested(instr) /\ ~ (EndYield(t) /\ instr = mCurrentTask)
            \/ PostRequest(t) /\ instr = call[t]
  <1>1. /\ PoolOpen /\ OpenInv /\ TypeInv /\ TypeInv' /\ mCurrentTask' = mCurrentTask
    BY StepContext
  <1>2. /\ EndYield(t) => CurrentPending /\ mCurrentTask.tid = t /\ ~ CurrentPending'
        /\ ~ EndYield(t) => (CurrentPending' <=> CurrentPending)
    BY StepPending
  <1>3. instr.tid \in Thread /\ instr # NoTask
    BY InstructionFields
  <1>. DEFINE Posted == /\ mTasks[instr.tid] = instr
                        /\ pc[instr.tid] \in {"enabling", "disabling", "waiting"}
  <1>4. Posted' <=> Posted \/ (PostRequest(t) /\ instr = call[t])
    <2>1. CASE instr.tid # t
      <3>1. mTasks'[instr.tid] = mTasks[instr.tid]
        BY <1>3, <2>1, StepMoves
      <3>2. \/ pc'[instr.tid] = pc[instr.tid]
            \/ pc[instr.tid] = "unborn" /\ pc'[instr.tid] = "born"
        BY <1>3, <2>1, StepMoves
      <3>3. PostRequest(t) => call[t].tid = t
        BY <1>1 DEF PostRequest, TypeInv, CallOK, Announcing
      <3>. QED  BY <2>1, <3>1, <3>2, <3>3
    <2>2. CASE instr.tid = t
      <3>1. mTasks[t] # NoTask => mTasks[t] = call[t]
        BY <1>1 DEF OpenInv, TaskIsCall
      <3>2. pc[t] \in {"in_post", "enabling", "disabling"} => mTasks[t] # NoTask
        BY <1>1 DEF PoolOpen, InPostPosted
      <3>3. control[t] => mTasks[t] = NoTask
        BY <1>1 DEF OpenInv, ControlIsTurn
      <3>. USE <1>1, <1>3, <2>2, <3>1, <3>2, <3>3
               DEF TypeInv, TypeOK, PoolTypeOK, GoTo, poolVars
      <3>4. CASE \/ EnterThread(t) \/ Announce(t) \/ Return(t) \/ CheckControlled(t)
                 \/ TakeTurn(t) \/ Register(t) \/ EndRegister(t) \/ Leave(t)
        BY <3>4 DEF EnterThread, Announce, Return, CheckControlled, TakeTurn,
                    Register, EndRegister, Leave, PostRequest
      <3>5. CASE Execute(t)
        BY <3>5 DEF Execute, PostRequest
      <3>6. CASE Post(t)
        BY <3>6 DEF Post, PostTask, PostRequest
      <3>7. CASE PostRequest(t)
        BY ZenonT(60), <3>7 DEF PostRequest, UpdateObjectPost
      <3>8. CASE EndPost(t)
        BY <3>8 DEF EndPost, PostStatus, PostRequest
      <3>9. CASE \/ Yield(t) \/ EndYield(t) \/ RegisterInPool(t) \/ Finish(t)
                 \/ EndFinish(t)
        BY <3>9 DEF Yield, EndYield, RegisterInPool, Finish, EndFinish, PostRequest
      <3>. QED  BY <3>4, <3>5, <3>6, <3>7, <3>8, <3>9 DEF ThreadStep
    <2>. QED  BY <2>1, <2>2
  <1>5. EndYield(t) => ~ Posted \/ instr.tid # t
    BY DEF EndYield
  <1>. QED  BY <1>1, <1>2, <1>4, <1>5 DEF Requested

\* object_state::request adds the instruction to the wait set of its parity.
LEMMA RequestIs ==
  ASSUME NEW obj \in ObjectState, NEW instr \in Instruction
  PROVE  /\ Request(obj, instr).current = obj.current
         /\ \A i \in {0, 1} : Request(obj, instr).waiting[i] =
              obj.waiting[i] \cup (IF i = OpType(instr) THEN {instr} ELSE {})
  BY InstructionFields DEF Request, ObjectState

\* object_state::perform, when exactly one instruction of the thread waits, takes it out
\* and makes its parity the current one.
LEMMA PerformIs ==
  ASSUME NEW obj \in ObjectState, NEW instr \in Instruction,
         \A i \in {0, 1} : WaitingOf(obj, i, instr.tid) =
            IF i = OpType(instr) THEN {instr} ELSE {}
  PROVE  /\ ~ PerformThrows(obj, instr.tid)
         /\ Perform(obj, instr.tid).current = OpType(instr)
         /\ \A i \in {0, 1} :
              Perform(obj, instr.tid).waiting[i] = obj.waiting[i] \ {instr}
  <1>1. OpType(instr) \in {0, 1}
    BY InstructionFields
  <1>2. PerformedSet(obj, instr.tid) = OpType(instr)
    BY <1>1 DEF PerformedSet
  <1>3. ~ PerformThrows(obj, instr.tid)
    BY <1>1 DEF PerformThrows
  <1>4. ASSUME NEW i \in {0, 1}, i # OpType(instr)
        PROVE  instr \notin obj.waiting[i]
    BY <1>4 DEF WaitingOf
  <1>. QED  BY <1>1, <1>2, <1>3, <1>4 DEF Perform, ObjectState

\* In a step of TaskPool::yield the thread has exactly the current instruction in the
\* wait sets of its object.
LEMMA YieldPerforms ==
  ASSUME PoolInv, ~ Ended, Open, NEW t \in Thread, EndYield(t)
  PROVE  LET o == mCurrentTask.operand
         IN  /\ mCurrentTask \in Instruction /\ OnObject(mCurrentTask)
             /\ o \in Objects /\ mCurrentTask.tid = t
             /\ ~ UpdateObjectYieldThrows(t)
             /\ Perform(mObjects[o], t).current = OpType(mCurrentTask)
             /\ \A i \in {0, 1} : Perform(mObjects[o], t).waiting[i] =
                   mObjects[o].waiting[i] \ {mCurrentTask}
  <1>. DEFINE o == mCurrentTask.operand
              obj == mObjects[o]
  <1>1. PoolOpen /\ OpenInv /\ TypeInv
    BY DEF PoolInv, RecordInv, IInv
  <1>2. CurrentPending /\ mCurrentTask.tid = t
    BY <1>1 DEF EndYield, PoolOpen, InYieldCurrent, YieldsCurrent, CurrentPending, BeforeYield
  <1>3. mCurrentTask \in Instruction /\ OnObject(mCurrentTask) /\ o \in Objects
    BY <1>1, <1>2, InstructionFields
       DEF CurrentPending, TypeInv, TypeOK, PoolTypeOK, OnObject
  <1>4. obj \in ObjectState
    BY <1>1, <1>3 DEF TypeInv, TypeOK, PoolTypeOK
  <1>5. mTasks[t] = NoTask
    BY <1>1 DEF EndYield, OpenInv, TaskPosted
  <1>6. ASSUME NEW i \in {0, 1}
        PROVE  WaitingOf(obj, i, t) = IF i = OpType(mCurrentTask) THEN {mCurrentTask} ELSE {}
    <2>1. \A instr \in obj.waiting[i] : instr \in Instruction
      BY <1>4 DEF ObjectState
    <2>2. \A instr \in Instruction : instr.tid = t /\ Requested(instr) <=> instr = mCurrentTask
      BY <1>2, <1>5, NoTaskAssumption DEF Requested
    <2>3. \A instr \in Instruction :
            instr \in WaitingOf(obj, i, t) <=> instr = mCurrentTask /\ i = OpType(mCurrentTask)
      BY <1>1, <1>2, <1>3, <2>2 DEF PoolOpen, WaitSets, WaitingOf
    <2>. QED  BY <1>3, <2>1, <2>3 DEF WaitingOf
  <1>. QED  BY ZenonT(60), <1>2, <1>3, <1>4, <1>6, PerformIs DEF UpdateObjectYieldThrows

\* Only a request and a yield change the state of an object.
LEMMA StepKeepsObjects ==
  ASSUME NEW t \in Thread, ThreadStep(t), ~ EndYield(t), ~ PostRequest(t)
  PROVE  mObjects' = mObjects
  <1>. USE DEF poolVars
  <1>1. CASE \/ EnterThread(t) \/ Announce(t) \/ Return(t) \/ CheckControlled(t)
             \/ TakeTurn(t) \/ Execute(t) \/ Register(t) \/ Leave(t)
    BY <1>1 DEF EnterThread, Announce, Return, CheckControlled, TakeTurn, Execute,
                Register, Leave
  <1>2. CASE Yield(t) \/ Post(t) \/ EndPost(t) \/ RegisterInPool(t) \/ EndRegister(t)
             \/ Finish(t) \/ EndFinish(t)
    BY <1>2 DEF Yield, YieldNothing, YieldCurrent, Post, PostTask, EndPost, PostStatus,
                RegisterInPool, RegisterThread, EndRegister, RegisterThreadState,
                Finish, FinishJoiners, EndFinish, FinishStatus
  <1>. QED  BY <1>1, <1>2 DEF ThreadStep

\* The wait sets stay what they are said to be.
LEMMA ThreadStepWaitSets ==
  ASSUME PoolInv, ~ Ended, NEW t \in Thread, ThreadStep(t), Open'
  PROVE  WaitSets'
  <1>1. /\ PoolOpen /\ OpenInv /\ TypeInv /\ TypeInv' /\ mCurrentTask' = mCurrentTask
    BY StepContext
  <1>2. SUFFICES ASSUME NEW o \in Objects, NEW i \in {0, 1}, NEW instr \in Instruction
                 PROVE  instr \in mObjects'[o].waiting[i] <=>
                          /\ OnObject(instr) /\ instr.operand = o /\ OpType(instr) = i
                          /\ Requested(instr)'
    BY DEF WaitSets
  <1>3. instr \in mObjects[o].waiting[i] <=>
            /\ OnObject(instr) /\ instr.operand = o /\ OpType(instr) = i
            /\ Requested(instr)
    BY <1>1 DEF PoolOpen, WaitSets
  <1>4. mObjects[o] \in ObjectState /\ mObjects \in [Objects -> ObjectState]
    BY <1>1 DEF TypeInv, TypeOK, PoolTypeOK
  <1>5. OnObject(instr) =>
          (Requested(instr)' <=>
            \/ Requested(instr) /\ ~ (EndYield(t) /\ instr = mCurrentTask)
            \/ PostRequest(t) /\ instr = call[t])
    BY StepRequested
  <1>6. CASE EndYield(t)
    <2>1. ~ PostRequest(t)
      BY <1>6 DEF EndYield, PostRequest
    <2>2. mObjects' = [mObjects EXCEPT ![mCurrentTask.operand] =
                          Perform(mObjects[mCurrentTask.operand], t)]
      BY <1>6 DEF EndYield, UpdateObjectYield
    <2>3. CASE o = mCurrentTask.operand
      <3>1. mObjects'[o].waiting[i] = mObjects[o].waiting[i] \ {mCurrentTask}
        BY <1>4, <1>6, <2>2, <2>3, StepContext, YieldPerforms
      <3>. QED  BY <1>3, <1>5, <1>6, <2>1, <3>1
    <2>4. CASE o # mCurrentTask.operand
      BY <1>3, <1>4, <1>5, <2>1, <2>2, <2>4
    <2>. QED  BY <2>3, <2>4
  <1>7. CASE PostRequest(t)
    <2>1. ~ EndYield(t)
      BY <1>7 DEF EndYield, PostRequest
    <2>2. call[t] \in Instruction
      BY <1>1, <1>7 DEF PostRequest, TypeInv, CallOK, Announcing
    <2>3. CASE OnObject(call[t]) /\ o = call[t].operand
      <3>1. mObjects' = [mObjects EXCEPT ![o] = Request(@, call[t])]
        BY <1>7, <2>2, <2>3 DEF PostRequest, UpdateObjectPost, OnObject, MemoryOp, LockOp
      <3>2. mObjects'[o].waiting[i] =
              mObjects[o].waiting[i] \cup (IF i = OpType(call[t]) THEN {call[t]} ELSE {})
        BY <1>4, <2>2, <3>1, RequestIs
      <3>. QED  BY <1>3, <1>5, <1>7, <2>1, <2>3, <3>2
    <2>4. CASE ~ (OnObject(call[t]) /\ o = call[t].operand)
      <3>1. mObjects'[o] = mObjects[o]
        BY <1>4, <1>7, <2>4 DEF PostRequest, UpdateObjectPost, poolVars
      <3>. QED  BY <1>3, <1>5, <1>7, <2>1, <2>4, <3>1
    <2>. QED  BY <2>3, <2>4
  <1>8. CASE ~ EndYield(t) /\ ~ PostRequest(t)
    <2>1. mObjects' = mObjects
      BY <1>8, StepKeepsObjects
    <2>. QED  BY <1>3, <1>5, <1>8, <2>1
  <1>. QED  BY <1>6, <1>7, <1>8

\* Which steps change the state of an object, and how they change its parity.
LEMMA StepObjects ==
  ASSUME PoolInv, ~ Ended, NEW t \in Thread, ThreadStep(t), Open', NEW o \in Objects
  PROVE  /\ ~ EndYield(t) => mObjects'[o].current = mObjects[o].current
         /\ EndYield(t) => mObjects'[o].current =
              IF o = mCurrentTask.operand THEN OpType(mCurrentTask) ELSE mObjects[o].current
  <1>1. TypeInv
    BY StepContext
  <1>2. mObjects \in [Objects -> ObjectState]
    BY <1>1 DEF TypeInv, TypeOK, PoolTypeOK
  <1>3. CASE EndYield(t)
    <2>1. mObjects' = [mObjects EXCEPT ![mCurrentTask.operand] =
                          Perform(mObjects[mCurrentTask.operand], t)]
      BY <1>3 DEF EndYield, UpdateObjectYield
    <2>2. Perform(mObjects[mCurrentTask.operand], t).current = OpType(mCurrentTask)
      BY <1>3, StepContext, YieldPerforms
    <2>. QED  BY <1>2, <1>3, <2>1, <2>2
  <1>4. CASE PostRequest(t)
    <2>1. call[t] \in Instruction
      BY <1>1, <1>4 DEF PostRequest, TypeInv, CallOK, Announcing
    <2>2. \A obj \in ObjectState : Request(obj, call[t]).current = obj.current
      BY <2>1, RequestIs
    <2>3. ~ EndYield(t)
      BY <1>4 DEF PostRequest, EndYield
    <2>. QED  BY <1>2, <1>4, <2>2, <2>3 DEF PostRequest, UpdateObjectPost, poolVars
  <1>5. CASE ~ EndYield(t) /\ ~ PostRequest(t)
    BY <1>5, StepKeepsObjects
  <1>. QED  BY <1>3, <1>4, <1>5

\* A mutex is held in the pool iff it is in the program, but for the yield to come.
LEMMA ThreadStepMutexHeld ==
  ASSUME PoolInv, ~ Ended, NEW t \in Thread, ThreadStep(t), Open'
  PROVE  MutexHeld'
  <1>1. /\ PoolOpen /\ OpenInv /\ TypeInv /\ TypeInv' /\ mCurrentTask' = mCurrentTask
    BY StepContext
  <1>2. SUFFICES ASSUME NEW m \in Mutexes
        PROVE  IF /\ CurrentPending'
                  /\ mCurrentTask.operand = m
                  /\ ~ Granted(mCurrentTask.tid)'
               THEN owner'[m] = IF mCurrentTask.op = "Lock" THEN mCurrentTask.tid ELSE NoThread
               ELSE mObjects'[m].current = 1 <=> owner'[m] # NoThread
    BY <1>1 DEF MutexHeld
  <1>3. IF /\ CurrentPending
           /\ mCurrentTask.operand = m
           /\ ~ Granted(mCurrentTask.tid)
        THEN owner[m] = IF mCurrentTask.op = "Lock" THEN mCurrentTask.tid ELSE NoThread
        ELSE mObjects[m].current = 1 <=> owner[m] # NoThread
    BY <1>1 DEF PoolOpen, MutexHeld
  <1>4. m \in Objects /\ m \notin Locations
    BY WorkloadAssumption
  <1>5. CurrentPending /\ mCurrentTask.operand = m =>
          /\ mCurrentTask \in Instruction /\ mCurrentTask.tid \in Thread
          /\ mCurrentTask.op \in {"Lock", "Unlock"}
    <2>1. CurrentPending => mCurrentTask \in Instruction /\ mCurrentTask # NoTask
      BY <1>1 DEF CurrentPending, TypeInv, TypeOK, PoolTypeOK
    <2>2. CurrentPending => OnObject(mCurrentTask) /\ KindOK(mCurrentTask)
      BY <1>1, <2>1 DEF CurrentPending, PoolOpen, OperandKinds
    <2>. QED  BY <1>4, <2>1, <2>2, InstructionFields DEF OnObject, KindOK, LockOp
  <1>6. NoThread \notin Thread
    BY MainIsThread
  <1>7. CASE EndYield(t)
    <2>1. CurrentPending /\ mCurrentTask.tid = t /\ ~ CurrentPending'
      BY <1>7, StepPending
    <2>2. ~ Granted(t) /\ owner' = owner
      BY <1>7, StepMoves DEF EndYield, Granted, Execute
    <2>3. mObjects'[m].current = IF m = mCurrentTask.operand THEN OpType(mCurrentTask)
                                 ELSE mObjects[m].current
      BY <1>4, <1>7, StepObjects
    <2>. QED  BY <1>3, <1>5, <1>6, <2>1, <2>2, <2>3, InstructionFields
  <1>8. CASE Execute(t)
    <2>1. pc[t] = "executing" /\ ~ EndYield(t) /\ call[t] \in Instruction /\ call[t].tid = t
      BY <1>1, <1>8 DEF Execute, EndYield, TypeInv, CallOK, Announcing
    <2>2. call[t] = mCurrentTask
      BY <1>8, StepContext DEF Execute, IInv, OnlyCurrentPerforms, RunsControlled, Open
    <2>3. mObjects'[m].current = mObjects[m].current /\ (CurrentPending' <=> CurrentPending)
      BY <1>4, <2>1, StepObjects, StepPending
    <2>4. Granted(t) /\ ~ Granted(t)'
      BY <1>1, <1>8, <2>1 DEF Granted, Execute, GoTo, TypeInv, TypeOK
    <2>5. owner \in [Mutexes -> Thread \cup {NoThread}]
      BY <1>1 DEF TypeInv, TypeOK
    <2>6. CASE CurrentPending /\ mCurrentTask.operand = m
      <3>1. owner'[m] = IF mCurrentTask.op = "Lock" THEN t ELSE NoThread
        BY <1>5, <1>8, <2>2, <2>5, <2>6 DEF Execute, MemoryOp
      <3>. QED  BY <1>1, <2>1, <2>2, <2>3, <2>4, <2>6, <3>1 DEF Granted
    <2>7. CASE ~ (CurrentPending /\ mCurrentTask.operand = m)
      <3>1. OnObject(mCurrentTask) => CurrentPending
        BY <2>1, <2>2, InstructionFields DEF CurrentPending, BeforeYield
      <3>2. owner'[m] = owner[m]
        BY <1>8, <2>2, <2>5, <2>7, <3>1 DEF Execute, OnObject, LockOp
      <3>. QED  BY <1>3, <2>3, <2>7, <3>2
    <2>. QED  BY <2>6, <2>7
  <1>9. CASE ~ EndYield(t) /\ ~ Execute(t)
    <2>1. /\ owner' = owner /\ mObjects'[m].current = mObjects[m].current
          /\ (CurrentPending' <=> CurrentPending)
      BY <1>4, <1>9, StepMoves, StepObjects, StepPending
    <2>2. Granted(t)' <=> Granted(t)
      <3>1. ASSUME Granted(t) PROVE TakeTurn(t)
        BY <1>9, <3>1
           DEF Granted, ThreadStep, EnterThread, Announce, Return, CheckControlled, Yield,
               EndYield, Post, PostRequest, EndPost, Register, RegisterInPool,
               EndRegister, Finish, EndFinish, Leave
      <3>2. TakeTurn(t) => Granted(t)'
        BY <1>1 DEF TakeTurn, Granted, GoTo, TypeInv, TypeOK
      <3>. QED  BY <3>1, <3>2, StepMoves
    <2>3. CurrentPending /\ mCurrentTask.operand = m =>
            (Granted(mCurrentTask.tid)' <=> Granted(mCurrentTask.tid))
      <3>1. CASE mCurrentTask.tid = t
        BY <1>1, <2>2, <3>1 DEF Granted
      <3>2. CASE mCurrentTask.tid # t
        BY <1>1, <1>5, <3>2, StepMoves DEF Granted
      <3>. QED  BY <3>1, <3>2
    <2>. QED  BY <1>3, <2>1, <2>3
  <1>. QED  BY <1>7, <1>8, <1>9

\* Only a request of a join changes who waits to join a thread.
LEMMA StepJoiners ==
  ASSUME NEW t \in Thread, ThreadStep(t)
  PROVE  \/ mThreadStates' = mThreadStates /\ ~ (PostRequest(t) /\ call[t].op = "Join")
         \/ /\ PostRequest(t) /\ call[t].op = "Join"
            /\ mThreadStates' = [mThreadStates EXCEPT ![call[t].operand] = @ \cup {t}]
  <1>. USE DEF poolVars
  <1>1. CASE PostRequest(t)
    BY <1>1 DEF PostRequest, UpdateObjectPost, OnObject, MemoryOp, LockOp
  <1>2. CASE \/ EnterThread(t) \/ Announce(t) \/ Return(t) \/ CheckControlled(t)
             \/ TakeTurn(t) \/ Execute(t) \/ Register(t) \/ Leave(t)
    BY <1>2 DEF EnterThread, Announce, Return, CheckControlled, TakeTurn, Execute,
                Register, Leave, PostRequest
  <1>3. CASE Yield(t) \/ EndYield(t) \/ Post(t) \/ EndPost(t) \/ RegisterInPool(t)
             \/ EndRegister(t) \/ Finish(t) \/ EndFinish(t)
    BY <1>3 DEF Yield, YieldNothing, YieldCurrent, EndYield, UpdateObjectYield, Post,
                PostTask, EndPost, PostStatus, RegisterInPool, RegisterThread,
                EndRegister, RegisterThreadState, Finish, FinishJoiners, EndFinish,
                FinishStatus, PostRequest
  <1>. QED  BY <1>1, <1>2, <1>3 DEF ThreadStep

\* A thread is joined once.
LEMMA ThreadStepJoins ==
  ASSUME PoolInv, ~ Ended, NEW t \in Thread, ThreadStep(t), Open'
  PROVE  JoinsOnce'
  <1>1. /\ PoolOpen /\ OpenInv /\ TypeInv /\ TypeInv' /\ mCurrentTask' = mCurrentTask
    BY StepContext
  <1>. DEFINE Asked == {"announced", "yielding", "in_yield", "yielded", "in_post"}
              Requesting == {"enabling", "disabling", "waiting"}
              Joins(u) == pc[u] \in Announcing /\ call[u].op = "Join"
  <1>2. \A u \in Thread : Joins(u) => call[u].operand \in Thread
    BY <1>1, InstructionFields DEF TypeInv, CallOK, ManageOp
  <1>3. mThreadStates \in [Thread -> SUBSET Thread]
    BY <1>1 DEF TypeInv, TypeOK, PoolTypeOK
  <1>4. \A u \in Thread : u # t =>
          /\ call'[u] = call[u]
          /\ pc'[u] = pc[u] \/ (pc[u] = "unborn" /\ pc'[u] = "born")
    BY StepMoves, StepCalls
  <1>5. joined \subseteq joined'
    BY StepCalls DEF Announce
  <1>6. JoinsOnce
    BY <1>1 DEF PoolOpen
  \* The step of t, as far as its join is concerned.
  <1>7. /\ pc[t] # "exited"
        /\ pc[t] \in Requesting => pc'[t] \in Requesting \cup {"executing"}
        /\ pc[t] = "executing" /\ call[t].op = "Join" => pc[call[t].operand] = "exited"
        /\ pc'[t] \in Asked =>
             \/ pc[t] \in Asked /\ ~ Announce(t) /\ ~ PostRequest(t)
             \/ pc'[t] = "announced" /\ Announce(t)
        /\ pc'[t] \in Requesting =>
             \/ pc[t] \in Requesting /\ ~ PostRequest(t)
             \/ pc[t] = "in_post" /\ PostRequest(t)
        /\ PostRequest(t) => pc[t] = "in_post" /\ pc'[t] \in {"enabling", "disabling"}
        /\ pc'[t] \in Announcing => pc[t] \in Announcing \/ Announce(t)
    <2>1. pc[t] = "announced" => RunsControlled
      BY StepContext DEF Open, RunsControlled
    <2>. USE <1>1, <2>1 DEF TypeInv, TypeOK, GoTo, Announcing
    <2>2. CASE \/ EnterThread(t) \/ Announce(t) \/ Return(t) \/ CheckControlled(t)
               \/ TakeTurn(t) \/ Register(t) \/ EndRegister(t) \/ Leave(t)
      BY <2>2 DEF EnterThread, Announce, Return, CheckControlled, TakeTurn, Register,
                  EndRegister, Leave, PostRequest
    <2>3. CASE Execute(t)
      BY <2>3 DEF Execute, PostRequest, Announce, MemoryOp
    <2>4. CASE Yield(t) \/ EndYield(t) \/ Post(t) \/ PostRequest(t) \/ EndPost(t)
      BY <2>4 DEF Yield, EndYield, Post, PostRequest, EndPost, Announce
    <2>5. CASE RegisterInPool(t) \/ Finish(t) \/ EndFinish(t)
      BY <2>5 DEF RegisterInPool, Finish, EndFinish, PostRequest, Announce
    <2>. QED  BY <2>2, <2>3, <2>4, <2>5 DEF ThreadStep
  \* What t announces, if it does.
  <1>8. ASSUME Announce(t), call'[t].op = "Join"
        PROVE  call'[t].operand \in joined' \ joined
    <2>1. PICK instr \in NextInstructions(t) :
            /\ call' = [call EXCEPT ![t] = instr]
            /\ joined' = IF instr.op = "Join" THEN joined \cup {instr.operand} ELSE joined
      BY <1>8 DEF Announce
    <2>2. call'[t] = instr
      BY <1>1, <2>1 DEF TypeInv, TypeOK
    <2>3. instr.operand \notin joined
      BY <1>8, <2>2, NextJoinFresh
    <2>. QED  BY <1>8, <2>1, <2>2, <2>3
  <1>9. \/ mThreadStates' = mThreadStates /\ ~ (PostRequest(t) /\ call[t].op = "Join")
        \/ /\ PostRequest(t) /\ call[t].op = "Join"
           /\ mThreadStates' = [mThreadStates EXCEPT ![call[t].operand] = @ \cup {t}]
    BY StepJoiners
  <1>10. ~ Announce(t) => call'[t] = call[t]
    BY StepCalls
  <1>11. ASSUME NEW j \in Thread, NEW u \in Thread, j \in mThreadStates'[u]
         PROVE  /\ u \in joined'
                /\ \/ pc'[u] = "exited"
                   \/ /\ pc'[j] \in {"enabling", "disabling", "waiting", "executing"}
                      /\ call'[j].op = "Join" /\ call'[j].operand = u
    <2>1. CASE j \in mThreadStates[u]
      <3>1. u \in joined'
        BY <1>5, <1>6, <2>1 DEF JoinsOnce
      <3>2. CASE pc[u] = "exited"
        BY <1>4, <1>7, <3>1, <3>2
      <3>3. CASE /\ pc[j] \in {"enabling", "disabling", "waiting", "executing"}
                 /\ call[j].op = "Join" /\ call[j].operand = u
        <4>1. CASE j # t
          BY <1>4, <3>1, <3>3, <4>1
        <4>2. CASE j = t
          <5>1. ~ Announce(t)
            BY <3>3, <4>2 DEF Announce
          <5>2. CASE pc[t] = "executing"
            BY <1>4, <1>7, <3>1, <3>3, <4>2, <5>2
          <5>3. CASE pc[t] # "executing"
            BY <1>7, <1>10, <3>1, <3>3, <4>2, <5>1, <5>3
          <5>. QED  BY <5>2, <5>3
        <4>. QED  BY <4>1, <4>2
      <3>. QED  BY <1>6, <2>1, <3>2, <3>3 DEF JoinsOnce
    <2>2. CASE j \notin mThreadStates[u]
      <3>1. PostRequest(t) /\ call[t].op = "Join" /\ j = t /\ u = call[t].operand
        BY <1>3, <1>9, <1>11, <2>2
      <3>2. ~ Announce(t) /\ pc[t] = "in_post"
        BY <3>1 DEF Announce, PostRequest
      <3>3. call[t].operand \in joined
        BY <1>6, <3>1, <3>2 DEF JoinsOnce, Announcing
      <3>. QED  BY <1>5, <1>7, <1>10, <3>1, <3>2, <3>3
    <2>. QED  BY <2>1, <2>2
  <1>12. ASSUME NEW u \in Thread, Joins(u)'
         PROVE  /\ call'[u].operand \in joined'
                /\ pc'[u] \in Asked => mThreadStates'[call'[u].operand] = {}
                /\ pc'[u] \in Requesting => u \in mThreadStates'[call'[u].operand]
    <2>1. CASE u = t /\ Announce(t)
      <3>1. call'[t].operand \in joined' \ joined
        BY <1>8, <1>12, <2>1
      <3>2. call'[t].operand \in Thread
        BY <1>1, <1>12, <2>1, InstructionFields DEF TypeInv, CallOK, ManageOp
      <3>3. mThreadStates[call'[t].operand] = {} /\ mThreadStates' = mThreadStates
        BY <1>3, <1>6, <1>9, <2>1, <3>1, <3>2 DEF JoinsOnce, Announce, PostRequest
      <3>. QED  BY <1>7, <2>1, <3>1, <3>3 DEF Announce
    <2>2. CASE ~ (u = t /\ Announce(t))
      <3>1. Joins(u) /\ call'[u] = call[u]
        BY <1>4, <1>7, <1>10, <1>12, <2>2 DEF Announcing
      <3>2. /\ call[u].operand \in joined /\ call[u].operand \in Thread
            /\ pc[u] \in Asked => mThreadStates[call[u].operand] = {}
            /\ pc[u] \in Requesting => u \in mThreadStates[call[u].operand]
        BY <1>2, <1>6, <3>1 DEF JoinsOnce
      <3>3. CASE PostRequest(t) /\ call[t].op = "Join"
        <4>1. Joins(t)
          BY <3>3 DEF PostRequest, Announcing
        <4>2. CASE u = t
          BY <1>3, <1>5, <1>7, <1>9, <3>1, <3>2, <3>3, <4>2
        <4>3. CASE u # t
          <5>1. call[u].operand # call[t].operand
            BY <1>6, <3>1, <4>1, <4>3 DEF JoinsOnce
          <5>2. mThreadStates'[call[u].operand] = mThreadStates[call[u].operand]
            BY <1>3, <1>9, <3>2, <3>3, <5>1
          <5>. QED  BY <1>4, <1>5, <3>1, <3>2, <4>3, <5>2
        <4>. QED  BY <4>2, <4>3
      <3>4. CASE ~ (PostRequest(t) /\ call[t].op = "Join")
        <4>1. mThreadStates' = mThreadStates
          BY <1>9, <3>4
        <4>2. CASE u = t
          BY <1>5, <1>7, <2>2, <3>1, <3>2, <3>4, <4>1, <4>2
        <4>3. CASE u # t
          BY <1>4, <1>5, <3>1, <3>2, <4>1, <4>3
        <4>. QED  BY <4>2, <4>3
      <3>. QED  BY <3>3, <3>4
    <2>. QED  BY <2>1, <2>2
  <1>13. ASSUME NEW u \in Thread, NEW v \in Thread, Joins(u)', Joins(v)', u # v
         PROVE  call'[u].operand # call'[v].operand
    <2>1. ASSUME NEW a \in Thread, Joins(a)', ~ (a = t /\ Announce(t))
          PROVE  Joins(a) /\ call'[a] = call[a] /\ call[a].operand \in joined
      <3>1. Joins(a) /\ call'[a] = call[a]
        BY <1>4, <1>7, <1>10, <2>1 DEF Announcing
      <3>. QED  BY <1>6, <3>1 DEF JoinsOnce
    <2>2. CASE Announce(t) /\ u = t
      BY <1>8, <1>13, <2>1, <2>2
    <2>3. CASE Announce(t) /\ v = t
      BY <1>8, <1>13, <2>1, <2>3
    <2>4. CASE ~ (Announce(t) /\ t \in {u, v})
      BY <1>6, <1>13, <2>1, <2>4 DEF JoinsOnce
    <2>. QED  BY <2>2, <2>3, <2>4
  <1>. QED  BY <1>11, <1>12, <1>13 DEF JoinsOnce

\* How a step of a thread changes the status of a thread.
LEMMA StepStatuses ==
  ASSUME PoolInv, NEW t \in Thread, ThreadStep(t), NEW u \in Thread
  PROVE  LET woken == WaitingOn(Perform(mObjects[mCurrentTask.operand], t))
         IN  mThreads'[u] =
               IF EndPost(t) /\ u = t
               THEN IF pc[t] = "enabling" THEN "ENABLED" ELSE "DISABLED"
               ELSE IF EndYield(t) /\ mCurrentTask.op = "Lock" /\ u \in woken
               THEN "DISABLED"
               ELSE IF EndYield(t) /\ mCurrentTask.op = "Unlock" /\ u \in woken
               THEN "ENABLED"
               ELSE IF Finish(t) /\ u \in mThreadStates[t]
               THEN "ENABLED"
               ELSE IF EndFinish(t) /\ u = t
               THEN "FINISHED"
               ELSE IF RegisterInPool(t) /\ u = call[t].operand /\ ~ Registered(u)
               THEN "START"
               ELSE mThreads[u]
  <1>1. mThreads \in [Thread -> Status \cup {"UNREGISTERED"}]
    BY DEF PoolInv, RecordInv, IInv, TypeInv, TypeOK, PoolTypeOK
  <1>2. CASE pc[t] \in {"enabling", "disabling"}
    BY <1>1, <1>2
       DEF ThreadStep, EnterThread, Announce, Return, CheckControlled, Yield, EndYield,
           Post, PostRequest, EndPost, PostStatus, WithStatus, TakeTurn, Execute, Register,
           RegisterInPool, EndRegister, Finish, EndFinish, Leave
  <1>3. CASE pc[t] \in {"in_yield", "in_exit_yield"}
    <2>1. EndYield(t) /\ ~ (EndPost(t) \/ Finish(t) \/ EndFinish(t) \/ RegisterInPool(t))
      BY <1>3
         DEF ThreadStep, EnterThread, Announce, Return, CheckControlled, Yield,
             Post, PostRequest, EndPost, TakeTurn, Execute, Register, RegisterInPool,
             EndRegister, Finish, EndFinish, Leave
    <2>2. mThreads' = StatusesAfter(mCurrentTask,
                         WaitingOn(Perform(mObjects[mCurrentTask.operand], t)))
      BY <2>1 DEF EndYield, UpdateObjectYield
    <2>. QED  BY <1>1, <2>1, <2>2 DEF StatusesAfter, WithStatus
  <1>4. CASE pc[t] \in {"finishing", "in_finish", "reg_thread"}
    BY <1>1, <1>4
       DEF ThreadStep, EnterThread, Announce, Return, CheckControlled, Yield, EndYield,
           Post, PostRequest, EndPost, WithStatus, TakeTurn, Execute, Register,
           RegisterInPool, RegisterThread, EndRegister, Finish, FinishJoiners, EndFinish,
           FinishStatus, Leave
  <1>5. CASE pc[t] \notin {"enabling", "disabling", "in_yield", "in_exit_yield", "finishing",
                          "in_finish", "reg_thread"}
    <2>1. ~ (EndPost(t) \/ EndYield(t) \/ Finish(t) \/ EndFinish(t) \/ RegisterInPool(t))
      BY <1>5 DEF EndPost, EndYield, Finish, EndFinish, RegisterInPool
    <2>2. mThreads' = mThreads
      <3>. USE DEF poolVars
      <3>1. CASE \/ EnterThread(t) \/ Announce(t) \/ Return(t) \/ CheckControlled(t)
                 \/ TakeTurn(t) \/ Execute(t) \/ Register(t) \/ Leave(t)
        BY <3>1 DEF EnterThread, Announce, Return, CheckControlled, TakeTurn, Execute,
                    Register, Leave
      <3>2. CASE Yield(t) \/ Post(t) \/ PostRequest(t) \/ EndRegister(t)
        BY <3>2 DEF Yield, YieldNothing, YieldCurrent, Post, PostTask, PostRequest,
                    UpdateObjectPost, EndRegister, RegisterThreadState
      <3>. QED  BY <2>1, <3>1, <3>2 DEF ThreadStep
    <2>. QED  BY <2>1, <2>2
  <1>. QED  BY <1>2, <1>3, <1>4, <1>5

\* A thread with an instruction in a wait set is between its post and its yield.
LEMMA WaitersPlace ==
  ASSUME TypeInv, WaitSets, NEW o \in Objects, NEW i \in {0, 1},
         NEW instr \in mObjects[o].waiting[i]
  PROVE  /\ instr \in Instruction /\ instr.tid \in Thread
         /\ OnObject(instr) /\ instr.operand = o /\ Requested(instr)
         /\ pc[instr.tid] \in {"enabling", "disabling", "waiting"} \cup BeforeYield
  <1>1. instr \in Instruction
    BY DEF TypeInv, TypeOK, PoolTypeOK, ObjectState
  <1>. QED  BY <1>1, InstructionFields
            DEF WaitSets, Requested, CurrentPending, Granted, BeforeYield

\* After the yield of the current task the threads that are enabled or disabled are
\* those with another instruction in a wait set of the object.
LEMMA WokenWait ==
  ASSUME PoolInv, ~ Ended, NEW t \in Thread, EndYield(t), Open', NEW u \in Thread
  PROVE  LET o == mCurrentTask.operand
         IN  u \in WaitingOn(Perform(mObjects[o], t)) <=>
               /\ u # t
               /\ mTasks[u] # NoTask /\ pc[u] \in {"enabling", "disabling", "waiting"}
               /\ OnObject(mTasks[u]) /\ mTasks[u].operand = o
  <1>. DEFINE o == mCurrentTask.operand
              obj == Perform(mObjects[o], t)
  <1>1. ThreadStep(t)
    BY DEF ThreadStep
  <1>2. PoolOpen /\ OpenInv /\ TypeInv /\ Open /\ IInv
    BY <1>1, StepContext
  <1>3. /\ mCurrentTask \in Instruction /\ mCurrentTask.tid = t /\ o \in Objects
        /\ \A i \in {0, 1} : obj.waiting[i] = mObjects[o].waiting[i] \ {mCurrentTask}
    BY <1>2, YieldPerforms
  <1>4. \A v \in Thread : mTasks[v] # NoTask => mTasks[v] \in Instruction /\ mTasks[v].tid = v
    BY <1>2, PostedIsOwn DEF TypeInv, TypeOK, PoolTypeOK
  <1>5. mTasks[t] = NoTask
    BY <1>2 DEF EndYield, OpenInv, TaskPosted
  <1>6. ASSUME u \in WaitingOn(obj)
        PROVE  /\ u # t
               /\ mTasks[u] # NoTask /\ pc[u] \in {"enabling", "disabling", "waiting"}
               /\ OnObject(mTasks[u]) /\ mTasks[u].operand = o
    <2>1. PICK i \in {0, 1} : \E instr \in obj.waiting[i] : u = instr.tid
      BY <1>6 DEF WaitingOn
    <2>2. PICK instr \in obj.waiting[i] : u = instr.tid
      BY <2>1
    <2>3. instr \in mObjects[o].waiting[i] /\ instr # mCurrentTask
      BY <1>3, <2>2
    <2>4. instr \in Instruction /\ OnObject(instr) /\ instr.operand = o /\ Requested(instr)
      BY <1>2, <1>3, <2>3, WaitersPlace DEF PoolOpen
    <2>. QED  BY <1>5, <2>2, <2>3, <2>4, NoTaskAssumption DEF Requested
  <1>7. ASSUME /\ u # t
               /\ mTasks[u] # NoTask /\ pc[u] \in {"enabling", "disabling", "waiting"}
               /\ OnObject(mTasks[u]) /\ mTasks[u].operand = o
        PROVE  u \in WaitingOn(obj)
    <2>1. Requested(mTasks[u]) /\ OpType(mTasks[u]) \in {0, 1}
      BY <1>4, <1>7, InstructionFields DEF Requested
    <2>2. mTasks[u] \in mObjects[o].waiting[OpType(mTasks[u])]
      BY <1>2, <1>3, <1>4, <1>7, <2>1 DEF PoolOpen, WaitSets
    <2>3. mTasks[u] \in obj.waiting[OpType(mTasks[u])]
      BY <1>3, <1>4, <1>7, <2>1, <2>2
    <2>. QED  BY <1>4, <1>7, <2>1, <2>3 DEF WaitingOn
  <1>. QED  BY <1>6, <1>7

\* A thread that has ended is FINISHED, and one that is not created has no status.
LEMMA ThreadStepPlaces ==
  ASSUME PoolInv, ~ Ended, NEW t \in Thread, ThreadStep(t), Open'
  PROVE  StatusPlace' /\ ExitsLate' /\ ChosenEnabled'
  <1>1. /\ PoolOpen /\ OpenInv /\ TypeInv /\ TypeInv' /\ mCurrentTask' = mCurrentTask
        /\ mTaskNr' = mTaskNr /\ RecordOpen /\ selected' = selected
    BY StepContext
  <1>2. \A u \in Thread : u # t =>
          /\ call'[u] = call[u]
          /\ pc'[u] = pc[u] \/ (pc[u] = "unborn" /\ pc'[u] = "born")
    BY StepMoves, StepCalls
  <1>3. \A u \in Thread : u # t /\ pc[u] = "unborn" /\ pc'[u] = "born" =>
          Execute(t) /\ call[t].op = "Spawn" /\ call[t].operand = u
    BY StepMoves
  <1>4. ASSUME NEW u \in Thread
        PROVE  /\ pc'[u] \in {"leaving", "exited"} => mThreads'[u] = "FINISHED"
               /\ pc'[u] = "unborn" => mThreads'[u] = "UNREGISTERED"
    <2>1. /\ pc[u] \in {"leaving", "exited"} => mThreads[u] = "FINISHED"
          /\ pc[u] = "unborn" => mThreads[u] = "UNREGISTERED"
      BY <1>1 DEF PoolOpen, StatusPlace, Registered
    <2>2. pc'[u] = "unborn" => pc[u] = "unborn" /\ u # t
      BY <1>1, <1>2, ThreadStepProgram DEF BornSilent, ThreadStep, EnterThread, Announce,
         Return, CheckControlled, Yield, EndYield, Post, PostRequest, EndPost, TakeTurn,
         Execute, Register, RegisterInPool, EndRegister, Finish, EndFinish, Leave, GoTo,
         TypeInv, TypeOK, CallOK, Announcing, OpenInv, FreshTids
    <2>3. /\ pc'[u] \in {"leaving", "exited"} =>
               pc[u] \in {"leaving", "exited"} \/ (u = t /\ EndFinish(t))
      <3>1. pc[t] = "returned" => RunsControlled
        BY StepContext DEF Open, RunsControlled
      <3>. USE <1>1, <3>1 DEF TypeInv, TypeOK, GoTo
      <3>2. CASE \/ EnterThread(t) \/ Announce(t) \/ Return(t) \/ CheckControlled(t)
                 \/ TakeTurn(t) \/ Register(t) \/ EndRegister(t) \/ Leave(t)
        BY <1>2, <3>2 DEF EnterThread, Announce, Return, CheckControlled, TakeTurn,
                          Register, EndRegister, Leave
      <3>3. CASE Execute(t)
        BY <1>2, <3>3 DEF Execute
      <3>4. CASE \/ Yield(t) \/ EndYield(t) \/ Post(t) \/ PostRequest(t) \/ EndPost(t)
                 \/ RegisterInPool(t) \/ Finish(t)
        BY <1>2, <3>4 DEF Yield, EndYield, Post, PostRequest, EndPost, RegisterInPool, Finish
      <3>5. CASE EndFinish(t)
        BY <1>2, <3>5 DEF EndFinish
      <3>. QED  BY <3>2, <3>3, <3>4, <3>5 DEF ThreadStep
    <2>4. EndFinish(t) => mThreads'[t] = "FINISHED"
      BY StepStatuses DEF EndFinish, EndPost, EndYield, Finish
    <2>5. ASSUME pc[u] \in {"unborn", "leaving", "exited"}
          PROVE  \/ mThreads'[u] = mThreads[u]
                 \/ /\ RegisterInPool(t) /\ u = call[t].operand
                    /\ mThreads[u] = "UNREGISTERED"
      <3>1. ~ EndPost(t) \/ u # t
        BY <2>5 DEF EndPost
      <3>2. EndYield(t) => u \notin WaitingOn(Perform(mObjects[mCurrentTask.operand], t))
        BY <2>5, WokenWait
      <3>3. Finish(t) => u \notin mThreadStates[t]
        BY <1>1, <2>5 DEF PoolOpen, JoinsOnce, Finish
      <3>4. ~ EndFinish(t) \/ u # t
        BY <2>5 DEF EndFinish
      <3>5. mThreads'[u] # mThreads[u] =>
              RegisterInPool(t) /\ u = call[t].operand /\ ~ Registered(u)
        BY <3>1, <3>2, <3>3, <3>4, StepStatuses
      <3>. QED  BY <3>5 DEF Registered
    <2>6. RegisterInPool(t) => pc[call[t].operand] # "unborn"
      BY <1>1 DEF RegisterInPool, PoolOpen, StatusPlace
    <2>. QED  BY <2>1, <2>2, <2>3, <2>4, <2>5, <2>6
  <1>5. ASSUME NEW u \in Thread, pc'[u] \in {"registering", "reg_thread"}
        PROVE  pc'[call'[u].operand] # "unborn"
    <2>1. CASE pc[u] \in {"registering", "reg_thread"}
      <3>1. ~ (u = t /\ Announce(t))
        BY <2>1 DEF Announce
      <3>2. call'[u] = call[u]
        BY <1>2, <3>1, StepCalls
      <3>3. call[u].operand \in Thread /\ pc[call[u].operand] # "unborn"
        BY <1>1, <2>1, SpawnOperand DEF PoolOpen, StatusPlace, TypeInv, CallOK, Registering
      <3>4. pc'[call[u].operand] = "unborn" => call[u].operand = t
        BY <1>2, <3>3
      <3>5. pc'[t] # "unborn"
        BY <1>1, ThreadStepProgram DEF BornSilent, ThreadStep, EnterThread, Announce,
           Return, CheckControlled, Yield, EndYield, Post, PostRequest, EndPost, TakeTurn,
           Execute, Register, RegisterInPool, EndRegister, Finish, EndFinish, Leave, GoTo,
           TypeInv, TypeOK, CallOK, Announcing, OpenInv, FreshTids
      <3>. QED  BY <3>2, <3>4, <3>5
    <2>2. CASE pc[u] \notin {"registering", "reg_thread"}
      <3>1. u = t
        BY <1>2, <1>5, <2>2
      <3>2. Execute(t) /\ call[t].op = "Spawn"
        BY <1>1, <1>5, <2>2, <3>1
           DEF TypeInv, TypeOK, GoTo, ThreadStep, EnterThread, Announce,
               Return, CheckControlled, Yield, EndYield, Post, PostRequest, EndPost,
               TakeTurn, Execute, Register, RegisterInPool, EndRegister, Finish,
               EndFinish, Leave
      <3>3. call'[t] = call[t]
        BY <3>2, StepCalls DEF Execute, Announce
      <3>4. call[t].operand \in Thread /\ pc'[call[t].operand] = "born"
        BY <1>1, <3>2, SpawnOperand
           DEF Execute, TypeInv, TypeOK, CallOK, Announcing, MemoryOp
      <3>. QED  BY <3>1, <3>3, <3>4
    <2>. QED  BY <2>1, <2>2
  <1>6. ExitsLate'
    <2>1. SUFFICES ASSUME ~ EagerExit PROVE ExitsLate'
      BY DEF ExitsLate
    <2>2. ASSUME NEW u \in Thread, pc'[u] \in Exiting PROVE PastInstruction(u)'
      <3>1. CASE u # t
        BY <1>1, <1>2, <2>1, <2>2, <3>1 DEF PoolOpen, ExitsLate, PastInstruction, Exiting
      <3>2. CASE u = t
        <4>1. ~ Announce(t) /\ (pc[t] \in Exiting \/ Return(t))
          BY <1>1, <2>2, <3>2
             DEF TypeInv, TypeOK, GoTo, Exiting, ThreadStep, EnterThread, Announce,
                 Return, CheckControlled, Yield, EndYield, Post, PostRequest, EndPost,
                 TakeTurn, Execute, Register, RegisterInPool, EndRegister, Finish,
                 EndFinish, Leave
        <4>2. call'[t] = call[t]
          BY <4>1, StepCalls
        <4>. QED  BY <1>1, <2>1, <2>2, <3>2, <4>1, <4>2
                  DEF PoolOpen, ExitsLate, PastInstruction, Return, MayReturn
      <3>. QED  BY <3>1, <3>2
    <2>3. ASSUME mTaskNr = 0
          PROVE  /\ pc'[0] \notin Exiting \cup {"unborn", "born", "leaving", "exited"}
                 /\ pc'[0] = "running" => call'[0].op = "Spawn"
      <3>1. /\ pc[0] \notin Exiting \cup {"unborn", "born", "leaving", "exited"}
            /\ pc[0] = "running" => call[0].op = "Spawn"
        BY <1>1, <2>1, <2>3 DEF PoolOpen, ExitsLate
      <3>2. CASE t # 0
        BY <1>2, <3>1, <3>2, MainIsThread
      <3>3. CASE t = 0
        <4>1. pc[0] # "executing"
          <5>1. ASSUME HasTurn(0) PROVE FALSE
            BY <1>1, <2>3, <5>1, MainIsThread DEF RecordOpen, PerformedCount, TypeInv, TypeOK
          <5>. QED  BY <5>1 DEF HasTurn
        <4>2. ~ Return(0)
          BY <2>1, <3>1 DEF Return, MayReturn
        <4>3. pc[0] \in Registering => call[0].op = "Spawn"
          BY <1>1, MainIsThread DEF TypeInv, CallOK
        <4>4. ~ Announce(0) => call'[0] = call[0]
          BY <3>3, StepCalls
        <4>. QED  BY <1>1, <3>1, <3>3, <4>1, <4>2, <4>3, <4>4, MainIsThread
             DEF TypeInv, TypeOK, GoTo, Exiting, Registering, ThreadStep, EnterThread,
                 Announce, CheckControlled, Yield, EndYield, Post, PostRequest, EndPost,
                 TakeTurn, Execute, Register, RegisterInPool, EndRegister, Finish,
                 EndFinish, Leave
      <3>. QED  BY <3>2, <3>3
    <2>. QED  BY <1>1, <2>2, <2>3 DEF ExitsLate
  <1>7. ChosenEnabled'
    <2>1. CASE Still
      BY <1>1, <2>1, StepContext
         DEF PoolOpen, ChosenEnabled, Leave, poolVars, runVars, Scheduled, ScheduleEntry
    <2>2. CASE ~ Still
      BY <2>2, StepContext, ThreadStepFrame DEF Still, Round, ChosenEnabled
    <2>. QED  BY <2>1, <2>2
  <1>. QED  BY <1>4, <1>5, <1>6, <1>7 DEF StatusPlace, Registered

\* A thread that registers another one has created it.
LEMMA ThreadStepMainFirst ==
  ASSUME PoolInv, ~ Ended, NEW t \in Thread, ThreadStep(t), Open'
  PROVE  MainTakesFirst'
  <1>1. PoolOpen /\ OpenInv /\ TypeInv /\ TypeInv'
    BY StepContext
  <1>2. SUFFICES ASSUME NEW u \in Thread, pc'[u] = "registering", call'[u].operand = u
                 PROVE  mNrRegistered' = 0
    BY DEF MainTakesFirst
  <1>3. CASE u # t
    <2>1. pc[u] = "registering" /\ call[u].operand = u
      BY <1>2, <1>3, StepMoves, StepCalls
    <2>2. u = 0 /\ pc[t] = "unborn"
      BY <1>1, <1>3, <2>1 DEF PoolOpen, MainTakesFirst, OpenInv, FreshTids
    <2>. QED  BY <2>2
         DEF ThreadStep, EnterThread, Announce, Return, CheckControlled, Yield, EndYield,
             Post, PostRequest, EndPost, TakeTurn, Execute, Register, RegisterInPool,
             EndRegister, Finish, EndFinish, Leave
  <1>4. CASE u = t
    <2>1. Execute(t) /\ call[t].op = "Spawn"
      BY <1>1, <1>2, <1>4
         DEF TypeInv, TypeOK, GoTo, ThreadStep, EnterThread, Announce, Return,
             CheckControlled, Yield, EndYield, Post, PostRequest, EndPost, TakeTurn,
             Execute, Register, RegisterInPool, EndRegister, Finish, EndFinish, Leave
    <2>2. call[t].operand = t /\ pc[t] = "executing"
      BY <1>2, <1>4, <2>1, StepCalls DEF Execute, Announce
    <2>. QED  BY <1>1, <2>1, <2>2 DEF OpenInv, FreshTids, Announcing
  <1>. QED  BY <1>3, <1>4

\* Whether an instruction is ready for the pool changes with the yield of an instruction on
\* the same mutex, and with the end of the thread to join.
LEMMA StepReady ==
  ASSUME PoolInv, ~ Ended, NEW t \in Thread, ThreadStep(t), Open',
         NEW instr \in Instruction, KindOK(instr)
  PROVE  /\ ~ (EndYield(t) /\ instr.op = "Lock" /\ instr.operand = mCurrentTask.operand)
              /\ ~ (Finish(t) /\ instr.op = "Join" /\ instr.operand = t)
              => (Ready(instr)' <=> Ready(instr))
         /\ EndYield(t) /\ instr.op = "Lock" /\ instr.operand = mCurrentTask.operand
              => (Ready(instr)' <=> OpType(mCurrentTask) = 0)
         /\ Finish(t) /\ instr.op = "Join" /\ instr.operand = t => Ready(instr)'
  <1>1. /\ TypeInv /\ TypeInv' /\ mCurrentTask' = mCurrentTask
    BY StepContext
  <1>2. CASE instr.op = "Lock"
    <2>1. instr.operand \in Objects /\ instr.op # "Join"
      BY <1>2, WorkloadAssumption DEF KindOK, LockOp
    <2>2. /\ ~ EndYield(t) => mObjects'[instr.operand].current = mObjects[instr.operand].current
          /\ EndYield(t) => mObjects'[instr.operand].current =
              IF instr.operand = mCurrentTask.operand THEN OpType(mCurrentTask)
              ELSE mObjects[instr.operand].current
      BY <2>1, StepObjects
    <2>. QED  BY <1>2, <2>1, <2>2 DEF Ready
  <1>3. CASE instr.op = "Join"
    <2>1. instr.operand \in Thread /\ instr.op # "Lock"
      BY <1>3, InstructionFields DEF ManageOp
    <2>. DEFINE Past == {"in_finish", "leaving", "exited"}
    <2>2. CASE instr.operand # t
      <3>1. pc'[instr.operand] \in Past <=> pc[instr.operand] \in Past
        BY <2>1, <2>2, StepMoves
      <3>. QED  BY <1>3, <2>1, <2>2, <3>1 DEF Ready
    <2>3. CASE instr.operand = t
      <3>1. pc[t] = "returned" => RunsControlled
        BY StepContext DEF Open, RunsControlled
      <3>2. /\ Finish(t) => pc'[t] \in Past
            /\ ~ Finish(t) => (pc'[t] \in Past <=> pc[t] \in Past)
        BY <1>1, <3>1
           DEF TypeInv, TypeOK, GoTo, ThreadStep, EnterThread, Announce, Return,
               CheckControlled, Yield, EndYield, Post, PostRequest, EndPost, TakeTurn,
               Execute, Register, RegisterInPool, EndRegister, Finish, EndFinish, Leave
      <3>. QED  BY <1>3, <2>1, <2>3, <3>2 DEF Ready
    <2>. QED  BY <2>2, <2>3
  <1>4. CASE instr.op \notin {"Lock", "Join"}
    BY <1>4 DEF Ready
  <1>. QED  BY <1>2, <1>3, <1>4

\* The status of another thread stays the truth about its posted instruction.
LEMMA OtherReady ==
  ASSUME PoolInv, ~ Ended, NEW t \in Thread, ThreadStep(t), Open',
         NEW u \in Thread \ {t}, NEW instr, instr = call[u],
         TakenEnabled(u)' \/ TakenDisabled(u)'
  PROVE  /\ TakenEnabled(u)' => Ready(instr)'
         /\ TakenDisabled(u)' => ~ Ready(instr)' \/ Missed(instr)
  <1>1. /\ PoolOpen /\ OpenInv /\ TypeInv /\ TypeInv' /\ mCurrentTask' = mCurrentTask
    BY StepContext
  <1>2. /\ pc'[u] = pc[u] /\ mTasks'[u] = mTasks[u] /\ pc[u] \in Announcing
        /\ pc[u] \in {"enabling", "disabling", "waiting"}
    BY StepMoves DEF TakenEnabled, TakenDisabled, Announcing
  <1>3. instr \in Instruction /\ instr.tid = u /\ KindOK(instr)
    BY <1>1, <1>2 DEF PoolOpen, OperandKinds, TypeInv, CallOK
  <1>4. mTasks[u] # NoTask /\ mTasks[u] = instr
    <2>1. mTasks[u] # NoTask
      BY <1>1, <1>2 DEF PoolOpen, InPostPosted, TakenEnabled, TakenDisabled
    <2>. QED  BY <1>1, <2>1 DEF OpenInv, TaskIsCall
  <1>5. /\ TakenEnabled(u) => Ready(instr)
        /\ TakenDisabled(u) => ~ Ready(instr) \/ Missed(instr)
    BY <1>1 DEF PoolOpen, StatusReady
  <1>6. Registered(u)
    BY <1>1, <1>2 DEF OpenInv, UnregisteredIdle
  <1>7. /\ ~ (EndPost(t) /\ u = t) /\ ~ (EndFinish(t) /\ u = t)
        /\ ~ (RegisterInPool(t) /\ u = call[t].operand /\ ~ Registered(u))
    BY <1>6
  \* Nothing changes for the thread but, perhaps, its status.
  <1>8. ASSUME mThreads'[u] = mThreads[u], Ready(instr)' <=> Ready(instr)
        PROVE  /\ TakenEnabled(u)' => Ready(instr)'
               /\ TakenDisabled(u)' => ~ Ready(instr)' \/ Missed(instr)
    BY <1>2, <1>5, <1>8 DEF TakenEnabled, TakenDisabled
  <1>9. CASE EndYield(t)
    <2>1. pc[u] = "waiting" /\ ~ Finish(t)
      BY <1>1, <1>2, <1>9
         DEF EndYield, UpdateObjectYield, OpenInv, InPostHoldsMutex, Finish
    <2>2. /\ mCurrentTask \in Instruction /\ OnObject(mCurrentTask) /\ mCurrentTask.tid = t
          /\ KindOK(mCurrentTask)
      BY <1>1, <1>9, StepContext, YieldPerforms, InstructionFields DEF PoolOpen, OperandKinds
    <2>3. u \in WaitingOn(Perform(mObjects[mCurrentTask.operand], t)) <=>
            OnObject(instr) /\ instr.operand = mCurrentTask.operand
      BY <1>2, <1>4, <1>9, WokenWait
    <2>4. CASE ~ (OnObject(instr) /\ instr.operand = mCurrentTask.operand)
      <3>1. mThreads'[u] = mThreads[u]
        BY <1>7, <2>1, <2>3, <2>4, StepStatuses
      <3>2. Ready(instr)' <=> Ready(instr)
        BY <1>3, <2>1, <2>4, StepReady DEF OnObject, LockOp
      <3>. QED  BY <1>8, <3>1, <3>2
    <2>5. CASE /\ OnObject(instr) /\ instr.operand = mCurrentTask.operand
               /\ mCurrentTask.op = "Lock"
      <3>1. mThreads'[u] = "DISABLED"
        BY <1>7, <1>9, <2>3, <2>5, StepStatuses
      <3>2. instr.op \in {"Lock", "Unlock"}
        BY <1>3, <2>2, <2>5, WorkloadAssumption DEF KindOK, OnObject, LockOp
      <3>3. instr.op # "Unlock"
        <4>1. ASSUME instr.op = "Unlock" PROVE FALSE
          <5>1. owner[instr.operand] = u
            BY <1>1, <1>2, <4>1 DEF PoolOpen, UnlockOwned
          <5>2. CurrentPending /\ ~ Granted(t)
            BY <1>9, StepPending DEF EndYield, Granted
          <5>3. owner[mCurrentTask.operand] = t
            BY <1>1, <2>2, <2>5, <5>2 DEF PoolOpen, MutexHeld, KindOK, LockOp
          <5>. QED  BY <2>5, <5>1, <5>3
        <4>. QED  BY <4>1
      <3>4. ~ Ready(instr)'
        BY <1>3, <1>9, <2>2, <2>5, <3>2, <3>3, StepReady, InstructionFields
      <3>. QED  BY <1>2, <2>1, <3>1, <3>4 DEF TakenEnabled
    <2>6. CASE /\ OnObject(instr) /\ instr.operand = mCurrentTask.operand
               /\ mCurrentTask.op = "Unlock"
      <3>1. mThreads'[u] = "ENABLED"
        BY <1>7, <1>9, <2>3, <2>6, StepStatuses
      <3>2. Ready(instr)'
        <4>1. CASE instr.op = "Lock"
          BY <1>3, <1>9, <2>2, <2>6, <4>1, StepReady, InstructionFields
        <4>2. CASE instr.op # "Lock"
          BY <2>6, <4>2 DEF Ready, OnObject, MemoryOp, LockOp
        <4>. QED  BY <4>1, <4>2
      <3>. QED  BY <1>2, <2>1, <3>1, <3>2 DEF TakenDisabled
    <2>7. CASE /\ OnObject(instr) /\ instr.operand = mCurrentTask.operand
               /\ mCurrentTask.op \notin {"Lock", "Unlock"}
      <3>1. mThreads'[u] = mThreads[u]
        BY <1>7, <2>1, <2>7, StepStatuses
      <3>2. instr.op # "Lock"
        BY <1>3, <2>2, <2>7, WorkloadAssumption DEF KindOK, OnObject, LockOp
      <3>3. Ready(instr)' <=> Ready(instr)
        BY <1>3, <2>1, <3>2, StepReady
      <3>. QED  BY <1>8, <3>1, <3>3
    <2>. QED  BY <2>4, <2>5, <2>6, <2>7
  <1>10. CASE Finish(t)
    <2>1. ~ EndYield(t)
      BY <1>10 DEF EndYield, Finish
    <2>2. u \in mThreadStates[t] => instr.op = "Join" /\ instr.operand = t
      BY <1>1, <1>2, <1>10 DEF PoolOpen, JoinsOnce, Finish
    <2>3. instr.op = "Join" /\ instr.operand = t => u \in mThreadStates[t]
      BY <1>1, <1>2 DEF PoolOpen, JoinsOnce
    <2>4. mThreads'[u] = IF u \in mThreadStates[t] THEN "ENABLED" ELSE mThreads[u]
      BY <1>7, <1>10, <2>1, StepStatuses
    <2>5. CASE instr.op = "Join" /\ instr.operand = t
      <3>1. Ready(instr)'
        BY <1>3, <1>10, <2>5, StepReady
      <3>2. pc[u] = "disabling" => EagerExit
        <4>1. ASSUME pc[u] = "disabling", ~ EagerExit PROVE FALSE
          <5>1. PastInstruction(t)
            BY <1>1, <1>10, <4>1 DEF Finish, PoolOpen, ExitsLate, Exiting
          <5>2. Alone(t)
            BY <1>1, <5>1 DEF PoolOpen, TurnsAlone
          <5>. QED  BY <4>1, <5>2 DEF Alone
        <4>. QED  BY <4>1
      <3>. QED  BY <1>2, <2>3, <2>4, <2>5, <3>1, <3>2 DEF TakenDisabled, Missed
    <2>6. CASE ~ (instr.op = "Join" /\ instr.operand = t)
      <3>1. Ready(instr)' <=> Ready(instr)
        BY <1>3, <2>1, <2>6, StepReady
      <3>. QED  BY <1>8, <2>2, <2>4, <2>6, <3>1
    <2>. QED  BY <2>5, <2>6
  <1>11. CASE ~ EndYield(t) /\ ~ Finish(t)
    <2>1. mThreads'[u] = mThreads[u]
      BY <1>7, <1>11, StepStatuses
    <2>2. Ready(instr)' <=> Ready(instr)
      BY <1>3, <1>11, StepReady
    <2>. QED  BY <1>8, <2>1, <2>2
  <1>. QED  BY <1>9, <1>10, <1>11

\* The request of a thread finds out whether its instruction can be performed, and the
\* end of its post says so.
LEMMA OwnReady ==
  ASSUME PoolInv, ~ Ended, NEW t \in Thread, ThreadStep(t), Open',
         NEW instr, instr = call[t], TakenEnabled(t)' \/ TakenDisabled(t)'
  PROVE  /\ instr = call'[t]
         /\ TakenEnabled(t)' => Ready(instr)'
         /\ TakenDisabled(t)' => ~ Ready(instr)' \/ Missed(instr)
  <1>1. /\ PoolOpen /\ OpenInv /\ TypeInv /\ TypeInv'
    BY StepContext
  <1>2. EndPost(t) \/ PostRequest(t)
    <2>1. pc[t] = "waiting" => TakeTurn(t) \/ ~ ThreadStep(t)
      BY DEF ThreadStep, EnterThread, Announce, Return, CheckControlled, Yield, EndYield,
             Post, PostRequest, EndPost, Execute, Register, RegisterInPool, EndRegister,
             Finish, EndFinish, Leave
    <2>2. pc'[t] \in {"enabling", "disabling", "waiting"}
      BY DEF TakenEnabled, TakenDisabled
    <2>. QED  BY <1>1, <2>1, <2>2
              DEF TypeInv, TypeOK, GoTo, ThreadStep, EnterThread, Announce, Return,
                  CheckControlled, Yield, EndYield, Post, PostRequest, EndPost, TakeTurn,
                  Execute, Register, RegisterInPool, EndRegister, Finish, EndFinish, Leave
  <1>3. instr = call'[t] /\ ~ EndYield(t) /\ ~ Finish(t)
    BY <1>2, StepCalls DEF EndPost, PostRequest, Announce, EndYield, Finish
  <1>4. instr \in Instruction /\ KindOK(instr)
    BY <1>1, <1>2 DEF EndPost, PostRequest, PoolOpen, OperandKinds, TypeInv, CallOK, Announcing
  <1>5. Ready(instr)' <=> Ready(instr)
    BY <1>3, <1>4, StepReady
  <1>6. CASE EndPost(t)
    <2>1. /\ pc[t] \in {"enabling", "disabling"} /\ pc'[t] = "waiting"
          /\ mThreads'[t] = IF pc[t] = "enabling" THEN "ENABLED" ELSE "DISABLED"
      BY <1>1, <1>6, StepStatuses DEF EndPost, GoTo, TypeInv, TypeOK
    <2>2. /\ pc[t] = "enabling" => Ready(instr)
          /\ pc[t] = "disabling" => ~ Ready(instr) \/ Missed(instr)
      BY <1>1 DEF PoolOpen, StatusReady, TakenEnabled, TakenDisabled
    <2>. QED  BY <1>3, <1>5, <2>1, <2>2 DEF TakenEnabled, TakenDisabled
  <1>7. CASE PostRequest(t)
    <2>1. PICK enabled \in BOOLEAN :
            /\ UpdateObjectPost(t, instr, enabled)
            /\ pc'[t] = IF enabled THEN "enabling" ELSE "disabling"
      BY <1>1, <1>7 DEF PostRequest, GoTo, TypeInv, TypeOK
    <2>2. SUFFICES (enabled => Ready(instr)) /\ (~ enabled => ~ Ready(instr) \/ Missed(instr))
      BY <1>3, <1>5, <2>1 DEF TakenEnabled, TakenDisabled
    <2>3. CASE OnObject(instr)
      <3>1. enabled <=> ~ (instr.op = "Lock" /\ mObjects[instr.operand].current = 1)
        BY <2>1, <2>3 DEF UpdateObjectPost, OnObject, MemoryOp, LockOp, RequestReturns
      <3>2. instr.op # "Join" /\ instr.operand \in Objects
        BY <1>4, <2>3, InstructionFields DEF OnObject, MemoryOp, LockOp, ManageOp
      <3>3. mObjects[instr.operand].current \in {0, 1}
        BY <1>1, <3>2 DEF TypeInv, TypeOK, PoolTypeOK, ObjectState
      <3>. QED  BY <3>1, <3>2, <3>3 DEF Ready
    <2>4. CASE instr.op = "Join"
      <3>1. enabled = (mThreads[instr.operand] = "FINISHED")
        BY <2>1, <2>4 DEF UpdateObjectPost, OnObject, MemoryOp, LockOp, JoinRequestReturns
      <3>2. instr.operand \in Thread
        BY <1>4, <2>4, InstructionFields DEF ManageOp
      <3>3. enabled => Ready(instr)
        BY <1>1, <2>4, <3>1, <3>2 DEF Ready, OpenInv, FinishedLeaves
      <3>4. ASSUME ~ enabled, Ready(instr) PROVE EagerExit
        <4>1. pc[instr.operand] = "in_finish"
          BY <1>1, <2>4, <3>1, <3>2, <3>4 DEF Ready, PoolOpen, StatusPlace
        <4>2. ASSUME ~ EagerExit PROVE FALSE
          <5>1. PastInstruction(instr.operand)
            BY <1>1, <3>2, <4>1, <4>2 DEF PoolOpen, ExitsLate, Exiting
          <5>2. instr.operand # t /\ ~ Leave(t)
            BY <1>7, <4>1 DEF PostRequest, Leave
          <5>. QED  BY <3>2, <5>1, <5>2, MoverAlone
        <4>. QED  BY <4>2, WorkloadAssumption
      <3>. QED  BY <2>4, <3>3, <3>4 DEF Missed
    <2>5. CASE instr.op = "Spawn"
      BY <2>1, <2>5 DEF UpdateObjectPost, OnObject, MemoryOp, LockOp, Ready
    <2>. QED  BY <1>4, <2>3, <2>4, <2>5, InstructionFields DEF ManageOp, OnObject
  <1>. QED  BY <1>2, <1>3, <1>6, <1>7

\* The status of a thread stays the truth about its posted instruction.
LEMMA ThreadStepReady ==
  ASSUME PoolInv, ~ Ended, NEW t \in Thread, ThreadStep(t), Open'
  PROVE  StatusReady'
  <1>1. ASSUME NEW u \in Thread, TakenEnabled(u)' \/ TakenDisabled(u)', NEW instr, instr = call[u]
        PROVE  /\ instr = call'[u]
               /\ TakenEnabled(u)' => Ready(instr)'
               /\ TakenDisabled(u)' => ~ Ready(instr)' \/ Missed(instr)
    <2>1. CASE u # t
      BY <1>1, <2>1, OtherReady, StepCalls
    <2>2. CASE u = t
      BY <1>1, <2>2, OwnReady
    <2>. QED  BY <2>1, <2>2
  <1>2. ASSUME NEW u \in Thread, TakenEnabled(u)' PROVE Ready(call[u])'
    BY <1>1, <1>2 DEF Ready
  <1>3. ASSUME NEW u \in Thread, TakenDisabled(u)' PROVE (~ Ready(call[u]) \/ Missed(call[u]))'
    BY <1>1, <1>3 DEF Ready, Missed
  <1>. QED  BY <1>2, <1>3 DEF StatusReady

\* No thread touches the schedule.
LEMMA ThreadStepKeepsSchedule ==
  ASSUME NEW t \in Thread, ThreadStep(t)
  PROVE  UNCHANGED schedule
  <1>. USE DEF runVars, OutsidePool
  <1>1. CASE \/ EnterThread(t) \/ Announce(t) \/ Return(t) \/ CheckControlled(t)
             \/ TakeTurn(t) \/ Execute(t) \/ Register(t) \/ EndRegister(t) \/ Leave(t)
    BY <1>1 DEF EnterThread, Announce, Return, CheckControlled, TakeTurn, Execute, Register,
                EndRegister, Leave
  <1>2. CASE \/ Yield(t) \/ EndYield(t) \/ Post(t) \/ PostRequest(t) \/ EndPost(t)
             \/ RegisterInPool(t) \/ Finish(t) \/ EndFinish(t)
    BY <1>2 DEF Yield, EndYield, Post, PostRequest, EndPost, RegisterInPool, Finish, EndFinish
  <1>. QED  BY <1>1, <1>2 DEF ThreadStep

\* No assertion of the pool fails in a step of a thread: it has not posted a task, its
\* instruction is not in a wait set yet when it is requested, and is in one when it was
\* performed.
LEMMA ThreadStepFails ==
  ASSUME PoolInv, ~ Ended, NEW t \in Thread, ThreadStep(t)
  PROVE  ~ failed'
  <1>1. IInv /\ TypeInv /\ ~ failed /\ (Open => OpenInv /\ PoolOpen)
    BY DEF PoolInv, RecordInv, IInv, Ended
  <1>2. EndYield(t) \/ Post(t) \/ PostRequest(t) => Open
    <2>1. EndYield(t) \/ Post(t) \/ PostRequest(t) => ~ Leave(t) /\ pc[t] \in InPool
      BY DEF EndYield, Post, PostRequest, Leave, InPool
    <2>2. mStatus \in {"DONE", "DEADLOCK"} => Leave(t)
      BY <1>1, ThreadStepFrame DEF Still
    <2>3. mStatus = "ERROR" => pc[t] \notin InPool
      BY DEF PoolInv, ErrorSettled
    <2>. QED  BY <1>1, <2>1, <2>2, <2>3 DEF Open, TypeInv, TypeOK
  <1>3. CASE EndYield(t)
    <2>1. ~ UpdateObjectYieldThrows(t)
      BY <1>2, <1>3, YieldPerforms
    <2>. QED  BY <1>3, <2>1 DEF EndYield
  <1>4. CASE Post(t)
    BY <1>1, <1>2, <1>4 DEF Post, PostThrows, OpenInv, TaskPosted
  <1>5. CASE PostRequest(t)
    <2>1. call[t] \in Instruction /\ call[t].tid = t /\ pc[t] = "in_post"
      BY <1>1, <1>5 DEF PostRequest, TypeInv, CallOK, Announcing
    <2>2. ASSUME OnObject(call[t]), RequestThrows(mObjects[call[t].operand], call[t])
          PROVE  FALSE
      <3>1. call[t].operand \in Objects /\ OpType(call[t]) \in {0, 1}
        BY <2>1, <2>2, InstructionFields DEF OnObject, MemoryOp, LockOp, ManageOp
      <3>2. PICK other \in mObjects[call[t].operand].waiting[OpType(call[t])] : other.tid = t
        BY <2>1, <2>2 DEF RequestThrows, WaitingOf
      <3>3. Requested(other)
        BY <1>1, <1>2, <1>5, <3>1, <3>2, WaitersPlace DEF PoolOpen
      <3>. QED  BY <2>1, <3>2, <3>3 DEF Requested, CurrentPending, BeforeYield, Granted
    <2>3. ASSUME call[t].op = "Join", JoinRequestThrows(t, call[t].operand)
          PROVE  FALSE
      BY <1>1, <1>2, <1>5, <2>1, <2>3 DEF JoinRequestThrows, PoolOpen, JoinsOnce, Announcing
    <2>4. ~ UpdateObjectPostThrows(t, call[t])
      BY <2>2, <2>3 DEF UpdateObjectPostThrows
    <2>. QED  BY <1>5, <2>4 DEF PostRequest
  <1>6. CASE ~ (EndYield(t) \/ Post(t) \/ PostRequest(t))
    <2>1. failed' = failed
      <3>. USE DEF otherVars
      <3>1. CASE \/ EnterThread(t) \/ Announce(t) \/ Return(t) \/ CheckControlled(t)
                 \/ TakeTurn(t) \/ Execute(t) \/ Register(t) \/ EndRegister(t) \/ Leave(t)
        BY <3>1 DEF EnterThread, Announce, Return, CheckControlled, TakeTurn, Execute,
                    Register, EndRegister, Leave
      <3>2. CASE \/ Yield(t) \/ EndPost(t) \/ RegisterInPool(t) \/ Finish(t) \/ EndFinish(t)
        BY <3>2 DEF Yield, EndPost, RegisterInPool, Finish, EndFinish
      <3>. QED  BY <1>6, <3>1, <3>2 DEF ThreadStep
    <2>. QED  BY <1>1, <2>1
  <1>. QED  BY <1>3, <1>4, <1>5, <1>6

\* A step of a thread preserves the invariant.
LEMMA ThreadStepPool ==
  ASSUME PoolInv, ~ Ended, NEW t \in Thread, ThreadStep(t)
  PROVE  PoolInv'
  <1>1. RecordInv /\ RecordInv' /\ IInv /\ TypeInv
    BY ThreadStepRecord DEF PoolInv, RecordInv, IInv
  <1>2. /\ UNCHANGED <<mStatus, recorded, mTaskNr, schedule>>
        /\ spc' = spc \/ (spc = "asleep" /\ spc' = "wait")
    BY <1>1, ThreadStepFrame, ThreadStepKeepsRecord, ThreadStepKeepsSchedule
  <1>3. ~ failed'
    BY ThreadStepFails
  <1>4. ErrorSettled'
    <2>1. SUFFICES ASSUME mStatus = "ERROR", NEW u \in Thread PROVE pc'[u] \notin InPool
      BY <1>2 DEF ErrorSettled
    <2>2. pc[u] \notin InPool /\ pc[t] \notin InPool /\ ~ RunsControlled
      BY <2>1 DEF PoolInv, ErrorSettled, RunsControlled
    <2>. USE <1>1, <2>2 DEF TypeInv, TypeOK, GoTo, InPool
    <2>3. CASE \/ EnterThread(t) \/ Announce(t) \/ Return(t) \/ CheckControlled(t)
               \/ TakeTurn(t) \/ Register(t) \/ EndRegister(t) \/ Leave(t)
               \/ RegisterInPool(t)
      BY <2>3 DEF EnterThread, Announce, Return, CheckControlled, TakeTurn, Register,
                  EndRegister, Leave, RegisterInPool
    <2>4. CASE Execute(t)
      BY <2>4 DEF Execute
    <2>5. CASE \/ Yield(t) \/ EndYield(t) \/ Post(t) \/ PostRequest(t) \/ EndPost(t)
               \/ Finish(t) \/ EndFinish(t)
      BY <2>5 DEF Yield, EndYield, Post, PostRequest, EndPost, Finish, EndFinish
    <2>. QED  BY <2>3, <2>4, <2>5 DEF ThreadStep
  <1>5. StatusFinal' /\ FailureCause'
    BY <1>2, <1>3 DEF PoolInv, StatusFinal, FailureCause, Scheduled
  <1>6. ASSUME Open' PROVE PoolOpen'
    BY <1>6, ThreadStepProgram, StepPending, ThreadStepWaitSets, ThreadStepMutexHeld,
       ThreadStepJoins, ThreadStepReady, ThreadStepAlone, ThreadStepPlaces,
       ThreadStepMainFirst DEF PoolOpen
  <1>. QED  BY <1>1, <1>4, <1>5, <1>6 DEF PoolInv

\* In a round no thread has the turn, and the current task has been yielded.
LEMMA RoundRests ==
  ASSUME PoolInv, ~ Ended, spc \in Round \ {"grant"}
  PROVE  /\ Open /\ TypeInv /\ OpenInv /\ PoolOpen
         /\ \A u \in Thread : pc[u] \in Quiet /\ ~ Granted(u)
         /\ ~ CurrentPending
  <1>1. Open /\ TypeInv /\ OpenInv /\ PoolOpen /\ RoundExclusive
    BY DEF PoolInv, RecordInv, IInv, LoopRunning, Open, Ended
  <1>2. \A u \in Thread : pc[u] \in Quiet /\ ~ Granted(u)
    BY <1>1 DEF RoundExclusive, Quiet, OpenInv, RoundPosted, Granted
  <1>3. mCurrentTask # NoTask => mCurrentTask.tid \in Thread
    BY <1>1, InstructionFields DEF TypeInv, TypeOK, PoolTypeOK
  <1>. QED  BY <1>1, <1>2, <1>3 DEF CurrentPending, BeforeYield, Quiet

\* The thread of the next current task has posted an instruction that it can perform.
LEMMA SelectedCanPerform ==
  ASSUME PoolInv, ~ Ended, spc = "current"
  PROVE  /\ selected \in Thread /\ pc[selected] = "waiting"
         /\ mTasks[selected] \in Instruction /\ mTasks[selected] # NoTask
         /\ mTasks[selected] = call[selected] /\ mTasks[selected].tid = selected
         /\ KindOK(call[selected]) /\ CanPerform(call[selected])
  <1>1. /\ TypeInv /\ OpenInv /\ PoolOpen /\ ~ CurrentPending
        /\ \A u \in Thread : pc[u] \in Quiet /\ ~ Granted(u)
    BY RoundRests DEF Round
  <1>2. selected \in Thread /\ mThreads[selected] = "ENABLED"
    BY <1>1 DEF TypeInv, SelectedOK, PoolOpen, ChosenEnabled
  <1>3. pc[selected] = "waiting"
    BY <1>1, <1>2 DEF PoolOpen, StatusPlace, Registered, Quiet
  <1>4. mTasks[selected] # NoTask /\ mTasks[selected] = call[selected]
    BY <1>1, <1>2, <1>3 DEF Granted, OpenInv, TaskIsCall
  <1>5. PICK instr \in Instruction : instr = call[selected]
    BY <1>1, <1>2, <1>3 DEF TypeInv, CallOK, Announcing
  <1>6. instr.tid = selected /\ KindOK(instr) /\ Ready(instr)
    BY <1>1, <1>2, <1>3, <1>4, <1>5
       DEF TypeInv, CallOK, Announcing, PoolOpen, OperandKinds, StatusReady, TakenEnabled
  <1>7. CanPerform(instr)
    <2>1. ASSUME instr.op = "Lock" PROVE owner[instr.operand] = NoThread
      <3>1. instr.operand \in Mutexes /\ mObjects[instr.operand].current = 0
        BY <1>6, <2>1 DEF KindOK, LockOp, Ready
      <3>. QED  BY <1>1, <3>1 DEF PoolOpen, MutexHeld
    <2>2. ASSUME instr.op = "Join" PROVE pc[instr.operand] \in {"leaving", "exited"}
      <3>1. instr.operand \in Thread
        BY <2>2, InstructionFields DEF ManageOp
      <3>. QED  BY <1>1, <1>6, <2>2, <3>1 DEF Ready, Quiet
    <2>. QED  BY <2>1, <2>2 DEF CanPerform
  <1>. QED  BY <1>2, <1>3, <1>4, <1>5, <1>6, <1>7

\* Making a posted task the current one hands its thread the turn, and no request is
\* lost.
LEMMA MakeCurrentPool ==
  ASSUME PoolInv, ~ Ended, MakeCurrent
  PROVE  ~ failed' /\ PoolOpen'
  <1>. DEFINE s == selected
              cur == mTasks[selected]
  <1>1. spc = "current"
    BY DEF MakeCurrent
  <1>2. /\ Open /\ TypeInv /\ OpenInv /\ PoolOpen /\ ~ CurrentPending
        /\ \A u \in Thread : pc[u] \in Quiet /\ ~ Granted(u)
    BY <1>1, RoundRests DEF Round
  <1>3. /\ s \in Thread /\ pc[s] = "waiting" /\ cur \in Instruction /\ cur # NoTask
        /\ cur = call[s] /\ cur.tid = s /\ KindOK(call[s]) /\ CanPerform(call[s])
    BY <1>1, SelectedCanPerform
  <1>4. /\ UNCHANGED <<pc, call, owner, joined, mThreads, mObjects, mThreadStates, mTaskNr,
                       mNrRegistered>>
        /\ mCurrentTask' = cur /\ mTasks' = [mTasks EXCEPT ![s] = NoTask]
        /\ spc' = "grant" /\ failed' = (cur = NoTask)
    BY DEF MakeCurrent, SetCurrent, SetCurrentThrows, OutsideRun, programVars
  <1>5. PICK t \in Thread : t = s
    BY <1>3
  <1>6. PICK task \in Instruction : task = cur
    BY <1>3
  <1>7. mTasks \in [Thread -> Instruction \cup {NoTask}]
    BY <1>2 DEF TypeInv, TypeOK, PoolTypeOK
  <1>8. /\ mTasks'[t] = NoTask /\ mTasks[t] = task /\ task.tid = t /\ task # NoTask
        /\ mCurrentTask' = task /\ call[t] = task /\ pc[t] = "waiting"
        /\ \A u \in Thread \ {t} : mTasks'[u] = mTasks[u]
    BY <1>3, <1>4, <1>5, <1>6, <1>7
  <1>9. \A u \in Thread : Granted(u)' <=> u = t
    BY <1>2, <1>4, <1>8 DEF Granted
  <1>10. CurrentPending' <=> OnObject(task)
    BY <1>4, <1>8 DEF CurrentPending, BeforeYield, Granted
  <1>11. WaitSets'
    <2>1. ASSUME NEW instr \in Instruction, OnObject(instr)
          PROVE  Requested(instr)' <=> Requested(instr)
      <3>1. instr.tid \in Thread /\ instr # NoTask
        BY InstructionFields
      <3>2. Requested(instr) <=> mTasks[instr.tid] = instr /\ pc[instr.tid] = "waiting"
        BY <1>2, <3>1 DEF Requested, Quiet
      <3>3. Requested(instr)' <=> \/ mTasks'[instr.tid] = instr /\ pc[instr.tid] = "waiting"
                                  \/ task = instr
        BY <1>2, <1>4, <1>8, <1>10, <2>1, <3>1 DEF Requested, Quiet
      <3>. QED  BY <1>8, <3>1, <3>2, <3>3
    <2>2. ASSUME NEW o \in Objects, NEW i \in {0, 1}, NEW instr \in Instruction
          PROVE  instr \in mObjects'[o].waiting[i] <=>
                    /\ OnObject(instr) /\ instr.operand = o /\ OpType(instr) = i
                    /\ Requested(instr)'
      BY <1>2, <1>4, <2>1 DEF PoolOpen, WaitSets
    <2>. QED  BY <2>2 DEF WaitSets
  <1>12. MutexHeld'
    <2>1. \A m \in Mutexes : mObjects[m].current = 1 <=> owner[m] # NoThread
      BY <1>2 DEF PoolOpen, MutexHeld
    <2>2. Granted(mCurrentTask.tid)'
      BY <1>4, <1>8 DEF Granted
    <2>. QED  BY <1>4, <2>1, <2>2 DEF MutexHeld
  <1>13. StatusReady'
    <2>1. \A u \in Thread : /\ TakenEnabled(u)' => TakenEnabled(u)
                            /\ TakenDisabled(u)' => TakenDisabled(u)
      BY <1>4, <1>8 DEF TakenEnabled, TakenDisabled
    <2>. QED  BY <1>2, <1>4, <2>1 DEF PoolOpen, StatusReady, Ready, Missed
  <1>14. GrantedCanPerform'
    <2>1. CanPerform(task)
      BY <1>3, <1>6
    <2>. QED  BY <1>4, <1>8, <1>9, <2>1 DEF GrantedCanPerform, CanPerform
  <1>15. TurnsAlone'
    BY <1>2, <1>4, <1>9 DEF TurnsAlone, Alone, PastInstruction, Exiting, Quiet
  <1>16. (BornSilent /\ InYieldCurrent /\ CurrentPlace /\ InPostPosted)'
    BY <1>2, <1>4, <1>8 DEF PoolOpen, BornSilent, InYieldCurrent, CurrentPlace, InPostPosted,
                            Quiet, Registering
  <1>17. (OperandKinds /\ UnlockOwned)'
    BY <1>2, <1>3, <1>4 DEF PoolOpen, OperandKinds, UnlockOwned, KindOK
  <1>18. (JoinsOnce /\ StatusPlace /\ MainTakesFirst /\ ChosenEnabled /\ ExitsLate)'
    BY <1>2, <1>4 DEF PoolOpen, JoinsOnce, StatusPlace, Registered, MainTakesFirst,
                      ChosenEnabled, ExitsLate, PastInstruction
  <1>. QED  BY <1>3, <1>4, <1>11, <1>12, <1>13, <1>14, <1>15, <1>16, <1>17, <1>18 DEF PoolOpen

\* The other steps of the scheduler thread leave the program and its pool as they are.
LEMMA SchedulerStepKeeps ==
  ASSUME SchedulerStep, ~ MakeCurrent
  PROVE  UNCHANGED <<poolVars, programVars, schedule, mNrRegistered>>
  BY DEF SchedulerStep, Start, WaitForPosts, Record, Select, Dispatch, Grant, Close,
         CloseExecution, OutsideRun

\* Such a step preserves the open part of the invariant.
LEMMA SchedulerStepOpen ==
  ASSUME PoolInv, ~ Ended, SchedulerStep, ~ MakeCurrent, Open'
  PROVE  PoolOpen'
  <1>1. UNCHANGED <<poolVars, programVars, schedule, mNrRegistered>>
    BY SchedulerStepKeeps
  <1>2. Open /\ PoolOpen /\ TypeInv
    BY DEF SchedulerStep, Start, WaitForPosts, Record, Select, SelectScheduled,
           SelectByStrategy, SelectDone, SelectDeadlock, Dispatch, MakeCurrent, Grant,
           Close, CloseExecution, Open, Ended, PoolInv, RecordInv, IInv
  <1>3. (BornSilent /\ InYieldCurrent /\ CurrentPlace /\ InPostPosted)'
    BY <1>1, <1>2 DEF poolVars, programVars, PoolOpen, BornSilent, InYieldCurrent,
                      YieldsCurrent, CurrentPlace, InPostPosted
  <1>4. (WaitSets /\ OperandKinds /\ UnlockOwned /\ MutexHeld)'
    BY <1>1, <1>2 DEF poolVars, programVars, PoolOpen, WaitSets, Requested, CurrentPending,
                      Granted, OperandKinds, KindOK, UnlockOwned, MutexHeld
  <1>5. (JoinsOnce /\ StatusPlace /\ MainTakesFirst)'
    BY <1>1, <1>2 DEF poolVars, programVars, PoolOpen, JoinsOnce, StatusPlace, Registered,
                      MainTakesFirst
  <1>6. (StatusReady /\ GrantedCanPerform /\ TurnsAlone)'
    BY <1>1, <1>2 DEF poolVars, programVars, PoolOpen, StatusReady, TakenEnabled,
                      TakenDisabled, Ready, Missed, GrantedCanPerform, Granted, CanPerform,
                      TurnsAlone, Alone, PastInstruction
  <1>7. ChosenEnabled'
    <2>1. CASE Select
      <3>1. CASE SelectScheduled
        BY <1>1, <2>1, <3>1 DEF Select, SelectScheduled, ChosenEnabled, Scheduled,
                                ScheduleEntry
      <3>2. CASE SelectByStrategy
        <4>1. StrategyChoices(strategy, EnabledSet, mTaskNr) \subseteq EnabledSet
          BY DEF StrategyChoices, NonPreemptiveChoices
        <4>. QED  BY <1>1, <2>1, <3>2, <4>1
                  DEF Select, SelectByStrategy, ChosenEnabled, Scheduled, EnabledSet, poolVars
      <3>3. CASE SelectDone \/ SelectDeadlock
        BY <3>3 DEF SelectDone, SelectDeadlock, ChosenEnabled
      <3>. QED  BY <2>1, <3>1, <3>2, <3>3 DEF Select
    <2>2. CASE Dispatch
      BY <1>1, <2>2 DEF Dispatch, ChosenEnabled, poolVars
    <2>3. CASE Start \/ WaitForPosts \/ Grant \/ Close \/ CloseExecution
      BY <2>3 DEF Start, WaitForPosts, Grant, Close, CloseExecution, ChosenEnabled
    <2>4. CASE Record
      <3>1. spc = "record" /\ mTaskNr > 0 => mCurrentTask # NoTask
        BY <1>2 DEF PoolInv, RecordInv, RecordOpen, CurrentWasNext
      <3>. QED  BY <1>1, <2>4, <3>1 DEF Record, ChosenEnabled, poolVars
    <2>. QED  BY <2>1, <2>2, <2>3, <2>4 DEF SchedulerStep
  <1>8. ExitsLate'
    <2>1. mTaskNr' = mTaskNr \/ mTaskNr' = mTaskNr + 1
      BY DEF SchedulerStep, Start, WaitForPosts, Record, Select, Dispatch, Grant, Close,
             CloseExecution
    <2>2. mTaskNr' = 0 => mTaskNr = 0
      BY <1>2, <2>1 DEF TypeInv, TypeOK
    <2>. QED  BY <1>1, <1>2, <2>2 DEF programVars, PoolOpen, ExitsLate, PastInstruction
  <1>. QED  BY <1>3, <1>4, <1>5, <1>6, <1>7, <1>8 DEF PoolOpen

\* A step of the scheduler thread preserves the invariant.
LEMMA SchedulerStepPool ==
  ASSUME PoolInv, ~ Ended, SchedulerStep
  PROVE  PoolInv'
  <1>1. RecordInv' /\ IInv /\ TypeInv /\ LoopRunning /\ RoundExclusive /\ ~ failed
    BY SchedulerStepRecord DEF PoolInv, RecordInv, IInv, Ended
  <1>2. Open' => PoolOpen'
    BY MakeCurrentPool, SchedulerStepOpen
  <1>3. pc' = pc
    BY DEF SchedulerStep, Start, WaitForPosts, Record, Select, Dispatch, MakeCurrent, Grant,
           Close, CloseExecution, OutsideRun, programVars
  <1>4. ErrorSettled'
    <2>1. CASE Dispatch
      BY <1>1, <1>3, <2>1 DEF Dispatch, Round, RoundExclusive, ErrorSettled, InPool
    <2>2. CASE ~ Dispatch
      <3>1. mStatus' = "ERROR" => mStatus = "ERROR"
        BY <2>2 DEF SchedulerStep, Start, WaitForPosts, Record, Select, SelectScheduled,
           SelectByStrategy, SelectDone, SelectDeadlock, MakeCurrent, Grant, Close,
           CloseExecution
      <3>. QED  BY <1>3, <3>1 DEF PoolInv, ErrorSettled
    <2>. QED  BY <2>1, <2>2
  <1>. USE <1>1 DEF PoolInv, StatusFinal, FailureCause, TypeInv, TypeOK
  <1>5. schedule' = schedule /\ (Scheduled(schedule, mTaskNr)' <=> Scheduled(schedule, mTaskNr'))
    BY DEF SchedulerStep, Start, WaitForPosts, Record, Select, Dispatch, MakeCurrent, Grant,
           Close, CloseExecution, OutsideRun, Scheduled
  <1>6. CASE Start \/ WaitForPosts \/ Grant \/ Close
    <2>1. UNCHANGED <<mStatus, recorded, failed>>
      BY <1>6 DEF Start, WaitForPosts, Grant, Close
    <2>2. spc' \in {"wait", "record", "asleep"} \/ (spc = "close" /\ spc' = "last")
      BY <1>6 DEF Start, WaitForPosts, Grant, Close
    <2>3. mStatus = "RUNNING" \/ mTaskNr' = mTaskNr
      BY <1>1, <1>6 DEF Start, WaitForPosts, Grant, Close, LoopRunning, Round
    <2>. QED  BY <1>1, <1>2, <1>4, <1>5, <2>1, <2>2, <2>3
  <1>7. CASE Record
    BY <1>1, <1>2, <1>4, <1>7 DEF Record, LoopRunning, Round, PushBack, SetFinal
  <1>8. CASE Select
    <2>1. spc = "select" /\ mStatus = "RUNNING" /\ UNCHANGED <<mTaskNr, failed>>
      BY <1>1, <1>8 DEF Select, LoopRunning, Round
    <2>2. CASE SelectScheduled \/ SelectByStrategy
      BY <1>1, <1>2, <1>4, <2>1, <2>2 DEF SelectScheduled, SelectByStrategy
    <2>3. CASE SelectDone
      <3>1. /\ PoolOpen /\ OpenInv /\ RecordOpen /\ recorded.nr = mTaskNr
            /\ \A u \in Thread : pc[u] \in Quiet /\ ~ Granted(u)
        BY <2>1, RoundRests DEF Round, PoolInv, RecordInv, RecordOpen, TransitionCount
      <3>2. ASSUME mTaskNr = 0, ~ EagerExit PROVE FALSE
        <4>1. pc[0] = "waiting"
          BY <3>1, <3>2, MainIsThread DEF PoolOpen, ExitsLate, Quiet
        <4>2. mTasks[0] # NoTask
          BY <3>1, <4>1, MainIsThread DEF Granted
        <4>. QED  BY <2>3, <4>2, MainIsThread DEF SelectDone, PostedSet
      <3>3. ~ EagerExit => recorded.nr > 0
        BY <3>1, <3>2
      <3>. QED  BY <1>1, <1>2, <1>4, <2>1, <2>3, <3>3 DEF SelectDone
    <2>4. CASE SelectDeadlock
      BY <1>1, <1>2, <1>4, <2>1, <2>4 DEF SelectDeadlock, PushBack
    <2>. QED  BY <1>8, <2>2, <2>3, <2>4 DEF Select
  <1>9. CASE Dispatch
    <2>1. /\ Scheduled(schedule, mTaskNr) => selected = ScheduleEntry(schedule, mTaskNr)
          /\ ~ Scheduled(schedule, mTaskNr) => mThreads[selected] = "ENABLED"
      BY <1>9, RoundRests DEF Dispatch, Round, PoolOpen, ChosenEnabled
    <2>2. (StatusFinal /\ FailureCause)'
      BY <1>1, <1>9, <2>1
         DEF Dispatch, LoopRunning, Round, Scheduled, ScheduleEntry, OutsideRun, poolVars,
             Registered
    <2>. QED  BY <1>1, <1>2, <1>4, <2>2
  <1>10. CASE MakeCurrent
    BY <1>1, <1>2, <1>4, <1>10, MakeCurrentPool DEF MakeCurrent, LoopRunning, Round
  <1>11. CASE CloseExecution
    BY <1>1, <1>2, <1>4, <1>5, <1>11 DEF CloseExecution, SetFinal
  <1>. QED  BY <1>6, <1>7, <1>8, <1>9, <1>10, <1>11 DEF SchedulerStep

\* It holds initially.
LEMMA InitPool == Init => PoolInv
  <1>. SUFFICES ASSUME Init PROVE PoolInv
    OBVIOUS
  <1>. USE MainIsThread DEF Init, PoolInit
  <1>1. RecordInv
    BY InitRecord
  <1>2. ErrorSettled /\ StatusFinal /\ FailureCause
    BY DEF ErrorSettled, StatusFinal, FailureCause
  <1>3. BornSilent /\ InYieldCurrent /\ CurrentPlace /\ InPostPosted
    BY DEF BornSilent, InYieldCurrent, CurrentPlace, InPostPosted
  <1>4. WaitSets
    BY InstructionFields DEF WaitSets, Requested, CurrentPending, NewObject
  <1>5. OperandKinds /\ UnlockOwned /\ MutexHeld
    BY WorkloadAssumption
       DEF OperandKinds, UnlockOwned, MutexHeld, CurrentPending, NewObject, Announcing
  <1>6. JoinsOnce /\ StatusReady /\ GrantedCanPerform /\ TurnsAlone
    BY DEF JoinsOnce, StatusReady, TakenEnabled, TakenDisabled, GrantedCanPerform, Granted,
           TurnsAlone, PastInstruction, Exiting, Announcing
  <1>7. StatusPlace /\ MainTakesFirst /\ ChosenEnabled /\ ExitsLate
    BY DEF StatusPlace, MainTakesFirst, Registered, ChosenEnabled, ExitsLate, Exiting
  <1>. QED  BY <1>1, <1>2, <1>3, <1>4, <1>5, <1>6, <1>7 DEF PoolInv, PoolOpen

\* The invariant is inductive.
\* Every step preserves it.
LEMMA NextPool == PoolInv /\ [Next]_vars => PoolInv'
  <1>. SUFFICES ASSUME PoolInv, [Next]_vars PROVE PoolInv'
    OBVIOUS
  <1>1. CASE ~ Ended /\ SchedulerStep
    BY <1>1, SchedulerStepPool
  <1>2. ASSUME ~ Ended, NEW t \in Thread, ThreadStep(t) PROVE PoolInv'
    BY <1>2, ThreadStepPool
  <1>3. CASE UNCHANGED vars
    <2>1. RecordInv'
      BY <1>3, NextRecord DEF PoolInv
    <2>. USE <1>3 DEF vars, poolVars, programVars, schedulerVars, runVars, otherVars
    <2>2. (ErrorSettled /\ StatusFinal /\ FailureCause)' /\ (Open' <=> Open)
      BY DEF PoolInv, ErrorSettled, StatusFinal, FailureCause, Open, Scheduled, ScheduleEntry,
             Registered
    <2>3. PoolOpen => (BornSilent /\ InYieldCurrent /\ CurrentPlace /\ InPostPosted
                          /\ WaitSets /\ OperandKinds /\ UnlockOwned /\ MutexHeld)'
      BY DEF PoolOpen, BornSilent, InYieldCurrent, YieldsCurrent, CurrentPlace, InPostPosted,
             WaitSets, Requested, CurrentPending, Granted, OperandKinds, KindOK,
             UnlockOwned, MutexHeld
    <2>4. PoolOpen => (JoinsOnce /\ StatusPlace /\ MainTakesFirst /\ StatusReady /\ GrantedCanPerform
                          /\ TurnsAlone)'
      BY DEF PoolOpen, JoinsOnce, StatusPlace, Registered, MainTakesFirst, StatusReady, TakenEnabled,
             TakenDisabled, Ready, Missed, GrantedCanPerform, Granted, CanPerform, TurnsAlone,
             Alone, PastInstruction
    <2>5. PoolOpen => (ChosenEnabled /\ ExitsLate)'
      BY DEF PoolOpen, ChosenEnabled, Scheduled, ScheduleEntry, ExitsLate, PastInstruction
    <2>. QED  BY <2>1, <2>2, <2>3, <2>4, <2>5 DEF PoolInv, PoolOpen
  <1>. QED  BY <1>1, <1>2, <1>3 DEF Next, Over

\* What the wait sets and the statuses of the pool owe to the program holds in every
\* execution of every program.
THEOREM PoolInvariance == Spec => []PoolInv
  BY InitPool, NextPool, PTL DEF Spec

\* While the execution runs nothing has failed, and in a round everything above holds.
LEMMA RoundIsOpen ==
  ASSUME PoolInv, spc \in Round
  PROVE  /\ Open /\ TypeInv /\ OpenInv /\ PoolOpen
         /\ \A u \in Thread : pc[u] \in {"unborn", "waiting", "leaving", "exited"}
  <1>1. TypeInv /\ mStatus = "RUNNING" /\ RoundExclusive
    BY DEF PoolInv, RecordInv, IInv, LoopRunning
  <1>2. ~ failed
    BY <1>1 DEF PoolInv, FailureCause, Round
  <1>. QED  BY <1>1, <1>2 DEF Open, PoolInv, RecordInv, IInv, RoundExclusive

\* In a round nothing is between the execution of an instruction and its yield.
LEMMA RoundMirrored == PoolInv => MutexMirrored
  <1>. SUFFICES ASSUME PoolInv, spc \in Round, NEW m \in Mutexes
                PROVE  mObjects[m].current = 1 <=> owner[m] # NoThread
    BY DEF MutexMirrored
  <1>1. /\ Open /\ TypeInv /\ OpenInv /\ PoolOpen
        /\ \A u \in Thread : pc[u] \in {"unborn", "waiting", "leaving", "exited"}
    BY RoundIsOpen
  <1>2. mCurrentTask # NoTask => mCurrentTask.tid \in Thread
    BY <1>1, InstructionFields DEF TypeInv, TypeOK, PoolTypeOK
  <1>3. ~ CurrentPending \/ Granted(mCurrentTask.tid)
    BY <1>1, <1>2 DEF CurrentPending, BeforeYield
  <1>. QED  BY <1>1, <1>3 DEF PoolOpen, MutexHeld

\* In a round the pool holds a mutex for locked iff some thread of the program holds it,
\* for any program, whatever its threads did in the pool since the last round.
THEOREM PoolMirrorsMutexes == Spec => []MutexMirrored
  BY PoolInvariance, RoundMirrored, PTL

\* A thread that was granted its instruction can perform it at once, for any program: the
\* scheduler never waits for a thread that waits for another one.
THEOREM GrantsNeverBlock == Spec => []GrantedNeverBlocks
  <1>1. PoolInv => GrantedNeverBlocks
    <2>. SUFFICES ASSUME PoolInv, NEW t \in Thread, pc[t] = "executing", mStatus # "ERROR"
                  PROVE  CanPerform(call[t])
      BY DEF GrantedNeverBlocks, RunsControlled
    <2>1. TypeInv /\ FinalSettled
      BY DEF PoolInv, RecordInv, IInv
    <2>2. mStatus = "RUNNING"
      BY <2>1 DEF FinalSettled, TypeInv, TypeOK
    <2>3. ~ failed
      BY <2>2 DEF PoolInv, FailureCause, StatusFinal
    <2>. QED  BY <2>2, <2>3 DEF Open, PoolInv, PoolOpen, GrantedCanPerform, Granted
  <1>. QED  BY <1>1, PoolInvariance, PTL

\* In a round a thread that is ENABLED can perform its posted instruction, and without
\* EagerExit one that is not ENABLED cannot.
LEMMA RoundStatuses ==
  ASSUME PoolInv, spc \in Round, NEW t \in Thread, mTasks[t] # NoTask
  PROVE  /\ mThreads[t] = "ENABLED" => CanPerform(mTasks[t])
         /\ mThreads[t] # "ENABLED" => ~ CanPerform(mTasks[t]) \/ EagerExit
  <1>1. /\ Open /\ TypeInv /\ OpenInv /\ PoolOpen
        /\ \A u \in Thread : pc[u] \in {"unborn", "waiting", "leaving", "exited"}
    BY RoundIsOpen
  <1>2. pc[t] = "waiting" /\ mTasks[t] = call[t]
    BY <1>1 DEF OpenInv, TaskPosted, TaskIsCall
  <1>3. PICK instr \in Instruction : instr = call[t]
    BY <1>1, <1>2 DEF TypeInv, CallOK, Announcing
  <1>4. /\ KindOK(instr)
        /\ mThreads[t] = "ENABLED" => Ready(instr)
        /\ mThreads[t] # "ENABLED" => ~ Ready(instr) \/ EagerExit
    BY <1>1, <1>2, <1>3 DEF PoolOpen, OperandKinds, Announcing, StatusReady, TakenEnabled,
                            TakenDisabled, Missed
  <1>5. Ready(instr) <=> CanPerform(instr)
    <2>1. CASE instr.op = "Lock"
      <3>1. instr.operand \in Mutexes /\ instr.operand \in Objects
        BY <1>4, <2>1, WorkloadAssumption DEF KindOK, LockOp
      <3>2. mObjects[instr.operand].current \in {0, 1}
        BY <1>1, <3>1 DEF TypeInv, TypeOK, PoolTypeOK, ObjectState
      <3>3. mObjects[instr.operand].current = 1 <=> owner[instr.operand] # NoThread
        BY <3>1, RoundMirrored DEF MutexMirrored
      <3>. QED  BY <2>1, <3>2, <3>3 DEF Ready, CanPerform
    <2>2. CASE instr.op = "Join"
      <3>1. instr.operand \in Thread
        BY <2>2, InstructionFields DEF ManageOp
      <3>. QED  BY <1>1, <2>2, <3>1 DEF Ready, CanPerform
    <2>3. CASE instr.op \notin {"Lock", "Join"}
      BY <2>3 DEF Ready, CanPerform
    <2>. QED  BY <2>1, <2>2, <2>3
  <1>. QED  BY <1>2, <1>3, <1>4, <1>5

\* If a thread ends only after an instruction of its own, in a round exactly the threads
\* are ENABLED whose posted instructions can be performed, for any number of threads, any
\* schedule and strategy: no false deadlock, and none missed.
THEOREM StatusesAreAccurate ==
  ASSUME EagerExit = FALSE
  PROVE  Spec => []StatusAccurate
  <1>1. PoolInv => StatusAccurate
    BY RoundStatuses DEF StatusAccurate
  <1>. QED  BY <1>1, PoolInvariance, PTL

\* Of any program an execution fails only because its schedule names a thread that is not
\* registered, or because it ends without a transition.
THEOREM FailuresHaveCause == Spec => []FailureCause
  <1>1. PoolInv => FailureCause
    BY DEF PoolInv
  <1>. QED  BY <1>1, PoolInvariance, PTL

\* If a thread ends only after an instruction of its own, a failure is one of a schedule
\* that cannot be followed; without schedules nothing fails.
LEMMA FailureIsError ==
  ASSUME EagerExit = FALSE, PoolInv, failed
  PROVE  mStatus = "ERROR" /\ Scheduled(schedule, mTaskNr)
  <1>1. mStatus = "ERROR"
    <2>1. mStatus \in {"RUNNING", "DONE", "DEADLOCK", "ERROR"}
      BY DEF PoolInv, RecordInv, IInv, TypeInv, TypeOK
    <2>2. recorded.nr = 0 => mStatus \notin {"DONE", "DEADLOCK"}
      BY DEF PoolInv, StatusFinal
    <2>. QED  BY <2>1, <2>2 DEF PoolInv, FailureCause, StatusFinal
  <1>. QED  BY <1>1 DEF PoolInv, StatusFinal

\* With threads that end after an instruction of their own and no schedule, no assertion
\* fails and no exception escapes.
THEOREM NothingFails ==
  ASSUME EagerExit = FALSE, Schedules \subseteq {<<>>}
  PROVE  Spec => []NoFailure
  <1>1. PoolInv => NoFailure
    <2>. SUFFICES ASSUME PoolInv, failed PROVE FALSE
      BY DEF NoFailure
    <2>1. Scheduled(schedule, mTaskNr)
      BY FailureIsError
    <2>2. schedule = <<>> /\ mTaskNr \in Nat
      BY DEF PoolInv, RecordInv, IInv, TypeInv, TypeOK
    <2>. QED  BY <2>1, <2>2 DEF Scheduled
  <1>. QED  BY <1>1, PoolInvariance, PTL

\* No step makes a FINISHED thread anything else, for any program.
LEMMA StepFinished ==
  ASSUME PoolInv, [Next]_vars, NEW u \in Thread, mThreads[u] = "FINISHED"
  PROVE  mThreads'[u] = "FINISHED"
  <1>1. CASE ~ Ended /\ SchedulerStep
    <2>1. mThreads' = mThreads
      BY <1>1, SchedulerStepKeeps DEF MakeCurrent, SetCurrent, poolVars
    <2>. QED  BY <2>1
  <1>2. ASSUME ~ Ended, NEW t \in Thread, ThreadStep(t) PROVE mThreads'[u] = "FINISHED"
    <2>1. /\ IInv /\ TypeInv /\ ~ failed /\ ~ failed' /\ mStatus' = mStatus
          /\ Open => OpenInv /\ PoolOpen
      BY <1>2, ThreadStepFails, ThreadStepFrame DEF PoolInv, RecordInv, IInv, Ended
    <2>2. CASE Open
      <3>1. Open' /\ OpenInv /\ PoolOpen
        BY <2>1, <2>2 DEF Open
      <3>2. pc[u] \in {"leaving", "exited"}
        BY <3>1 DEF OpenInv, FinishedLeaves
      <3>3. EndYield(t) => u \notin WaitingOn(Perform(mObjects[mCurrentTask.operand], t))
        BY <1>2, <3>1, <3>2, WokenWait
      <3>4. Finish(t) => u \notin mThreadStates[t]
        BY <3>1, <3>2 DEF PoolOpen, JoinsOnce, Finish
      <3>5. ~ (EndPost(t) /\ u = t) /\ Registered(u)
        BY <3>2 DEF EndPost, Registered
      <3>. QED  BY <1>2, <3>3, <3>4, <3>5, StepStatuses
    <2>3. CASE ~ Open
      <3>1. ~ (EndPost(t) \/ EndYield(t) \/ Finish(t) \/ EndFinish(t))
        <4>1. CASE mStatus = "ERROR"
          BY <4>1 DEF PoolInv, ErrorSettled, InPool, EndPost, EndYield, Finish, EndFinish
        <4>2. CASE mStatus # "ERROR"
          <5>1. Leave(t)
            BY <1>2, <2>1, <2>3, <4>2, ThreadStepFrame DEF Open, Still, TypeInv, TypeOK
          <5>. QED  BY <5>1 DEF Leave, EndPost, EndYield, Finish, EndFinish
        <4>. QED  BY <4>1, <4>2
      <3>2. Registered(u)
        BY DEF Registered
      <3>. QED  BY <1>2, <3>1, <3>2, StepStatuses
    <2>. QED  BY <2>2, <2>3
  <1>3. CASE UNCHANGED vars
    BY <1>3 DEF vars, poolVars
  <1>. QED  BY <1>1, <1>2, <1>3 DEF Next, Over

\* Once a thread is FINISHED it stays so, for any program, although joiners stay in the
\* wait sets of the threads they joined and an Unlock enables whoever waits.
THEOREM FinishedIsForever == Spec => FinishedForever
  <1>1. PoolInv /\ [Next]_vars =>
          [\A t \in Thread : mThreads[t] = "FINISHED" => mThreads'[t] = "FINISHED"]_vars
    BY StepFinished
  <1>. QED  BY <1>1, PoolInvariance, PTL DEF Spec, FinishedForever

\* Beyond the schedule NonPreemptive leaves the current thread only when it is blocked or
\* has finished, if no thread ends while another one runs: its status is then accurate.
THEOREM NonPreemptiveStays ==
  ASSUME EagerExit = FALSE
  PROVE  Spec => NoPreemption
  <1>. DEFINE Switch ==
         /\ strategy = "NonPreemptive"
         /\ spc = "select" /\ spc' = "dispatch"
         /\ mTaskNr >= Len(schedule) /\ mTaskNr > 0
         => \/ selected' = mCurrentTask.tid
            \/ mTasks[mCurrentTask.tid] = NoTask
            \/ ~ CanPerform(mTasks[mCurrentTask.tid])
  <1>1. ASSUME PoolInv, [Next]_vars PROVE [Switch]_vars
    <2>. DEFINE cur == mCurrentTask.tid
    <2>. SUFFICES ASSUME strategy = "NonPreemptive", spc = "select", spc' = "dispatch",
                         mTaskNr >= Len(schedule), mTaskNr > 0,
                         mTasks[cur] # NoTask, CanPerform(mTasks[cur])
                  PROVE  selected' = cur
      OBVIOUS
    <2>1. /\ TypeInv /\ PoolOpen
      BY <1>1, RoundIsOpen DEF Round
    <2>2. ~ Ended /\ Select
      <3>1. \A t \in Thread : ~ (~ Ended /\ ThreadStep(t))
        BY <1>1, ThreadStepFrame DEF PoolInv, RecordInv
      <3>2. spc' # spc
        OBVIOUS
      <3>3. ~ Ended /\ SchedulerStep
        BY <1>1, <3>1, <3>2 DEF Next, Over, vars, runVars
      <3>. QED  BY <3>3 DEF SchedulerStep, Start, WaitForPosts, Record, Dispatch, MakeCurrent,
                         Grant, Close, CloseExecution
    <2>3. cur \in Thread
      BY <2>1 DEF PoolOpen, ChosenEnabled, TypeInv, TypeOK, PoolTypeOK, Instruction
    <2>4. cur \in EnabledSet
      BY <1>1, <2>3, RoundStatuses DEF EnabledSet, Round
    <2>5. ~ Scheduled(schedule, mTaskNr)
      BY <2>1, WorkloadAssumption DEF Scheduled, TypeInv, TypeOK
    <2>6. selected' \in StrategyChoices(strategy, EnabledSet, mTaskNr)
      BY <2>2, <2>5 DEF Select, SelectScheduled, SelectByStrategy, SelectDone, SelectDeadlock
    <2>. QED  BY <2>4, <2>6 DEF StrategyChoices, NonPreemptiveChoices
  <1>. QED  BY <1>1, PoolInvariance, PTL DEF Spec, NoPreemption

-----------------------------------------------------------------------------
(***************************************************************************)
(* The scheduler implements TurnTaking, proved step by step from the       *)
(* inductive invariant PoolInv.                                            *)
(***************************************************************************)
\* TurnTaking speaks of the same threads and instructions.
LEMMA SameTerms ==
  /\ Turns!Thread = Thread /\ Turns!NoThread = NoThread
  /\ Turns!Instruction = Instruction
  <1>1. Turns!Thread = Thread /\ Turns!NoThread = NoThread
    BY DEF Turns!Thread, Thread, Turns!NoThread, NoThread
  <1>2. Turns!Instruction = Instruction
    BY <1>1 DEF Turns!Instruction, Instruction, Turns!MemoryOp, MemoryOp, Turns!LockOp, LockOp,
                Turns!ManageOp, ManageOp
  <1>. QED  BY <1>1, <1>2

\* The stage of a thread, place by place.
LEMMA StageIs ==
  ASSUME NEW t \in Thread
  PROVE  /\ stageBar[t] \in {"unborn", "busy", "waiting", "granted", "ended"}
         /\ stageBar[t] = "unborn" <=> pc[t] = "unborn"
         /\ stageBar[t] = "ended" <=> pc[t] \in {"leaving", "exited"}
         /\ stageBar[t] = "granted" <=> Granted(t)
         /\ stageBar[t] = "waiting" <=> pc[t] \in Announcing /\ ~ Granted(t)
         /\ taskBar[t] = IF pc[t] \in Announcing THEN call[t] ELSE NoTask
  BY DEF stageBar, StageOf, taskBar, Granted, Announcing

\* The initial states are initial states of TurnTaking.
LEMMA InitTurns == Init => Turns!TurnInit
  <1>. SUFFICES ASSUME Init PROVE Turns!TurnInit
    OBVIOUS
  <1>. USE MainIsThread DEF Init, PoolInit
  <1>1. stageBar = [t \in Thread |-> IF t = 0 THEN "busy" ELSE "unborn"]
    BY DEF stageBar, StageOf
  <1>2. taskBar = [t \in Thread |-> NoTask]
    BY DEF taskBar, StageOf
  <1>3. nextTidBar = 1 /\ recordedBar = [nr |-> 0, last |-> NoTask] /\ unrecordedBar = NoTask
    BY DEF nextTidBar, recordedBar, unrecordedBar
  <1>. QED  BY <1>1, <1>2, <1>3, SameTerms DEF Turns!TurnInit

\* The same, after a step.
LEMMA StageIsNext ==
  ASSUME NEW t \in Thread
  PROVE  /\ stageBar'[t] \in {"unborn", "busy", "waiting", "granted", "ended"}
         /\ stageBar'[t] = "unborn" <=> pc'[t] = "unborn"
         /\ stageBar'[t] = "ended" <=> pc'[t] \in {"leaving", "exited"}
         /\ stageBar'[t] = "granted" <=> Granted(t)'
         /\ stageBar'[t] = "waiting" <=> pc'[t] \in Announcing /\ ~ Granted(t)'
         /\ taskBar'[t] = IF pc'[t] \in Announcing THEN call'[t] ELSE NoTask
  BY DEF stageBar, StageOf, taskBar, Granted, Announcing

\* What a thread's step leaves of the record, and of the tids, which grow only by a
\* creation: main takes tid 0 when none has been given.
LEMMA StepKeepsRest ==
  ASSUME PoolInv, ~ Ended, NEW t \in Thread, ThreadStep(t), Open'
  PROVE  /\ ~ Execute(t) => performed' = performed
         /\ ~ Announce(t) => nextTidBar' = nextTidBar
  <1>1. PoolOpen /\ OpenInv /\ TypeInv
    BY StepContext
  <1>. USE DEF poolVars, schedulerVars, otherVars, OutsidePool, nextTidBar
  <1>2. CASE \/ EnterThread(t) \/ Announce(t) \/ Return(t) \/ CheckControlled(t)
             \/ TakeTurn(t) \/ Execute(t) \/ Leave(t)
    BY <1>2 DEF EnterThread, Announce, Return, CheckControlled, TakeTurn, Execute, Leave
  <1>3. CASE Yield(t) \/ EndYield(t) \/ Post(t) \/ PostRequest(t) \/ EndPost(t)
    BY <1>3 DEF Yield, EndYield, Post, PostRequest, EndPost
  <1>4. CASE RegisterInPool(t) \/ EndRegister(t) \/ Finish(t) \/ EndFinish(t)
    BY <1>4 DEF RegisterInPool, EndRegister, Finish, EndFinish
  <1>5. CASE Register(t)
    <2>1. call[t].operand = t => mNrRegistered = 0
      BY <1>1, <1>5 DEF Register, PoolOpen, MainTakesFirst
    <2>. QED  BY <1>5, <2>1 DEF Register
  <1>. QED  BY <1>2, <1>3, <1>4, <1>5 DEF ThreadStep

\* What a thread's step leaves of the turns: the other threads' stages and tasks, but for
\* the thread it creates, and what concerns the execution.
LEMMA StepTurns ==
  ASSUME PoolInv, ~ Ended, NEW t \in Thread, ThreadStep(t), Open'
  PROVE  /\ \A u \in Thread \ {t} :
              /\ taskBar'[u] = taskBar[u]
              /\ \/ stageBar'[u] = stageBar[u]
                 \/ /\ Execute(t) /\ call[t].op = "Spawn" /\ u = call[t].operand
                    /\ stageBar'[u] = "busy"
         /\ UNCHANGED <<mStatus, recorded, mCurrentTask>>
         /\ ~ Execute(t) => UNCHANGED <<owner, performed>>
         /\ ~ Announce(t) => nextTidBar' = nextTidBar
  <1>1. /\ PoolOpen /\ OpenInv /\ TypeInv /\ TypeInv'
        /\ UNCHANGED <<mStatus, mCurrentTask>>
    BY StepContext
  <1>2. ASSUME NEW u \in Thread \ {t}
        PROVE  /\ taskBar'[u] = taskBar[u]
               /\ \/ stageBar'[u] = stageBar[u]
                  \/ /\ Execute(t) /\ call[t].op = "Spawn" /\ u = call[t].operand
                     /\ stageBar'[u] = "busy"
    <2>1. call'[u] = call[u] /\ (Granted(u)' <=> Granted(u))
      BY StepCalls, StepMoves
    <2>2. CASE pc'[u] = pc[u]
      BY <2>1, <2>2, StageIs, StageIsNext
    <2>3. CASE /\ Execute(t) /\ call[t].op = "Spawn" /\ u = call[t].operand
               /\ pc[u] = "unborn" /\ pc'[u] = "born"
      <3>1. ~ Granted(u) /\ ~ Granted(u)'
        BY <2>1, <2>3 DEF Granted
      <3>. QED  BY <2>3, <3>1, StageIs, StageIsNext DEF Announcing
    <2>. QED  BY <2>2, <2>3, StepMoves
  <1>3. /\ UNCHANGED recorded
        /\ ~ Execute(t) => performed' = performed
        /\ ~ Announce(t) => nextTidBar' = nextTidBar
    BY ThreadStepKeepsRecord, StepKeepsRest
  <1>4. ~ Execute(t) => owner' = owner
    BY StepMoves
  <1>. QED  BY <1>1, <1>2, <1>3, <1>4

\* A function on the threads that differs from another one at a thread only.
LEMMA OneDiffers ==
  ASSUME NEW f, NEW g, f = [u \in Thread |-> f[u]], g = [u \in Thread |-> g[u]],
         NEW t \in Thread, \A u \in Thread \ {t} : g[u] = f[u]
  PROVE  g = [f EXCEPT ![t] = g[t]]
  OBVIOUS

\* The stages and tasks of the mapping are functions on the threads.
LEMMA BarsAreFunctions ==
  /\ stageBar = [u \in Thread |-> stageBar[u]] /\ stageBar' = [u \in Thread |-> stageBar'[u]]
  /\ taskBar = [u \in Thread |-> taskBar[u]] /\ taskBar' = [u \in Thread |-> taskBar'[u]]
  BY DEF stageBar, taskBar

\* The announcement of an instruction is Announce of TurnTaking.
LEMMA AnnounceTurns ==
  ASSUME PoolInv, ~ Ended, NEW t \in Thread, Announce(t), Open'
  PROVE  \E instr \in Instruction : Turns!Announce(instr)
  <1>1. ThreadStep(t) /\ ~ Execute(t)
    BY DEF ThreadStep, Announce, Execute
  <1>2. PoolOpen /\ OpenInv /\ TypeInv /\ TypeInv'
    BY <1>1, StepContext
  <1>3. PICK instr \in NextInstructions(t) :
          /\ call' = [call EXCEPT ![t] = instr]
          /\ mNrRegistered' = IF instr.op = "Spawn" THEN mNrRegistered + 1 ELSE mNrRegistered
    BY DEF Announce
  <1>4. /\ pc[t] = "running" /\ pc'[t] = "announced" /\ call'[t] = instr
        /\ instr \in Instruction /\ instr.tid = t
    BY <1>2, <1>3 DEF Announce, GoTo, TypeInv, TypeOK, CallOK, Announcing
  <1>5. stageBar[t] = "busy" /\ stageBar'[t] = "waiting" /\ taskBar'[t] = instr
    <2>1. ~ Granted(t) /\ ~ Granted(t)'
      BY <1>4 DEF Granted
    <2>. QED  BY <1>4, <2>1, StageIs, StageIsNext DEF Announcing
  <1>6. /\ stageBar' = [stageBar EXCEPT ![t] = "waiting"]
        /\ taskBar' = [taskBar EXCEPT ![t] = instr]
    <2>1. \A u \in Thread \ {t} : stageBar'[u] = stageBar[u] /\ taskBar'[u] = taskBar[u]
      BY <1>1, <1>2, StepTurns, Zenon
    <2>2. /\ stageBar' = [stageBar EXCEPT ![t] = stageBar'[t]]
          /\ taskBar' = [taskBar EXCEPT ![t] = taskBar'[t]]
      BY <2>1, BarsAreFunctions, OneDiffers, Zenon
    <2>. QED  BY <1>5, <2>2
  <1>7. mNrRegistered \in Nat \ {0}
    BY <1>2, <1>4 DEF TypeInv, TypeOK, OpenInv, FreshTids
  <1>8. IF instr.op = "Spawn"
        THEN instr.operand = nextTidBar /\ nextTidBar' = nextTidBar + 1
        ELSE UNCHANGED nextTidBar
    <2>1. CASE instr.op = "Spawn"
      <3>1. instr.operand = mNrRegistered
        BY <2>1, SpawnsFreshTid
      <3>. QED  BY <1>3, <1>7, <2>1, <3>1 DEF nextTidBar
    <2>2. CASE instr.op # "Spawn"
      BY <1>3, <1>7, <2>2 DEF nextTidBar
    <2>. QED  BY <2>1, <2>2
  <1>9. UNCHANGED <<owner, mStatus, recordedBar, unrecordedBar>>
    BY <1>1, StepTurns DEF recordedBar, unrecordedBar
  <1>. QED  BY <1>4, <1>5, <1>6, <1>8, <1>9 DEF Turns!Announce

\* While a thread has the turn, what was performed before is recorded.
LEMMA TurnRecorded ==
  ASSUME PoolInv, ~ Ended, Open, NEW t \in Thread, pc[t] = "executing"
  PROVE  recorded.nr = performed /\ performed \in Nat /\ call[t] = mCurrentTask
  <1>1. /\ TypeInv /\ RecordOpen /\ LoopRunning /\ RoundExclusive /\ OnlyCurrentPerforms
        /\ mStatus = "RUNNING"
    BY DEF PoolInv, RecordInv, IInv, Open
  <1>2. HasTurn(t) /\ call[t] = mCurrentTask
    BY <1>1 DEF HasTurn, OnlyCurrentPerforms, RunsControlled
  <1>3. spc \in {"start", "wait", "asleep"}
    <2>1. spc \notin Round
      BY <1>1 DEF RoundExclusive
    <2>2. spc \notin {"close", "last", "closed", "terminated"}
      BY <1>1 DEF PoolInv, StatusFinal
    <2>. QED  BY <1>1, <2>1, <2>2 DEF TypeInv, TypeOK, SchedulerPc, Round
  <1>4. performed + 1 = mTaskNr /\ mTaskNr \in Nat /\ performed \in Nat
    BY <1>1, <1>2 DEF TypeInv, TypeOK, RecordOpen, PerformedCount
  <1>. QED  BY <1>1, <1>2, <1>3, <1>4 DEF RecordOpen, TransitionCount

\* The execution of an instruction is Perform of TurnTaking.
LEMMA ExecuteTurns ==
  ASSUME PoolInv, ~ Ended, NEW t \in Thread, Execute(t), Open'
  PROVE  Turns!Perform(t)
  <1>1. ThreadStep(t) /\ ~ Announce(t)
    BY DEF ThreadStep, Announce, Execute
  <1>2. /\ Open /\ PoolOpen /\ OpenInv /\ TypeInv /\ TypeInv'
        /\ call' = call
    BY <1>1, StepContext, StepCalls
  <1>3. PICK instr \in Instruction : instr = call[t] /\ instr.tid = t
    BY <1>2 DEF Execute, TypeInv, CallOK, Announcing
  <1>4. pc[t] = "executing" /\ pc'[t] \in {"running", "registering"}
    <2>1. instr.op = "Spawn" => instr.operand # t
      BY <1>2, <1>3 DEF Execute, OpenInv, FreshTids, Announcing
    <2>. QED  BY <1>2, <1>3, <2>1 DEF Execute, GoTo, TypeInv, TypeOK
  <1>5. /\ stageBar[t] = "granted" /\ taskBar[t] = instr
        /\ stageBar'[t] = "busy" /\ taskBar'[t] = NoTask
    <2>1. Granted(t) /\ ~ Granted(t)'
      BY <1>4 DEF Granted
    <2>. QED  BY <1>3, <1>4, <2>1, StageIs, StageIsNext DEF Announcing
  <1>6. taskBar' = [taskBar EXCEPT ![t] = NoTask]
    <2>1. \A u \in Thread \ {t} : taskBar'[u] = taskBar[u]
      BY <1>1, <1>2, StepTurns, Zenon
    <2>2. taskBar' = [taskBar EXCEPT ![t] = taskBar'[t]]
      BY <2>1, BarsAreFunctions, OneDiffers, Zenon
    <2>. QED  BY <1>5, <2>2
  <1>7. stageBar' = IF instr.op = "Spawn"
                    THEN [stageBar EXCEPT ![t] = "busy", ![instr.operand] = "busy"]
                    ELSE [stageBar EXCEPT ![t] = "busy"]
    <2>1. ASSUME NEW u \in Thread \ {t}
          PROVE  stageBar'[u] = IF instr.op = "Spawn" /\ u = instr.operand THEN "busy"
                                ELSE stageBar[u]
      <3>1. CASE instr.op = "Spawn" /\ u = instr.operand
        <4>1. pc'[u] = "born"
          BY <1>2, <1>3, <3>1 DEF Execute, GoTo, TypeInv, TypeOK, MemoryOp
        <4>2. ~ Granted(u)'
          BY <4>1 DEF Granted
        <4>. QED  BY <3>1, <4>1, <4>2, StageIsNext DEF Announcing
      <3>2. CASE ~ (instr.op = "Spawn" /\ u = instr.operand)
        BY <1>1, <1>3, <3>2, StepTurns
      <3>. QED  BY <3>1, <3>2
    <2>2. CASE instr.op = "Spawn"
      BY <1>5, <2>1, <2>2, BarsAreFunctions
    <2>3. CASE instr.op # "Spawn"
      BY <1>5, <2>1, <2>3, BarsAreFunctions
    <2>. QED  BY <2>2, <2>3
  <1>8. owner' = CASE instr.op = "Lock" -> [owner EXCEPT ![instr.operand] = t]
                   [] instr.op = "Unlock" -> [owner EXCEPT ![instr.operand] = NoThread]
                   [] OTHER -> owner
    BY <1>3 DEF Execute, MemoryOp
  <1>9. unrecordedBar' = instr
    <2>1. recorded.nr = performed /\ performed \in Nat /\ instr = mCurrentTask
      BY <1>2, <1>3, <1>4, TurnRecorded
    <2>2. performed' = performed + 1
      BY <1>2 DEF Execute, RunsControlled, Open
    <2>3. recorded' = recorded /\ mCurrentTask' = mCurrentTask
      BY <1>1, StepTurns
    <2>. QED  BY <2>1, <2>2, <2>3 DEF unrecordedBar
  <1>10. UNCHANGED <<nextTidBar, mStatus, recordedBar>>
    BY <1>1, StepTurns DEF recordedBar
  <1>11. NoThread = Turns!NoThread
    BY SameTerms
  <1>. QED
    BY <1>5, <1>6, <1>7, <1>8, <1>9, <1>10, <1>11 DEF Turns!Perform, Turns!Performs

\* Steps after which the bars of the moving thread are the same change nothing of the
\* turns, and neither does the end of a thread but its stage.
LEMMA SameBars ==
  ASSUME PoolInv, ~ Ended, NEW t \in Thread, ThreadStep(t), Open',
         ~ Execute(t), ~ Announce(t), taskBar'[t] = taskBar[t]
  PROVE  /\ UNCHANGED <<taskBar, nextTidBar, owner, mStatus, recordedBar, unrecordedBar>>
         /\ stageBar' = [stageBar EXCEPT ![t] = stageBar'[t]]
         /\ stageBar'[t] = stageBar[t] => stageBar' = stageBar
  <1>1. \A u \in Thread \ {t} : stageBar'[u] = stageBar[u] /\ taskBar'[u] = taskBar[u]
    BY StepTurns, Zenon
  <1>2. stageBar' = [stageBar EXCEPT ![t] = stageBar'[t]]
    BY <1>1, BarsAreFunctions, OneDiffers, Zenon
  <1>3. taskBar' = [taskBar EXCEPT ![t] = taskBar'[t]]
    BY <1>1, BarsAreFunctions, OneDiffers, Zenon
  <1>4. UNCHANGED taskBar /\ (stageBar'[t] = stageBar[t] => stageBar' = stageBar)
    BY <1>2, <1>3, BarsAreFunctions
  <1>5. UNCHANGED <<nextTidBar, owner, mStatus, recordedBar, unrecordedBar>>
    BY StepTurns DEF recordedBar, unrecordedBar
  <1>. QED  BY <1>2, <1>4, <1>5

\* The end of a thread is End of TurnTaking.
LEMMA EndFinishTurns ==
  ASSUME PoolInv, ~ Ended, NEW t \in Thread, EndFinish(t), Open'
  PROVE  Turns!End(t)
  <1>1. ThreadStep(t) /\ ~ Announce(t) /\ ~ Execute(t)
    BY DEF ThreadStep, Announce, Execute, EndFinish
  <1>2. TypeInv
    BY <1>1, StepContext
  <1>3. pc[t] = "in_finish" /\ pc'[t] = "leaving"
    BY <1>2 DEF EndFinish, GoTo, TypeInv, TypeOK
  <1>4. ~ Granted(t) /\ ~ Granted(t)'
    BY <1>3 DEF Granted
  <1>5. /\ stageBar[t] = "busy" /\ stageBar'[t] = "ended"
        /\ taskBar'[t] = taskBar[t]
    BY <1>3, <1>4, StageIs, StageIsNext DEF Announcing
  <1>. QED  BY <1>1, <1>5, SameBars DEF Turns!End

\* Every other step of a thread is a stuttering step of TurnTaking: nothing that happens
\* inside the pool is seen.
LEMMA PoolStepsStutter ==
  ASSUME PoolInv, ~ Ended, NEW t \in Thread, ThreadStep(t), Open',
         ~ Announce(t), ~ Execute(t), ~ EndFinish(t)
  PROVE  UNCHANGED Turns!turnVars
  <1>1. /\ Open /\ PoolOpen /\ OpenInv /\ TypeInv /\ call' = call
        /\ mTasks \in [Thread -> Instruction \cup {NoTask}] /\ pc \in [Thread -> ThreadPc]
    BY StepContext, StepCalls DEF TypeInv, TypeOK, PoolTypeOK
  <1>. USE DEF GoTo
  <1>2. /\ stageBar'[t] = stageBar[t]
        /\ taskBar'[t] = taskBar[t]
    <2>1. CASE EnterThread(t) \/ Return(t) \/ Leave(t) \/ Register(t)
      <3>1. /\ pc[t] \in {"born", "running", "leaving", "registering"}
            /\ pc'[t] = CASE pc[t] = "born" -> "running"
                          [] pc[t] = "running" -> "returned"
                          [] pc[t] = "leaving" -> "exited"
                          [] pc[t] = "registering" -> "reg_thread"
        BY <1>1, <2>1 DEF EnterThread, Return, Leave, Register
      <3>2. ~ Granted(t) /\ ~ Granted(t)'
        BY <3>1 DEF Granted
      <3>. QED  BY <3>1, <3>2, StageIs, StageIsNext DEF Announcing
    <2>2. CASE RegisterInPool(t) \/ EndRegister(t) \/ Finish(t)
      <3>1. /\ pc[t] \in {"reg_thread", "reg_state", "finishing"}
            /\ pc'[t] \in {"reg_state", "running", "in_finish"}
        BY <1>1, <2>2 DEF RegisterInPool, EndRegister, Finish
      <3>2. ~ Granted(t) /\ ~ Granted(t)'
        BY <3>1 DEF Granted
      <3>. QED  BY <3>1, <3>2, StageIs, StageIsNext DEF Announcing
    <2>3. CASE CheckControlled(t) \/ Yield(t) \/ EndYield(t)
      <3>1. \/ /\ pc[t] \in {"announced", "yielding", "in_yield"}
               /\ pc'[t] \in {"yielding", "in_yield", "yielded"}
            \/ /\ pc[t] \in {"returned", "exit_yielding", "in_exit_yield"}
               /\ pc'[t] \in {"exit_yielding", "in_exit_yield", "finishing"}
        BY <1>1, <2>3 DEF CheckControlled, Yield, EndYield, RunsControlled, Open
      <3>2. ~ Granted(t) /\ ~ Granted(t)'
        BY <3>1 DEF Granted
      <3>. QED  BY <1>1, <3>1, <3>2, StageIs, StageIsNext DEF Announcing
    <2>4. CASE Post(t) \/ PostRequest(t)
      <3>1. /\ pc[t] \in {"yielded", "in_post"}
            /\ pc'[t] \in {"in_post", "enabling", "disabling"}
        BY <1>1, <2>4 DEF Post, PostRequest
      <3>2. ~ Granted(t) /\ ~ Granted(t)'
        BY <3>1 DEF Granted
      <3>. QED  BY <1>1, <3>1, <3>2, StageIs, StageIsNext DEF Announcing
    <2>5. CASE EndPost(t)
      <3>1. pc[t] \in {"enabling", "disabling"} /\ pc'[t] = "waiting" /\ mTasks' = mTasks
        BY <1>1, <2>5 DEF EndPost, PostStatus
      <3>2. ~ Granted(t) /\ ~ Granted(t)'
        BY <1>1, <3>1 DEF Granted, PoolOpen, InPostPosted
      <3>. QED  BY <1>1, <3>1, <3>2, StageIs, StageIsNext DEF Announcing
    <2>6. CASE TakeTurn(t)
      <3>1. pc[t] = "waiting" /\ pc'[t] = "executing" /\ mTasks[t] = NoTask
        BY <1>1, <2>6 DEF TakeTurn, OpenInv, ControlIsTurn
      <3>2. Granted(t) /\ Granted(t)'
        BY <3>1 DEF Granted
      <3>. QED  BY <1>1, <3>1, <3>2, StageIs, StageIsNext DEF Announcing
    <2>. QED  BY <2>1, <2>2, <2>3, <2>4, <2>5, <2>6 DEF ThreadStep
  <1>. QED  BY <1>2, SameBars DEF Turns!turnVars

\* Every step of a thread maps to a step of TurnTaking or to a stutter, until an error.
LEMMA ThreadStepTurns ==
  ASSUME PoolInv, ~ Ended, NEW t \in Thread, ThreadStep(t)
  PROVE  Turns!TurnNext \/ UNCHANGED Turns!turnVars \/ mStatus' = "ERROR"
  <1>1. /\ IInv /\ TypeInv /\ ~ failed /\ ~ failed'
        /\ UNCHANGED mStatus /\ (Still => Leave(t))
    BY ThreadStepFails, ThreadStepFrame DEF PoolInv, RecordInv, IInv, Ended
  <1>2. CASE mStatus = "RUNNING"
    <2>1. Open'
      BY <1>1, <1>2 DEF Open
    <2>2. CASE Announce(t)
      BY <2>1, <2>2, AnnounceTurns, SameTerms DEF Turns!TurnNext
    <2>3. CASE Execute(t)
      BY <2>1, <2>3, ExecuteTurns, SameTerms DEF Turns!TurnNext
    <2>4. CASE EndFinish(t)
      BY <2>1, <2>4, EndFinishTurns, SameTerms DEF Turns!TurnNext
    <2>5. CASE ~ Announce(t) /\ ~ Execute(t) /\ ~ EndFinish(t)
      BY <2>1, <2>5, PoolStepsStutter
    <2>. QED  BY <2>2, <2>3, <2>4, <2>5
  <1>3. CASE mStatus \in {"DONE", "DEADLOCK"}
    <2>1. Leave(t)
      BY <1>1, <1>3 DEF Still
    <2>2. /\ pc[t] = "leaving" /\ pc'[t] = "exited"
          /\ \A u \in Thread \ {t} : pc'[u] = pc[u]
          /\ UNCHANGED <<poolVars, call, owner, mNrRegistered, recorded, performed>>
      BY <1>1, <2>1 DEF Leave, GoTo, TypeInv, TypeOK, schedulerVars, runVars, otherVars
    <2>3. \A u \in Thread : stageBar'[u] = stageBar[u] /\ taskBar'[u] = taskBar[u]
      BY <2>2 DEF stageBar, taskBar, StageOf, poolVars
    <2>4. UNCHANGED <<stageBar, taskBar>>
      BY <2>3, BarsAreFunctions
    <2>. QED
      BY <1>1, <2>2, <2>4 DEF Turns!turnVars, nextTidBar, recordedBar, unrecordedBar, poolVars
  <1>. QED  BY <1>1, <1>2, <1>3 DEF TypeInv, TypeOK

\* TurnTaking means the same by an instruction that can go on.
LEMMA CanGoOnIs ==
  ASSUME NEW instr, instr.op = "Join" => instr.operand \in Thread
  PROVE  Turns!CanGoOn(instr) <=> CanPerform(instr)
  BY StageIs, SameTerms DEF Turns!CanGoOn, CanPerform

\* In a round up to the grant every thread waits or has ended, what waits has been posted,
\* and what was granted is performed.
LEMMA RoundTurns ==
  ASSUME PoolInv, ~ Ended, spc \in Round \ {"grant"}
  PROVE  /\ mStatus = "RUNNING" /\ Turns!Quiet
         /\ \A u \in Thread : stageBar[u] = "waiting" <=> mTasks[u] # NoTask
         /\ \A u \in Thread : stageBar[u] = "waiting" =>
              /\ taskBar[u] = mTasks[u] /\ mTasks[u] \in Instruction
              /\ Turns!CanGoOn(mTasks[u]) <=> CanPerform(mTasks[u])
         /\ performed = mTaskNr /\ performed \in Nat /\ recorded.nr \in Nat
         /\ spc # "record" => recorded.nr = performed /\ Turns!Settled
  <1>1. /\ Open /\ TypeInv /\ OpenInv /\ PoolOpen /\ RecordOpen
        /\ \A u \in Thread : pc[u] \in {"unborn", "waiting", "leaving", "exited"} /\ ~ Granted(u)
    BY RoundRests DEF Quiet, PoolInv, RecordInv
  <1>2. mStatus = "RUNNING"
    BY <1>1 DEF Open
  <1>3. \A u \in Thread : stageBar[u] \in {"unborn", "waiting", "ended"}
    BY <1>1, StageIs DEF Announcing
  <1>4. Turns!Quiet
    BY <1>3, SameTerms DEF Turns!Quiet
  <1>5. ASSUME NEW u \in Thread
        PROVE  /\ stageBar[u] = "waiting" <=> mTasks[u] # NoTask
               /\ stageBar[u] = "waiting" => taskBar[u] = mTasks[u] /\ mTasks[u] \in Instruction
    <2>1. stageBar[u] = "waiting" <=> pc[u] = "waiting"
      BY <1>1, StageIs DEF Announcing
    <2>2. pc[u] = "waiting" <=> mTasks[u] # NoTask
      BY <1>1 DEF OpenInv, RoundPosted, TaskPosted
    <2>3. mTasks[u] # NoTask => mTasks[u] = call[u] /\ mTasks[u] \in Instruction
      BY <1>1 DEF OpenInv, TaskIsCall, TypeInv, TypeOK, PoolTypeOK
    <2>. QED  BY <2>1, <2>2, <2>3, StageIs DEF Announcing
  <1>6. \A u \in Thread : stageBar[u] = "waiting" =>
          (Turns!CanGoOn(mTasks[u]) <=> CanPerform(mTasks[u]))
    <2>. SUFFICES ASSUME NEW u \in Thread, stageBar[u] = "waiting", NEW instr, instr = mTasks[u]
                  PROVE  Turns!CanGoOn(instr) <=> CanPerform(instr)
      BY Zenon
    <2>1. instr \in Instruction
      BY <1>5
    <2>2. instr.op = "Join" => instr.operand \in Thread
      BY <2>1, InstructionFields DEF ManageOp
    <2>. QED  BY <2>2, CanGoOnIs
  <1>7. performed = mTaskNr /\ performed \in Nat /\ recorded.nr \in Nat
    <2>1. \A u \in Thread : ~ HasTurn(u)
      BY <1>1 DEF HasTurn, OpenInv, RoundPosted
    <2>. QED  BY <1>1, <2>1 DEF RecordOpen, PerformedCount, TypeInv, TypeOK
  <1>8. spc # "record" => recorded.nr = performed /\ Turns!Settled
    <2>1. spc # "record" => recorded.nr = performed
      BY <1>1, <1>7 DEF RecordOpen, TransitionCount, Round
    <2>. QED  BY <1>2, <1>4, <1>7, <2>1 DEF Turns!Settled, unrecordedBar
  <1>. QED  BY <1>2, <1>4, <1>5, <1>6, <1>7, <1>8

\* The steps of the scheduler thread that concern the turns.
LEMMA RecordTurns ==
  ASSUME PoolInv, ~ Ended, Record
  PROVE  Turns!Record \/ UNCHANGED Turns!turnVars
  <1>1. spc = "record" /\ UNCHANGED <<stageBar, taskBar, nextTidBar, owner, mStatus, performed>>
    BY DEF Record, stageBar, taskBar, StageOf, nextTidBar, poolVars, OutsideRun, programVars
  <1>2. /\ mStatus = "RUNNING" /\ Turns!Quiet
        /\ performed = mTaskNr /\ performed \in Nat /\ recorded.nr \in Nat
    BY <1>1, RoundTurns DEF Round
  <1>3. RecordOpen
    BY <1>1, RoundRests DEF Round, PoolInv, RecordInv
  <1>4. mCurrentTask' = mCurrentTask /\ mTaskNr' = mTaskNr
    BY DEF Record, poolVars
  <1>5. CASE mTaskNr > 0
    <2>1. recorded.nr = mTaskNr - 1 /\ mCurrentTask # NoTask
      BY <1>1, <1>2, <1>3, <1>5 DEF RecordOpen, TransitionCount, CurrentWasNext
    <2>2. recorded'.nr = recorded.nr + 1 /\ recorded'.last = mCurrentTask
      BY <1>5 DEF Record, PushBack
    <2>3. unrecordedBar = mCurrentTask /\ unrecordedBar' = NoTask
      BY <1>1, <1>2, <1>4, <2>1, <2>2 DEF unrecordedBar
    <2>4. recordedBar' = Turns!Pushed(unrecordedBar)
      BY <2>2, <2>3 DEF recordedBar, Turns!Pushed
    <2>. QED  BY <1>1, <1>2, <2>1, <2>3, <2>4 DEF Turns!Record
  <1>6. CASE ~ mTaskNr > 0
    <2>1. recorded'.nr = recorded.nr /\ recorded'.last = recorded.last
      BY <1>6 DEF Record, SetFinal
    <2>2. UNCHANGED recordedBar
      BY <2>1 DEF recordedBar
    <2>3. UNCHANGED unrecordedBar
      BY <1>1, <1>4, <2>1 DEF unrecordedBar
    <2>. QED  BY <1>1, <2>2, <2>3 DEF Turns!turnVars
  <1>. QED  BY <1>5, <1>6

\* The end of an execution is the one TurnTaking allows.
LEMMA SelectTurns ==
  ASSUME PoolInv, ~ Ended, Select
  PROVE  \/ Turns!Done \/ Turns!Deadlock \/ UNCHANGED Turns!turnVars
         \/ EagerExit /\ mStatus' = "DEADLOCK"
  <1>1. /\ spc = "select"
        /\ UNCHANGED <<stageBar, taskBar, nextTidBar, owner, performed, mCurrentTask, mTasks>>
    BY DEF Select, stageBar, taskBar, StageOf, nextTidBar, poolVars, OutsideRun, programVars
  <1>2. /\ mStatus = "RUNNING" /\ Turns!Settled
        /\ \A u \in Thread : stageBar[u] = "waiting" <=> mTasks[u] # NoTask
        /\ \A u \in Thread : stageBar[u] = "waiting" =>
             /\ taskBar[u] = mTasks[u] /\ mTasks[u] \in Instruction
             /\ Turns!CanGoOn(mTasks[u]) <=> CanPerform(mTasks[u])
        /\ recorded.nr = performed /\ performed \in Nat
    BY <1>1, RoundTurns DEF Round
  <1>3. Turns!WaitingThreads = PostedSet
    BY <1>2, SameTerms DEF Turns!WaitingThreads, PostedSet
  <1>4. unrecordedBar = NoTask
    BY <1>2 DEF Turns!Settled
  <1>5. CASE SelectScheduled \/ SelectByStrategy
    <2>1. UNCHANGED <<mStatus, recorded>>
      BY <1>5 DEF SelectScheduled, SelectByStrategy
    <2>. QED  BY <1>1, <2>1 DEF Turns!turnVars, recordedBar, unrecordedBar
  <1>6. CASE SelectDone
    <2>1. PostedSet = {} /\ mStatus' = "DONE" /\ UNCHANGED recorded
      BY <1>6 DEF SelectDone
    <2>. QED  BY <1>1, <1>2, <1>3, <2>1 DEF Turns!Done, recordedBar, unrecordedBar
  <1>7. CASE SelectDeadlock
    <2>1. /\ PostedSet # {} /\ EnabledSet = {} /\ mStatus' = "DEADLOCK"
      BY <1>7 DEF SelectDeadlock, SelectsDeadlock
    <2>2. PICK t \in PostedSet : recorded'.nr = recorded.nr + 1 /\ recorded'.last = mTasks[t]
      BY <1>7 DEF SelectDeadlock, PushBack
    <2>3. /\ recordedBar' = Turns!Pushed(taskBar[t]) /\ t \in Turns!WaitingThreads
      BY <1>2, <1>3, <2>2 DEF recordedBar, Turns!Pushed, PostedSet
    <2>4. UNCHANGED unrecordedBar
      BY <1>1, <1>2, <1>4, <2>2 DEF unrecordedBar
    <2>5. CASE ~ EagerExit
      <3>1. ASSUME NEW u \in Turns!WaitingThreads PROVE ~ Turns!CanGoOn(taskBar[u])
        <4>1. u \in Thread /\ mTasks[u] # NoTask /\ mThreads[u] # "ENABLED"
          BY <1>3, <2>1 DEF PostedSet, EnabledSet
        <4>2. ~ CanPerform(mTasks[u])
          BY <1>1, <2>5, <4>1, RoundStatuses DEF Round
        <4>. QED  BY <1>2, <4>1, <4>2, Zenon
      <3>. QED  BY <1>1, <1>2, <1>3, <2>1, <2>3, <2>4, <3>1 DEF Turns!Deadlock
    <2>6. CASE EagerExit
      BY <2>1, <2>6
    <2>. QED  BY <2>5, <2>6
  <1>. QED  BY <1>5, <1>6, <1>7 DEF Select

\* set_current gives the selected thread its turn: it can go on.
LEMMA MakeCurrentTurns ==
  ASSUME PoolInv, ~ Ended, MakeCurrent
  PROVE  Turns!Choose(selected)
  <1>1. /\ spc = "current" /\ mTasks' = [mTasks EXCEPT ![selected] = NoTask]
        /\ UNCHANGED <<pc, call, owner, mNrRegistered, mStatus, recorded, performed>>
    BY DEF MakeCurrent, SetCurrent, OutsideRun, programVars
  <1>2. /\ selected \in Thread /\ pc[selected] = "waiting" /\ mTasks[selected] # NoTask
        /\ CanPerform(mTasks[selected])
    BY <1>1, SelectedCanPerform
  <1>3. /\ Turns!Settled /\ stageBar[selected] = "waiting"
        /\ taskBar[selected] = mTasks[selected] /\ Turns!CanGoOn(mTasks[selected])
        /\ recorded.nr = performed /\ performed \in Nat
    BY <1>1, <1>2, RoundTurns DEF Round
  <1>4. mTasks \in [Thread -> Instruction \cup {NoTask}]
    BY DEF PoolInv, RecordInv, IInv, TypeInv, TypeOK, PoolTypeOK
  <1>5. stageBar'[selected] = "granted"
    BY <1>1, <1>2, <1>4, StageIsNext DEF Granted
  <1>6. ASSUME NEW u \in Thread \ {selected}
        PROVE  stageBar'[u] = stageBar[u] /\ taskBar'[u] = taskBar[u]
    <2>1. Granted(u)' <=> Granted(u)
      BY <1>1, <1>2, <1>4 DEF Granted
    <2>. QED  BY <1>1, <2>1, StageIs, StageIsNext
  <1>7. taskBar'[selected] = taskBar[selected]
    BY <1>1, <1>2, StageIs, StageIsNext
  <1>8. stageBar' = [stageBar EXCEPT ![selected] = "granted"] /\ UNCHANGED taskBar
    <2>1. stageBar' = [stageBar EXCEPT ![selected] = stageBar'[selected]]
      BY <1>2, <1>6, BarsAreFunctions, OneDiffers, Zenon
    <2>2. \A u \in Thread : taskBar'[u] = taskBar[u]
      BY <1>6, <1>7
    <2>. QED  BY <1>5, <2>1, <2>2, BarsAreFunctions
  <1>9. UNCHANGED <<nextTidBar, recordedBar, unrecordedBar>>
    BY <1>1, <1>3 DEF nextTidBar, recordedBar, unrecordedBar
  <1>. QED  BY <1>1, <1>3, <1>8, <1>9 DEF Turns!Choose

\* The other steps of the scheduler thread are stutters, until an error.
LEMMA OtherSchedulerTurns ==
  ASSUME PoolInv, ~ Ended,
         Start \/ WaitForPosts \/ Dispatch \/ Grant \/ Close \/ CloseExecution
  PROVE  UNCHANGED Turns!turnVars \/ mStatus' = "ERROR"
  <1>1. /\ UNCHANGED <<poolVars, programVars, mNrRegistered, performed>>
        /\ mStatus' = mStatus \/ mStatus' = "ERROR"
        /\ recorded'.nr = recorded.nr /\ recorded'.last = recorded.last
    <2>1. CASE Start \/ WaitForPosts \/ Dispatch \/ Grant \/ Close
      BY <2>1 DEF Start, WaitForPosts, Dispatch, Grant, Close, OutsideRun
    <2>2. CASE CloseExecution
      BY <2>2 DEF CloseExecution, SetFinal, OutsideRun
    <2>. QED  BY <2>1, <2>2
  <1>2. UNCHANGED <<stageBar, taskBar, nextTidBar, owner, recordedBar, unrecordedBar>>
    BY <1>1 DEF stageBar, taskBar, StageOf, nextTidBar, recordedBar, unrecordedBar, poolVars,
                programVars
  <1>. QED  BY <1>1, <1>2 DEF Turns!turnVars

\* A step of the scheduler takes a turn as TurnTaking does, but for an error of the schedule
\* and for a deadlock reported of a program whose threads may end while others run.
TakesTurn ==
    \/ Turns!TurnNext
    \/ mStatus' = "ERROR"
    \/ EagerExit /\ mStatus' = "DEADLOCK"

\* Every step of the scheduler thread takes a turn or is a stutter.
LEMMA SchedulerStepTurns ==
  ASSUME PoolInv, ~ Ended, SchedulerStep
  PROVE  TakesTurn \/ UNCHANGED Turns!turnVars
  <1>1. CASE Record
    BY <1>1, RecordTurns DEF TakesTurn, Turns!TurnNext
  <1>2. CASE Select
    BY <1>2, SelectTurns DEF TakesTurn, Turns!TurnNext
  <1>3. CASE MakeCurrent
    <2>1. selected \in Thread
      BY <1>3, SelectedCanPerform DEF MakeCurrent
    <2>. QED  BY <1>3, <2>1, MakeCurrentTurns, SameTerms DEF TakesTurn, Turns!TurnNext
  <1>4. CASE Start \/ WaitForPosts \/ Dispatch \/ Grant \/ Close \/ CloseExecution
    BY <1>4, OtherSchedulerTurns DEF TakesTurn
  <1>. QED  BY <1>1, <1>2, <1>3, <1>4 DEF SchedulerStep

\* So does every step.
LEMMA NextTurns == PoolInv /\ [Next]_vars => [TakesTurn]_(Turns!turnVars)
  <1>. SUFFICES ASSUME PoolInv, [Next]_vars PROVE TakesTurn \/ UNCHANGED Turns!turnVars
    OBVIOUS
  <1>1. CASE ~ Ended /\ SchedulerStep
    BY <1>1, SchedulerStepTurns
  <1>2. ASSUME ~ Ended, NEW t \in Thread, ThreadStep(t)
        PROVE  TakesTurn \/ UNCHANGED Turns!turnVars
    BY <1>2, ThreadStepTurns DEF TakesTurn
  <1>3. CASE UNCHANGED vars
    BY <1>3 DEF vars, poolVars, programVars, schedulerVars, runVars, otherVars, Turns!turnVars,
                stageBar, taskBar, StageOf, nextTidBar, recordedBar, unrecordedBar
  <1>. QED  BY <1>1, <1>2, <1>3 DEF Next, Over

\* Of any program, with any schedule, the scheduler takes turns as TurnTaking says up to an
\* error of the schedule.
THEOREM TurnsAreTaken == Spec => Turns!TurnInit /\ [][TakesTurn]_(Turns!turnVars)
  <1>. QED  BY InitTurns, NextTurns, PoolInvariance, PTL DEF Spec

\* If threads end only after an instruction of their own, and no schedule is followed, the
\* scheduler implements TurnTaking: its pool, mutexes and semaphores cannot be seen.
THEOREM SchedulerImplementsTurns ==
  ASSUME EagerExit = FALSE, Schedules \subseteq {<<>>}
  PROVE  Spec => ImplementsTurnTaking
  <1>1. PoolInv => mStatus # "ERROR"
    <2>. SUFFICES ASSUME PoolInv, Scheduled(schedule, mTaskNr) PROVE FALSE
      BY DEF PoolInv, StatusFinal
    <2>1. schedule = <<>> /\ mTaskNr \in Nat
      BY DEF PoolInv, RecordInv, IInv, TypeInv, TypeOK
    <2>. QED  BY <2>1 DEF Scheduled
  <1>2. (mStatus # "ERROR")' /\ [TakesTurn]_(Turns!turnVars) => [Turns!TurnNext]_(Turns!turnVars)
    BY DEF TakesTurn
  <1>. QED
    BY <1>1, <1>2, InitTurns, NextTurns, PoolInvariance, PTL
    DEF Spec, ImplementsTurnTaking, Turns!TurnSpec
=============================================================================
