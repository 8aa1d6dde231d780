-------------------------- MODULE SchedulerSafety --------------------------
(***************************************************************************)
(* Type correctness of the scheduler, with what it rests on (which threads *)
(* have announced an instruction, and that a selected thread is one); then *)
(* RoundExclusive, OnlyCurrentPerforms and DoneMeansFinished, proved from  *)
(* the inductive invariant IInv; then what is recorded, proved from        *)
(* RecordInv.                                                              *)
(***************************************************************************)
EXTENDS SchedulerInvariant, TLAPS

\* Thread 0, main, is one of the threads, and no thread is NoThread.
LEMMA MainIsThread == 0 \in Thread /\ NoThread \notin Thread
  BY NrThreadsAssumption DEF Thread, NoThread

\* The instructions a thread may announce are instructions of that thread.
LEMMA NextInstructionsOK ==
  ASSUME TypeOK, NEW t \in Thread, NEW instr \in NextInstructions(t)
  PROVE  instr \in Instruction /\ instr.tid = t
  <1>1. MemoryOps \subseteq MemoryOp /\ Locations \subseteq Objects
          /\ Mutexes \subseteq Objects /\ Atomicities \subseteq BOOLEAN
    BY WorkloadAssumption
  <1>2. SpawnAllowed(t) => mNrRegistered \in Thread
    BY NrThreadsAssumption DEF SpawnAllowed, Thread, TypeOK
  <1>. QED  BY <1>1, <1>2 DEF NextInstructions, Instruction, LockOp, ManageOp

\* The operations on the state of an object keep it one.
LEMMA ObjectStateOK ==
  ASSUME NEW obj \in ObjectState, NEW instr \in Instruction, NEW t \in Thread
  PROVE  /\ Request(obj, instr) \in ObjectState
         /\ Perform(obj, t) \in ObjectState
  <1>1. OpType(instr) \in {0, 1}
    <2>1. instr.op \in MemoryOp \cup LockOp \cup ManageOp
      BY DEF Instruction
    <2>2. OperationAsInt(instr) \in Int
      BY <2>1 DEF OperationAsInt, MemoryOp, LockOp, ManageOp
    <2>. QED  BY <2>2 DEF OpType
  <1>2. Request(obj, instr) \in ObjectState
    BY <1>1 DEF Request, ObjectState
  <1>3. Perform(obj, t) \in ObjectState
    BY DEF Perform, PerformedSet, WaitingOf, ObjectState
  <1>. QED  BY <1>2, <1>3

\* Setting the status of some threads keeps mThreads a function to statuses.
LEMMA WithStatusOK ==
  ASSUME PoolTypeOK, NEW ts, NEW s \in Status
  PROVE  WithStatus(ts, s) \in [Thread -> Status \cup {"UNREGISTERED"}]
  BY DEF PoolTypeOK, WithStatus

\* The tid that Selector::select takes from the schedule or from its strategy.
LEMMA SelectionOK ==
  ASSUME TypeOK
  PROVE  /\ Scheduled(schedule, mTaskNr) => ScheduleEntry(schedule, mTaskNr) \in Thread
         /\ StrategyChoices(strategy, EnabledSet, mTaskNr) \subseteq Thread
  <1>1. schedule \in Seq(Thread) /\ mTaskNr \in Nat
    BY WorkloadAssumption DEF TypeOK
  <1>2. Scheduled(schedule, mTaskNr) => ScheduleEntry(schedule, mTaskNr) \in Thread
    BY <1>1 DEF Scheduled, ScheduleEntry
  <1>3. EnabledSet \subseteq Thread
    BY DEF EnabledSet
  <1>. QED  BY <1>2, <1>3 DEF StrategyChoices, NonPreemptiveChoices

\* What program_state returns is a State.
LEMMA ProgramStateOK ==
  ASSUME PoolTypeOK
  PROVE  ProgramState \in State
  BY DEF PoolTypeOK, ProgramState, State, PostedSet

\* The initial state is typed.
LEMMA TypeInit == Init => TypeInv
  <1>. SUFFICES ASSUME Init PROVE TypeInv
    OBVIOUS
  <1>. USE MainIsThread DEF Init
  <1>1. PoolTypeOK
    BY DEF PoolInit, PoolTypeOK, Status, ObjectState, NewObject
  <1>2. call[0] \in Instruction
    BY DEF Instruction, ManageOp
  <1>3. TypeOK
    <2>1. call \in [Thread -> Instruction \cup {NoTask}]
      <3>1. \A t \in Thread : call[t] \in Instruction \cup {NoTask}
        BY <1>2
      <3>2. DOMAIN call = Thread /\ call = [t \in Thread |-> call[t]]
        OBVIOUS
      <3>. QED  BY <3>1, <3>2
    <2>2. pc \in [Thread -> ThreadPc] /\ spc \in SchedulerPc
      BY DEF ThreadPc, SchedulerPc
    <2>3. calls \in [Thread -> 0 .. MaxCalls]
      <3>1. 0 \in 0 .. MaxCalls
        BY WorkloadAssumption
      <3>. QED  BY <3>1
    <2>4. recorded \in [nr : Nat, last : Instruction \cup {NoTask}, final : State]
      BY <1>1, ProgramStateOK
    <2>. QED  BY <1>1, <2>1, <2>2, <2>3, <2>4 DEF TypeOK
  <1>4. CallOK
    BY <1>2 DEF CallOK, Announcing, Registering
  <1>. QED  BY <1>1, <1>3, <1>4 DEF TypeInv, SelectedOK

\* A thread's step preserves it.
LEMMA TypeThreadStep ==
  ASSUME TypeInv, NEW t \in Thread, ThreadStep(t)
  PROVE  TypeInv'
  <1>. USE DEF TypeInv, TypeOK, SelectedOK, GoTo
  <1>. USE MainIsThread
  <1>1. CASE EnterThread(t)
    BY <1>1 DEF EnterThread, PoolTypeOK, CallOK, Announcing, Registering, ThreadPc,
                poolVars, schedulerVars, runVars, otherVars
  <1>2. CASE Announce(t)
    <2>1. PICK instr \in NextInstructions(t) :
            /\ call' = [call EXCEPT ![t] = instr]
            /\ mNrRegistered' = IF instr.op = "Spawn" THEN mNrRegistered + 1
                                ELSE mNrRegistered
            /\ joined' = IF instr.op = "Join" THEN joined \cup {instr.operand}
                         ELSE joined
      BY <1>2 DEF Announce
    <2>2. instr \in Instruction /\ instr.tid = t
      BY NextInstructionsOK
    <2>3. calls' \in [Thread -> 0 .. MaxCalls]
      BY <1>2, WorkloadAssumption DEF Announce
    <2>4. joined' \subseteq Thread
      BY <2>1, <2>2 DEF Instruction, MemoryOp, LockOp
    <2>5. PoolTypeOK'
      BY <1>2 DEF Announce, poolVars, PoolTypeOK
    <2>6. CallOK'
      BY <1>2, <2>1, <2>2 DEF Announce, CallOK, Announcing, Registering
    <2>. QED  BY <1>2, <2>1, <2>2, <2>3, <2>4, <2>5, <2>6
              DEF Announce, ThreadPc, runVars, otherVars
  <1>3. CASE Return(t)
    BY <1>3 DEF Return, PoolTypeOK, CallOK, Announcing, Registering, ThreadPc,
                poolVars, schedulerVars, runVars, otherVars
  <1>4. CASE CheckControlled(t)
    BY <1>4 DEF CheckControlled, PoolTypeOK, CallOK, Announcing, Registering,
                ThreadPc, poolVars, schedulerVars, runVars, otherVars
  <1>5. CASE Yield(t)
    BY <1>5 DEF Yield, YieldNothing, YieldCurrent, PoolTypeOK, CallOK, Announcing,
                Registering, ThreadPc, poolVars, OutsidePool, schedulerVars
  <1>6. CASE EndYield(t)
    <2>1. mThreads' \in [Thread -> Status \cup {"UNREGISTERED"}]
      BY <1>6, WithStatusOK
         DEF EndYield, UpdateObjectYield, StatusesAfter, PoolTypeOK, Status
    <2>2. mObjects' \in [Objects -> ObjectState]
      <3>1. \A obj \in ObjectState : Perform(obj, t) \in ObjectState
        BY DEF Perform, PerformedSet, WaitingOf, ObjectState
      <3>. QED  BY <1>6, <3>1 DEF EndYield, UpdateObjectYield, PoolTypeOK
    <2>3. PoolTypeOK'
      BY <1>6, <2>1, <2>2 DEF EndYield, UpdateObjectYield, PoolTypeOK
    <2>4. failed' \in BOOLEAN
      BY <1>6 DEF EndYield, UpdateObjectYieldThrows, PerformThrows
    <2>. QED  BY <1>6, <2>3, <2>4 DEF EndYield, CallOK, Announcing, Registering,
                  ThreadPc, OutsidePool, schedulerVars
  <1>7. CASE Post(t)
    BY <1>7 DEF Post, PostTask, PostThrows, PoolTypeOK, CallOK, Announcing,
                Registering, ThreadPc, OutsidePool, schedulerVars
  <1>8. CASE PostRequest(t)
    <2>1. PICK enabled \in BOOLEAN :
            /\ UpdateObjectPost(t, call[t], enabled)
            /\ GoTo(t, IF enabled THEN "enabling" ELSE "disabling")
      BY <1>8 DEF PostRequest
    <2>2. call[t] \in Instruction
      BY <1>8 DEF PostRequest, CallOK, Announcing
    <2>3. PoolTypeOK'
      <3>1. \A obj \in ObjectState : Request(obj, call[t]) \in ObjectState
        BY <2>2, ObjectStateOK
      <3>. QED  BY <2>1, <2>2, <3>1
                DEF UpdateObjectPost, DataRacesOfVariant, PoolTypeOK, poolVars
    <2>4. failed' \in BOOLEAN
      BY <1>8 DEF PostRequest, UpdateObjectPostThrows, RequestThrows, JoinRequestThrows
    <2>. QED  BY <1>8, <2>1, <2>3, <2>4 DEF PostRequest, CallOK, Announcing,
                  Registering, ThreadPc, OutsidePool, schedulerVars
  <1>9. CASE EndPost(t)
    <2>1. PoolTypeOK'
      BY <1>9, WithStatusOK DEF EndPost, PostStatus, PoolTypeOK, Status
    <2>. QED  BY <1>9, <2>1 DEF EndPost, NotifyModified, CallOK, Announcing,
                  Registering, ThreadPc, SchedulerPc, OutsidePool, schedulerVars
  <1>10. CASE TakeTurn(t)
    BY <1>10 DEF TakeTurn, PoolTypeOK, CallOK, Announcing, Registering, ThreadPc,
                 poolVars, runVars, otherVars
  <1>11. CASE Execute(t)
    <2>1. call[t] \in Instruction /\ call[t].tid = t
      BY <1>11 DEF Execute, CallOK, Announcing
    <2>2. PoolTypeOK'
      BY <1>11 DEF Execute, PoolTypeOK, poolVars
    <2>3. owner' \in [Mutexes -> Thread \cup {NoThread}]
      BY <1>11 DEF Execute
    <2>4. pc' \in [Thread -> ThreadPc]
      BY <1>11 DEF Execute, ThreadPc
    <2>5. CallOK'
      BY <1>11, <2>1 DEF Execute, CallOK, Announcing, Registering
    <2>. QED  BY <1>11, <2>2, <2>3, <2>4, <2>5
              DEF Execute, schedulerVars, runVars
  <1>12. CASE Register(t)
    BY <1>12 DEF Register, PoolTypeOK, CallOK, Announcing, Registering, ThreadPc,
                 poolVars, runVars, otherVars
  <1>13. CASE RegisterInPool(t)
    <2>1. PoolTypeOK'
      BY <1>13, WithStatusOK DEF RegisterInPool, RegisterThread, PoolTypeOK, Status
    <2>. QED  BY <1>13, <2>1 DEF RegisterInPool, CallOK, Announcing, Registering,
                  ThreadPc, OutsidePool, schedulerVars
  <1>14. CASE EndRegister(t)
    BY <1>14 DEF EndRegister, RegisterThreadState, PoolTypeOK, CallOK, Announcing,
                 Registering, ThreadPc, runVars, otherVars
  <1>15. CASE Finish(t)
    <2>1. PoolTypeOK'
      BY <1>15, WithStatusOK DEF Finish, FinishJoiners, PoolTypeOK, Status
    <2>. QED  BY <1>15, <2>1 DEF Finish, CallOK, Announcing, Registering, ThreadPc,
                  OutsidePool, schedulerVars
  <1>16. CASE EndFinish(t)
    <2>1. PoolTypeOK'
      BY <1>16, WithStatusOK DEF EndFinish, FinishStatus, PoolTypeOK, Status
    <2>. QED  BY <1>16, <2>1 DEF EndFinish, NotifyModified, CallOK, Announcing,
                  Registering, ThreadPc, SchedulerPc, OutsidePool, schedulerVars
  <1>17. CASE Leave(t)
    BY <1>17 DEF Leave, PoolTypeOK, CallOK, Announcing, Registering, ThreadPc,
                 poolVars, schedulerVars, runVars, otherVars
  <1>. QED  BY <1>1, <1>2, <1>3, <1>4, <1>5, <1>6, <1>7, <1>8, <1>9, <1>10, <1>11,
               <1>12, <1>13, <1>14, <1>15, <1>16, <1>17 DEF ThreadStep

\* A step of the scheduler thread preserves it.
LEMMA TypeSchedulerStep ==
  ASSUME TypeInv, SchedulerStep
  PROVE  TypeInv'
  <1>. USE DEF TypeInv, TypeOK, SelectedOK, CallOK, OutsideRun, programVars,
               SchedulerPc
  <1>1. CASE Start
    BY <1>1 DEF Start, poolVars, PoolTypeOK
  <1>2. CASE WaitForPosts
    BY <1>2 DEF WaitForPosts, poolVars, PoolTypeOK
  <1>3. CASE Record
    BY <1>3, ProgramStateOK DEF Record, PushBack, SetFinal, poolVars, PoolTypeOK
  <1>4. CASE Select
    <2>1. UNCHANGED <<poolVars, OutsideRun, control, mTaskNr, failed>>
      BY <1>4 DEF Select
    <2>2. CASE SelectScheduled
      BY <2>1, <2>2, SelectionOK DEF SelectScheduled, poolVars, PoolTypeOK
    <2>3. CASE SelectByStrategy
      BY <2>1, <2>3, SelectionOK DEF SelectByStrategy, poolVars, PoolTypeOK
    <2>4. CASE SelectDone
      BY <2>1, <2>4 DEF SelectDone, poolVars, PoolTypeOK
    <2>5. CASE SelectDeadlock
      BY <2>1, <2>5, ProgramStateOK
         DEF SelectDeadlock, PushBack, PostedSet, poolVars, PoolTypeOK
    <2>. QED  BY <1>4, <2>2, <2>3, <2>4, <2>5 DEF Select
  <1>5. CASE Dispatch
    BY <1>5 DEF Dispatch, Registered, poolVars, PoolTypeOK
  <1>6. CASE MakeCurrent
    BY <1>6 DEF MakeCurrent, SetCurrent, SetCurrentThrows, poolVars, PoolTypeOK
  <1>7. CASE Grant
    BY <1>7 DEF Grant, poolVars, PoolTypeOK
  <1>8. CASE Close
    <2>1. control' \in [Thread -> BOOLEAN]
      <3>1. CASE RunsControlled
        BY <1>8, <3>1 DEF Close
      <3>2. CASE control' = [t \in Thread |-> IF t \in ControllableThreads
                                              THEN TRUE ELSE control[t]]
        BY <3>2
      <3>. QED  BY <1>8, <3>1, <3>2 DEF Close
    <2>. QED  BY <1>8, <2>1 DEF Close, poolVars, PoolTypeOK
  <1>9. CASE CloseExecution
    BY <1>9, ProgramStateOK DEF CloseExecution, SetFinal, poolVars, PoolTypeOK
  <1>. QED  BY <1>1, <1>2, <1>3, <1>4, <1>5, <1>6, <1>7, <1>8, <1>9 DEF SchedulerStep

\* So does any step.
LEMMA TypeNext == TypeInv /\ [Next]_vars => TypeInv'
  <1>. SUFFICES ASSUME TypeInv, [Next]_vars PROVE TypeInv'
    OBVIOUS
  <1>1. CASE SchedulerStep
    BY <1>1, TypeSchedulerStep
  <1>2. ASSUME NEW t \in Thread, ThreadStep(t) PROVE TypeInv'
    BY <1>2, TypeThreadStep
  <1>3. CASE UNCHANGED vars
    BY <1>3 DEF vars, poolVars, programVars, schedulerVars, runVars, otherVars,
                TypeInv, TypeOK, PoolTypeOK, CallOK, SelectedOK
  <1>. QED  BY <1>1, <1>2, <1>3 DEF Next, Over

\* The state of the scheduler, of its pool and of the program keeps its type in
\* every execution of every program, with any schedule and strategy.
THEOREM TypeCorrect == Spec => []TypeOK
  <1>1. Spec => []TypeInv
    BY TypeInit, TypeNext, PTL DEF Spec
  <1>2. TypeInv => TypeOK
    BY DEF TypeInv
  <1>. QED  BY <1>1, <1>2, PTL

\* The invariant holds initially.
LEMMA InitInv == Init => IInv
  <1>. SUFFICES ASSUME Init PROVE IInv
    OBVIOUS
  <1>. USE MainIsThread DEF Init, PoolInit
  <1>1. TypeInv
    BY TypeInit
  <1>2. LoopRunning /\ RoundExclusive /\ OnlyCurrentPerforms /\ FinalSettled
          /\ DoneMeansFinished
    BY DEF LoopRunning, RoundExclusive, OnlyCurrentPerforms, FinalSettled,
           DoneMeansFinished, Round
  <1>3. TaskPosted /\ InPostHoldsMutex /\ FinishedLeaves /\ ControlIsTurn
          /\ GrantedIsWaiting /\ TaskIsCall /\ RoundPosted
    BY DEF TaskPosted, InPostHoldsMutex, FinishedLeaves, ControlIsTurn,
           GrantedIsWaiting, TaskIsCall, RoundPosted, Round
  <1>4. UnregisteredIdle /\ BornIsRegistered /\ MainRegistered
    BY DEF UnregisteredIdle, BornIsRegistered, MainRegistered, Registered
  <1>5. FreshTids
    BY DEF FreshTids, Announcing
  <1>. QED  BY <1>1, <1>2, <1>3, <1>4, <1>5 DEF IInv, OpenInv

\* The operand of a Spawn is a thread.
LEMMA SpawnOperand ==
  ASSUME NEW instr \in Instruction, instr.op = "Spawn"
  PROVE  instr.operand \in Thread
  BY DEF Instruction, MemoryOp, LockOp

\* What a thread announces to create is the tid it got from get_fresh_tid.
LEMMA SpawnsFreshTid ==
  ASSUME NEW t \in Thread, NEW instr \in NextInstructions(t), instr.op = "Spawn"
  PROVE  instr.operand = mNrRegistered /\ mNrRegistered < NrThreads
  <1>1. "Spawn" \notin MemoryOps
    BY WorkloadAssumption DEF MemoryOp
  <1>. QED  BY <1>1 DEF NextInstructions, SpawnAllowed

\* Where a thread is in a round, and for good once the execution is done or in a
\* deadlock.
Quiet == {"unborn", "waiting", "leaving", "exited"}

Still == spc \in Round \/ mStatus \in {"DONE", "DEADLOCK"}

\* What a thread's step does of the scheduler thread and of the execution: at most
\* it wakes the former.  A thread that moves while it is still only ends.
LEMMA ThreadStepFrame ==
  ASSUME IInv, ~ Ended, NEW t \in Thread, ThreadStep(t)
  PROVE  /\ spc' = spc \/ (spc = "asleep" /\ spc' = "wait")
         /\ UNCHANGED <<mStatus, mCurrentTask, selected>>
         /\ Still => Leave(t)
  <1>1. /\ spc' = spc \/ (spc = "asleep" /\ spc' = "wait")
        /\ UNCHANGED <<mStatus, mCurrentTask, selected>>
    <2>. USE DEF poolVars, schedulerVars, runVars, OutsidePool
    <2>1. CASE \/ EnterThread(t) \/ Announce(t) \/ Return(t) \/ CheckControlled(t)
               \/ TakeTurn(t) \/ Execute(t) \/ Register(t) \/ Leave(t)
      BY <2>1 DEF EnterThread, Announce, Return, CheckControlled, TakeTurn, Execute,
                  Register, Leave
    <2>2. CASE Yield(t) \/ EndYield(t) \/ Post(t)
      BY <2>2 DEF Yield, YieldNothing, YieldCurrent, EndYield, UpdateObjectYield,
                  Post, PostTask
    <2>3. CASE PostRequest(t) \/ EndPost(t)
      BY <2>3 DEF PostRequest, UpdateObjectPost, EndPost, PostStatus, NotifyModified
    <2>4. CASE RegisterInPool(t) \/ EndRegister(t) \/ Finish(t) \/ EndFinish(t)
      BY <2>4 DEF RegisterInPool, RegisterThread, EndRegister, RegisterThreadState,
                  Finish, FinishJoiners, EndFinish, FinishStatus, NotifyModified
    <2>. QED  BY <2>1, <2>2, <2>3, <2>4 DEF ThreadStep
  <1>2. ASSUME Still PROVE Leave(t)
    <2>1. pc[t] \in Quiet /\ ~ control[t]
      BY <1>2 DEF IInv, RoundExclusive, FinalSettled, OpenInv, Open, RoundPosted,
                  LoopRunning, Still, Quiet, Ended
    <2>. QED  BY <2>1
              DEF ThreadStep, EnterThread, Announce, Return, CheckControlled, Yield,
                  EndYield, Post, PostRequest, EndPost, TakeTurn, Execute, Register,
                  RegisterInPool, EndRegister, Finish, EndFinish, Quiet
  <1>. QED  BY <1>1, <1>2

\* What concerns turns and posted tasks, and what concerns registration.
TurnInv ==
    TaskPosted /\ InPostHoldsMutex /\ FinishedLeaves /\ ControlIsTurn /\ TaskIsCall

RegistrationInv ==
    UnregisteredIdle /\ BornIsRegistered /\ MainRegistered /\ FreshTids

\* A thread's step preserves what concerns turns.
LEMMA ThreadStepTurn ==
  ASSUME IInv, ~ Ended, NEW t \in Thread, ThreadStep(t)
  PROVE  OnlyCurrentPerforms' /\ (Open' => TurnInv')
  <1>1. TypeInv /\ TypeInv'
    BY TypeThreadStep DEF IInv
  <1>2. Open' => Open /\ OpenInv
    BY ThreadStepFrame DEF IInv, Open, Ended
  <1>3. \A u \in Thread :
          /\ pc[u] \in Registering => call[u].operand \in Thread
          /\ pc[u] \in Announcing /\ call[u].op = "Spawn" => call[u].operand \in Thread
    BY <1>1, SpawnOperand DEF TypeInv, CallOK
  <1>4. mStatus \notin {"RUNNING", "ERROR"} => pc[t] \in Quiet /\ ~ control[t]
    BY DEF IInv, FinalSettled, Quiet, TypeInv, TypeOK
  <1>. USE <1>1, <1>2, <1>3, <1>4, MainIsThread
           DEF TypeInv, TypeOK, PoolTypeOK, CallOK, GoTo, poolVars, schedulerVars, runVars,
               otherVars, OutsidePool, IInv, Open, OpenInv, TurnInv, OnlyCurrentPerforms,
               RunsControlled, TaskPosted, InPostHoldsMutex, FinishedLeaves,
               ControlIsTurn, TaskIsCall, Ended, Quiet
  <1>5. CASE EnterThread(t)
    BY <1>5 DEF EnterThread
  <1>6. CASE Announce(t)
    BY <1>6 DEF Announce
  <1>7. CASE Return(t)
    BY <1>7 DEF Return
  <1>8. CASE CheckControlled(t)
    BY <1>8 DEF CheckControlled, RunsControlled
  <1>9. CASE Yield(t)
    BY <1>9 DEF Yield, YieldNothing, YieldCurrent
  <1>10. CASE EndYield(t)
    BY <1>10 DEF EndYield, UpdateObjectYield, StatusesAfter, WithStatus
  <1>11. CASE Post(t)
    BY <1>11 DEF Post, PostTask, PostThrows
  <1>12. CASE PostRequest(t)
    BY <1>12 DEF PostRequest, UpdateObjectPost
  <1>13. CASE EndPost(t)
    BY <1>13 DEF EndPost, PostStatus, WithStatus, NotifyModified
  <1>14. CASE TakeTurn(t)
    BY <1>14 DEF TakeTurn
  <1>15. CASE Execute(t)
    BY SMTT(30), <1>15 DEF Execute, FreshTids, Announcing
  <1>16. CASE Register(t)
    BY <1>16 DEF Register
  <1>17. CASE RegisterInPool(t)
    BY <1>17 DEF RegisterInPool, RegisterThread, WithStatus
  <1>18. CASE EndRegister(t)
    BY <1>18 DEF EndRegister, RegisterThreadState
  <1>19. CASE Finish(t)
    BY <1>19 DEF Finish, FinishJoiners, WithStatus
  <1>20. CASE EndFinish(t)
    BY <1>20 DEF EndFinish, FinishStatus, WithStatus, NotifyModified
  <1>21. CASE Leave(t)
    BY <1>21 DEF Leave
  <1>. QED
    BY <1>5, <1>6, <1>7, <1>8, <1>9, <1>10, <1>11, <1>12, <1>13, <1>14, <1>15, <1>16, <1>17, <1>18, <1>19, <1>20, <1>21 DEF ThreadStep

\* A thread's step preserves what concerns registration.
LEMMA ThreadStepRegistration ==
  ASSUME IInv, ~ Ended, NEW t \in Thread, ThreadStep(t), Open'
  PROVE  RegistrationInv'
  <1>1. TypeInv /\ TypeInv'
    BY TypeThreadStep DEF IInv
  <1>2. Open' => Open /\ OpenInv
    BY ThreadStepFrame DEF IInv, Open, Ended
  <1>3. \A u \in Thread :
          /\ pc[u] \in Registering => call[u].operand \in Thread
          /\ pc[u] \in Announcing /\ call[u].op = "Spawn" => call[u].operand \in Thread
    BY <1>1, SpawnOperand DEF TypeInv, CallOK
  <1>. USE <1>1, <1>2, <1>3, MainIsThread
           DEF TypeInv, TypeOK, PoolTypeOK, CallOK, GoTo, poolVars, schedulerVars, runVars,
               otherVars, OutsidePool, OpenInv, RegistrationInv, UnregisteredIdle,
               BornIsRegistered, MainRegistered, FreshTids, Registered, Announcing,
               Registering
  <1>5. CASE EnterThread(t)
    BY <1>5 DEF EnterThread
  <1>6. CASE Announce(t)
    <2>. USE <1>6 DEF Announce
    <2>1. UnregisteredIdle' /\ BornIsRegistered' /\ MainRegistered'
      OBVIOUS
    <2>2. FreshTids'
      <3>1. PICK instr \in NextInstructions(t) :
              /\ call' = [call EXCEPT ![t] = instr]
              /\ mNrRegistered' = IF instr.op = "Spawn" THEN mNrRegistered + 1
                                  ELSE mNrRegistered
        OBVIOUS
      <3>2. instr.op = "Spawn" =>
              /\ instr.operand = mNrRegistered
              /\ mNrRegistered \in Thread \ {0}
              /\ pc[mNrRegistered] = "unborn"
        <4>1. ASSUME instr.op = "Spawn"
              PROVE  instr.operand = mNrRegistered /\ mNrRegistered < NrThreads
          BY <4>1, SpawnsFreshTid
        <4>2. mNrRegistered # 0
          OBVIOUS
        <4>. QED  BY <4>1, <4>2, NrThreadsAssumption DEF Thread
      <3>3. \A u \in Thread :
              pc'[u] \in Announcing /\ call'[u].op = "Spawn" =>
                  /\ pc'[call'[u].operand] = "unborn"
                  /\ call'[u].operand < mNrRegistered'
                  /\ call'[u].operand # 0
        BY <3>1, <3>2 DEF Thread
      <3>4. \A u, v \in Thread :
              /\ pc'[u] \in Announcing /\ call'[u].op = "Spawn"
              /\ pc'[v] \in Announcing /\ call'[v].op = "Spawn"
              /\ u # v
              => call'[u].operand # call'[v].operand
        BY <3>1, <3>2 DEF Thread
      <3>5. mNrRegistered # 0 /\ mNrRegistered' # 0
        BY <3>1
      <3>6. \A c \in Thread : c # 0 /\ c >= mNrRegistered' => pc'[c] = "unborn"
        BY <3>1 DEF Thread
      <3>. QED  BY <3>3, <3>4, <3>5, <3>6
    <2>. QED  BY <2>1, <2>2
  <1>7. CASE Return(t)
    BY <1>7 DEF Return
  <1>8. CASE CheckControlled(t)
    BY SMTT(30), <1>8 DEF CheckControlled, RunsControlled
  <1>9. CASE Yield(t)
    BY <1>9 DEF Yield, YieldNothing, YieldCurrent
  <1>10. CASE EndYield(t)
    <2>1. \A u \in Thread : mThreads[u] # "UNREGISTERED" => mThreads'[u] # "UNREGISTERED"
      BY <1>10 DEF EndYield, UpdateObjectYield, StatusesAfter, WithStatus
    <2>2. /\ \/ pc[t] = "in_yield" /\ pc' = [pc EXCEPT ![t] = "yielded"]
             \/ pc[t] = "in_exit_yield" /\ pc' = [pc EXCEPT ![t] = "finishing"]
          /\ UNCHANGED <<call, mNrRegistered, mMainThreadRegistered, spc>>
      BY <1>10 DEF EndYield
    <2>3. UnregisteredIdle'
      BY <2>1, <2>2
    <2>4. BornIsRegistered'
      BY <2>1, <2>2
    <2>5. MainRegistered' /\ FreshTids'
      BY <2>1, <2>2
    <2>. QED  BY <2>3, <2>4, <2>5
  <1>11. CASE Post(t)
    BY <1>11 DEF Post, PostTask, PostThrows
  <1>12. CASE PostRequest(t)
    BY <1>12 DEF PostRequest, UpdateObjectPost
  <1>13. CASE EndPost(t)
    BY <1>13 DEF EndPost, PostStatus, WithStatus, NotifyModified
  <1>14. CASE TakeTurn(t)
    BY <1>14 DEF TakeTurn
  <1>15. CASE Execute(t)
    <2>. USE <1>15 DEF Execute
    <2>1. UnregisteredIdle' /\ MainRegistered'
      <3>1. UnregisteredIdle'
        OBVIOUS
      <3>2. MainRegistered'
        OBVIOUS
      <3>. QED  BY <3>1, <3>2
    <2>2. BornIsRegistered'
      OBVIOUS
    <2>3. FreshTids'
      <3>1. mNrRegistered' = 0 =>
              /\ pc'[0] = "registering" /\ call'[0].operand = 0
              /\ \A u \in Thread \ {0} : pc'[u] = "unborn"
        OBVIOUS
      <3>2. ASSUME NEW c \in Thread, c # 0, c >= mNrRegistered'
            PROVE  pc'[c] = "unborn"
        <4>1. pc[c] = "unborn" /\ c # t
          BY <3>2
        <4>2. call[t].op = "Spawn" => call[t].operand # c
          BY <3>2 DEF Thread
        <4>. QED  BY <4>1, <4>2
      <3>3. \A u \in Thread :
              pc'[u] \in Announcing /\ call'[u].op = "Spawn" =>
                  /\ pc'[call'[u].operand] = "unborn"
                  /\ call'[u].operand < mNrRegistered'
                  /\ call'[u].operand # 0
        BY DEF Thread
      <3>. QED  BY <3>1, <3>2, <3>3
    <2>. QED  BY <2>1, <2>2, <2>3
  <1>16. CASE Register(t)
    <2>. USE <1>16 DEF Register
    <2>1. UnregisteredIdle' /\ MainRegistered'
      OBVIOUS
    <2>2. BornIsRegistered'
      OBVIOUS
    <2>3. FreshTids'
      <3>1. mNrRegistered' = 0 =>
              /\ pc'[0] = "registering" /\ call'[0].operand = 0
              /\ \A u \in Thread \ {0} : pc'[u] = "unborn"
        OBVIOUS
      <3>2. \A c \in Thread : c # 0 /\ c >= mNrRegistered' => pc'[c] = "unborn"
        BY DEF Thread
      <3>3. \A u \in Thread :
              pc'[u] \in Announcing /\ call'[u].op = "Spawn" =>
                  /\ pc'[call'[u].operand] = "unborn"
                  /\ call'[u].operand < mNrRegistered'
                  /\ call'[u].operand # 0
        BY DEF Thread
      <3>. QED  BY <3>1, <3>2, <3>3
    <2>. QED  BY <2>1, <2>2, <2>3
  <1>17. CASE RegisterInPool(t)
    BY <1>17 DEF RegisterInPool, RegisterThread, WithStatus
  <1>18. CASE EndRegister(t)
    BY <1>18 DEF EndRegister, RegisterThreadState
  <1>19. CASE Finish(t)
    BY <1>19 DEF Finish, FinishJoiners, WithStatus
  <1>20. CASE EndFinish(t)
    BY <1>20 DEF EndFinish, FinishStatus, WithStatus, NotifyModified
  <1>21. CASE Leave(t)
    BY <1>21 DEF Leave
  <1>. QED
    BY <1>5, <1>6, <1>7, <1>8, <1>9, <1>10, <1>11, <1>12, <1>13, <1>14, <1>15, <1>16, <1>17, <1>18, <1>19, <1>20, <1>21 DEF ThreadStep

\* A thread's step preserves the invariant.
LEMMA ThreadStepInv ==
  ASSUME IInv, ~ Ended, NEW t \in Thread, ThreadStep(t)
  PROVE  IInv'
  <1>1. TypeInv /\ TypeInv'
    BY TypeThreadStep DEF IInv
  <1>2. Open' => Open /\ OpenInv
    BY ThreadStepFrame DEF IInv, Open, Ended
  <1>3. LoopRunning'
    BY ThreadStepFrame DEF IInv, LoopRunning, Round
  <1>4. /\ RoundExclusive' /\ FinalSettled' /\ DoneMeansFinished'
        /\ Open' => GrantedIsWaiting' /\ RoundPosted'
    <2>1. CASE Leave(t)
      BY <1>1, <1>2, <2>1
         DEF Leave, GoTo, IInv, OpenInv, RoundExclusive, FinalSettled,
             DoneMeansFinished, GrantedIsWaiting, RoundPosted, Round, TypeInv, TypeOK,
             SelectedOK, poolVars, schedulerVars, runVars
    <2>2. CASE ~ Leave(t)
      <3>1. ~ Still /\ ~ Still'
        BY <2>2, ThreadStepFrame DEF Still, Round
      <3>. QED  BY <3>1 DEF Still, RoundExclusive, FinalSettled, DoneMeansFinished,
                    GrantedIsWaiting, RoundPosted, Round
    <2>. QED  BY <2>1, <2>2
  <1>. QED
    BY <1>1, <1>3, <1>4, ThreadStepTurn, ThreadStepRegistration
       DEF IInv, OpenInv, TurnInv, RegistrationInv

\* When every unfinished thread has posted and mMutex is free, every thread waits,
\* has ended, or has not been created: one inside post would hold mMutex, and one
\* that was created but not registered has a creator that has not posted.
LEMMA PostedMeansQuiet ==
  ASSUME TypeInv, OpenInv, spc # "start", mMutex = NoThread,
         UnfinishedThreadsHavePosted, NEW t \in Thread
  PROVE  /\ pc[t] \in Quiet
         /\ pc[t] = "waiting" => mTasks[t] # NoTask
         /\ ~ control[t]
  <1>1. \A u \in Thread : Registered(u) => pc[u] \in {"waiting", "leaving", "exited"}
    BY MainIsThread
       DEF UnfinishedThreadsHavePosted, OpenInv, FinishedLeaves, TaskPosted,
           InPostHoldsMutex
  <1>2. Registered(0)
    BY DEF OpenInv, MainRegistered
  <1>3. \A u \in Thread : ~ Registered(u) => pc[u] \in {"unborn", "born"}
    BY <1>2 DEF OpenInv, UnregisteredIdle
  <1>4. pc[t] \in Quiet
    <2>1. \A p \in Thread : pc[p] \notin {"registering", "reg_thread"}
      BY <1>1, <1>3
    <2>2. ~ (pc[t] = "born" /\ ~ Registered(t))
      BY <2>1 DEF OpenInv, BornIsRegistered
    <2>. QED  BY <1>1, <1>3, <2>2 DEF Quiet
  <1>5. pc[t] = "waiting" => mTasks[t] # NoTask
    BY <1>3 DEF UnfinishedThreadsHavePosted, OpenInv, FinishedLeaves
  <1>6. ~ control[t]
    BY <1>5 DEF OpenInv, ControlIsTurn
  <1>. QED  BY <1>4, <1>5, <1>6

\* A step of the scheduler thread preserves the invariant.
LEMMA SchedulerStepInv ==
  ASSUME IInv, ~ Ended, SchedulerStep
  PROVE  IInv'
  <1>1. TypeInv /\ TypeInv'
    BY TypeSchedulerStep DEF IInv
  <1>2. ~ failed
    BY DEF Ended
  <1>3. LoopRunning /\ RoundExclusive /\ OnlyCurrentPerforms /\ FinalSettled
          /\ DoneMeansFinished /\ (mStatus = "RUNNING" => OpenInv)
    BY <1>2 DEF IInv, Open
  \* The step leaves the program as it is, and what depends on it alone.
  <1>4. /\ UNCHANGED <<pc, call, mNrRegistered, mMainThreadRegistered, mMutex,
                       mThreads>>
        /\ mMutex' = mMutex
    BY DEF SchedulerStep, Start, WaitForPosts, Record, Select, Dispatch, MakeCurrent,
           SetCurrent, Grant, Close, CloseExecution, poolVars, OutsideRun, programVars
  <1>5. Open' => mStatus = "RUNNING"
    BY DEF SchedulerStep, Start, WaitForPosts, Record, Select, SelectScheduled,
           SelectByStrategy, SelectDone, SelectDeadlock, Dispatch, MakeCurrent, Grant,
           Close, CloseExecution, Open
  <1>6. Open' => /\ InPostHoldsMutex' /\ FinishedLeaves' /\ UnregisteredIdle'
                 /\ BornIsRegistered' /\ FreshTids'
    BY <1>3, <1>4, <1>5
       DEF OpenInv, InPostHoldsMutex, FinishedLeaves, UnregisteredIdle,
           BornIsRegistered, FreshTids, Registered
  <1>7. Open' => MainRegistered'
    BY <1>3, <1>4, <1>5
       DEF OpenInv, MainRegistered, Registered, SchedulerStep, Start, WaitForPosts,
           Record, Select, Dispatch, MakeCurrent, Grant, Close, CloseExecution
  <1>. DEFINE Rest == /\ LoopRunning /\ RoundExclusive /\ OnlyCurrentPerforms
                      /\ FinalSettled /\ DoneMeansFinished
                      /\ Open => /\ TaskPosted /\ ControlIsTurn /\ GrantedIsWaiting
                                 /\ TaskIsCall /\ RoundPosted
  <1>. USE <1>1, <1>3, <1>4, <1>5
           DEF TypeInv, TypeOK, PoolTypeOK, SelectedOK, Open, poolVars, OutsideRun,
               LoopRunning, RoundExclusive, OnlyCurrentPerforms, FinalSettled,
               DoneMeansFinished, RunsControlled, Round, OpenInv, TaskPosted,
               ControlIsTurn, GrantedIsWaiting, TaskIsCall, RoundPosted
  <1>8. ASSUME Start PROVE Rest'
    BY <1>8 DEF Start
  <1>9. ASSUME WaitForPosts PROVE Rest'
    <2>1. ASSUME ~ UnfinishedThreadsHavePosted PROVE Rest'
      BY <1>9, <2>1 DEF WaitForPosts
    <2>2. ASSUME UnfinishedThreadsHavePosted PROVE Rest'
      <3>1. \A t \in Thread : /\ pc[t] \in Quiet
                              /\ pc[t] = "waiting" => mTasks[t] # NoTask
                              /\ ~ control[t]
        BY <1>9, <2>2, PostedMeansQuiet DEF WaitForPosts
      <3>. QED  BY <1>9, <2>2, <3>1 DEF WaitForPosts, Quiet
    <2>. QED  BY <2>1, <2>2
  <1>10. ASSUME Record PROVE Rest'
    BY <1>10 DEF Record
  <1>11. ASSUME Select PROVE Rest'
    <2>. UNCHANGED <<poolVars, OutsideRun, control, mTaskNr, failed>> /\ spc = "select"
      BY <1>11 DEF Select
    <2>1. ASSUME SelectScheduled PROVE Rest'
      BY <2>1 DEF SelectScheduled
    <2>2. ASSUME SelectByStrategy PROVE Rest'
      BY <2>2 DEF SelectByStrategy
    <2>3. ASSUME SelectDone PROVE Rest'
      BY <2>3 DEF SelectDone, PostedSet
    <2>4. ASSUME SelectDeadlock PROVE Rest'
      BY <2>4 DEF SelectDeadlock
    <2>. QED  BY <1>11, <2>1, <2>2, <2>3, <2>4 DEF Select
  <1>12. ASSUME Dispatch PROVE Rest'
    BY <1>12 DEF Dispatch
  <1>13. ASSUME MakeCurrent PROVE Rest'
    BY ZenonT(60), <1>13 DEF MakeCurrent, SetCurrent, SetCurrentThrows
  <1>14. ASSUME Grant PROVE Rest'
    BY <1>14 DEF Grant
  <1>15. ASSUME Close PROVE Rest'
    <2>1. ASSUME RunsControlled PROVE Rest'
      <3>1. /\ UNCHANGED <<poolVars, control, mStatus, failed>>
            /\ spc' = "last"
        BY <1>15, <2>1 DEF Close
      <3>2. UNCHANGED <<mTasks, mCurrentTask>>
        BY <3>1
      <3>3. LoopRunning' /\ RoundExclusive' /\ FinalSettled' /\ DoneMeansFinished'
        BY <3>1
      <3>4. OnlyCurrentPerforms'
        BY <3>1, <3>2
      <3>5. Open' => (TaskPosted /\ ControlIsTurn /\ TaskIsCall)'
        BY <3>1, <3>2
      <3>6. (GrantedIsWaiting /\ RoundPosted)'
        BY <3>1
      <3>. QED  BY <3>3, <3>4, <3>5, <3>6
    <2>2. ASSUME ~ RunsControlled PROVE Rest'
      BY <1>15, <2>2 DEF Close
    <2>. QED  BY <2>1, <2>2
  <1>16. ASSUME CloseExecution PROVE Rest'
    BY <1>16 DEF CloseExecution
  <1>17. Rest'
    BY <1>8, <1>9, <1>10, <1>11, <1>12, <1>13, <1>14, <1>15, <1>16 DEF SchedulerStep
  <1>. QED  BY <1>1, <1>6, <1>7, <1>17 DEF IInv, OpenInv

\* Every step preserves it.
LEMMA NextInv == IInv /\ [Next]_vars => IInv'
  <1>. SUFFICES ASSUME IInv, [Next]_vars PROVE IInv'
    OBVIOUS
  <1>1. CASE ~ Ended /\ SchedulerStep
    BY <1>1, SchedulerStepInv
  <1>2. ASSUME ~ Ended, NEW t \in Thread, ThreadStep(t) PROVE IInv'
    BY <1>2, ThreadStepInv
  <1>3. CASE UNCHANGED vars
    <2>1. TypeInv'
      BY <1>3, TypeNext DEF IInv
    <2>. QED  BY <1>3, <2>1
              DEF vars, poolVars, programVars, schedulerVars, runVars, otherVars, IInv,
                  LoopRunning, RoundExclusive, OnlyCurrentPerforms, FinalSettled,
                  DoneMeansFinished, RunsControlled, Open, OpenInv, TaskPosted,
                  InPostHoldsMutex, FinishedLeaves, UnregisteredIdle, BornIsRegistered,
                  MainRegistered, FreshTids, ControlIsTurn, GrantedIsWaiting, TaskIsCall,
                  RoundPosted, Registered
  <1>. QED  BY <1>1, <1>2, <1>3 DEF Next, Over

\* IInv holds in every reachable state.
THEOREM Invariance == Spec => []IInv
  BY InitInv, NextInv, PTL DEF Spec

\* No thread of the program is inside an operation of the pool, or about to enter
\* one, while the scheduler thread is in a round, whatever the program does: the
\* access to the pool without mMutex that Scheduler::run worries about is safe.
THEOREM RoundsAreExclusive == Spec => []RoundExclusive
  BY Invariance, PTL DEF IInv

\* A controlled thread performs a visible instruction only when it is the current
\* task of the pool, for any number of threads and any program.
THEOREM OneAtATime == Spec => []OnlyCurrentPerforms
  BY Invariance, PTL DEF IInv

\* The scheduler calls an execution DONE only when every thread that was created
\* has returned from its first function.
THEOREM DoneIsFinished == Spec => []DoneMeansFinished
  BY Invariance, PTL DEF IInv

-----------------------------------------------------------------------------
(***************************************************************************)
(* RecordComplete and RecordedTransitions, proved from the inductive       *)
(* invariant RecordInv: what the scheduler writes down is what the program *)
(* did.                                                                    *)
(***************************************************************************)
\* The invariant holds initially.
LEMMA InitRecord == Init => RecordInv
  <1>. SUFFICES ASSUME Init PROVE RecordInv
    OBVIOUS
  <1>1. IInv
    BY InitInv
  <1>2. RecordComplete
    BY DEF Init, RecordComplete
  <1>3. TransitionCount /\ LastIsCurrent /\ FinalIsState /\ SelectedEnabled /\ CurrentWasNext
    BY DEF Init, PoolInit, TransitionCount, LastIsCurrent, FinalIsState, SelectedEnabled,
           CurrentWasNext
  <1>4. PerformedCount
    BY DEF Init, PerformedCount, HasTurn
  <1>. QED  BY <1>1, <1>2, <1>3, <1>4 DEF RecordInv, RecordOpen

\* The thread that has the turn is the one of the current task.
LEMMA TurnIsCurrent ==
  ASSUME IInv, Open, NEW t \in Thread, HasTurn(t)
  PROVE  call[t] = mCurrentTask /\ mCurrentTask.tid = t
  <1>1. call[t] = mCurrentTask
    BY DEF HasTurn, IInv, Open, OpenInv, TaskIsCall, OnlyCurrentPerforms, RunsControlled
  <1>2. pc[t] \in {"waiting", "executing"}
    BY DEF HasTurn, IInv, OpenInv, ControlIsTurn
  <1>. QED  BY <1>1, <1>2 DEF IInv, TypeInv, CallOK, Announcing

\* A thread leaves the record and the count of granted instructions alone.
LEMMA ThreadStepKeepsRecord ==
  ASSUME NEW t \in Thread, ThreadStep(t)
  PROVE  UNCHANGED <<mTaskNr, recorded>>
  <1>. USE DEF poolVars, schedulerVars, runVars, OutsidePool
  <1>1. CASE \/ EnterThread(t) \/ Announce(t) \/ Return(t) \/ CheckControlled(t)
             \/ TakeTurn(t) \/ Execute(t) \/ Register(t) \/ Leave(t)
    BY <1>1 DEF EnterThread, Announce, Return, CheckControlled, TakeTurn, Execute,
                Register, Leave
  <1>2. CASE Yield(t) \/ EndYield(t) \/ Post(t) \/ PostRequest(t) \/ EndPost(t)
    BY <1>2 DEF Yield, EndYield, Post, PostRequest, EndPost
  <1>3. CASE RegisterInPool(t) \/ EndRegister(t) \/ Finish(t) \/ EndFinish(t)
    BY <1>3 DEF RegisterInPool, EndRegister, Finish, EndFinish
  <1>. QED  BY <1>1, <1>2, <1>3 DEF ThreadStep

\* Only a post changes the posted tasks, and it finds none of its thread there.
LEMMA ThreadStepTasks ==
  ASSUME IInv, Open, NEW t \in Thread, ThreadStep(t), NEW u \in Thread, mTasks[u] # NoTask
  PROVE  mTasks'[u] = mTasks[u]
  <1>1. pc[u] # "yielded"
    BY DEF IInv, OpenInv, TaskPosted
  <1>2. mTasks \in [Thread -> Instruction \cup {NoTask}]
    BY DEF IInv, TypeInv, TypeOK, PoolTypeOK
  <1>. USE DEF poolVars, OutsidePool
  <1>3. CASE \/ EnterThread(t) \/ Announce(t) \/ Return(t) \/ CheckControlled(t)
             \/ TakeTurn(t) \/ Execute(t) \/ Register(t) \/ Leave(t)
    BY <1>3 DEF EnterThread, Announce, Return, CheckControlled, TakeTurn, Execute,
                Register, Leave
  <1>4. CASE Yield(t) \/ EndYield(t)
    BY <1>4 DEF Yield, YieldNothing, YieldCurrent, EndYield, UpdateObjectYield
  <1>5. CASE Post(t)
    BY <1>1, <1>2, <1>5 DEF Post, PostTask
  <1>6. CASE PostRequest(t) \/ EndPost(t)
    BY <1>6 DEF PostRequest, UpdateObjectPost, EndPost, PostStatus
  <1>7. CASE RegisterInPool(t) \/ EndRegister(t) \/ Finish(t) \/ EndFinish(t)
    BY <1>7 DEF RegisterInPool, RegisterThread, EndRegister, RegisterThreadState,
                Finish, FinishJoiners, EndFinish, FinishStatus
  <1>. QED  BY <1>3, <1>4, <1>5, <1>6, <1>7 DEF ThreadStep

\* A step of a thread counts if it performs the instruction that was granted.
LEMMA ThreadStepPerformed ==
  ASSUME IInv, IInv', Open, Open', PerformedCount, NEW t \in Thread, ThreadStep(t)
  PROVE  PerformedCount'
  <1>1. UNCHANGED mTaskNr
    BY ThreadStepKeepsRecord
  <1>2. TypeInv /\ TypeInv'
    BY DEF IInv
  <1>3. \A u, v \in Thread : HasTurn(u) /\ HasTurn(v) => u = v
    BY TurnIsCurrent
  <1>. USE <1>1, <1>2
           DEF TypeInv, TypeOK, Open, GoTo, poolVars, schedulerVars, otherVars, OutsidePool
  <1>4. CASE Execute(t)
    <2>1. HasTurn(t) /\ performed' = performed + 1 /\ control' = control
      BY <1>4 DEF Execute, HasTurn, RunsControlled
    <2>2. pc'[t] # "executing" /\ \A u \in Thread : pc'[u] = "executing" => pc[u] = "executing"
      BY <1>4 DEF Execute
    <2>3. ~ control[t]
      BY <1>4 DEF Execute, IInv, OpenInv, ControlIsTurn
    <2>4. \A u \in Thread : ~ HasTurn(u)'
      BY <1>3, <2>1, <2>2, <2>3 DEF HasTurn
    <2>5. performed' = mTaskNr'
      BY <2>1 DEF PerformedCount
    <2>. QED  BY <2>4, <2>5 DEF PerformedCount
  <1>5. ASSUME UNCHANGED performed, \A u \in Thread : HasTurn(u)' <=> HasTurn(u)
        PROVE  PerformedCount'
    BY <1>5 DEF PerformedCount
  <1>6. ASSUME ~ Execute(t)
        PROVE  UNCHANGED performed /\ \A u \in Thread : HasTurn(u)' <=> HasTurn(u)
    <2>. USE <1>6 DEF HasTurn
    <2>1. CASE EnterThread(t) \/ Announce(t) \/ Return(t) \/ Register(t) \/ Leave(t)
      BY <2>1 DEF EnterThread, Announce, Return, Register, Leave
    <2>2. CASE CheckControlled(t)
      BY <2>2 DEF CheckControlled, RunsControlled
    <2>3. CASE TakeTurn(t)
      BY <2>3 DEF TakeTurn
    <2>4. CASE Yield(t) \/ EndYield(t)
      BY <2>4 DEF Yield, EndYield
    <2>5. CASE Post(t) \/ PostRequest(t) \/ EndPost(t)
      BY <2>5 DEF Post, PostRequest, EndPost
    <2>6. CASE RegisterInPool(t) \/ EndRegister(t) \/ Finish(t) \/ EndFinish(t)
      BY <2>6 DEF RegisterInPool, EndRegister, Finish, EndFinish
    <2>. QED  BY <2>1, <2>2, <2>3, <2>4, <2>5, <2>6 DEF ThreadStep
  <1>. QED  BY <1>4, <1>5, <1>6

\* A step of a thread preserves the invariant.
LEMMA ThreadStepRecord ==
  ASSUME RecordInv, ~ Ended, NEW t \in Thread, ThreadStep(t)
  PROVE  RecordInv'
  <1>1. IInv /\ IInv'
    BY ThreadStepInv DEF RecordInv
  <1>2. /\ UNCHANGED <<mTaskNr, recorded, mStatus, mCurrentTask, selected>>
        /\ spc' = spc \/ (spc = "asleep" /\ spc' = "wait")
    BY <1>1, ThreadStepKeepsRecord, ThreadStepFrame
  <1>3. Still => UNCHANGED <<mThreads, mTasks, performed, spc>>
    BY <1>1, ThreadStepFrame DEF Leave, poolVars, runVars, otherVars
  <1>4. RecordComplete'
    <2>1. CASE Still
      BY <1>2, <1>3, <2>1 DEF RecordInv, RecordComplete
    <2>2. CASE ~ Still
      BY <1>2, <2>2 DEF Still, Round, RecordComplete
    <2>. QED  BY <2>1, <2>2
  <1>5. ASSUME Open' PROVE RecordOpen'
    <2>1. Open /\ RecordOpen
      BY <1>2, <1>5 DEF Open, Ended, RecordInv
    <2>2. PerformedCount'
      BY <1>1, <1>5, <2>1, ThreadStepPerformed DEF RecordOpen
    <2>3. TransitionCount' /\ LastIsCurrent'
      BY <1>2, <2>1 DEF RecordOpen, TransitionCount, LastIsCurrent
    <2>4. FinalIsState' /\ SelectedEnabled'
      <3>1. CASE Still
        BY <1>2, <1>3, <2>1, <3>1
           DEF RecordOpen, FinalIsState, SelectedEnabled, ProgramState, PostedSet
      <3>2. CASE ~ Still
        BY <1>2, <3>2 DEF Still, Round, FinalIsState, SelectedEnabled
      <3>. QED  BY <3>1, <3>2
    <2>5. CurrentWasNext'
      <3>1. \A u \in Thread : mTasks[u] # NoTask => mTasks'[u] = mTasks[u]
        BY <1>1, <2>1, ThreadStepTasks
      <3>2. ASSUME NEW n \in [Thread -> Instruction \cup {NoTask}], NEW u \in Thread,
                   n[u] # NoTask, mTasks[u] = n[u]
            PROVE  mTasks'[u] = n[u]
        BY <3>1, <3>2
      <3>3. recorded.final.next \in [Thread -> Instruction \cup {NoTask}]
        BY <1>1 DEF IInv, TypeInv, TypeOK, State
      <3>. QED  BY <1>2, <2>1, <3>2, <3>3 DEF RecordOpen, CurrentWasNext
    <2>. QED  BY <2>2, <2>3, <2>4, <2>5 DEF RecordOpen
  <1>. QED  BY <1>1, <1>4, <1>5 DEF RecordInv

\* What is posted is an instruction of the thread that has posted it.
LEMMA PostedIsOwn ==
  ASSUME IInv, Open, NEW t \in Thread, mTasks[t] # NoTask
  PROVE  mTasks[t].tid = t
  <1>1. pc[t] \in Announcing /\ mTasks[t] = call[t]
    BY DEF IInv, OpenInv, TaskPosted, TaskIsCall, Announcing
  <1>. QED  BY <1>1 DEF IInv, TypeInv, CallOK

\* In a round nobody has the turn: what was granted is performed.
LEMMA RoundPerformed ==
  ASSUME IInv, Open, PerformedCount, spc \in Round
  PROVE  performed = mTaskNr
  <1>1. \A t \in Thread : ~ HasTurn(t)
    BY DEF IInv, OpenInv, RoundPosted, RoundExclusive, HasTurn
  <1>. QED  BY <1>1 DEF PerformedCount

\* A step of the scheduler thread preserves the invariant.
LEMMA SchedulerStepRecord ==
  ASSUME RecordInv, ~ Ended, SchedulerStep
  PROVE  RecordInv'
  <1>1. IInv /\ IInv' /\ TypeInv /\ TypeInv' /\ ~ failed
    BY SchedulerStepInv DEF RecordInv, IInv, Ended
  <1>2. spc \in Round => mStatus = "RUNNING"
    BY <1>1 DEF IInv, LoopRunning
  <1>3. mStatus = "RUNNING" => Open /\ RecordOpen
    BY <1>1 DEF RecordInv, Open
  <1>4. RecordComplete
    BY DEF RecordInv
  <1>. DEFINE Rest == RecordComplete /\ (Open => RecordOpen)
  <1>. USE <1>1, <1>2, <1>3, <1>4
           DEF TypeInv, TypeOK, PoolTypeOK, SelectedOK, Open, poolVars, OutsideRun,
               programVars, Round, RecordComplete, RecordOpen, TransitionCount, PerformedCount, HasTurn,
               LastIsCurrent, FinalIsState, ProgramState, PostedSet, SelectedEnabled,
               CurrentWasNext
  <1>5. ASSUME Start PROVE Rest'
    BY <1>5 DEF Start
  <1>6. ASSUME WaitForPosts PROVE Rest'
    BY <1>6 DEF WaitForPosts
  <1>7. ASSUME Record PROVE Rest'
    BY <1>7, RoundPerformed DEF Record, PushBack, SetFinal
  <1>8. ASSUME Select PROVE Rest'
    <2>. UNCHANGED <<poolVars, OutsideRun, control, mTaskNr, failed>> /\ spc = "select"
      BY <1>8 DEF Select
    <2>1. ASSUME SelectScheduled PROVE Rest'
      BY <2>1 DEF SelectScheduled
    <2>2. ASSUME SelectByStrategy PROVE Rest'
      BY <2>2 DEF SelectByStrategy
    <2>3. ASSUME SelectDone PROVE Rest'
      BY <2>3 DEF SelectDone
    <2>4. ASSUME SelectDeadlock PROVE Rest'
      BY <2>4 DEF SelectDeadlock
    <2>. QED  BY <1>8, <2>1, <2>2, <2>3, <2>4 DEF Select
  <1>9. ASSUME Dispatch PROVE Rest'
    BY <1>9 DEF Dispatch
  <1>10. ASSUME MakeCurrent PROVE Rest'
    <2>1. /\ spc = "current" /\ spc' = "grant"
          /\ mCurrentTask' = mTasks[selected]
          /\ mTasks' = [mTasks EXCEPT ![selected] = NoTask]
          /\ failed' = (mTasks[selected] = NoTask)
          /\ UNCHANGED <<OutsideRun, mStatus, control, mTaskNr, recorded>>
      BY <1>10 DEF MakeCurrent, SetCurrent, SetCurrentThrows
    <2>2. RecordComplete'
      BY <2>1
    <2>3. (TransitionCount /\ PerformedCount /\ LastIsCurrent /\ FinalIsState
              /\ SelectedEnabled)'
      BY <2>1
    <2>4. ASSUME mTasks[selected] # NoTask PROVE CurrentWasNext'
      <3>1. mTasks[selected].tid = selected
        BY <2>1, <2>4, PostedIsOwn
      <3>2. recorded.final.next = mTasks /\ selected \in recorded.final.enabled
        BY <2>1, <2>4
      <3>. QED  BY <2>1, <2>4, <3>1, <3>2
    <2>. QED  BY <2>1, <2>2, <2>3, <2>4
  <1>11. ASSUME Grant PROVE Rest'
    BY <1>11, RoundPerformed DEF Grant
  <1>12. ASSUME Close PROVE Rest'
    <2>1. /\ spc = "close" /\ spc' = "last"
          /\ UNCHANGED <<poolVars, OutsideRun, mStatus, mTaskNr, recorded, failed>>
      BY <1>12 DEF Close
    <2>2. RecordComplete'
      BY <2>1
    <2>3. ASSUME RunsControlled PROVE UNCHANGED control
      BY <1>12, <2>3 DEF Close
    <2>4. Open => RunsControlled
      BY DEF RunsControlled
    <2>5. Open' => PerformedCount'
      BY <2>1, <2>3, <2>4
    <2>6. (TransitionCount /\ LastIsCurrent /\ FinalIsState /\ SelectedEnabled
              /\ CurrentWasNext)'
      BY <2>1
    <2>. QED  BY <2>2, <2>5, <2>6
  <1>13. ASSUME CloseExecution PROVE Rest'
    BY <1>13 DEF CloseExecution, SetFinal
  <1>14. Rest'
    BY <1>5, <1>6, <1>7, <1>8, <1>9, <1>10, <1>11, <1>12, <1>13 DEF SchedulerStep
  <1>. QED  BY <1>1, <1>14 DEF RecordInv

\* Every step preserves it.
LEMMA NextRecord == RecordInv /\ [Next]_vars => RecordInv'
  <1>. SUFFICES ASSUME RecordInv, [Next]_vars PROVE RecordInv'
    OBVIOUS
  <1>1. CASE ~ Ended /\ SchedulerStep
    BY <1>1, SchedulerStepRecord
  <1>2. ASSUME ~ Ended, NEW t \in Thread, ThreadStep(t) PROVE RecordInv'
    BY <1>2, ThreadStepRecord
  <1>3. CASE UNCHANGED vars
    <2>1. IInv'
      BY <1>3, NextInv DEF RecordInv
    <2>. QED  BY <1>3, <2>1
              DEF vars, poolVars, programVars, schedulerVars, runVars, otherVars, RecordInv,
                  RecordComplete, Open, RecordOpen, TransitionCount, PerformedCount,
                  HasTurn, LastIsCurrent, FinalIsState, ProgramState, PostedSet,
                  SelectedEnabled, CurrentWasNext
  <1>. QED  BY <1>1, <1>2, <1>3 DEF Next, Over

\* RecordInv holds in every reachable state.
THEOREM RecordInvariance == Spec => []RecordInv
  BY InitRecord, NextRecord, PTL DEF Spec

\* When a thread is selected, and when the execution is done, what is recorded is as
\* much as the program has performed, up to the current task, for any program: the
\* push_back of Scheduler::run comes a round late and still misses nothing.
THEOREM RecordIsComplete == Spec => []RecordComplete
  BY RecordInvariance, PTL DEF RecordInv

\* A step that records a transition records one that fits the states around it: it is
\* next and, but for a deadlock, enabled in the first one, and the other threads keep
\* their next instructions in the second one.
LEMMA StepRecords ==
  ASSUME RecordInv, [Next]_vars, recorded'.nr > recorded.nr
  PROVE  LET t == recorded'.last.tid
             pre == recorded.final
             post == recorded'.final
         IN  /\ pre.next[t] = recorded'.last
             /\ t \in pre.enabled <=> mStatus' # "DEADLOCK"
             /\ \A u \in Thread \ {t} :
                    pre.next[u] # NoTask => post.next[u] = pre.next[u]
  <1>1. IInv /\ recorded.nr \in Nat
    BY DEF RecordInv, IInv, TypeInv, TypeOK
  <1>2. ~ Ended /\ SchedulerStep
    <2>1. ASSUME NEW t \in Thread, ThreadStep(t) PROVE FALSE
      BY <1>1, <2>1, ThreadStepKeepsRecord
    <2>2. ~ UNCHANGED vars
      BY <1>1 DEF vars, runVars
    <2>. QED  BY <2>1, <2>2 DEF Next, Over
  <1>3. Record \/ (Select /\ SelectDeadlock)
    <2>1. Start \/ WaitForPosts \/ Dispatch \/ MakeCurrent \/ Grant \/ Close
            => recorded' = recorded
      BY DEF Start, WaitForPosts, Dispatch, MakeCurrent, Grant, Close
    <2>2. ~ CloseExecution
      BY <1>1 DEF CloseExecution, SetFinal
    <2>3. Select => SelectDeadlock
      BY <1>1 DEF Select, SelectScheduled, SelectByStrategy, SelectDone
    <2>. QED  BY <1>1, <1>2, <2>1, <2>2, <2>3 DEF SchedulerStep
  <1>4. spc \in {"record", "select"}
    BY <1>3 DEF Record, Select
  <1>5. Open /\ RecordOpen
    BY <1>1, <1>2, <1>4 DEF IInv, LoopRunning, Round, Ended, Open, RecordInv
  <1>6. CASE Record
    <2>1. mTaskNr > 0 /\ PushBack(mCurrentTask) /\ UNCHANGED mStatus /\ spc = "record"
      BY <1>1, <1>6 DEF Record, SetFinal, IInv, TypeInv, TypeOK
    <2>. QED  BY <1>5, <2>1
              DEF Open, RecordOpen, CurrentWasNext, PushBack, ProgramState
  <1>7. CASE Select /\ SelectDeadlock
    <2>1. recorded.final = ProgramState
      BY <1>5, <1>7 DEF Select, RecordOpen, FinalIsState
    <2>2. PICK p \in PostedSet : PushBack(mTasks[p])
      BY <1>7 DEF SelectDeadlock
    <2>3. mTasks[p].tid = p
      BY <1>1, <1>5, <2>2, PostedIsOwn DEF PostedSet
    <2>4. mThreads[p] # "ENABLED"
      BY <1>7, <2>2 DEF SelectDeadlock, SelectsDeadlock, EnabledSet, PostedSet
    <2>. QED  BY <1>7, <2>1, <2>2, <2>3, <2>4
              DEF PushBack, ProgramState, PostedSet, SelectDeadlock
  <1>. QED  BY <1>3, <1>6, <1>7

\* The recorded transitions and states fit together, for any number of threads and
\* any program.
THEOREM RecordFits == Spec => RecordedTransitions
  <1>1. RecordInv /\ [Next]_vars =>
          [recorded'.nr > recorded.nr =>
             LET t == recorded'.last.tid
                 pre == recorded.final
                 post == recorded'.final
             IN  /\ pre.next[t] = recorded'.last
                 /\ t \in pre.enabled <=> mStatus' # "DEADLOCK"
                 /\ \A u \in Thread \ {t} :
                        pre.next[u] # NoTask => post.next[u] = pre.next[u]]_vars
    BY StepRecords
  <1>. QED  BY <1>1, RecordInvariance, PTL DEF Spec, RecordedTransitions
=============================================================================
