------------------------- MODULE RecordReplayProofs -------------------------
(***************************************************************************)
(* The proofs about RecordReplay.  What is true of the files holds for any *)
(* programs that can be built or not; that a replay follows its record,    *)
(* and comes to the end of it (ReplayOutcome), is proved for the programs  *)
(* in which only the main thread creates threads.                          *)
(*                                                                         *)
(* The execution so far decides which threads wait, which of them can go   *)
(* on and which one NonPreemptive prefers (SettledState).  So two runs     *)
(* that agree on their first transitions agree on what may follow them,    *)
(* and neither can go on where the other one has come to its end.          *)
(*                                                                         *)
(* At the end, for the same programs: the values of all variables.         *)
(***************************************************************************)
EXTENDS RecordReplayInvariant, TLAPS, FiniteSetTheorems, SequenceTheorems
-----------------------------------------------------------------------------
(***************************************************************************)
(* The files.                                                              *)
(***************************************************************************)
\* What an assignment to a field does.
LEMMA WholeAssigned ==
  ASSUME NEW file, IsFile(file), NEW b \in BOOLEAN
  PROVE  /\ IsFile([file EXCEPT !.whole = b])
         /\ [file EXCEPT !.whole = b].whole = b
         /\ [file EXCEPT !.whole = b].run = file.run
         /\ [file EXCEPT !.whole = b].program = file.program
         /\ [file EXCEPT !.whole = b].execution = file.execution
         /\ \A c : [[file EXCEPT !.whole = b] EXCEPT !.whole = c] = [file EXCEPT !.whole = c]
         /\ file = [file EXCEPT !.whole = file.whole]
  <1>. DEFINE New(c) == [program |-> file.program, run |-> file.run, execution |-> file.execution,
                         end |-> file.end, strategy |-> file.strategy,
                         scheduled |-> file.scheduled, whole |-> c]
  <1>1. \A c : [file EXCEPT !.whole = c] = New(c)
    BY DEF IsFile
  <1>2. \A c : [New(b) EXCEPT !.whole = c] = New(c)
    OBVIOUS
  <1>3. IsFile(New(b))
    BY DEF IsFile
  <1>4. file = New(file.whole)
    BY DEF IsFile
  <1>. QED  BY <1>1, <1>2, <1>3, <1>4

LEMMA FileAssigned ==
  ASSUME NEW files, AreFiles(files), NEW file, IsFile(file), NEW changed
  PROVE  /\ changed = [files EXCEPT !.record = file] =>
               AreFiles(changed) /\ changed.record = file /\ changed.short = files.short
         /\ changed = [files EXCEPT !.short = file] =>
               AreFiles(changed) /\ changed.short = file /\ changed.record = files.record
  BY DEF AreFiles

LEMMA NoFileIsFile ==
  /\ IsFile(NoFile) /\ AreFiles(NoFiles)
  /\ NoFile.run = 0 /\ NoFile.whole = FALSE
  /\ NoFiles.record = NoFile /\ NoFiles.short = NoFile
  BY DEF IsFile, AreFiles, NoFile, NoFiles

LEMMA OnlyFiles ==
  ASSUME NEW files, AreFiles(files)
  PROVE  files.record = NoFile /\ files.short = NoFile <=> files = NoFiles
  BY DEF AreFiles, NoFiles

\* Most steps of the process do not touch the files.
LEMMA StaysInv ==
  ASSUME FilesInv, UNCHANGED callerVars, UNCHANGED ppc \/ (ppc = "running" /\ ppc' = "over")
  PROVE  FilesInv'
  BY DEF FilesInv, FilesTyped, CallInv, RecordInv, ShortInv, ReturnsOwnRecord, AtCaller,
         callerVars, buildVars

\* During the call the files of the process change, one at a time.
LEMMA ProcessWrites ==
  ASSUME FilesInv, ppc = "running",
         UNCHANGED <<processVars, buildVars, rpc, runs, out>>,
         AreFiles(cwd'),
         cwd'.record # NoFile => cwd'.record.run = runs /\ cwd'.record.program = program,
         cwd'.short # NoFile =>
             /\ cwd'.record.run = runs /\ cwd'.record.whole
             /\ cwd'.short = [cwd'.record EXCEPT !.whole = cwd'.short.whole]
  PROVE  FilesInv'
  <1>. USE DEF processVars, buildVars
  <1>1. /\ ppc = "running" /\ ppc' = "running" /\ rpc = "fork" /\ rpc' = "fork" 
        /\ runs' = runs /\ out' = out
        /\ runs > 0 /\ runs \in Nat /\ program = wanted /\ program' = program /\ wanted' = wanted
    BY DEF FilesInv, FilesTyped, CallInv
  <1>2. FilesTyped'
    BY <1>1 DEF FilesInv, FilesTyped
  <1>3. CallInv'
    BY <1>1 DEF FilesInv, CallInv
  <1>4. RecordInv'
    BY <1>1 DEF RecordInv, AtCaller
  <1>5. ShortInv' /\ ReturnsOwnRecord'
    BY <1>1 DEF ShortInv, ReturnsOwnRecord
  <1>. QED  BY <1>2, <1>3, <1>4, <1>5 DEF FilesInv

LEMMA OpenRecordInv == FilesInv /\ OpenRecord => FilesInv'
  <1>. SUFFICES ASSUME FilesInv, OpenRecord PROVE FilesInv'
    OBVIOUS
  <1>1. CASE trace = <<>>
    BY <1>1, StaysInv DEF OpenRecord, Gone, callerVars
  <1>2. CASE trace # <<>>
    <2>. DEFINE new == [program |-> program, run |-> runs, execution |-> trace,
                        end |-> status, strategy |-> StrategyTag,
                        scheduled |-> Len(schedule), whole |-> FALSE]
    <2>1. ppc = "running" /\ rpc = "fork" /\ runs > 0 /\ runs \in Nat /\ AreFiles(cwd)
      BY DEF OpenRecord, FilesInv, FilesTyped, CallInv
    <2>2. cwd.short = NoFile
      BY <2>1, NoFileIsFile DEF OpenRecord, FilesInv, RecordInv, ShortInv
    <2>3. IsFile(new) /\ new.run = runs /\ new.program = program
      BY <2>1 DEF IsFile
    <2>4. /\ cwd' = [cwd EXCEPT !.record = new]
          /\ UNCHANGED <<processVars, buildVars, rpc, runs, out>>
      BY <1>2 DEF OpenRecord
    <2>. HIDE DEF new
    <2>5. cwd'.record = new /\ cwd'.short = cwd.short /\ AreFiles(cwd')
      BY <2>1, <2>3, <2>4, FileAssigned
    <2>. QED  BY <2>1, <2>2, <2>3, <2>4, <2>5, ProcessWrites
  <1>. QED  BY <1>1, <1>2

LEMMA WriteRecordInv == FilesInv /\ WriteRecord => FilesInv'
  <1>. SUFFICES ASSUME FilesInv, WriteRecord PROVE FilesInv'
    OBVIOUS
  <1>. DEFINE new == [cwd.record EXCEPT !.whole = TRUE]
  <1>1. /\ ppc = "running" /\ rpc = "fork" /\ runs > 0 /\ runs \in Nat
        /\ AreFiles(cwd) /\ IsFile(cwd.record) /\ cwd.record.run = runs /\ ~ cwd.record.whole
    BY DEF WriteRecord, FilesInv, FilesTyped, CallInv, AreFiles
  <1>2. cwd.record # NoFile /\ cwd.short = NoFile
    BY <1>1, NoFileIsFile DEF FilesInv, ShortInv
  <1>3. cwd.record.program = program
    BY <1>1, <1>2 DEF FilesInv, RecordInv, CallInv
  <1>4. IsFile(new) /\ new.run = runs /\ new.program = program
    BY <1>1, <1>3, WholeAssigned
  <1>5. /\ cwd' = [cwd EXCEPT !.record = new]
        /\ UNCHANGED <<processVars, buildVars, rpc, runs, out>>
    BY DEF WriteRecord
  <1>. HIDE DEF new
  <1>6. cwd'.record = new /\ cwd'.short = cwd.short /\ AreFiles(cwd')
    BY <1>1, <1>4, <1>5, FileAssigned
  <1>. QED  BY <1>1, <1>2, <1>4, <1>5, <1>6, ProcessWrites

LEMMA OpenShortRecordInv == FilesInv /\ OpenShortRecord => FilesInv'
  <1>. SUFFICES ASSUME FilesInv, OpenShortRecord PROVE FilesInv'
    OBVIOUS
  <1>. DEFINE new == [cwd.record EXCEPT !.whole = FALSE]
  <1>1. /\ ppc = "running" /\ rpc = "fork" /\ runs > 0 /\ runs \in Nat
        /\ AreFiles(cwd) /\ IsFile(cwd.record) /\ cwd.record.run = runs /\ cwd.record.whole
    BY DEF OpenShortRecord, FilesInv, FilesTyped, CallInv, AreFiles
  <1>2. cwd.record.program = program
    BY <1>1, NoFileIsFile DEF FilesInv, RecordInv, CallInv
  <1>3. IsFile(new) /\ new = [cwd.record EXCEPT !.whole = new.whole]
    BY <1>1, WholeAssigned
  <1>4. /\ cwd' = [cwd EXCEPT !.short = new]
        /\ UNCHANGED <<processVars, buildVars, rpc, runs, out>>
    BY DEF OpenShortRecord
  <1>. HIDE DEF new
  <1>5. cwd'.short = new /\ cwd'.record = cwd.record /\ AreFiles(cwd')
    BY <1>1, <1>3, <1>4, FileAssigned
  <1>. QED  BY <1>1, <1>2, <1>3, <1>4, <1>5, ProcessWrites

LEMMA WriteShortRecordInv == FilesInv /\ WriteShortRecord => FilesInv'
  <1>. SUFFICES ASSUME FilesInv, WriteShortRecord PROVE FilesInv'
    OBVIOUS
  <1>. DEFINE new == [cwd.short EXCEPT !.whole = TRUE]
  <1>1. /\ ppc = "running" /\ rpc = "fork" /\ runs > 0 /\ runs \in Nat
        /\ AreFiles(cwd) /\ IsFile(cwd.short) /\ IsFile(cwd.record) /\ cwd.short.run = runs
    BY DEF WriteShortRecord, FilesInv, FilesTyped, CallInv, AreFiles
  <1>2. /\ cwd.record.run = runs /\ cwd.record.whole
        /\ cwd.short = [cwd.record EXCEPT !.whole = cwd.short.whole]
        /\ cwd.short.whole \in BOOLEAN
    BY <1>1, NoFileIsFile DEF FilesInv, ShortInv, IsFile
  <1>3. cwd.record.program = program
    BY <1>1, <1>2, NoFileIsFile DEF FilesInv, RecordInv, CallInv
  <1>4. new = [cwd.record EXCEPT !.whole = TRUE]
    BY <1>1, <1>2, WholeAssigned
  <1>5. IsFile(new) /\ new = [cwd.record EXCEPT !.whole = new.whole]
    BY <1>1, <1>4, WholeAssigned
  <1>6. /\ cwd' = [cwd EXCEPT !.short = new]
        /\ UNCHANGED <<processVars, buildVars, rpc, runs, out>>
    BY DEF WriteShortRecord
  <1>. HIDE DEF new
  <1>7. cwd'.short = new /\ cwd'.record = cwd.record /\ AreFiles(cwd')
    BY <1>1, <1>5, <1>6, FileAssigned
  <1>. QED  BY <1>1, <1>2, <1>3, <1>5, <1>6, <1>7, ProcessWrites

\* instrument leaves a new executable, or none, and the files in output_dir or none.
LEMMA InstrumentInv == FilesInv /\ Instrument => FilesInv'
  <1>. SUFFICES ASSUME FilesInv, Instrument PROVE FilesInv'
    OBVIOUS
  <1>1. PICK name \in Sources :
          /\ wanted' = name
          /\ program' \in Executables(name)
          /\ rpc' = IF name \in Unsupported THEN "threw" ELSE "idle"
    BY DEF Instrument
  <1>2. program' \in {wanted', NoProgram} /\ program' \in DOMAIN Programs \cup {NoProgram}
    BY <1>1 DEF Executables, Built, CompileToLlvmIr, RunInstrumentationPass,
                LinkWithSchedulerLibrary, Sources
  <1>3. /\ ppc # "running" /\ ppc' = ppc /\ rpc' \in {"idle", "threw"} /\ runs' = runs
        /\ cwd = NoFiles /\ cwd' = cwd /\ out' \in {out, NoFiles}
    BY <1>1 DEF Instrument, AtCaller, FilesInv, CallInv, RecordInv, processVars
  <1>4. FilesTyped'
    BY <1>3, NoFileIsFile DEF FilesInv, FilesTyped
  <1>. QED  BY <1>2, <1>3, <1>4, NoFileIsFile
            DEF FilesInv, CallInv, RecordInv, ShortInv, ReturnsOwnRecord, AtCaller

LEMMA RunUnderScheduleInv == FilesInv /\ RunUnderSchedule => FilesInv'
  <1>. SUFFICES ASSUME FilesInv, RunUnderSchedule PROVE FilesInv'
    OBVIOUS
  <1>1. /\ runs' = runs + 1 /\ runs \in Nat /\ rpc' = "fork"
        /\ ppc' = IF program = NoProgram THEN "over" ELSE "running"
        /\ cwd = NoFiles /\ cwd' = cwd /\ out' = out /\ UNCHANGED buildVars
    BY DEF RunUnderSchedule, FilesInv, FilesTyped, RecordInv
  <1>2. FilesTyped'
    BY <1>1 DEF FilesInv, FilesTyped
  <1>. QED  BY <1>1, <1>2, NoFileIsFile
            DEF FilesInv, CallInv, RecordInv, ShortInv, ReturnsOwnRecord, AtCaller, buildVars

LEMMA RenameRecordInv == FilesInv /\ RenameRecord => FilesInv'
  <1>. SUFFICES ASSUME FilesInv, RenameRecord PROVE FilesInv'
    OBVIOUS
  <1>1. /\ rpc = "fork" /\ ppc = "over" /\ runs > 0 /\ runs \in Nat /\ AreFiles(cwd)
        /\ AreFiles(out) /\ IsFile(cwd.record)
        /\ UNCHANGED <<ppc, program, wanted, runs>>
    BY DEF RenameRecord, FilesInv, FilesTyped, CallInv, AreFiles, processVars, buildVars
  <1>2. CASE cwd.record = NoFile
    <2>1. cwd.short = NoFile
      BY <1>1, <1>2, NoFileIsFile DEF FilesInv, ShortInv
    <2>2. cwd = NoFiles
      BY <1>1, <1>2, <2>1, OnlyFiles
    <2>. QED  BY <1>1, <1>2, <2>2, NoFileIsFile
              DEF RenameRecord, Rename, FilesInv, FilesTyped, CallInv, RecordInv, ShortInv,
                  ReturnsOwnRecord, AtCaller
  <1>3. CASE cwd.record # NoFile
    <2>1. /\ rpc' = "renamed"
          /\ out' = [out EXCEPT !.record = cwd.record]
          /\ cwd' = [cwd EXCEPT !.record = NoFile]
      BY <1>3 DEF RenameRecord, Rename, Moved
    <2>2. AreFiles(cwd') /\ cwd'.record = NoFile /\ cwd'.short = cwd.short
      BY <1>1, <2>1, NoFileIsFile, FileAssigned
    <2>3. AreFiles(out') /\ out'.record = cwd.record
      <3>1. ASSUME NEW file, IsFile(file), out' = [out EXCEPT !.record = file]
            PROVE  AreFiles(out') /\ out'.record = file
        BY <1>1, <3>1, FileAssigned
      <3>. QED  BY <1>1, <2>1, <3>1
    <2>. QED  BY <1>1, <1>3, <2>1, <2>2, <2>3
              DEF FilesInv, FilesTyped, CallInv, RecordInv, ShortInv, ReturnsOwnRecord, AtCaller
  <1>. QED  BY <1>2, <1>3

LEMMA RenameShortRecordInv == FilesInv /\ RenameShortRecord => FilesInv'
  <1>. SUFFICES ASSUME FilesInv, RenameShortRecord PROVE FilesInv'
    OBVIOUS
  <1>1. /\ rpc = "renamed" /\ runs > 0 /\ runs \in Nat /\ AreFiles(cwd)
        /\ AreFiles(out) /\ IsFile(cwd.short) /\ cwd.record = NoFile
        /\ ppc # "running" /\ UNCHANGED <<ppc, program, wanted, runs>>
    BY DEF RenameShortRecord, FilesInv, FilesTyped, CallInv, RecordInv, AreFiles,
           processVars, buildVars
  <1>2. CASE cwd.short = NoFile
    <2>1. cwd = NoFiles
      BY <1>1, <1>2, OnlyFiles
    <2>. QED  BY <1>1, <1>2, <2>1
              DEF RenameShortRecord, Rename, FilesInv, FilesTyped, CallInv, RecordInv, ShortInv,
                  ReturnsOwnRecord, AtCaller
  <1>3. CASE cwd.short # NoFile
    <2>1. /\ rpc' = "returned"
          /\ out' = [out EXCEPT !.short = cwd.short]
          /\ cwd' = [cwd EXCEPT !.short = NoFile]
      BY <1>3 DEF RenameShortRecord, Rename, Moved
    <2>2. AreFiles(out') /\ out'.record = out.record /\ out'.short = cwd.short
      BY <1>1, <2>1, FileAssigned
    <2>3. AreFiles(cwd') /\ cwd' = NoFiles
      BY <1>1, <2>1, NoFileIsFile, FileAssigned, OnlyFiles
    <2>4. /\ out.record.run = runs /\ out.record.whole /\ out.record.program = wanted
          /\ cwd.short = [out.record EXCEPT !.whole = cwd.short.whole]
      BY <1>1, <1>3 DEF FilesInv, RecordInv, ShortInv
    <2>. QED  BY <1>1, <2>1, <2>2, <2>3, <2>4, NoFileIsFile
              DEF FilesInv, FilesTyped, CallInv, RecordInv, ShortInv, ReturnsOwnRecord, AtCaller
  <1>. QED  BY <1>2, <1>3

LEMMA FilesStep == FilesInv /\ [Next]_vars => FilesInv'
  <1>. SUFFICES ASSUME FilesInv, [Next]_vars PROVE FilesInv'
    OBVIOUS
  <1>1. ASSUME NEW t \in Thread,
               AnnounceNext(t) \/ ThreadEnds(t) \/ PerformGranted(t) \/ PerformFreely(t)
        PROVE  FilesInv'
    BY <1>1, StaysInv DEF AnnounceNext, ThreadEnds, PerformGranted, PerformFreely
  <1>2. CASE \/ RecordPerformed \/ SelectScheduled \/ SelectByStrategy \/ SelectionError
             \/ SelectDone \/ SelectDeadlock
    BY <1>2, StaysInv DEF RecordPerformed, SelectScheduled, SelectByStrategy, SelectionError,
                          SelectDone, SelectDeadlock, callerVars
  <1>3. CASE UnknownThread \/ Exit \/ Timeout
    BY <1>3, StaysInv DEF UnknownThread, Controlled, Exit, Timeout, Gone
  <1>4. CASE UNCHANGED vars
    BY <1>4, StaysInv DEF vars, processVars
  <1>. QED
    BY <1>1, <1>2, <1>3, <1>4, OpenRecordInv, WriteRecordInv, OpenShortRecordInv,
       WriteShortRecordInv, InstrumentInv, RunUnderScheduleInv, RenameRecordInv,
       RenameShortRecordInv
       DEF Next, ProcessStep

\* The files of the calls are told apart, whatever fails and whenever a process is
\* killed: FilesInv holds for all programs.
THEOREM FilesInvariance == Spec => []FilesInv
  <1>1. Init => FilesInv
    BY NoFileIsFile DEF Init, FilesInv, FilesTyped, CallInv, RecordInv, ShortInv,
                        ReturnsOwnRecord, AtCaller
  <1>. QED  BY <1>1, FilesStep, PTL DEF Spec

\* A call of run_under_schedule that returns has moved its own two files to output_dir,
\* never those of a call that was killed before (replay.cpp, run_under_schedule).
THEOREM OwnRecordIsReturned == Spec => []ReturnsOwnRecord
  BY FilesInvariance, PTL DEF FilesInv

\* The record it returns is one of the source that instrument was called with last,
\* though a command of instrument may fail unnoticed (replay.cpp, instrument).
THEOREM WhatWasInstrumentedIsRun == Spec => []RunsWhatWasInstrumented
  <1>1. FilesInv => RunsWhatWasInstrumented
    BY DEF FilesInv, RecordInv, RunsWhatWasInstrumented
  <1>. QED  BY <1>1, FilesInvariance, PTL

-----------------------------------------------------------------------------
(***************************************************************************)
(* What a tid says.                                                        *)
(***************************************************************************)
LEMMA CreationsCounted ==
  ASSUME NEW name, NEW n \in Nat
  PROVE  /\ IsFiniteSet(Creations(Programs[name]["main"], n))
         /\ NrCreations(name, n) \in Nat
  <1>1. IsFiniteSet(1 .. n)
    BY FS_Interval
  <1>2. Creations(Programs[name]["main"], n) \in SUBSET (1 .. n)
    BY DEF Creations
  <1>. QED  BY <1>1, <1>2, FS_Subset, FS_CardinalityType DEF NrCreations

LEMMA NoCreation == ASSUME NEW name PROVE NrCreations(name, 0) = 0
  <1>1. Creations(Programs[name]["main"], 0) = {}
    BY DEF Creations
  <1>. QED  BY <1>1, FS_EmptySet DEF NrCreations

LEMMA NextCreation ==
  ASSUME NEW name, NEW n \in Nat
  PROVE  NrCreations(name, n + 1) =
             NrCreations(name, n) + (IF Programs[name]["main"][n + 1].op = "Spawn" THEN 1 ELSE 0)
  <1>. DEFINE C(k) == Creations(Programs[name]["main"], k)
  <1>1. CASE Programs[name]["main"][n + 1].op = "Spawn"
    <2>1. C(n + 1) = C(n) \cup {n + 1} /\ n + 1 \notin C(n)
      BY <1>1 DEF Creations
    <2>. QED  BY <1>1, <2>1, CreationsCounted, FS_AddElement DEF NrCreations
  <1>2. CASE Programs[name]["main"][n + 1].op # "Spawn"
    <2>1. C(n + 1) = C(n)
      BY <1>2 DEF Creations
    <2>2. NrCreations(name, n + 1) = NrCreations(name, n)
      BY <2>1 DEF NrCreations
    <2>. QED  BY <1>2, <2>2, CreationsCounted
  <1>. QED  BY <1>1, <1>2

LEMMA CreationsGrow ==
  ASSUME NEW name, NEW n \in Nat, NEW k \in Nat, k <= n
  PROVE  /\ NrCreations(name, k) <= NrCreations(name, n)
         /\ k < n /\ Programs[name]["main"][n].op = "Spawn" =>
                NrCreations(name, k) < NrCreations(name, n)
  <1>. DEFINE C(j) == Creations(Programs[name]["main"], j)
  <1>1. C(k) \in SUBSET C(n)
    BY DEF Creations
  <1>2. /\ Cardinality(C(k)) <= Cardinality(C(n))
        /\ Cardinality(C(n)) = Cardinality(C(k)) => C(n) = C(k)
    BY <1>1, CreationsCounted, FS_Subset
  <1>3. k < n /\ Programs[name]["main"][n].op = "Spawn" => n \in C(n) /\ n \notin C(k)
    BY DEF Creations
  <1>. QED  BY <1>2, <1>3, CreationsCounted DEF NrCreations

\* The t-th creation is found by t.
LEMMA CreationFound ==
  ASSUME NEW name \in DOMAIN Programs, NEW n \in DOMAIN Programs[name]["main"],
         Programs[name]["main"][n].op = "Spawn"
  PROVE  CreationOf(name, NrCreations(name, n)) = n
  <1>. DEFINE main == Programs[name]["main"]
              Is(k) == main[k].op = "Spawn" /\ NrCreations(name, k) = NrCreations(name, n)
  <1>1. DOMAIN main = 1 .. Len(main) /\ Len(main) \in Nat
    BY ProgramsAssumption
  <1>2. ASSUME NEW k \in DOMAIN main, Is(k) PROVE k = n
    <2>1. k \in Nat /\ n \in Nat
      BY <1>1, <1>2
    <2>2. ~ k < n
      <3>. SUFFICES ASSUME k < n PROVE FALSE
        OBVIOUS
      <3>1. NrCreations(name, k) < NrCreations(name, n)
        BY <2>1, CreationsGrow
      <3>. QED  BY <1>2, <2>1, <3>1, CreationsCounted
    <2>3. ~ n < k
      <3>. SUFFICES ASSUME n < k PROVE FALSE
        OBVIOUS
      <3>1. NrCreations(name, n) < NrCreations(name, k)
        BY <1>2, <2>1, CreationsGrow
      <3>. QED  BY <1>2, <2>1, <3>1, CreationsCounted
    <2>. QED  BY <2>1, <2>2, <2>3
  <1>3. Is(n)
    OBVIOUS
  <1>. QED  BY <1>2, <1>3 DEF CreationOf

LEMMA InstructionMade ==
  ASSUME NEW t \in Thread, NEW op, NEW operand,
         \/ op \in ManageOp /\ operand \in Thread
         \/ op \in MemoryOp \cup LockOp /\ operand \in Objects
  PROVE  LET instr == [tid |-> t, op |-> op, atomic |-> FALSE, operand |-> operand]
         IN  instr \in Instruction /\ instr # NoTask
  <1>. DEFINE instr == [tid |-> t, op |-> op, atomic |-> FALSE, operand |-> operand]
  <1>1. CASE op \in ManageOp /\ operand \in Thread
    <2>1. instr \in [tid : Thread, op : ManageOp, operand : Thread, atomic : {FALSE}]
      BY <1>1
    <2>. QED  BY <2>1, NoTaskAssumption DEF Instruction
  <1>2. CASE op \in LockOp /\ operand \in Objects
    <2>1. instr \in [tid : Thread, op : LockOp, operand : Objects, atomic : {FALSE}]
      BY <1>2
    <2>. QED  BY <2>1, NoTaskAssumption DEF Instruction
  <1>3. CASE op \in MemoryOp /\ operand \in Objects
    <2>1. instr \in [tid : Thread, op : MemoryOp, operand : Objects, atomic : BOOLEAN]
      BY <1>3
    <2>. QED  BY <2>1, NoTaskAssumption DEF Instruction
  <1>. QED  BY <1>1, <1>2, <1>3

\* The instructions of a program are instructions.  Only main creates and joins.
LEMMA InstructionTyped ==
  ASSUME NEW name \in DOMAIN Programs, OnlyMainCreates(name), NEW t \in Thread,
         RoutineOf(name, t) \in DOMAIN Programs[name],
         t # 0 => RoutineOf(name, t) # "main",
         NEW n \in DOMAIN Programs[name][RoutineOf(name, t)]
  PROVE  /\ InstructionOf(name, t, n) \in Instruction
         /\ InstructionOf(name, t, n).tid = t
         /\ InstructionOf(name, t, n).op = Programs[name][RoutineOf(name, t)][n].op
         /\ InstructionOf(name, t, n).op = "Spawn" =>
                t = 0 /\ InstructionOf(name, t, n).operand = NrCreations(name, n)
         /\ InstructionOf(name, t, n) # NoTask
  <1>. DEFINE r == RoutineOf(name, t)
              steps == Programs[name][r]
              step == steps[n]
              instr == InstructionOf(name, t, n)
  <1>1. /\ DOMAIN steps = 1 .. Len(steps) /\ Len(steps) \in Nat
        /\ step.op \in MemoryOp \cup LockOp \cup ManageOp
        /\ OnObject(step) => step.arg \in Objects
        /\ step.op = "Join" => step.arg \in 1 .. Cardinality(Creations(steps, n - 1))
    BY ProgramsAssumption
  <1>2. step.op = "Spawn" => t = 0
    BY DEF OnlyMainCreates, OneCreator
  <1>3. instr = [tid |-> t, op |-> step.op, atomic |-> FALSE, operand |-> instr.operand]
    BY DEF InstructionOf
  <1>4. CASE step.op = "Spawn"
    <2>1. t = 0 /\ r = "main"
      BY <1>2, <1>4 DEF RoutineOf
    <2>2. instr.operand = NrCreations(name, n)
      BY <1>4 DEF InstructionOf
    <2>3. n \in Nat /\ Len(steps) \in Nat /\ n <= Len(steps)
      BY <1>1
    <2>4. NrCreations(name, Len(steps)) < NrThreads
      BY <2>1, ProgramsAssumption DEF NrCreations
    <2>5. NrCreations(name, n) \in Thread
      BY <2>3, <2>4, CreationsGrow, CreationsCounted, NrThreadsAssumption DEF Thread
    <2>6. instr \in Instruction /\ instr # NoTask
      BY <1>3, <1>4, <2>2, <2>5, InstructionMade DEF ManageOp
    <2>7. instr.tid = t /\ instr.op = step.op
      BY <1>3
    <2>. HIDE DEF instr
    <2>. QED  BY <1>4, <2>1, <2>2, <2>6, <2>7 DEF instr
  <1>5. CASE step.op = "Join"
    <2>0. n - 1 \in Nat /\ n \in Nat /\ n <= Len(steps) /\ Len(steps) \in Nat
      BY <1>1
    <2>1. Creations(steps, n - 1) # {}
      <3>1. Cardinality(Creations(steps, n - 1)) # 0
        BY <1>1, <1>5
      <3>. QED  BY <3>1, FS_EmptySet
    <2>2. PICK k \in 1 .. n - 1 : steps[k].op = "Spawn"
      BY <2>1 DEF Creations
    <2>3. k \in DOMAIN steps
      BY <1>1, <2>0
    <2>4. t = 0 /\ r = "main"
      BY <2>2, <2>3 DEF OnlyMainCreates, OneCreator, RoutineOf
    <2>5. NrCreations(name, n - 1) = Cardinality(Creations(steps, n - 1))
      BY <2>4 DEF NrCreations
    <2>6. instr.operand = [j \in 1 .. NrCreations(name, n - 1) |-> j][step.arg]
      BY <1>5, <2>4 DEF InstructionOf, ChildrenOf
    <2>7. instr.operand = step.arg
      BY <1>1, <1>5, <2>5, <2>6
    <2>8. NrCreations(name, n - 1) <= NrCreations(name, Len(steps))
      BY <2>0, CreationsGrow
    <2>9. NrCreations(name, Len(steps)) < NrThreads
      BY <2>4, ProgramsAssumption DEF NrCreations
    <2>10. step.arg \in Thread
      BY <1>1, <1>5, <2>0, <2>5, <2>8, <2>9, CreationsCounted, NrThreadsAssumption DEF Thread
    <2>11. instr \in Instruction /\ instr # NoTask
      BY <1>3, <1>5, <2>7, <2>10, InstructionMade DEF ManageOp
    <2>12. instr.tid = t /\ instr.op = step.op
      BY <1>3
    <2>. HIDE DEF instr
    <2>. QED  BY <1>5, <2>11, <2>12 DEF instr
  <1>6. CASE step.op \notin {"Spawn", "Join"}
    <2>1. instr.operand = step.arg
      BY <1>6 DEF InstructionOf
    <2>2. step.op \in MemoryOp \cup LockOp /\ step.arg \in Objects
      BY <1>1, <1>6 DEF OnObject, ManageOp
    <2>3. instr \in Instruction /\ instr # NoTask
      BY <1>3, <2>1, <2>2, InstructionMade
    <2>4. instr.tid = t /\ instr.op = step.op
      BY <1>3
    <2>. HIDE DEF instr
    <2>. QED  BY <1>6, <2>3, <2>4 DEF instr
  <1>. QED  BY <1>4, <1>5, <1>6

\* The transitions are counted one by one.
LEMMA TransitionsCounted ==
  ASSUME NEW execution, NEW t, NEW n \in Nat
  PROVE  /\ IsFiniteSet(TransitionsOf(execution, t, n))
         /\ NrTransitions(execution, t, n) \in Nat
         /\ NrTransitions(execution, t, 0) = 0
  <1>1. IsFiniteSet(1 .. n)
    BY FS_Interval
  <1>2. TransitionsOf(execution, t, n) \in SUBSET (1 .. n)
    BY DEF TransitionsOf
  <1>3. TransitionsOf(execution, t, 0) = {}
    BY DEF TransitionsOf
  <1>. QED  BY <1>1, <1>2, <1>3, FS_Subset, FS_CardinalityType, FS_EmptySet DEF NrTransitions

LEMMA TransitionAppended ==
  ASSUME NEW execution \in Seq(Instruction), NEW instr \in Instruction, NEW t
  PROVE  LET longer == Append(execution, instr)
         IN  /\ \A n \in 0 .. Len(execution) :
                    NrTransitions(longer, t, n) = NrTransitions(execution, t, n)
             /\ NrTransitions(longer, t, Len(longer)) =
                    NrTransitions(execution, t, Len(execution)) + (IF instr.tid = t THEN 1 ELSE 0)
  <1>. DEFINE longer == Append(execution, instr)
              len == Len(execution)
  <1>1. /\ len \in Nat /\ Len(longer) = len + 1 /\ longer[len + 1] = instr
        /\ \A k \in 1 .. len : longer[k] = execution[k]
    OBVIOUS
  <1>. HIDE DEF longer, len
  <1>2. \A n \in 0 .. len : TransitionsOf(longer, t, n) = TransitionsOf(execution, t, n)
    BY <1>1 DEF TransitionsOf
  <1>3. TransitionsOf(longer, t, len + 1) =
            TransitionsOf(execution, t, len) \cup (IF instr.tid = t THEN {len + 1} ELSE {})
    BY <1>1 DEF TransitionsOf
  <1>4. len + 1 \notin TransitionsOf(execution, t, len)
    BY <1>1 DEF TransitionsOf
  <1>5. NrTransitions(longer, t, len + 1) =
            NrTransitions(execution, t, len) + (IF instr.tid = t THEN 1 ELSE 0)
    <2>1. CASE instr.tid = t
      <3>1. TransitionsOf(longer, t, len + 1) = TransitionsOf(execution, t, len) \cup {len + 1}
        BY <1>3, <2>1
      <3>. QED  BY <1>1, <1>4, <2>1, <3>1, TransitionsCounted, FS_AddElement DEF NrTransitions
    <2>2. CASE instr.tid # t
      <3>1. NrTransitions(longer, t, len + 1) = NrTransitions(execution, t, len)
        BY <1>3, <2>2 DEF NrTransitions
      <3>. QED  BY <1>1, <2>2, <3>1, TransitionsCounted
    <2>. QED  BY <2>1, <2>2
  <1>6. \A n \in 0 .. len : NrTransitions(longer, t, n) = NrTransitions(execution, t, n)
    BY <1>2 DEF NrTransitions
  <1>. QED  BY <1>1, <1>5, <1>6 DEF longer, len

\* An execution grows by the next instruction of a thread.
LEMMA ExecutionAppended ==
  ASSUME NEW execution, NEW name, IsExecutionOf(execution, name), NEW instr \in Instruction,
         instr = InstructionOf(name, instr.tid,
                               NrTransitions(execution, instr.tid, Len(execution)) + 1)
  PROVE  IsExecutionOf(Append(execution, instr), name)
  <1>. DEFINE longer == Append(execution, instr)
              len == Len(execution)
  <1>1. execution \in Seq(Instruction)
    BY DEF IsExecutionOf
  <1>2. /\ len \in Nat /\ longer \in Seq(Instruction)
        /\ DOMAIN longer = 1 .. len + 1 /\ longer[len + 1] = instr
        /\ \A k \in 1 .. len : longer[k] = execution[k] /\ k \in DOMAIN execution
    BY <1>1
  <1>3. \A t : \A n \in 0 .. len : NrTransitions(longer, t, n) = NrTransitions(execution, t, n)
    BY <1>1, TransitionAppended
  <1>. HIDE DEF longer, len
  <1>4. ASSUME NEW k \in DOMAIN longer
        PROVE  longer[k] = InstructionOf(name, longer[k].tid,
                                         NrTransitions(longer, longer[k].tid, k - 1) + 1)
    <2>1. k - 1 \in 0 .. len
      BY <1>2
    <2>2. CASE k = len + 1
      <3>1. longer[k] = instr /\ k - 1 = len
        BY <1>2, <2>2
      <3>. QED  BY <1>3, <2>1, <3>1 DEF len
    <2>3. CASE k \in 1 .. len
      BY <1>2, <1>3, <2>1, <2>3 DEF IsExecutionOf
    <2>. QED  BY <1>2, <2>2, <2>3
  <1>. QED  BY <1>2, <1>4 DEF IsExecutionOf, longer

\* The tids of an execution determine its instructions.
LEMMA TidsDetermine ==
  ASSUME NEW name, NEW one, NEW other, IsExecutionOf(one, name), IsExecutionOf(other, name),
         NEW n \in Nat, n <= Len(one), n <= Len(other),
         \A k \in 1 .. n : one[k].tid = other[k].tid
  PROVE  \A k \in 1 .. n : one[k] = other[k]
  <1>. TAKE k \in 1 .. n
  <1>1. k \in DOMAIN one /\ k \in DOMAIN other
    BY DEF IsExecutionOf
  <1>. DEFINE t == one[k].tid
  <1>2. TransitionsOf(one, t, k - 1) = TransitionsOf(other, t, k - 1)
    BY DEF TransitionsOf
  <1>. QED  BY <1>1, <1>2 DEF IsExecutionOf, NrTransitions

-----------------------------------------------------------------------------
(***************************************************************************)
(* The steps of the process.                                               *)
(***************************************************************************)
\* What is known of a thread under control.
LEMMA UnderControl ==
  ASSUME FilesInv, TraceInv, Controls
  PROVE  /\ ppc = "running" /\ status = "RUNNING" /\ OnlyMainCreates(program)
         /\ program \in DOMAIN Programs
         /\ 0 \in Thread /\ at[0] \in Nat
         /\ nextTid = 1 + NrCreations(program, at[0]) /\ nextTid \in Nat /\ nextTid >= 1
         /\ stage \in [Thread -> Stage] /\ at \in [Thread -> Nat]
         /\ routine \in [Thread -> DOMAIN Programs[program]]
         /\ DOMAIN task = Thread /\ DOMAIN children = Thread
         /\ trace \in Seq(Instruction) /\ IsExecutionOf(trace, program)
         /\ \A t \in Thread : t \in Nat
         /\ RoutineOf(program, 0) = "main" /\ routine[0] = "main"
  <1>1. /\ ppc = "running" /\ status = "RUNNING" /\ OnlyMainCreates(program) /\ Running
        /\ program # NoProgram
    BY DEF Controls, Running, FilesInv, CallInv
  <1>2. program \in DOMAIN Programs
    BY <1>1 DEF FilesInv, CallInv
  <1>3. 0 \in Thread /\ \A t \in Thread : t \in Nat
    BY NrThreadsAssumption DEF Thread
  <1>4. /\ stage \in [Thread -> Stage] /\ at \in [Thread -> Nat]
        /\ routine \in [Thread -> DOMAIN Programs[program]]
        /\ DOMAIN task = Thread /\ DOMAIN children = Thread
        /\ nextTid = 1 + NrCreations(program, at[0])
    BY DEF TraceInv, ProcessTyped, ThreadsInv
  <1>5. at[0] \in Nat /\ NrCreations(program, at[0]) \in Nat
    BY <1>3, <1>4, CreationsCounted
  <1>6. nextTid \in Nat /\ nextTid >= 1
    BY <1>4, <1>5
  <1>7. IsExecutionOf(trace, program) /\ trace \in Seq(Instruction)
    BY <1>1 DEF TraceInv, ExecutionsInv, IsExecutionOf
  <1>8. RoutineOf(program, 0) = "main"
    BY DEF RoutineOf
  <1>9. routine[0] = "main"
    BY <1>3, <1>6, <1>8 DEF TraceInv, ThreadsInv
  <1>. QED  BY <1>1, <1>2, <1>3, <1>4, <1>5, <1>6, <1>7, <1>8, <1>9

\* Once the scheduler has come to an end only the execution matters.
LEMMA Uncontrolled ==
  ASSUME FilesInv, TraceInv, ppc = "running", ppc' = "running", status' # "RUNNING",
         UNCHANGED <<trace, callerVars>>
  PROVE  TraceInv'
  <1>1. NoProcess'
    BY DEF NoProcess
  <1>2. ProcessTyped' /\ ThreadsInv' /\ AnnouncedInv' /\ GrantedInv' /\ UnrecordedInv'
    BY DEF ProcessTyped, ThreadsInv, AnnouncedInv, GrantedInv, UnrecordedInv, Controls
  <1>3. ExecutionsInv' /\ ScheduleInv' /\ FollowsInv'
    BY DEF TraceInv, ExecutionsInv, ScheduleInv, FollowsInv, Running, Replays, callerVars, buildVars
  <1>. QED  BY <1>1, <1>2, <1>3 DEF TraceInv

\* If the process is gone nothing is left but the files.
LEMMA GoneTrace ==
  ASSUME FilesInv, TraceInv, Gone, UNCHANGED callerVars
  PROVE  TraceInv'
  <1>1. NoProcess'
    BY DEF Gone, NoProcess
  <1>2. ppc' # "running"
    BY DEF Gone
  <1>3. ProcessTyped' /\ ThreadsInv' /\ AnnouncedInv' /\ GrantedInv' /\ UnrecordedInv'
    BY <1>2 DEF ProcessTyped, ThreadsInv, AnnouncedInv, GrantedInv, UnrecordedInv, Controls, Running
  <1>4. ExecutionsInv' /\ ScheduleInv' /\ FollowsInv'
    BY <1>2 DEF TraceInv, ExecutionsInv, ScheduleInv, FollowsInv, Running, callerVars, buildVars
  <1>. QED  BY <1>1, <1>3, <1>4 DEF TraceInv

\* A step under control that records nothing leaves the executions as they are.
LEMMA NothingRecorded ==
  ASSUME FilesInv, TraceInv, ppc = "running", UNCHANGED <<ppc, trace, callerVars>>
  PROVE  NoProcess' /\ ExecutionsInv' /\ ScheduleInv' /\ FollowsInv'
  BY DEF TraceInv, NoProcess, ExecutionsInv, ScheduleInv, FollowsInv, Running, Replays,
         callerVars, buildVars

\* The next instruction of a thread is what the program says of its tid.
LEMMA NextInstruction ==
  ASSUME FilesInv, TraceInv, Controls, NEW t \in Thread, stage[t] = "busy", HasStep(t)
  PROVE  /\ NextTask(t) = InstructionOf(program, t, at[t] + 1)
         /\ NextTask(t) \in Instruction /\ NextTask(t).tid = t
         /\ NextTask(t).op = NextStep(t).op
         /\ NextStep(t).op = "Spawn" =>
               /\ t = 0 /\ NextTask(t).operand = nextTid
               /\ NextStep(t).arg \in DOMAIN Programs[program] \ {"main"}
         /\ at[t] + 1 \in DOMAIN Programs[program][routine[t]]
         /\ at[t] + 1 <= Len(Programs[program][routine[t]])
         /\ t < nextTid /\ routine[t] = RoutineOf(program, t)
  <1>. DEFINE r == RoutineOf(program, t)
              n == at[t] + 1
              steps == Programs[program][r]
              step == steps[n]
  <1>1. /\ t < nextTid /\ routine[t] = r /\ r \in DOMAIN Programs[program]
        /\ t # 0 => r # "main"
    <2>1. t < nextTid
      BY UnderControl DEF TraceInv, ThreadsInv
    <2>. QED  BY <2>1, UnderControl DEF TraceInv, ThreadsInv
  <1>2. Len(steps) \in Nat /\ DOMAIN steps = 1 .. Len(steps)
    BY <1>1, UnderControl, ProgramsAssumption
  <1>3. at[t] \in Nat /\ n <= Len(steps) /\ n \in DOMAIN steps /\ NextStep(t) = step
    BY <1>1, <1>2, UnderControl DEF HasStep, NextStep
  <1>4. /\ InstructionOf(program, t, n) \in Instruction
        /\ InstructionOf(program, t, n).tid = t
        /\ InstructionOf(program, t, n).op = step.op
        /\ InstructionOf(program, t, n).op = "Spawn" =>
               t = 0 /\ InstructionOf(program, t, n).operand = NrCreations(program, n)
    BY <1>1, <1>3, UnderControl, InstructionTyped
  <1>5. step.op = "Spawn" => NrCreations(program, n) = nextTid
    <2>. SUFFICES ASSUME step.op = "Spawn" PROVE NrCreations(program, n) = nextTid
      OBVIOUS
    <2>1. t = 0 /\ r = "main"
      BY <1>4, UnderControl
    <2>2. NrCreations(program, n) = NrCreations(program, at[0]) + 1
      BY <2>1, UnderControl, NextCreation
    <2>. QED  BY <2>2, UnderControl, CreationsCounted
  <1>6. children[t] = ChildrenOf(program, t, n - 1)
    <2>1. n - 1 = at[t]
      BY <1>3
    <2>. QED  BY <2>1, UnderControl DEF TraceInv, ThreadsInv
  <1>7. NextTask(t) = InstructionOf(program, t, n)
    BY <1>3, <1>5, <1>6 DEF NextTask, InstructionOf
  <1>8. step.op = "Spawn" => step.arg \in DOMAIN Programs[program] \ {"main"}
    BY <1>1, <1>3, UnderControl, ProgramsAssumption DEF OnlyMainCreates, OneCreator
  <1>. QED  BY <1>1, <1>3, <1>4, <1>5, <1>7, <1>8

\* A thread announces its next instruction.
LEMMA AnnounceTrace ==
  ASSUME FilesInv, TraceInv, Controls, NEW t \in Thread, AnnounceNext(t)
  PROVE  TraceInv'
  <1>. DEFINE r == routine[t]
              n == at[t] + 1
              instr == NextTask(t)
              creates == NextStep(t).op = "Spawn"
  <1>1. stage[t] = "busy" /\ HasStep(t) /\ Announce(instr)
    BY DEF AnnounceNext
  <1>2. /\ instr = InstructionOf(program, t, n) /\ instr \in Instruction /\ instr.tid = t
        /\ instr.op = NextStep(t).op
        /\ creates => t = 0 /\ instr.operand = nextTid
                      /\ NextStep(t).arg \in DOMAIN Programs[program] \ {"main"}
        /\ n <= Len(Programs[program][r]) /\ n \in DOMAIN Programs[program][r] /\ t < nextTid
        /\ NextStep(t) = Programs[program][r][n] /\ n \in Nat /\ at[t] \in Nat
    BY <1>1, NextInstruction, UnderControl DEF NextStep
  <1>3. /\ stage' = [stage EXCEPT ![t] = "waiting"]
        /\ task' = [task EXCEPT ![t] = instr]
        /\ at' = [at EXCEPT ![t] = n]
        /\ nextTid' = IF creates THEN nextTid + 1 ELSE nextTid
        /\ routine' = IF creates THEN [routine EXCEPT ![nextTid] = NextStep(t).arg] ELSE routine
        /\ children' = IF creates THEN [children EXCEPT ![t] = Append(@, nextTid)] ELSE children
        /\ UNCHANGED <<status, unrecorded, trace, ppc, callerVars>>
    BY <1>1, <1>2 DEF AnnounceNext, Announce
  <1>4. UNCHANGED <<program, source, schedule>> /\ Controls'
    BY <1>3 DEF Controls, Running, callerVars, buildVars
  <1>. HIDE DEF r, n, instr, creates
  <1>5. ProcessTyped'
    BY <1>2, <1>3, <1>4, UnderControl DEF ProcessTyped, Stage
  <1>6. NrCreations(program, at'[0]) = NrCreations(program, at[0]) + (IF creates THEN 1 ELSE 0)
    <2>1. CASE t = 0
      <3>1. at'[0] = at[0] + 1 /\ r = "main"
        BY <1>3, <2>1, UnderControl DEF n, r
      <3>2. creates <=> Programs[program]["main"][at[0] + 1].op = "Spawn"
        BY <1>2, <3>1, <2>1 DEF n, creates
      <3>. QED  BY <3>1, <3>2, UnderControl, NextCreation
    <2>2. CASE t # 0
      BY <1>2, <1>3, <2>2, UnderControl, CreationsCounted
    <2>. QED  BY <2>1, <2>2
  <1>7. nextTid' = 1 + NrCreations(program, at'[0])
    <2>1. NrCreations(program, at[0]) \in Nat
      BY UnderControl, CreationsCounted
    <2>. QED  BY <1>3, <1>6, <2>1, UnderControl
  <1>8. creates => NrCreations(program, n) = nextTid /\ r = "main"
    <2>. SUFFICES ASSUME creates PROVE NrCreations(program, n) = nextTid /\ r = "main"
      OBVIOUS
    <2>1. t = 0 /\ at'[0] = n /\ nextTid' = nextTid + 1
      BY <1>2, <1>3, UnderControl
    <2>2. NrCreations(program, n) \in Nat
      BY <1>2, CreationsCounted
    <2>. QED  BY <1>7, <2>1, <2>2, UnderControl DEF r
  <1>9. ASSUME NEW u \in Thread
        PROVE  /\ u < nextTid' => routine'[u] = RoutineOf(program, u)
               /\ 0 < u /\ u < nextTid' => routine'[u] # "main"
    <2>1. CASE creates /\ u = nextTid
      <3>1. routine'[u] = NextStep(t).arg /\ u # 0 /\ t = 0
        BY <1>2, <1>3, <2>1, UnderControl
      <3>2. NrCreations(program, n) = u /\ r = "main"
        BY <1>8, <2>1
      <3>3. CreationOf(program, u) = n
        BY <1>2, <2>1, <3>2, CreationFound, UnderControl DEF creates
      <3>4. RoutineOf(program, u) = Programs[program]["main"][n].arg
        BY <3>1, <3>3 DEF RoutineOf
      <3>. QED  BY <1>2, <2>1, <3>1, <3>2, <3>4
    <2>2. CASE ~ (creates /\ u = nextTid)
      <3>1. routine'[u] = routine[u] /\ (u < nextTid' => u < nextTid)
        BY <1>3, <2>2, UnderControl
      <3>. QED  BY <3>1, UnderControl DEF TraceInv, ThreadsInv
    <2>. QED  BY <2>1, <2>2
  <1>10. ASSUME NEW u \in Thread
        PROVE  /\ nextTid' <= u => stage'[u] = "unborn"
               /\ stage'[u] = "unborn" => at'[u] = 0
               /\ at'[u] <= Len(Programs[program][routine'[u]])
    <2>1. CASE u = t
      <3>1. routine'[u] = r
        BY <1>2, <1>3, <2>1, UnderControl DEF r
      <3>. QED  BY <1>2, <1>3, <2>1, <3>1, UnderControl
    <2>2. CASE u # t
      <3>1. /\ stage'[u] = stage[u] /\ at'[u] = at[u] /\ nextTid <= nextTid'
            /\ nextTid <= u => stage[u] = "unborn"
            /\ stage[u] = "unborn" => at[u] = 0
            /\ at[u] <= Len(Programs[program][routine[u]])
        BY <1>3, <2>2, UnderControl DEF TraceInv, ThreadsInv
      <3>2. CASE creates /\ u = nextTid
        <4>1. at'[u] = 0
          BY <3>1, <3>2, UnderControl
        <4>2. routine'[u] \in DOMAIN Programs[program]
          BY <1>4, <1>5 DEF ProcessTyped
        <4>3. Len(Programs[program][routine'[u]]) \in Nat
          BY <4>2, UnderControl, ProgramsAssumption
        <4>. QED  BY <1>3, <3>2, <4>1, <4>3, UnderControl
      <3>3. CASE ~ (creates /\ u = nextTid)
        <4>1. routine'[u] = routine[u]
          BY <1>3, <3>3, UnderControl
        <4>. QED  BY <3>1, <4>1, UnderControl, <1>3
      <3>. QED  BY <3>2, <3>3
    <2>. QED  BY <2>1, <2>2
  <1>11. ASSUME NEW u \in Thread PROVE children'[u] = ChildrenOf(program, u, at'[u])
    <2>0. children[u] = ChildrenOf(program, u, at[u])
      BY UnderControl DEF TraceInv, ThreadsInv
    <2>1. CASE u = 0 /\ creates
      <3>. DEFINE k == NrCreations(program, at[0])
      <3>1. k \in Nat /\ nextTid = k + 1 /\ NrCreations(program, at'[0]) = k + 1
        BY <1>6, <2>1, UnderControl, CreationsCounted
      <3>2. children'[0] = Append(children[0], k + 1)
        BY <1>2, <1>3, <2>1, <3>1, UnderControl
      <3>3. children[0] = [j \in 1 .. k |-> j]
        BY <2>0, <2>1 DEF ChildrenOf
      <3>4. ChildrenOf(program, 0, at'[0]) = [j \in 1 .. k + 1 |-> j]
        BY <3>1 DEF ChildrenOf
      <3>. HIDE DEF k
      <3>5. Append([j \in 1 .. k |-> j], k + 1) = [j \in 1 .. k + 1 |-> j]
        BY <3>1
      <3>. QED  BY <2>1, <3>2, <3>3, <3>4, <3>5
    <2>2. CASE u = 0 /\ ~ creates
      <3>1. NrCreations(program, at'[0]) = NrCreations(program, at[0])
        BY <1>6, <2>2, UnderControl, CreationsCounted
      <3>. QED  BY <1>3, <2>0, <2>2, <3>1 DEF ChildrenOf
    <2>3. CASE u # 0
      <3>1. children'[u] = children[u]
        BY <1>2, <1>3, <2>3, UnderControl
      <3>. QED  BY <2>0, <2>3, <3>1 DEF ChildrenOf
    <2>. QED  BY <2>1, <2>2, <2>3
  <1>12. ThreadsInv'
    BY <1>4, <1>7, <1>9, <1>10, <1>11 DEF ThreadsInv
  <1>13. AnnouncedInv'
    <2>. SUFFICES ASSUME NEW u \in Thread
                  PROVE  /\ at'[u] = NrTransitions(trace, u, Len(trace))
                                     + (IF IsPerformed(u) THEN 1 ELSE 0)
                                     + (IF IsAnnounced(u)' THEN 1 ELSE 0)
                         /\ IsAnnounced(u)' =>
                              /\ task'[u] = InstructionOf(program, u, at'[u])
                              /\ task'[u] \in Instruction
                              /\ task'[u].op = "Spawn" =>
                                    /\ u = 0 /\ task'[u].operand = nextTid' - 1
                                    /\ stage'[nextTid' - 1] = "unborn"
      BY <1>3, <1>4 DEF AnnouncedInv, IsPerformed
    <2>1. /\ at[u] = NrTransitions(trace, u, Len(trace)) + (IF IsPerformed(u) THEN 1 ELSE 0)
                     + (IF IsAnnounced(u) THEN 1 ELSE 0)
          /\ NrTransitions(trace, u, Len(trace)) \in Nat
      BY UnderControl, TransitionsCounted DEF TraceInv, AnnouncedInv
    <2>2. CASE u = t
      <3>1. ~ IsAnnounced(u) /\ IsAnnounced(u)' /\ at'[u] = at[u] + 1 /\ task'[u] = instr
        BY <1>1, <1>3, <2>2, UnderControl DEF IsAnnounced, n
      <3>2. task'[u].op = "Spawn" =>
              /\ u = 0 /\ task'[u].operand = nextTid' - 1 /\ stage'[nextTid' - 1] = "unborn"
        <4>. SUFFICES ASSUME creates PROVE instr.operand = nextTid' - 1 /\ t = 0
                                           /\ stage'[nextTid' - 1] = "unborn"
          BY <1>2, <2>2, <3>1 DEF creates
        <4>1. t = 0 /\ instr.operand = nextTid /\ nextTid' - 1 = nextTid
          BY <1>2, <1>3, UnderControl
        <4>2. nextTid \in Thread
          <5>1. nextTid \in Nat /\ NrCreations(program, n) = nextTid /\ r = "main"
            BY <1>8, UnderControl
          <5>2. /\ n <= Len(Programs[program]["main"]) /\ Len(Programs[program]["main"]) \in Nat
                /\ NrCreations(program, Len(Programs[program]["main"])) < NrThreads
            BY <1>2, <5>1, UnderControl, ProgramsAssumption DEF NrCreations
          <5>. QED  BY <1>2, <5>1, <5>2, CreationsGrow, CreationsCounted, NrThreadsAssumption DEF Thread
        <4>3. stage[nextTid] = "unborn" /\ nextTid # t
          BY <4>1, <4>2, UnderControl DEF TraceInv, ThreadsInv
        <4>. QED  BY <1>3, <4>1, <4>2, <4>3
      <3>. QED  BY <1>2, <1>3, <2>1, <2>2, <3>1, <3>2, UnderControl
    <2>3. CASE u # t
      <3>1. /\ at'[u] = at[u] /\ task'[u] = task[u] /\ (IsAnnounced(u)' <=> IsAnnounced(u))
        BY <1>3, <2>3, UnderControl DEF IsAnnounced
      <3>2. IsAnnounced(u) =>
              /\ task[u] = InstructionOf(program, u, at[u])
              /\ task[u] \in Instruction
              /\ task[u].op = "Spawn" =>
                    u = 0 /\ task[u].operand = nextTid - 1 /\ stage[nextTid - 1] = "unborn"
        BY DEF TraceInv, AnnouncedInv
      <3>3. IsAnnounced(u) /\ task[u].op = "Spawn" => nextTid' = nextTid /\ nextTid - 1 # t
        BY <1>1, <1>2, <1>3, <2>3, <3>2
      <3>. QED  BY <1>3, <2>1, <3>1, <3>2, <3>3
    <2>. QED  BY <2>2, <2>3
  <1>14. GrantedInv'
    <2>1. \A u \in Thread : stage'[u] = "granted" <=> stage[u] = "granted"
      BY <1>1, <1>3, UnderControl
    <2>. QED  BY <1>3, <1>4, <2>1 DEF TraceInv, GrantedInv, Replays, Scheduled, Entry
  <1>15. UnrecordedInv'
    BY <1>3, <1>4 DEF TraceInv, UnrecordedInv, Replays, Scheduled, Entry
  <1>. QED  BY <1>3, <1>5, <1>12, <1>13, <1>14, <1>15, UnderControl, NothingRecorded DEF TraceInv

\* A thread ends, or is chosen.
LEMMA StageChanges ==
  ASSUME FilesInv, TraceInv, Controls, NEW t, NEW new,
         t \in Thread => \/ stage[t] = "busy" /\ new = "ended"
                         \/ stage[t] = "waiting" /\ new = "granted",
         stage' = [stage EXCEPT ![t] = new],
         UNCHANGED <<task, nextTid, status, unrecorded, routine, at, children, trace, ppc,
                     callerVars>>
  PROVE  /\ ProcessTyped' /\ ThreadsInv' /\ AnnouncedInv' /\ UnrecordedInv'
         /\ NoProcess' /\ ExecutionsInv' /\ ScheduleInv' /\ FollowsInv'
  <1>1. UNCHANGED <<program, source, schedule>> /\ Controls'
    BY DEF Controls, Running, callerVars, buildVars
  <1>2. ASSUME NEW u \in Thread
        PROVE  /\ stage'[u] = "unborn" <=> stage[u] = "unborn"
               /\ IsAnnounced(u)' <=> IsAnnounced(u)
    BY UnderControl DEF IsAnnounced
  <1>3. stage[nextTid - 1] = "unborn" => stage'[nextTid - 1] = "unborn"
    BY UnderControl
  <1>4. ProcessTyped'
    BY <1>1, UnderControl DEF ProcessTyped, Stage
  <1>5. ThreadsInv'
    BY <1>1, <1>2 DEF TraceInv, ThreadsInv
  <1>6. AnnouncedInv'
    BY <1>1, <1>2, <1>3 DEF TraceInv, AnnouncedInv, IsPerformed
  <1>7. UnrecordedInv'
    BY <1>1 DEF TraceInv, UnrecordedInv, Replays, Scheduled, Entry
  <1>. QED  BY <1>4, <1>5, <1>6, <1>7, UnderControl, NothingRecorded

LEMMA EndTrace ==
  ASSUME FilesInv, TraceInv, Controls, NEW t \in Thread, ThreadEnds(t)
  PROVE  TraceInv'
  <1>1. /\ stage[t] = "busy" /\ stage' = [stage EXCEPT ![t] = "ended"]
        /\ UNCHANGED <<task, nextTid, status, unrecorded, routine, at, children, trace, ppc,
                       callerVars>>
    BY DEF ThreadEnds, End
  <1>2. GrantedInv'
    <2>1. \A u \in Thread : stage'[u] = "granted" <=> stage[u] = "granted"
      BY <1>1, UnderControl
    <2>2. UNCHANGED <<program, source, schedule>>
      BY <1>1 DEF callerVars, buildVars
    <2>. QED  BY <1>1, <2>1, <2>2 DEF TraceInv, GrantedInv, Controls, Running, Replays, Scheduled, Entry
  <1>. QED  BY <1>1, <1>2, StageChanges DEF TraceInv

\* A thread is chosen: the one that the schedule names, if there is an entry.
LEMMA ChooseTrace ==
  ASSUME FilesInv, TraceInv, Controls, NEW t, Choose(t), Scheduled => t = Entry,
         UNCHANGED <<routine, at, children, trace, ppc, callerVars>>
  PROVE  TraceInv'
  <1>1. /\ Quiet /\ unrecorded = NoTask /\ stage[t] = "waiting"
        /\ stage' = [stage EXCEPT ![t] = "granted"]
        /\ UNCHANGED <<task, nextTid, status, unrecorded>>
    BY DEF Choose, Settled
  <1>2. GrantedInv'
    <2>1. \A u \in Thread : stage[u] # "granted"
      BY <1>1 DEF Quiet
    <2>2. \A u \in Thread : stage'[u] = "granted" => u = t
      BY <1>1, <2>1, UnderControl
    <2>3. UNCHANGED <<program, source, schedule>>
      BY DEF callerVars, buildVars
    <2>. QED  BY <1>1, <2>2, <2>3 DEF GrantedInv, Scheduled, Entry
  <1>. QED  BY <1>1, <1>2, StageChanges DEF TraceInv

\* A thread performs its instruction.
LEMMA PerformTrace ==
  ASSUME FilesInv, TraceInv, Controls, NEW t \in Thread, PerformGranted(t)
  PROVE  TraceInv'
  <1>. DEFINE instr == task[t]
  <1>1. /\ stage[t] = "granted" /\ unrecorded' = instr
        /\ task' = [task EXCEPT ![t] = NoTask]
        /\ stage' = IF instr.op = "Spawn"
                    THEN [stage EXCEPT ![t] = "busy", ![instr.operand] = "busy"]
                    ELSE [stage EXCEPT ![t] = "busy"]
        /\ UNCHANGED <<nextTid, status, routine, at, children, trace, ppc, callerVars>>
    BY DEF PerformGranted, Perform, Performs
  <1>2. /\ unrecorded = NoTask
        /\ \A u \in Thread : stage[u] = "granted" => u = t
        /\ Replays /\ Scheduled => t = Entry
    BY <1>1 DEF TraceInv, GrantedInv
  <1>3. /\ IsAnnounced(t) /\ ~ IsPerformed(t)
        /\ instr = InstructionOf(program, t, at[t]) /\ instr \in Instruction
        /\ instr.op = "Spawn" =>
              t = 0 /\ instr.operand = nextTid - 1 /\ stage[nextTid - 1] = "unborn"
        /\ at[t] = NrTransitions(trace, t, Len(trace)) + 1
    <2>1. IsAnnounced(t) /\ ~ IsPerformed(t)
      BY <1>1, <1>2 DEF IsAnnounced, IsPerformed
    <2>2. NrTransitions(trace, t, Len(trace)) \in Nat
      BY UnderControl, TransitionsCounted
    <2>. QED  BY <2>1, <2>2 DEF TraceInv, AnnouncedInv
  <1>4. instr.tid = t /\ instr # NoTask
    <2>1. InstructionOf(program, t, at[t]).tid = t
      BY DEF InstructionOf
    <2>. QED  BY <1>3, <2>1, NoTaskAssumption
  <1>5. UNCHANGED <<program, source, schedule>> /\ Controls'
    BY <1>1 DEF Controls, Running, callerVars, buildVars
  <1>. HIDE DEF instr
  <1>6. ASSUME NEW u \in Thread, u # t
        PROVE  \/ stage'[u] = stage[u]
               \/ /\ u = nextTid - 1 /\ stage[u] = "unborn" /\ stage'[u] = "busy"
                  /\ instr.op = "Spawn" /\ t = 0
    BY <1>1, <1>3, <1>6, UnderControl
  <1>7. stage'[t] = "busy"
    BY <1>1, <1>3, UnderControl
  <1>8. ProcessTyped'
    <2>1. stage' \in [Thread -> Stage]
      BY <1>1, UnderControl DEF Stage
    <2>. QED  BY <1>1, <1>5, <2>1, UnderControl DEF ProcessTyped
  <1>9. ThreadsInv'
    <2>1. ASSUME NEW u \in Thread
          PROVE  /\ nextTid <= u => stage'[u] = "unborn"
                 /\ stage'[u] = "unborn" => at[u] = 0
      <3>1. /\ nextTid <= u => stage[u] = "unborn"
            /\ stage[u] = "unborn" => at[u] = 0
        BY DEF TraceInv, ThreadsInv
      <3>2. CASE u = t
        BY <1>1, <1>7, <3>1, <3>2
      <3>3. CASE u # t
        BY <1>6, <3>1, <3>3, UnderControl
      <3>. QED  BY <3>2, <3>3
    <2>. QED  BY <1>1, <1>5, <2>1 DEF TraceInv, ThreadsInv
  <1>10. AnnouncedInv'
    <2>. SUFFICES ASSUME NEW u \in Thread
                  PROVE  /\ at[u] = NrTransitions(trace, u, Len(trace))
                                    + (IF IsPerformed(u)' THEN 1 ELSE 0)
                                    + (IF IsAnnounced(u)' THEN 1 ELSE 0)
                         /\ IsAnnounced(u)' =>
                              /\ task'[u] = InstructionOf(program, u, at[u])
                              /\ task'[u] \in Instruction
                              /\ task'[u].op = "Spawn" =>
                                    /\ u = 0 /\ task'[u].operand = nextTid - 1
                                    /\ stage'[nextTid - 1] = "unborn"
      BY <1>1, <1>5 DEF AnnouncedInv
    <2>1. CASE u = t
      <3>1. IsPerformed(u)' /\ ~ IsAnnounced(u)'
        BY <1>1, <1>4, <1>7, <2>1 DEF IsPerformed, IsAnnounced
      <3>2. NrTransitions(trace, u, Len(trace)) \in Nat
        BY UnderControl, TransitionsCounted
      <3>. QED  BY <1>3, <2>1, <3>1, <3>2
    <2>2. CASE u # t
      <3>1. /\ at[u] = NrTransitions(trace, u, Len(trace))
                       + (IF IsPerformed(u) THEN 1 ELSE 0)
                       + (IF IsAnnounced(u) THEN 1 ELSE 0)
            /\ IsAnnounced(u) =>
                 /\ task[u] = InstructionOf(program, u, at[u])
                 /\ task[u] \in Instruction
                 /\ task[u].op = "Spawn" =>
                       /\ u = 0 /\ task[u].operand = nextTid - 1
                       /\ stage[nextTid - 1] = "unborn"
        BY DEF TraceInv, AnnouncedInv
      <3>2. ~ IsPerformed(u) /\ ~ IsPerformed(u)'
        BY <1>1, <1>2, <1>4, <2>2 DEF IsPerformed
      <3>3. (IsAnnounced(u)' <=> IsAnnounced(u)) /\ task'[u] = task[u]
        BY <1>1, <1>6, <2>2, UnderControl DEF IsAnnounced
      <3>4. ASSUME IsAnnounced(u), task[u].op = "Spawn"
            PROVE  stage'[nextTid - 1] = "unborn"
        <4>1. u = 0 /\ stage[nextTid - 1] = "unborn"
          BY <3>1, <3>4
        <4>2. instr.op # "Spawn" /\ nextTid - 1 # t
          BY <1>1, <1>3, <2>2, <4>1
        <4>. QED  BY <1>1, <4>1, <4>2, UnderControl
      <3>. QED  BY <3>1, <3>2, <3>3, <3>4
    <2>. QED  BY <2>1, <2>2
  <1>11. GrantedInv'
    <2>1. \A u \in Thread : stage'[u] # "granted"
      BY <1>2, <1>6, <1>7
    <2>. QED  BY <2>1 DEF GrantedInv
  <1>12. UnrecordedInv'
    BY <1>1, <1>2, <1>3, <1>4, <1>5 DEF UnrecordedInv, Replays, Scheduled, Entry
  <1>. QED  BY <1>1, <1>8, <1>9, <1>10, <1>11, <1>12, UnderControl, NothingRecorded DEF TraceInv

\* The execution follows the schedule if the next transition does.
LEMMA FollowsAppended ==
  ASSUME FilesInv, TraceInv, Controls, NEW instr \in Instruction,
         Replays /\ Scheduled => instr.tid = Entry,
         trace' = Append(trace, instr), UNCHANGED <<ppc, callerVars>>
  PROVE  FollowsInv'
  <1>1. UNCHANGED <<program, source, schedule>>
    BY DEF callerVars, buildVars
  <1>. SUFFICES ASSUME Replays, NEW k \in DOMAIN trace', k \in DOMAIN schedule
                PROVE  trace'[k].tid = schedule[k]
    BY <1>1 DEF FollowsInv, Replays
  <1>2. schedule \in Seq(Thread)
    BY UnderControl DEF TraceInv, ScheduleInv, Replays
  <1>3. CASE k \in DOMAIN trace
    <2>1. trace[k].tid = schedule[k]
      BY <1>3 DEF TraceInv, FollowsInv, Controls
    <2>2. trace'[k] = trace[k]
      BY <1>3, UnderControl
    <2>. QED  BY <2>1, <2>2
  <1>4. CASE k \notin DOMAIN trace
    <2>1. k = Len(trace) + 1 /\ trace'[k] = instr
      BY <1>4, UnderControl
    <2>2. Scheduled
      BY <1>2, <2>1, UnderControl DEF Scheduled
    <2>. QED  BY <2>1, <2>2 DEF Entry
  <1>. QED  BY <1>3, <1>4

LEMMA ExecutionsAppended ==
  ASSUME FilesInv, TraceInv, Controls, NEW t \in Thread, NEW instr \in Instruction,
         instr = InstructionOf(program, t, NrTransitions(trace, t, Len(trace)) + 1),
         trace' = Append(trace, instr), UNCHANGED <<ppc, callerVars>>
  PROVE  ExecutionsInv'
  <1>1. instr.tid = t
    BY DEF InstructionOf
  <1>2. IsExecutionOf(trace', program)
    BY <1>1, UnderControl, ExecutionAppended
  <1>3. UNCHANGED <<program, source, cwd, out>>
    BY DEF callerVars, buildVars
  <1>. QED  BY <1>2, <1>3 DEF TraceInv, ExecutionsInv, Running

\* What was performed is recorded.
LEMMA RecordTrace ==
  ASSUME FilesInv, TraceInv, Controls, RecordPerformed
  PROVE  TraceInv'
  <1>1. /\ Quiet /\ unrecorded # NoTask /\ unrecorded' = NoTask
        /\ trace' = Append(trace, unrecorded)
        /\ UNCHANGED <<stage, task, nextTid, status, routine, at, children, ppc, callerVars>>
    BY DEF RecordPerformed, Record
  <1>2. UNCHANGED <<program, source, schedule>> /\ Controls'
    BY <1>1 DEF Controls, Running, callerVars, buildVars
  <1>. DEFINE t == unrecorded.tid
  <1>3. /\ t \in Thread /\ unrecorded \in Instruction
        /\ unrecorded = InstructionOf(program, t, NrTransitions(trace, t, Len(trace)) + 1)
        /\ Replays /\ Scheduled => t = Entry
    BY <1>1 DEF TraceInv, UnrecordedInv
  <1>4. ExecutionsInv'
    BY <1>1, <1>3, ExecutionsAppended
  <1>5. FollowsInv'
    BY <1>1, <1>3, FollowsAppended
  <1>6. NoProcess' /\ ScheduleInv'
    BY <1>1, <1>2, UnderControl DEF TraceInv, NoProcess, ScheduleInv
  <1>7. ProcessTyped' /\ ThreadsInv'
    BY <1>1, <1>2 DEF TraceInv, ProcessTyped, ThreadsInv, Controls
  <1>8. AnnouncedInv'
    <2>1. ASSUME NEW u \in Thread
          PROVE  at[u] = NrTransitions(trace', u, Len(trace')) + (IF IsAnnounced(u) THEN 1 ELSE 0)
      <3>1. NrTransitions(trace', u, Len(trace')) =
                NrTransitions(trace, u, Len(trace)) + (IF unrecorded.tid = u THEN 1 ELSE 0)
        BY <1>1, <1>3, UnderControl, TransitionAppended
      <3>2. /\ at[u] = NrTransitions(trace, u, Len(trace)) + (IF IsPerformed(u) THEN 1 ELSE 0)
                       + (IF IsAnnounced(u) THEN 1 ELSE 0)
            /\ NrTransitions(trace, u, Len(trace)) \in Nat
        BY UnderControl, TransitionsCounted DEF TraceInv, AnnouncedInv
      <3>3. IsPerformed(u) <=> unrecorded.tid = u
        BY <1>1 DEF IsPerformed
      <3>. QED  BY <3>1, <3>2, <3>3
    <2>2. ASSUME NEW u \in Thread
          PROVE  ~ IsPerformed(u)' /\ (IsAnnounced(u)' <=> IsAnnounced(u))
                 /\ NrTransitions(trace', u, Len(trace')) \in Nat
      <3>1. Len(trace') \in Nat
        BY <1>1, <1>3, UnderControl
      <3>. QED  BY <1>1, <3>1, TransitionsCounted DEF IsPerformed, IsAnnounced
    <2>. QED  BY <1>1, <1>2, <2>1, <2>2 DEF TraceInv, AnnouncedInv
  <1>9. GrantedInv'
    BY <1>1 DEF GrantedInv, Quiet
  <1>10. UnrecordedInv'
    BY <1>1 DEF UnrecordedInv
  <1>. QED  BY <1>4, <1>5, <1>6, <1>7, <1>8, <1>9, <1>10 DEF TraceInv

\* So is an instruction that nobody can perform, at the end.
LEMMA DeadlockTrace ==
  ASSUME FilesInv, TraceInv, Controls, SelectDeadlock
  PROVE  TraceInv'
  <1>1. PICK t \in WaitingThreads : trace' = Append(trace, task[t])
    BY DEF SelectDeadlock, Deadlock, Pushed
  <1>2. /\ unrecorded = NoTask /\ status' = "DEADLOCK" /\ ~ Scheduled
        /\ t \in Thread /\ stage[t] = "waiting"
        /\ UNCHANGED <<ppc, callerVars>>
    BY <1>1 DEF SelectDeadlock, Deadlock, Settled, WaitingThreads
  <1>3. /\ task[t] \in Instruction
        /\ task[t] = InstructionOf(program, t, NrTransitions(trace, t, Len(trace)) + 1)
    <2>1. IsAnnounced(t) /\ ~ IsPerformed(t)
      BY <1>2 DEF IsAnnounced, IsPerformed
    <2>2. NrTransitions(trace, t, Len(trace)) \in Nat
      BY UnderControl, TransitionsCounted
    <2>. QED  BY <1>2, <2>1, <2>2 DEF TraceInv, AnnouncedInv
  <1>4. ExecutionsInv'
    BY <1>1, <1>2, <1>3, ExecutionsAppended
  <1>5. FollowsInv'
    BY <1>1, <1>2, <1>3, FollowsAppended
  <1>6. NoProcess' /\ ScheduleInv'
    BY <1>2, UnderControl DEF TraceInv, NoProcess, ScheduleInv, callerVars
  <1>7. ProcessTyped' /\ ThreadsInv' /\ AnnouncedInv' /\ GrantedInv' /\ UnrecordedInv'
    BY <1>2 DEF ProcessTyped, ThreadsInv, AnnouncedInv, GrantedInv, UnrecordedInv, Controls
  <1>. QED  BY <1>4, <1>5, <1>6, <1>7 DEF TraceInv

\* If other threads create threads as well, only the files are known.
LEMMA OtherPrograms ==
  ASSUME FilesInv, TraceInv, ppc = "running", ppc' = "running", ~ OnlyMainCreates(program),
         UNCHANGED callerVars
  PROVE  TraceInv'
  <1>1. ~ OnlyMainCreates(program') /\ UNCHANGED <<program, source, schedule, cwd, out>>
    BY DEF callerVars, buildVars
  <1>2. ~ Running' /\ ~ Controls'
    BY <1>1 DEF Running, Controls
  <1>3. NoProcess'
    BY DEF NoProcess
  <1>4. ProcessTyped' /\ ThreadsInv' /\ AnnouncedInv' /\ GrantedInv' /\ UnrecordedInv'
    BY <1>2 DEF ProcessTyped, ThreadsInv, AnnouncedInv, GrantedInv, UnrecordedInv
  <1>5. ExecutionsInv' /\ ScheduleInv' /\ FollowsInv'
    BY <1>1, <1>2 DEF TraceInv, ExecutionsInv, ScheduleInv, FollowsInv
  <1>. QED  BY <1>3, <1>4, <1>5 DEF TraceInv

\* The steps of the threads and of the scheduler.
LEMMA ThreadTrace ==
  ASSUME FilesInv, TraceInv, NEW t \in Thread,
         AnnounceNext(t) \/ ThreadEnds(t) \/ PerformGranted(t) \/ PerformFreely(t)
  PROVE  TraceInv'
  <1>1. ppc = "running" /\ ppc' = "running" /\ UNCHANGED <<trace, status, callerVars>>
    BY DEF AnnounceNext, Announce, ThreadEnds, End, PerformGranted, Perform, Performs,
           Controlled, PerformFreely
  <1>2. CASE status # "RUNNING"
    BY <1>1, <1>2, Uncontrolled
  <1>3. CASE ~ OnlyMainCreates(program)
    BY <1>1, <1>3, OtherPrograms
  <1>4. CASE Controls
    <2>1. ~ PerformFreely(t)
      BY <1>4 DEF PerformFreely, Controls
    <2>. QED  BY <1>4, <2>1, AnnounceTrace, EndTrace, PerformTrace
  <1>. QED  BY <1>1, <1>2, <1>3, <1>4 DEF Controls, Running

LEMMA SchedulerTrace ==
  ASSUME FilesInv, TraceInv,
         \/ RecordPerformed \/ SelectScheduled \/ SelectByStrategy \/ SelectionError
         \/ SelectDone \/ SelectDeadlock
  PROVE  TraceInv'
  <1>1. /\ ppc = "running" /\ ppc' = "running" /\ status = "RUNNING"
        /\ UNCHANGED callerVars
    BY DEF RecordPerformed, SelectScheduled, SelectByStrategy, SelectionError, SelectDone,
           SelectDeadlock, Controlled, callerVars
  <1>2. CASE ~ OnlyMainCreates(program)
    BY <1>1, <1>2, OtherPrograms
  <1>3. CASE OnlyMainCreates(program)
    <2>1. Controls
      BY <1>1, <1>3 DEF Controls, Running
    <2>2. CASE SelectScheduled
      BY <2>1, <2>2, ChooseTrace DEF SelectScheduled
    <2>3. CASE SelectByStrategy
      BY <2>1, <2>3, ChooseTrace DEF SelectByStrategy
    <2>4. CASE SelectionError
      BY <1>1, <2>4, Uncontrolled DEF SelectionError
    <2>5. CASE SelectDone
      BY <1>1, <2>5, Uncontrolled DEF SelectDone, Done
    <2>. QED  BY <2>1, <2>2, <2>3, <2>4, <2>5, RecordTrace, DeadlockTrace
  <1>. QED  BY <1>2, <1>3

\* What the record says when it is opened.
LEMMA RecordOpened ==
  ASSUME FilesInv, OpenRecord, trace # <<>>
  PROVE  /\ ppc = "running"
         /\ UNCHANGED <<processVars, program, source, schedule, settings, out>>
         /\ cwd'.record.program = program /\ cwd'.record.execution = trace
         /\ cwd'.record.end = status /\ cwd'.record.strategy = StrategyTag
         /\ cwd'.record.scheduled = Len(schedule)
  <1>. DEFINE new == [program |-> program, run |-> runs, execution |-> trace,
                      end |-> status, strategy |-> StrategyTag,
                      scheduled |-> Len(schedule), whole |-> FALSE]
  <1>1. AreFiles(cwd) /\ runs \in Nat
    BY DEF FilesInv, FilesTyped
  <1>2. /\ ppc = "running" /\ cwd' = [cwd EXCEPT !.record = new]
        /\ UNCHANGED <<processVars, program, source, schedule, settings, out>>
    BY DEF OpenRecord, buildVars
  <1>3. /\ IsFile(new) /\ new.program = program /\ new.execution = trace /\ new.end = status
        /\ new.strategy = StrategyTag /\ new.scheduled = Len(schedule)
    BY <1>1 DEF IsFile
  <1>. HIDE DEF new
  <1>4. cwd'.record = new
    BY <1>1, <1>2, <1>3, FileAssigned
  <1>. QED  BY <1>2, <1>3, <1>4

\* The steps that follow leave it.
LEMMA RecordKept ==
  ASSUME FilesInv, WriteRecord \/ OpenShortRecord \/ WriteShortRecord
  PROVE  /\ ppc = "running"
         /\ UNCHANGED <<processVars, program, source, schedule, settings, out>>
         /\ cwd.record # NoFile
         /\ cwd'.record.program = cwd.record.program
         /\ cwd'.record.execution = cwd.record.execution
         /\ cwd'.record.end = cwd.record.end
         /\ cwd'.record.strategy = cwd.record.strategy
         /\ cwd'.record.scheduled = cwd.record.scheduled
  <1>1. AreFiles(cwd) /\ IsFile(cwd.record) /\ runs \in Nat
    BY DEF FilesInv, FilesTyped, AreFiles
  <1>2. /\ ppc = "running"
        /\ UNCHANGED <<processVars, program, source, schedule, settings, out>>
    BY DEF WriteRecord, OpenShortRecord, WriteShortRecord, buildVars
  <1>3. cwd.record # NoFile
    <2>1. runs > 0
      BY <1>2 DEF FilesInv, CallInv
    <2>2. CASE WriteRecord \/ OpenShortRecord
      BY <1>1, <2>1, <2>2, NoFileIsFile DEF WriteRecord, OpenShortRecord
    <2>3. CASE WriteShortRecord
      <3>1. cwd.short # NoFile
        BY <1>1, <2>1, <2>3, NoFileIsFile DEF WriteShortRecord
      <3>2. cwd.record.run = runs
        BY <1>2, <3>1 DEF FilesInv, CallInv, ShortInv
      <3>. QED  BY <1>1, <2>1, <3>2, NoFileIsFile
    <2>. QED  BY <2>2, <2>3
  <1>4. CASE WriteRecord
    <2>. DEFINE new == [cwd.record EXCEPT !.whole = TRUE]
    <2>1. cwd' = [cwd EXCEPT !.record = new]
      BY <1>4 DEF WriteRecord
    <2>2. IsFile(new)
      BY <1>1, WholeAssigned
    <2>3. /\ new.program = cwd.record.program /\ new.execution = cwd.record.execution
          /\ new.end = cwd.record.end /\ new.strategy = cwd.record.strategy
          /\ new.scheduled = cwd.record.scheduled
      BY <1>1 DEF IsFile
    <2>. HIDE DEF new
    <2>. QED  BY <1>1, <1>2, <1>3, <2>1, <2>2, <2>3, FileAssigned
  <1>5. CASE OpenShortRecord \/ WriteShortRecord
    BY <1>1, <1>2, <1>3, <1>5 DEF OpenShortRecord, WriteShortRecord, AreFiles
  <1>. QED  BY <1>4, <1>5

\* The files are written: record.txt is the execution so far.
LEMMA FilesWritten ==
  ASSUME FilesInv, TraceInv, ppc = "running",
         UNCHANGED <<processVars, program, source, schedule, out>>,
         OnlyMainCreates(cwd'.record.program) =>
             IsExecutionOf(cwd'.record.execution, cwd'.record.program)
  PROVE  TraceInv'
  <1>. USE DEF processVars, turnVars
  <1>1. NoProcess' /\ ProcessTyped' /\ ThreadsInv'
    BY DEF TraceInv, NoProcess, ProcessTyped, ThreadsInv, Controls, Running
  <1>2. AnnouncedInv'
    BY DEF TraceInv, AnnouncedInv, IsAnnounced, IsPerformed, Controls, Running
  <1>3. GrantedInv' /\ UnrecordedInv'
    BY DEF TraceInv, GrantedInv, UnrecordedInv, Controls, Running, Replays, Scheduled, Entry
  <1>4. ExecutionsInv'
    BY DEF TraceInv, ExecutionsInv, Running
  <1>5. ScheduleInv' /\ FollowsInv'
    BY DEF TraceInv, ScheduleInv, FollowsInv, Running, Replays
  <1>. QED  BY <1>1, <1>2, <1>3, <1>4, <1>5 DEF TraceInv

LEMMA WritingTrace ==
  ASSUME FilesInv, TraceInv, OpenRecord \/ WriteRecord \/ OpenShortRecord \/ WriteShortRecord
  PROVE  TraceInv'
  <1>1. CASE OpenRecord /\ trace = <<>>
    BY <1>1, GoneTrace DEF OpenRecord, callerVars
  <1>2. CASE OpenRecord /\ trace # <<>>
    <2>1. ppc = "running" /\ (OnlyMainCreates(program) => IsExecutionOf(trace, program))
      BY <1>2, RecordOpened DEF TraceInv, ExecutionsInv, Running
    <2>. QED  BY <1>2, <2>1, RecordOpened, FilesWritten
  <1>3. CASE WriteRecord \/ OpenShortRecord \/ WriteShortRecord
    <2>1. OnlyMainCreates(cwd.record.program) =>
              IsExecutionOf(cwd.record.execution, cwd.record.program)
      BY <1>3, RecordKept DEF TraceInv, ExecutionsInv
    <2>. QED  BY <1>3, <2>1, RecordKept, FilesWritten
  <1>. QED  BY <1>1, <1>2, <1>3
-----------------------------------------------------------------------------
(***************************************************************************)
(* The steps of the caller.                                                *)
(***************************************************************************)
\* Where there is no process, only the files and the schedule matter.
LEMMA CallerTrace ==
  ASSUME FilesInv, TraceInv, ppc # "running", ppc' # "running",
         UNCHANGED <<turnVars, routine, at, children, trace>>,
         ExecutionsInv', ScheduleInv'
  PROVE  TraceInv'
  <1>1. NoProcess'
    BY DEF TraceInv, NoProcess, turnVars
  <1>2. ~ Running' /\ ~ Controls'
    BY DEF Running, Controls
  <1>3. ProcessTyped' /\ ThreadsInv' /\ AnnouncedInv' /\ GrantedInv' /\ UnrecordedInv' /\ FollowsInv'
    BY <1>2 DEF ProcessTyped, ThreadsInv, AnnouncedInv, GrantedInv, UnrecordedInv, FollowsInv
  <1>. QED  BY <1>1, <1>3 DEF TraceInv

LEMMA InstrumentTrace ==
  ASSUME FilesInv, TraceInv, Instrument
  PROVE  TraceInv'
  <1>1. /\ ppc # "running" /\ UNCHANGED processVars
        /\ out' \in {out, NoFiles} /\ UNCHANGED <<schedule, cwd, source>>
    BY DEF Instrument, FilesInv, CallInv, AtCaller
  <1>2. ppc' # "running"
    BY <1>1 DEF processVars
  <1>3. ExecutionsInv' /\ ScheduleInv'
    BY <1>1, <1>2, NoFileIsFile DEF TraceInv, ExecutionsInv, ScheduleInv, Running
  <1>. QED  BY <1>1, <1>2, <1>3, CallerTrace DEF processVars

\* A file that is renamed, or not, is the one that was there.
LEMMA RecordsRenamed ==
  ASSUME FilesInv, RenameRecord \/ RenameShortRecord
  PROVE  /\ cwd'.record \in {cwd.record, NoFile}
         /\ out'.record \in {out.record, cwd.record}
  <1>1. AreFiles(cwd) /\ AreFiles(out) /\ IsFile(cwd.record) /\ IsFile(cwd.short)
    BY DEF FilesInv, FilesTyped, AreFiles
  <1>2. ASSUME NEW file, IsFile(file), out' = [out EXCEPT !.record = file],
               cwd' = [cwd EXCEPT !.record = NoFile]
        PROVE  out'.record = file /\ cwd'.record = NoFile
    BY <1>1, <1>2, NoFileIsFile, FileAssigned
  <1>3. ASSUME NEW file, IsFile(file), out' = [out EXCEPT !.short = file],
               cwd' = [cwd EXCEPT !.short = NoFile]
        PROVE  out'.record = out.record /\ cwd'.record = cwd.record
    BY <1>1, <1>3, NoFileIsFile, FileAssigned
  <1>4. CASE RenameRecord
    <2>1. \/ UNCHANGED <<cwd, out>>
          \/ out' = [out EXCEPT !.record = cwd.record] /\ cwd' = [cwd EXCEPT !.record = NoFile]
      BY <1>4 DEF RenameRecord, Rename, Moved
    <2>. QED  BY <1>1, <1>2, <2>1
  <1>5. CASE RenameShortRecord
    <2>1. \/ UNCHANGED <<cwd, out>>
          \/ out' = [out EXCEPT !.short = cwd.short] /\ cwd' = [cwd EXCEPT !.short = NoFile]
      BY <1>5 DEF RenameShortRecord, Rename, Moved
    <2>. QED  BY <1>1, <1>3, <2>1
  <1>. QED  BY <1>4, <1>5

LEMMA RenameTrace ==
  ASSUME FilesInv, TraceInv, RenameRecord \/ RenameShortRecord
  PROVE  TraceInv'
  <1>1. ppc # "running" /\ UNCHANGED <<processVars, schedule, source>>
    BY DEF RenameRecord, RenameShortRecord, FilesInv, CallInv
  <1>2. /\ cwd'.record \in {cwd.record, NoFile}
        /\ out'.record \in {out.record, cwd.record}
    BY RecordsRenamed
  <1>3. ppc' # "running"
    BY <1>1 DEF processVars
  <1>4. ExecutionsInv' /\ ScheduleInv'
    BY <1>1, <1>2, <1>3 DEF TraceInv, ExecutionsInv, ScheduleInv, Running
  <1>. QED  BY <1>1, <1>3, <1>4, CallerTrace DEF processVars

\* The schedule of a record names the threads of what can be read of it.
LEMMA ScheduleRead ==
  ASSUME NEW file, file.execution \in Seq(Instruction), NEW execution \in Readable(file)
  PROVE  /\ ScheduleOf(execution) \in Seq(Thread)
         /\ Len(ScheduleOf(execution)) <= Len(file.execution)
         /\ \A k \in DOMAIN ScheduleOf(execution) :
               ScheduleOf(execution)[k] = file.execution[k].tid
  <1>. DEFINE E == file.execution
  <1>1. E \in Seq(Instruction)
    OBVIOUS
  <1>2. PICK n \in 0 .. Len(E) : execution = SubSeq(E, 1, n)
    <2>1. Len(E) \in 0 .. Len(E) /\ SubSeq(E, 1, Len(E)) = E
      BY <1>1
    <2>. QED  BY <2>1 DEF Readable
  <1>3. /\ execution \in Seq(Instruction) /\ Len(execution) = n
        /\ \A k \in 1 .. n : execution[k] = E[k]
    BY <1>1, <1>2
  <1>4. \A instr \in Instruction : instr.tid \in Thread
    BY DEF Instruction
  <1>5. ScheduleOf(execution) = [k \in 1 .. n |-> E[k].tid]
    BY <1>3 DEF ScheduleOf
  <1>6. \A k \in 1 .. n : E[k].tid \in Thread
    BY <1>1, <1>2, <1>4
  <1>. QED  BY <1>1, <1>2, <1>5, <1>6

LEMMA RunTrace ==
  ASSUME FilesInv, TraceInv, RunUnderSchedule
  PROVE  TraceInv'
  <1>1. /\ ppc # "running" /\ ppc' = IF program = NoProgram THEN "over" ELSE "running"
        /\ UNCHANGED <<turnVars, routine, at, children, trace, buildVars, cwd, out>>
    BY DEF RunUnderSchedule, AtCaller, FilesInv, CallInv
  <1>2. /\ stage = [t \in Thread |-> IF t = 0 THEN "busy" ELSE "unborn"]
        /\ task = [t \in Thread |-> NoTask]
        /\ nextTid = 1 /\ status = "RUNNING" /\ unrecorded = NoTask
        /\ routine = [t \in Thread |-> "main"]
        /\ at = [t \in Thread |-> 0]
        /\ children = [t \in Thread |-> <<>>]
        /\ trace = <<>>
    BY <1>1 DEF TraceInv, NoProcess
  <1>3. UNCHANGED <<stage, task, nextTid, status, unrecorded, program>>
    BY <1>1 DEF turnVars, buildVars
  <1>4. source' \in {NoFile, out.record}
    BY DEF RunUnderSchedule, WriteSchedules
  <1>5. trace' \in Seq(Instruction) /\ DOMAIN trace' = {} /\ Len(trace') = 0
    BY <1>1, <1>2
  <1>6. ExecutionsInv'
    <2>1. IsExecutionOf(trace', program')
      BY <1>5 DEF IsExecutionOf
    <2>. QED  BY <1>1, <1>4, <2>1 DEF TraceInv, ExecutionsInv
  <1>7. ScheduleInv'
    <2>. SUFFICES ASSUME source' # NoFile, OnlyMainCreates(source'.program)
                  PROVE  /\ schedule' \in Seq(Thread)
                         /\ Len(schedule') <= Len(source'.execution)
                         /\ \A k \in DOMAIN schedule' : schedule'[k] = source'.execution[k].tid
      BY DEF ScheduleInv
    <2>1. /\ out.record # NoFile /\ source' = out.record
          /\ \E execution \in Readable(out.record) : schedule' = ScheduleOf(execution)
      BY DEF RunUnderSchedule, WriteSchedules
    <2>2. source'.execution \in Seq(Instruction)
      BY <2>1 DEF TraceInv, ExecutionsInv, IsExecutionOf
    <2>. QED  BY <2>1, <2>2, ScheduleRead
  <1>8. FollowsInv'
    BY <1>5 DEF FollowsInv
  <1>9. NoProcess'
    BY <1>1, <1>2, <1>3 DEF NoProcess
  <1>10. CASE ~ Controls'
    <2>1. ProcessTyped' /\ ThreadsInv' /\ AnnouncedInv' /\ GrantedInv' /\ UnrecordedInv'
      BY <1>10 DEF ProcessTyped, ThreadsInv, AnnouncedInv, GrantedInv, UnrecordedInv
    <2>. QED  BY <1>6, <1>7, <1>8, <1>9, <2>1 DEF TraceInv
  <1>11. CASE Controls'
    <2>1. /\ program # NoProgram /\ program \in DOMAIN Programs
          /\ "main" \in DOMAIN Programs[program] /\ Len(Programs[program]["main"]) \in Nat
      BY <1>1, <1>11, ProgramsAssumption DEF Controls, Running, FilesInv, CallInv
    <2>2. 0 \in Thread /\ \A t \in Thread : t \in Nat
      BY NrThreadsAssumption DEF Thread
    <2>3. ProcessTyped'
      BY <1>1, <1>2, <1>3, <2>1 DEF ProcessTyped, Stage
    <2>4. NrCreations(program, 0) = 0 /\ RoutineOf(program, 0) = "main"
      BY NoCreation DEF RoutineOf
    <2>5. \A t \in Thread : ChildrenOf(program, t, 0) = <<>>
      BY <2>4 DEF ChildrenOf
    <2>6. ThreadsInv'
      BY <1>1, <1>2, <1>3, <2>1, <2>2, <2>4, <2>5 DEF ThreadsInv
    <2>7. ASSUME NEW t \in Thread
          PROVE  ~ IsAnnounced(t)' /\ ~ IsPerformed(t)' /\ stage'[t] # "granted" /\ at'[t] = 0
                 /\ NrTransitions(trace', t, Len(trace')) = 0
      BY <1>1, <1>2, <1>3, <1>5, TransitionsCounted DEF IsAnnounced, IsPerformed
    <2>8. AnnouncedInv'
      BY <2>7 DEF AnnouncedInv
    <2>9. GrantedInv'
      BY <2>7 DEF GrantedInv
    <2>10. UnrecordedInv'
      BY <1>2, <1>3 DEF UnrecordedInv
    <2>. QED  BY <1>6, <1>7, <1>8, <1>9, <2>3, <2>6, <2>8, <2>9, <2>10 DEF TraceInv
  <1>. QED  BY <1>10, <1>11

LEMMA InitTrace == Init => TraceInv
  <1>. SUFFICES ASSUME Init PROVE TraceInv
    OBVIOUS
  <1>1. ppc = "off" /\ cwd = NoFiles /\ out = NoFiles /\ source = NoFile
    BY DEF Init
  <1>2. NoProcess
    BY DEF Init, ProcessInit, TurnInit, NoProcess
  <1>3. ~ Running /\ ~ Controls
    BY <1>1 DEF Running, Controls
  <1>4. ProcessTyped /\ ThreadsInv /\ AnnouncedInv /\ GrantedInv /\ UnrecordedInv /\ FollowsInv
    BY <1>3 DEF ProcessTyped, ThreadsInv, AnnouncedInv, GrantedInv, UnrecordedInv, FollowsInv
  <1>5. ExecutionsInv /\ ScheduleInv
    BY <1>1, <1>3, NoFileIsFile DEF ExecutionsInv, ScheduleInv
  <1>. QED  BY <1>2, <1>4, <1>5 DEF TraceInv

LEMMA TraceStep == FilesInv /\ TraceInv /\ [Next]_vars => TraceInv'
  <1>. SUFFICES ASSUME FilesInv, TraceInv, [Next]_vars PROVE TraceInv'
    OBVIOUS
  <1>1. CASE UNCHANGED vars
    <2>. USE DEF vars, processVars, callerVars, buildVars, turnVars
    <2>1. NoProcess' /\ ProcessTyped' /\ ThreadsInv'
      BY <1>1 DEF TraceInv, NoProcess, ProcessTyped, ThreadsInv, Controls, Running
    <2>2. AnnouncedInv'
      BY <1>1 DEF TraceInv, AnnouncedInv, IsAnnounced, IsPerformed, Controls, Running
    <2>3. GrantedInv' /\ UnrecordedInv'
      BY <1>1 DEF TraceInv, GrantedInv, UnrecordedInv, Controls, Running, Replays, Scheduled, Entry
    <2>4. ExecutionsInv' /\ ScheduleInv' /\ FollowsInv'
      BY <1>1 DEF TraceInv, ExecutionsInv, ScheduleInv, FollowsInv, Running, Replays
    <2>. QED  BY <2>1, <2>2, <2>3, <2>4 DEF TraceInv
  <1>2. CASE UnknownThread \/ Exit \/ Timeout
    BY <1>2, GoneTrace DEF UnknownThread, Exit, Timeout
  <1>. QED
    BY <1>1, <1>2, ThreadTrace, SchedulerTrace, WritingTrace, InstrumentTrace, RunTrace, RenameTrace
       DEF Next, ProcessStep

\* A tid says of a thread what it runs, and what is recorded is an execution of the
\* program, if only its main thread creates threads.  For other programs TraceInv says
\* nothing of the threads: there a tid depends on who is first (fresh_tids).
THEOREM TraceInvariance == Spec => []TraceInv
  BY InitTrace, TraceStep, FilesInvariance, PTL DEF Spec

\* The instructions of a replay are those of its record, as long as the schedule lasts.
LEMMA FollowedByInstructions ==
  ASSUME FilesInv, TraceInv, Running, Replays
  PROVE  \A k \in DOMAIN trace \cap DOMAIN schedule : trace[k] = source.execution[k]
  <1>. TAKE k \in DOMAIN trace \cap DOMAIN schedule
  <1>1. source # NoFile /\ source.program = program
    BY DEF Replays
  <1>2. IsExecutionOf(trace, program) /\ IsExecutionOf(source.execution, program)
    BY <1>1 DEF TraceInv, ExecutionsInv, Running
  <1>3. /\ schedule \in Seq(Thread) /\ Len(schedule) <= Len(source.execution)
        /\ \A j \in DOMAIN schedule : schedule[j] = source.execution[j].tid
    BY <1>1 DEF TraceInv, ScheduleInv, Running
  <1>4. \A j \in DOMAIN trace \cap DOMAIN schedule : trace[j].tid = schedule[j]
    BY DEF TraceInv, FollowsInv
  <1>5. trace \in Seq(Instruction) /\ source.execution \in Seq(Instruction)
    BY <1>2 DEF IsExecutionOf
  <1>6. k \in Nat /\ k \in 1 .. k /\ k <= Len(trace) /\ k <= Len(source.execution)
    BY <1>3, <1>5
  <1>7. \A j \in 1 .. k : trace[j].tid = source.execution[j].tid
    BY <1>3, <1>4, <1>5, <1>6
  <1>. QED  BY <1>2, <1>6, <1>7, TidsDetermine, SMTT(30)

\* The replay of a record, whole or cut, performs what was recorded, instruction by
\* instruction, if only the main thread of each program creates threads: the tids of
\* the schedule are all that a replay needs (scheduler/schedule.cpp, replay.cpp).
THEOREM ReplayIsFollowed ==
  ASSUME \A name \in DOMAIN Programs : OnlyMainCreates(name)
  PROVE  Spec => []ReplayFollows
  <1>1. FilesInv /\ TraceInv => ReplayFollows
    <2>. SUFFICES ASSUME FilesInv, TraceInv, Replays, NEW k \in DOMAIN trace, k \in DOMAIN schedule
                  PROVE  trace[k] = source.execution[k]
      BY DEF ReplayFollows
    <2>1. CASE ppc # "running"
      BY <2>1 DEF TraceInv, NoProcess
    <2>2. CASE ppc = "running"
      BY <2>2, FollowedByInstructions DEF Running, FilesInv, CallInv
    <2>. QED  BY <2>1, <2>2
  <1>. QED  BY <1>1, FilesInvariance, TraceInvariance, PTL
-----------------------------------------------------------------------------
(***************************************************************************)
(* What follows from the first n transitions of an execution.              *)
(***************************************************************************)
LEMMA AlikeState ==
  ASSUME NEW one, NEW other, NEW n \in Nat, \A k \in 1 .. n : one[k] = other[k]
  PROVE  /\ \A t : CreatedAfter(one, t, n) <=> CreatedAfter(other, t, n)
         /\ \A mutex : HeldAfter(one, mutex, n) <=> HeldAfter(other, mutex, n)
         /\ \A t : NrTransitions(one, t, n) = NrTransitions(other, t, n)
  <1>1. \A t : CreatedAfter(one, t, n) <=> CreatedAfter(other, t, n)
    BY DEF CreatedAfter
  <1>2. \A mutex : HeldAfter(one, mutex, n) <=> HeldAfter(other, mutex, n)
    <2>. TAKE mutex
    <2>1. \A k \in 1 .. n : \A j \in k + 1 .. n : j \in 1 .. n
      OBVIOUS
    <2>. QED  BY <2>1 DEF HeldAfter
  <1>3. \A t : TransitionsOf(one, t, n) = TransitionsOf(other, t, n)
    BY DEF TransitionsOf
  <1>. QED  BY <1>1, <1>2, <1>3 DEF NrTransitions

\* So it does not matter of which of two executions it is asked who may follow.
LEMMA AlikeNext ==
  ASSUME NEW name, NEW one, NEW other, NEW n \in Nat, \A k \in 1 .. n : one[k] = other[k]
  PROVE  /\ WaitingAfter(name, one, n) = WaitingAfter(name, other, n)
         /\ ReadyAfter(name, one, n) = ReadyAfter(name, other, n)
         /\ PreferredAfter(name, one, n) = PreferredAfter(name, other, n)
         /\ \A t, strategy, scheduled :
                MayBeChosen(name, one, t, n, strategy, scheduled)
                    <=> MayBeChosen(name, other, t, n, strategy, scheduled)
  <1>1. \A t : HasStepsAfter(name, one, t, n) <=> HasStepsAfter(name, other, t, n)
    BY AlikeState DEF HasStepsAfter
  <1>2. \A t : /\ WaitsAfter(name, one, t, n) <=> WaitsAfter(name, other, t, n)
               /\ EndedAfter(name, one, t, n) <=> EndedAfter(name, other, t, n)
    BY <1>1, AlikeState DEF WaitsAfter, EndedAfter
  <1>3. \A t : NextAfter(name, one, t, n) = NextAfter(name, other, t, n)
    BY AlikeState DEF NextAfter
  <1>4. \A instr : GoesOnAfter(name, one, instr, n) <=> GoesOnAfter(name, other, instr, n)
    BY <1>2, AlikeState DEF GoesOnAfter
  <1>5. WaitingAfter(name, one, n) = WaitingAfter(name, other, n)
    BY <1>2 DEF WaitingAfter
  <1>6. ReadyAfter(name, one, n) = ReadyAfter(name, other, n)
    BY <1>3, <1>4, <1>5 DEF ReadyAfter
  <1>7. PreferredAfter(name, one, n) = PreferredAfter(name, other, n)
    <2>1. n > 0 => one[n] = other[n]
      OBVIOUS
    <2>. QED  BY <1>6, <2>1 DEF PreferredAfter
  <1>. QED  BY <1>5, <1>6, <1>7 DEF MayBeChosen

\* NonPreemptive prefers one thread.
LEMMA OnePreferred ==
  ASSUME NEW name, NEW execution, NEW n,
         NEW t \in PreferredAfter(name, execution, n), NEW u \in PreferredAfter(name, execution, n)
  PROVE  t = u
  <1>1. ReadyAfter(name, execution, n) \subseteq Thread /\ Thread \subseteq Int
    BY NrThreadsAssumption DEF ReadyAfter, WaitingAfter, Thread
  <1>. DEFINE ready == ReadyAfter(name, execution, n)
  <1>2. CASE n > 0 /\ execution[n].tid \in ready
    BY <1>2 DEF PreferredAfter
  <1>3. CASE ~ (n > 0 /\ execution[n].tid \in ready)
    <2>1. t \in ready /\ u \in ready /\ t <= u /\ u <= t
      BY <1>3 DEF PreferredAfter
    <2>2. t \in Int /\ u \in Int
      BY <1>1, <2>1
    <2>. QED  BY <2>1, <2>2
  <1>. QED  BY <1>2, <1>3

\* What an instruction changes that is performed after all others.
LEMMA StateAppended ==
  ASSUME NEW execution \in Seq(Instruction), NEW instr \in Instruction
  PROVE  LET longer == Append(execution, instr)
             n == Len(execution)
         IN  /\ \A t : CreatedAfter(longer, t, Len(longer))
                    <=> CreatedAfter(execution, t, n) \/ (instr.op = "Spawn" /\ instr.operand = t)
             /\ \A mutex : HeldAfter(longer, mutex, Len(longer))
                    <=> \/ instr.op = "Lock" /\ instr.operand = mutex
                        \/ /\ HeldAfter(execution, mutex, n)
                           /\ ~ (instr.op = "Unlock" /\ instr.operand = mutex)
  <1>. DEFINE longer == Append(execution, instr)
              n == Len(execution)
  <1>1. /\ n \in Nat /\ Len(longer) = n + 1 /\ longer[n + 1] = instr
        /\ \A k \in 1 .. n : longer[k] = execution[k]
        /\ 1 .. n + 1 = (1 .. n) \cup {n + 1}
    OBVIOUS
  <1>2. \A t : CreatedAfter(longer, t, n + 1)
                   <=> CreatedAfter(execution, t, n) \/ (instr.op = "Spawn" /\ instr.operand = t)
    <2>. HIDE DEF longer, n
    <2>. QED  BY <1>1 DEF CreatedAfter
  <1>3. ASSUME NEW mutex
        PROVE  HeldAfter(longer, mutex, n + 1)
                    <=> \/ instr.op = "Lock" /\ instr.operand = mutex
                        \/ /\ HeldAfter(execution, mutex, n)
                           /\ ~ (instr.op = "Unlock" /\ instr.operand = mutex)
    <2>. HIDE DEF longer, n
    <2>1. (n + 1) + 1 .. n + 1 = {}
      BY <1>1
    <2>2. \A k \in 1 .. n : k + 1 .. n + 1 = (k + 1 .. n) \cup {n + 1}
      BY <1>1
    <2>3. \A k \in 1 .. n : \A j \in k + 1 .. n : longer[j] = execution[j]
      BY <1>1
    <2>. DEFINE Locks(k) == longer[k].op = "Lock" /\ longer[k].operand = mutex
                Kept(k, j) == longer[j].op = "Unlock" => longer[j].operand # mutex
    <2>4. HeldAfter(longer, mutex, n + 1) <=>
              \E k \in 1 .. n + 1 : Locks(k) /\ \A j \in k + 1 .. n + 1 : Kept(k, j)
      BY DEF HeldAfter
    <2>5. HeldAfter(execution, mutex, n) <=>
              \E k \in 1 .. n : Locks(k) /\ \A j \in k + 1 .. n : Kept(k, j)
      BY <1>1, <2>3 DEF HeldAfter
    <2>6. Locks(n + 1) <=> instr.op = "Lock" /\ instr.operand = mutex
      BY <1>1
    <2>7. \A k : Kept(k, n + 1) <=> ~ (instr.op = "Unlock" /\ instr.operand = mutex)
      BY <1>1
    <2>. HIDE DEF Locks, Kept
    <2>. QED  BY <1>1, <2>1, <2>2, <2>4, <2>5, <2>6, <2>7
  <1>. QED  BY <1>1, <1>2, <1>3

-----------------------------------------------------------------------------
(***************************************************************************)
(* The state of a process, and what its execution says of it.              *)
(***************************************************************************)
\* When the scheduler chooses, the execution tells who waits, who can go on and whom
\* NonPreemptive prefers.
LEMMA SettledState ==
  ASSUME FilesInv, TraceInv, OutcomeInv, Controls, Settled
  PROVE  /\ WaitingThreads = WaitingAfter(program, trace, Len(trace))
         /\ Ready = ReadyAfter(program, trace, Len(trace))
         /\ Preferred = PreferredAfter(program, trace, Len(trace))
         /\ \A t \in Thread : stage[t] = "ended" => t \notin WaitingAfter(program, trace, Len(trace))
  <1>. DEFINE n == Len(trace)
  <1>1. Performed = trace /\ unrecorded = NoTask /\ n \in Nat /\ trace \in Seq(Instruction)
    BY UnderControl DEF Performed, Settled
  <1>2. \A t \in Thread : stage[t] # "unborn" <=> CreatedAfter(trace, t, n)
    BY <1>1 DEF OutcomeInv, StagesInv
  <1>3. ASSUME NEW t \in Thread
        PROVE  /\ stage[t] \in {"unborn", "waiting", "ended"}
               /\ stage[t] = "waiting" =>
                     /\ HasStepsAfter(program, trace, t, n)
                     /\ task[t] = NextAfter(program, trace, t, n)
                     /\ task[t] \in Instruction
               /\ stage[t] = "ended" => ~ HasStepsAfter(program, trace, t, n)
    <2>. DEFINE nr == NrTransitions(trace, t, n)
    <2>1. stage[t] \in {"unborn", "waiting", "ended"}
      BY DEF Settled, Quiet
    <2>2. nr \in Nat
      BY <1>1, TransitionsCounted
    <2>3. at[t] = nr + (IF stage[t] = "waiting" THEN 1 ELSE 0)
      BY <1>1, <2>1, <2>2 DEF TraceInv, AnnouncedInv, IsPerformed, IsAnnounced
    <2>4. stage[t] # "unborn" => routine[t] = RoutineOf(program, t)
      BY UnderControl DEF TraceInv, ThreadsInv
    <2>5. at[t] <= Len(Programs[program][routine[t]])
          /\ routine[t] \in DOMAIN Programs[program]
          /\ Len(Programs[program][routine[t]]) \in Nat
      BY UnderControl, ProgramsAssumption DEF TraceInv, ThreadsInv
    <2>6. CASE stage[t] = "waiting"
      <3>1. at[t] = nr + 1 /\ nr < Len(Programs[program][RoutineOf(program, t)])
        <4>1. at[t] = nr + 1
          BY <2>3, <2>6
        <4>. QED  BY <4>1, <2>2, <2>4, <2>5, <2>6
      <3>2. task[t] = InstructionOf(program, t, nr + 1) /\ task[t] \in Instruction
        BY <3>1, <2>6 DEF TraceInv, AnnouncedInv, IsAnnounced
      <3>. QED  BY <2>1, <2>6, <3>1, <3>2 DEF HasStepsAfter, NextAfter
    <2>7. CASE stage[t] = "ended"
      <3>1. nr = Len(Programs[program][RoutineOf(program, t)])
        <4>1. at[t] = nr
          BY <2>2, <2>3, <2>7
        <4>. QED  BY <4>1, <2>4, <2>7 DEF OutcomeInv, StagesInv
      <3>. QED  BY <2>2, <2>7, <3>1 DEF HasStepsAfter
    <2>. QED  BY <2>1, <2>6, <2>7
  <1>4. \A t \in Thread : /\ stage[t] = "waiting" <=> WaitsAfter(program, trace, t, n)
                          /\ stage[t] = "ended" <=> EndedAfter(program, trace, t, n)
    BY <1>2, <1>3 DEF WaitsAfter, EndedAfter
  <1>5. WaitingThreads = WaitingAfter(program, trace, n)
    BY <1>4 DEF WaitingThreads, WaitingAfter
  <1>6. ASSUME NEW t \in WaitingThreads
        PROVE  CanGoOn(task[t]) <=> GoesOnAfter(program, trace, NextAfter(program, trace, t, n), n)
    <2>. DEFINE instr == task[t]
    <2>1. t \in Thread /\ instr = NextAfter(program, trace, t, n) /\ instr \in Instruction
      BY <1>3 DEF WaitingThreads
    <2>2. instr.op = "Join" => instr.operand \in Thread
      BY <2>1 DEF Instruction, MemoryOp, LockOp, ManageOp
    <2>3. instr.op = "Lock" => instr.operand \in Mutexes
      <3>. SUFFICES ASSUME instr.op = "Lock" PROVE instr.operand \in Mutexes
        OBVIOUS
      <3>. DEFINE nr == NrTransitions(trace, t, n)
                  steps == Programs[program][RoutineOf(program, t)]
      <3>1. stage[t] = "waiting" /\ nr \in Nat /\ nr < Len(steps)
        BY <1>1, <1>3, <2>1, TransitionsCounted DEF WaitingThreads, HasStepsAfter
      <3>2. RoutineOf(program, t) = routine[t] /\ routine[t] \in DOMAIN Programs[program]
        BY <2>1, <3>1, UnderControl DEF TraceInv, ThreadsInv
      <3>3. Len(steps) \in Nat /\ DOMAIN steps = 1 .. Len(steps)
        BY <3>2, UnderControl, ProgramsAssumption
      <3>4. nr + 1 \in DOMAIN steps
        BY <3>1, <3>3
      <3>5. steps[nr + 1].op \in LockOp => steps[nr + 1].arg \in Mutexes
        BY <3>2, <3>4, UnderControl, ProgramsAssumption
      <3>6. instr.op = steps[nr + 1].op
        BY <2>1 DEF NextAfter, InstructionOf
      <3>7. instr.operand = steps[nr + 1].arg
        BY <2>1, <3>6 DEF NextAfter, InstructionOf
      <3>. QED  BY <3>5, <3>6, <3>7 DEF LockOp
    <2>4. instr.op = "Lock" => (holder[instr.operand] = NoThread <=> ~ HeldAfter(trace, instr.operand, n))
      BY <1>1, <2>3 DEF OutcomeInv, HoldersInv
    <2>5. instr.op = "Join" =>
              (stage[instr.operand] = "ended" <=> EndedAfter(program, trace, instr.operand, n))
      BY <1>4, <2>2
    <2>. QED  BY <2>1, <2>4, <2>5 DEF CanGoOn, GoesOnAfter
  <1>7. Ready = ReadyAfter(program, trace, n)
    BY <1>5, <1>6 DEF Ready, ReadyAfter
  <1>8. Preferred = PreferredAfter(program, trace, n)
    <2>1. trace # <<>> <=> n > 0
      BY <1>1
    <2>2. trace # <<>> => Last(trace) = trace[n]
      BY DEF Last
    <2>. HIDE DEF n
    <2>. QED  BY <1>7, <2>1, <2>2 DEF Preferred, PreferredAfter
  <1>9. \A t \in Thread : stage[t] = "ended" => t \notin WaitingAfter(program, trace, n)
    BY <1>4 DEF WaitingAfter, WaitsAfter, EndedAfter
  <1>. QED  BY <1>5, <1>7, <1>8, <1>9

-----------------------------------------------------------------------------
(***************************************************************************)
(* The steps of the process.                                               *)
(***************************************************************************)
\* A step that records nothing leaves what is said of the executions.
LEMMA NothingPushed ==
  ASSUME FilesInv, TraceInv, OutcomeInv, ppc = "running",
         UNCHANGED <<ppc, status, trace, callerVars>>
  PROVE  RunsInv' /\ EndInv' /\ AlikeInv'
  <1>1. UNCHANGED <<Running, Replays, ContinuesAlike, StrategyTag, Scheduled, Entry>>
    BY DEF Running, Replays, ContinuesAlike, StrategyTag, Scheduled, Entry, callerVars, buildVars
  <1>2. UNCHANGED <<program, schedule, source, cwd, out>>
    BY DEF callerVars, buildVars
  <1>3. RunsInv'
    BY <1>1, <1>2 DEF OutcomeInv, RunsInv
  <1>4. EndInv'
    BY <1>1, <1>2 DEF OutcomeInv, EndInv
  <1>5. AlikeInv'
    BY <1>1, <1>2 DEF OutcomeInv, AlikeInv
  <1>. QED  BY <1>3, <1>4, <1>5

\* After a selection error only the executions matter.
LEMMA FreeOutcome ==
  ASSUME FilesInv, TraceInv, OutcomeInv, ppc = "running", status # "RUNNING",
         UNCHANGED <<ppc, status, trace, callerVars>>
  PROVE  OutcomeInv'
  <1>1. StagesInv' /\ HoldersInv' /\ ChosenInv'
    BY DEF StagesInv, HoldersInv, ChosenInv, Controls, Running
  <1>. QED  BY <1>1, NothingPushed DEF OutcomeInv

LEMMA AnnounceOutcome ==
  ASSUME FilesInv, TraceInv, OutcomeInv, Controls, NEW t \in Thread, AnnounceNext(t)
  PROVE  OutcomeInv'
  <1>. DEFINE instr == NextTask(t)
  <1>1. stage[t] = "busy" /\ HasStep(t) /\ instr.tid = t
    BY NextInstruction DEF AnnounceNext
  <1>2. /\ stage' = [stage EXCEPT ![t] = "waiting"]
        /\ UNCHANGED <<ppc, status, trace, unrecorded, holder, callerVars>>
        /\ at' = [at EXCEPT ![t] = @ + 1]
    BY <1>1 DEF AnnounceNext, Announce
  <1>3. UNCHANGED Performed /\ Running' = Running
    BY <1>2 DEF Performed, Running, callerVars, buildVars
  <1>4. \A u \in Thread : stage'[u] \in {"unborn", "ended", "granted"} \/ stage[u] \in {"unborn", "ended", "granted"}
            => stage'[u] = stage[u] /\ at'[u] = at[u]
    BY <1>1, <1>2, UnderControl
  <1>5. \A u \in Thread : stage[u] = "ended" => routine'[u] = routine[u]
    <2>1. stage[nextTid] # "ended" \/ nextTid \notin Thread
      BY UnderControl, SMTT(30) DEF TraceInv, ThreadsInv
    <2>2. routine' = routine \/ \E r : routine' = [routine EXCEPT ![nextTid] = r]
      BY DEF AnnounceNext
    <2>. QED  BY <2>1, <2>2, UnderControl
  <1>6. StagesInv'
    <2>1. UNCHANGED program
      BY <1>2 DEF callerVars, buildVars
    <2>. QED  BY <1>2, <1>3, <1>4, <1>5, <2>1 DEF OutcomeInv, StagesInv
  <1>7. HoldersInv'
    BY <1>2, <1>3, UnderControl DEF OutcomeInv, HoldersInv, Controls
  <1>8. ChosenInv'
    <2>1. \A u : IsChosen(u)' <=> IsChosen(u)
      BY <1>2 DEF IsChosen, StrategyTag, callerVars, buildVars
    <2>. QED  BY <1>2, <1>4, <2>1 DEF OutcomeInv, ChosenInv
  <1>9. RunsInv' /\ EndInv' /\ AlikeInv'
    BY <1>2, NothingPushed, UnderControl
  <1>. QED  BY <1>6, <1>7, <1>8, <1>9 DEF OutcomeInv

LEMMA EndOutcome ==
  ASSUME FilesInv, TraceInv, OutcomeInv, Controls, NEW t \in Thread, ThreadEnds(t)
  PROVE  OutcomeInv'
  <1>1. /\ stage[t] = "busy" /\ stage' = [stage EXCEPT ![t] = "ended"]
        /\ UNCHANGED <<ppc, status, trace, unrecorded, holder, routine, at, callerVars>>
    BY DEF ThreadEnds, End
  <1>2. UNCHANGED Performed /\ UNCHANGED program
    BY <1>1 DEF Performed, callerVars, buildVars
  <1>3. StagesInv'
    <2>1. at[t] = Len(Programs[program][routine[t]])
      <3>1. /\ at[t] <= Len(Programs[program][routine[t]]) /\ at[t] \in Nat
            /\ Len(Programs[program][routine[t]]) \in Nat
        BY UnderControl, ProgramsAssumption DEF TraceInv, ThreadsInv
      <3>2. ~ at[t] < Len(Programs[program][routine[t]])
        BY DEF ThreadEnds, HasStep
      <3>. QED  BY <3>1, <3>2
    <2>. QED  BY <1>1, <1>2, <2>1, UnderControl DEF OutcomeInv, StagesInv
  <1>4. HoldersInv'
    BY <1>1, <1>2, UnderControl DEF OutcomeInv, HoldersInv, Controls
  <1>5. ChosenInv'
    <2>1. \A u : IsChosen(u)' <=> IsChosen(u)
      BY <1>1 DEF IsChosen, StrategyTag, callerVars, buildVars
    <2>. QED  BY <1>1, <2>1, UnderControl DEF OutcomeInv, ChosenInv
  <1>6. RunsInv' /\ EndInv' /\ AlikeInv'
    BY <1>1, NothingPushed, UnderControl
  <1>. QED  BY <1>3, <1>4, <1>5, <1>6 DEF OutcomeInv

\* The thread that is chosen can go on, and NonPreemptive prefers it unless the
\* schedule names it.
LEMMA ChooseOutcome ==
  ASSUME FilesInv, TraceInv, OutcomeInv, Controls, SelectScheduled \/ SelectByStrategy
  PROVE  OutcomeInv'
  <1>1. PICK t : /\ Choose(t)
                 /\ Scheduled \/ StrategyTag = "Random" \/ t \in Preferred
    BY DEF SelectScheduled, SelectByStrategy
  <1>2. /\ Settled /\ stage[t] = "waiting" /\ CanGoOn(task[t])
        /\ stage' = [stage EXCEPT ![t] = "granted"]
        /\ UNCHANGED <<ppc, status, trace, unrecorded, holder, routine, at, callerVars>>
    BY <1>1 DEF Choose, SelectScheduled, SelectByStrategy
  <1>3. UNCHANGED Performed /\ UNCHANGED program
    BY <1>2 DEF Performed, callerVars, buildVars
  <1>4. t \in Thread => IsChosen(t)
    <2>. SUFFICES ASSUME t \in Thread PROVE IsChosen(t)
      OBVIOUS
    <2>1. t \in Ready
      BY <1>2 DEF Ready, WaitingThreads
    <2>. QED  BY <1>1, <1>2, <2>1, SettledState DEF IsChosen, MayBeChosen, Scheduled
  <1>5. StagesInv'
    BY <1>2, <1>3, UnderControl DEF OutcomeInv, StagesInv
  <1>6. HoldersInv'
    BY <1>2, <1>3, UnderControl DEF OutcomeInv, HoldersInv, Controls
  <1>7. ChosenInv'
    <2>1. \A u : IsChosen(u)' <=> IsChosen(u)
      BY <1>2 DEF IsChosen, StrategyTag, callerVars, buildVars
    <2>. QED  BY <1>2, <1>4, <2>1, UnderControl DEF OutcomeInv, ChosenInv
  <1>8. RunsInv' /\ EndInv' /\ AlikeInv'
    BY <1>2, NothingPushed, UnderControl
  <1>. QED  BY <1>5, <1>6, <1>7, <1>8 DEF OutcomeInv

\* A transition at the end of an execution changes nothing of what was before it.
LEMMA RunAppended ==
  ASSUME NEW name, NEW execution \in Seq(Instruction), NEW instr \in Instruction,
         NEW strategy, NEW scheduled, IsRunOf(name, execution, "RUNNING", strategy, scheduled)
  PROVE  LET longer == Append(execution, instr)
             n == Len(execution)
         IN  /\ MayBeChosen(name, execution, instr.tid, n, strategy, scheduled) =>
                    IsRunOf(name, longer, "RUNNING", strategy, scheduled)
             /\ WaitingAfter(name, execution, n) # {} /\ ReadyAfter(name, execution, n) = {} =>
                    IsRunOf(name, longer, "DEADLOCK", strategy, scheduled)
  <1>. DEFINE longer == Append(execution, instr)
              n == Len(execution)
              Chosen(e, k) == MayBeChosen(name, e, e[k].tid, k - 1, strategy, scheduled)
  <1>1. /\ n \in Nat /\ Len(longer) = n + 1 /\ longer[n + 1] = instr
        /\ \A k \in 1 .. n : longer[k] = execution[k]
        /\ 1 .. n + 1 = (1 .. n) \cup {n + 1}
        /\ (n + 1) - 1 = n
    OBVIOUS
  <1>2. \A k \in 1 .. n : Chosen(execution, k)
    BY <1>1 DEF IsRunOf, NrPerformed
  <1>3. ASSUME NEW k \in 1 .. n + 1
        PROVE  /\ WaitingAfter(name, longer, k - 1) = WaitingAfter(name, execution, k - 1)
               /\ ReadyAfter(name, longer, k - 1) = ReadyAfter(name, execution, k - 1)
               /\ \A t : MayBeChosen(name, longer, t, k - 1, strategy, scheduled)
                            <=> MayBeChosen(name, execution, t, k - 1, strategy, scheduled)
    <2>1. k - 1 \in Nat /\ \A j \in 1 .. k - 1 : j \in 1 .. n
      BY <1>1
    <2>2. \A j \in 1 .. k - 1 : longer[j] = execution[j]
      BY <1>1, <2>1
    <2>. HIDE DEF longer
    <2>. QED  BY <2>1, <2>2, AlikeNext
  <1>. HIDE DEF longer, n
  <1>4. \A k \in 1 .. n : Chosen(longer, k)
    BY <1>1, <1>2, <1>3
  <1>5. ASSUME MayBeChosen(name, execution, instr.tid, n, strategy, scheduled)
        PROVE  IsRunOf(name, longer, "RUNNING", strategy, scheduled)
    <2>1. Chosen(longer, n + 1)
      <3>1. n + 1 \in 1 .. n + 1
        BY <1>1
      <3>. QED  BY <1>1, <1>3, <1>5, <3>1
    <2>. QED  BY <1>1, <1>4, <2>1 DEF IsRunOf, NrPerformed
  <1>6. ASSUME WaitingAfter(name, execution, n) # {}, ReadyAfter(name, execution, n) = {}
        PROVE  IsRunOf(name, longer, "DEADLOCK", strategy, scheduled)
    <2>1. WaitingAfter(name, longer, n) # {} /\ ReadyAfter(name, longer, n) = {}
      <3>1. n + 1 \in 1 .. n + 1
        BY <1>1
      <3>. QED  BY <1>1, <1>3, <1>6, <3>1
    <2>. QED  BY <1>1, <1>4, <2>1 DEF IsRunOf, NrPerformed
  <1>. QED  BY <1>5, <1>6 DEF longer, n

\* The chosen thread performs its instruction.
LEMMA PerformOutcome ==
  ASSUME FilesInv, TraceInv, OutcomeInv, Controls, NEW t \in Thread, PerformGranted(t)
  PROVE  OutcomeInv'
  <1>. DEFINE instr == task[t]
  <1>1. /\ stage[t] = "granted"
        /\ stage' = IF instr.op = "Spawn"
                    THEN [stage EXCEPT ![t] = "busy", ![instr.operand] = "busy"]
                    ELSE [stage EXCEPT ![t] = "busy"]
        /\ holder' = CASE instr.op = "Lock" -> [holder EXCEPT ![instr.operand] = t]
                       [] instr.op = "Unlock" -> [holder EXCEPT ![instr.operand] = NoThread]
                       [] OTHER -> holder
        /\ unrecorded' = instr
        /\ UNCHANGED <<ppc, status, trace, routine, at, callerVars>>
    BY DEF PerformGranted, Perform, Performs
  <1>2. /\ unrecorded = NoTask /\ \A u \in Thread : stage[u] = "granted" => u = t
    BY <1>1 DEF TraceInv, GrantedInv
  <1>3. /\ instr \in Instruction /\ instr.tid = t /\ instr # NoTask
        /\ instr.op = "Spawn" => instr.operand \in Thread
    <2>1. instr \in Instruction /\ instr = InstructionOf(program, t, at[t])
      BY <1>1 DEF TraceInv, AnnouncedInv, IsAnnounced
    <2>2. InstructionOf(program, t, at[t]).tid = t
      BY DEF InstructionOf
    <2>3. instr.op = "Spawn" => instr.operand \in Thread
      BY <2>1 DEF Instruction, MemoryOp, LockOp, ManageOp
    <2>. QED  BY <2>1, <2>2, <2>3, NoTaskAssumption
  <1>4. Performed = trace /\ Performed' = Append(trace, instr) /\ trace \in Seq(Instruction)
    BY <1>1, <1>2, <1>3, UnderControl DEF Performed
  <1>5. UNCHANGED program /\ Running' = Running
    BY <1>1 DEF Running, callerVars, buildVars
  <1>. HIDE DEF instr
  <1>6. StagesInv'
    <2>. SUFFICES ASSUME NEW u \in Thread
                  PROVE  /\ stage'[u] # "unborn" <=> CreatedAfter(Performed', u, Len(Performed'))
                         /\ stage'[u] = "ended" => at'[u] = Len(Programs[program'][routine'[u]])
      BY DEF StagesInv
    <2>1. stage[u] # "unborn" <=> CreatedAfter(trace, u, Len(trace))
      BY <1>4 DEF OutcomeInv, StagesInv
    <2>2. CreatedAfter(Performed', u, Len(Performed'))
              <=> stage[u] # "unborn" \/ (instr.op = "Spawn" /\ instr.operand = u)
      BY <1>3, <1>4, <2>1, StateAppended
    <2>3. /\ stage'[u] # "unborn"
                 <=> stage[u] # "unborn" \/ (instr.op = "Spawn" /\ instr.operand = u)
          /\ stage'[u] = "ended" => stage[u] = "ended"
      BY <1>1, <1>3, UnderControl
    <2>. QED  BY <1>1, <1>5, <2>2, <2>3 DEF OutcomeInv, StagesInv
  <1>7. HoldersInv'
    <2>. SUFFICES ASSUME NEW mutex \in Mutexes
                  PROVE  /\ DOMAIN holder' = Mutexes
                         /\ holder'[mutex] # NoThread <=> HeldAfter(Performed', mutex, Len(Performed'))
      <3>1. DOMAIN holder = Mutexes
        BY DEF OutcomeInv, HoldersInv
      <3>2. DOMAIN holder' = Mutexes
        BY <1>1, <3>1
      <3>. QED  BY <1>1, <1>5, <3>2, UnderControl DEF HoldersInv
    <2>1. DOMAIN holder = Mutexes
          /\ (holder[mutex] # NoThread <=> HeldAfter(trace, mutex, Len(trace)))
      BY <1>4 DEF OutcomeInv, HoldersInv
    <2>2. HeldAfter(Performed', mutex, Len(Performed'))
              <=> \/ instr.op = "Lock" /\ instr.operand = mutex
                  \/ holder[mutex] # NoThread /\ ~ (instr.op = "Unlock" /\ instr.operand = mutex)
      BY <1>3, <1>4, <2>1, StateAppended
    <2>3. t # NoThread
      BY UnderControl DEF NoThread
    <2>4. CASE instr.op = "Lock"
      BY <1>1, <2>1, <2>2, <2>3, <2>4
    <2>5. CASE instr.op = "Unlock"
      BY <1>1, <2>1, <2>2, <2>5
    <2>6. CASE instr.op \notin {"Lock", "Unlock"}
      BY <1>1, <2>1, <2>2, <2>6
    <2>. QED  BY <2>4, <2>5, <2>6
  <1>8. ChosenInv'
    <2>1. \A u : IsChosen(u)' <=> IsChosen(u)
      BY <1>1 DEF IsChosen, StrategyTag, callerVars, buildVars
    <2>2. IsChosen(t)
      BY <1>1 DEF OutcomeInv, ChosenInv
    <2>3. \A u \in Thread : stage'[u] # "granted"
      BY <1>1, <1>2, <1>3, UnderControl
    <2>. QED  BY <1>1, <1>3, <2>1, <2>2, <2>3 DEF ChosenInv
  <1>9. RunsInv' /\ EndInv' /\ AlikeInv'
    BY <1>1, NothingPushed, UnderControl
  <1>. QED  BY <1>6, <1>7, <1>8, <1>9 DEF OutcomeInv

\* Two runs of NonPreemptive choose the same after the same transitions, if neither of
\* them is told by its schedule.
LEMMA ChosenAlike ==
  ASSUME NEW name, NEW one, NEW other, IsExecutionOf(one, name), IsExecutionOf(other, name),
         NEW n \in Nat, n <= Len(one), n <= Len(other),
         \A k \in 1 .. n : one[k].tid = other[k].tid,
         NEW t, NEW u, NEW ofOne \in Nat, NEW ofOther \in Nat, ofOne <= n, ofOther <= n,
         MayBeChosen(name, one, t, n, "NonPreemptive", ofOne),
         MayBeChosen(name, other, u, n, "NonPreemptive", ofOther)
  PROVE  t = u
  <1>1. \A k \in 1 .. n : one[k] = other[k]
    BY TidsDetermine
  <1>2. PreferredAfter(name, one, n) = PreferredAfter(name, other, n)
    BY <1>1, AlikeNext
  <1>3. t \in PreferredAfter(name, one, n) /\ u \in PreferredAfter(name, other, n)
    BY DEF MayBeChosen
  <1>. QED  BY <1>2, <1>3, OnePreferred

\* What was performed is recorded.
LEMMA RecordOutcome ==
  ASSUME FilesInv, TraceInv, OutcomeInv, Controls, RecordPerformed
  PROVE  OutcomeInv'
  <1>. DEFINE n == Len(trace)
              instr == unrecorded
  <1>1. /\ Quiet /\ instr # NoTask /\ unrecorded' = NoTask
        /\ trace' = Append(trace, instr)
        /\ UNCHANGED <<ppc, status, stage, holder, routine, at, callerVars>>
    BY DEF RecordPerformed, Record
  <1>2. instr \in Instruction /\ trace \in Seq(Instruction) /\ status = "RUNNING"
    BY <1>1, UnderControl DEF TraceInv, UnrecordedInv
  <1>3. Performed' = Performed
    BY <1>1 DEF Performed
  <1>4. /\ UNCHANGED <<program, schedule, source, cwd, out>> /\ UNCHANGED StrategyTag
        /\ UNCHANGED <<Running, Replays, ContinuesAlike>>
    BY <1>1 DEF Running, Replays, ContinuesAlike, StrategyTag, callerVars, buildVars
  <1>5. /\ n \in Nat /\ Len(trace') = n + 1 /\ trace'[n + 1] = instr
        /\ \A k \in 1 .. n : trace'[k] = trace[k]
        /\ 1 .. n + 1 = (1 .. n) \cup {n + 1}
    BY <1>1, <1>2
  <1>6. IsChosen(instr.tid)
    BY <1>1 DEF OutcomeInv, ChosenInv
  <1>7. StagesInv'
    BY <1>1, <1>3, <1>4, UnderControl DEF OutcomeInv, StagesInv
  <1>8. HoldersInv'
    BY <1>1, <1>3, UnderControl DEF OutcomeInv, HoldersInv, Controls
  <1>9. ChosenInv'
    BY <1>1 DEF ChosenInv, Quiet
  <1>10. RunsInv'
    <2>1. IsRunOf(program, trace, "RUNNING", StrategyTag, Len(schedule))
      BY <1>2 DEF OutcomeInv, RunsInv, Controls
    <2>2. IsRunOf(program, trace', "RUNNING", StrategyTag, Len(schedule))
      BY <1>1, <1>2, <1>6, <2>1, RunAppended DEF IsChosen
    <2>. QED  BY <1>1, <1>2, <1>4, <2>2 DEF OutcomeInv, RunsInv
  <1>11. EndInv'
    BY <1>1, <1>2 DEF EndInv
  <1>12. AlikeInv'
    <2>. SUFFICES ASSUME Running, Replays, ContinuesAlike,
                         NEW k \in 1 .. n + 1, k <= NrPerformed(source.execution, source.end)
                  PROVE  trace'[k].tid = source.execution[k].tid
      BY <1>1, <1>2, <1>4, <1>5 DEF AlikeInv, NrPerformed
    <2>1. \A j \in 1 .. n : j <= NrPerformed(source.execution, source.end) =>
                                trace[j].tid = source.execution[j].tid
      BY <1>2 DEF OutcomeInv, AlikeInv, NrPerformed
    <2>2. CASE k \in 1 .. n
      BY <1>5, <2>1, <2>2
    <2>3. CASE k = n + 1
      <3>1. /\ source # NoFile /\ source.program = program
            /\ OnlyMainCreates(source.program) /\ StrategyTag = "NonPreemptive"
            /\ source.strategy = "NonPreemptive" /\ source.scheduled <= Len(schedule)
        BY DEF Replays, Running, ContinuesAlike
      <3>2. /\ IsExecutionOf(trace, program) /\ IsExecutionOf(source.execution, program)
            /\ source.execution \in Seq(Instruction)
        BY <3>1 DEF TraceInv, ExecutionsInv, IsExecutionOf
      <3>3. /\ IsRunOf(program, source.execution, source.end, "NonPreemptive", source.scheduled)
            /\ source.scheduled \in Nat
        BY <3>1 DEF OutcomeInv, RunsInv
      <3>4. /\ NrPerformed(source.execution, source.end) \in Nat
            /\ NrPerformed(source.execution, source.end) <= Len(source.execution)
        BY <3>2, <3>3 DEF IsRunOf, NrPerformed
      <3>5. schedule \in Seq(Thread) /\ Len(schedule) \in Nat
        BY <3>1 DEF TraceInv, ScheduleInv
      <3>6. CASE n < Len(schedule)
        <4>1. instr.tid = Entry /\ Entry = schedule[n + 1]
          BY <1>1, <3>6 DEF TraceInv, UnrecordedInv, Scheduled, Entry
        <4>2. schedule[n + 1] = source.execution[n + 1].tid
          <5>1. n + 1 \in DOMAIN schedule
            BY <1>5, <3>5, <3>6
          <5>. QED  BY <3>1, <5>1 DEF TraceInv, ScheduleInv
        <4>. QED  BY <1>5, <2>3, <4>1, <4>2
      <3>7. CASE ~ n < Len(schedule)
        <4>1. MayBeChosen(program, trace, instr.tid, n, "NonPreemptive", Len(schedule))
          BY <1>6, <3>1 DEF IsChosen
        <4>2. MayBeChosen(program, source.execution, source.execution[n + 1].tid, n,
                          "NonPreemptive", source.scheduled)
          <5>1. n + 1 \in 1 .. NrPerformed(source.execution, source.end) /\ (n + 1) - 1 = n
            BY <1>5, <2>3, <3>4
          <5>. QED  BY <3>3, <5>1 DEF IsRunOf
        <4>3. /\ n <= Len(trace) /\ n <= Len(source.execution)
              /\ source.scheduled <= n /\ Len(schedule) <= n
              /\ \A j \in 1 .. n : j <= NrPerformed(source.execution, source.end)
          <5>. HIDE DEF n
          <5>1. n + 1 <= NrPerformed(source.execution, source.end) /\ n <= Len(trace)
            BY <1>5, <2>3 DEF n
          <5>. QED  BY <1>5, <3>1, <3>3, <3>4, <3>5, <3>7, <5>1
        <4>4. \A j \in 1 .. n : trace[j].tid = source.execution[j].tid
          BY <2>1, <4>3
        <4>5. instr.tid = source.execution[n + 1].tid
          BY <1>5, <3>2, <3>3, <3>5, <4>1, <4>2, <4>3, <4>4, ChosenAlike
        <4>. QED  BY <1>5, <2>3, <4>5
      <3>. QED  BY <3>6, <3>7
    <2>. QED  BY <1>5, <2>2, <2>3
  <1>. QED  BY <1>7, <1>8, <1>9, <1>10, <1>11, <1>12 DEF OutcomeInv

\* The end is what it is called.
LEMMA DoneOutcome ==
  ASSUME FilesInv, TraceInv, OutcomeInv, Controls, SelectDone
  PROVE  OutcomeInv'
  <1>1. /\ ~ Scheduled /\ Settled /\ WaitingThreads = {} /\ status' = "DONE"
        /\ UNCHANGED <<ppc, trace, stage, holder, callerVars>>
    BY DEF SelectDone, Done
  <1>2. /\ UNCHANGED <<program, schedule, source, cwd, out>> /\ UNCHANGED StrategyTag
        /\ UNCHANGED <<Running, Replays, ContinuesAlike, Scheduled>>
    BY <1>1 DEF Running, Replays, ContinuesAlike, StrategyTag, Scheduled, callerVars, buildVars
  <1>3. StagesInv' /\ HoldersInv' /\ ChosenInv'
    BY <1>1, UnderControl DEF StagesInv, HoldersInv, ChosenInv, Controls
  <1>4. RunsInv'
    <2>1. IsRunOf(program, trace, "RUNNING", StrategyTag, Len(schedule))
      BY UnderControl DEF OutcomeInv, RunsInv, Controls
    <2>2. WaitingAfter(program, trace, Len(trace)) = {}
      BY <1>1, SettledState
    <2>3. IsRunOf(program, trace, "DONE", StrategyTag, Len(schedule))
      BY <2>1, <2>2 DEF IsRunOf, NrPerformed
    <2>. QED  BY <1>1, <1>2, <2>3 DEF OutcomeInv, RunsInv
  <1>5. EndInv'
    BY <1>1, <1>2 DEF EndInv
  <1>6. AlikeInv'
    BY <1>1, <1>2, UnderControl DEF OutcomeInv, AlikeInv, NrPerformed
  <1>. QED  BY <1>3, <1>4, <1>5, <1>6 DEF OutcomeInv

LEMMA DeadlockOutcome ==
  ASSUME FilesInv, TraceInv, OutcomeInv, Controls, SelectDeadlock
  PROVE  OutcomeInv'
  <1>. DEFINE n == Len(trace)
  <1>1. /\ ~ Scheduled /\ Settled /\ WaitingThreads # {} /\ Ready = {} /\ status' = "DEADLOCK"
        /\ UNCHANGED <<ppc, callerVars>>
    BY DEF SelectDeadlock, Deadlock, Ready
  <1>2. PICK t \in WaitingThreads : trace' = Append(trace, task[t])
    BY DEF SelectDeadlock, Deadlock, Pushed
  <1>3. task[t] \in Instruction /\ trace \in Seq(Instruction) /\ status = "RUNNING"
    BY UnderControl DEF TraceInv, AnnouncedInv, IsAnnounced, WaitingThreads
  <1>4. /\ n \in Nat /\ Len(trace') = n + 1 /\ Len(trace') - 1 = n
        /\ \A k \in 1 .. n : trace'[k] = trace[k]
    BY <1>2, <1>3
  <1>5. /\ UNCHANGED <<program, schedule, source, cwd, out>> /\ UNCHANGED StrategyTag
        /\ UNCHANGED <<Running, Replays, ContinuesAlike>>
    BY <1>1 DEF Running, Replays, ContinuesAlike, StrategyTag, callerVars, buildVars
  <1>6. StagesInv' /\ HoldersInv' /\ ChosenInv'
    BY <1>1, UnderControl DEF StagesInv, HoldersInv, ChosenInv, Controls
  <1>7. RunsInv'
    <2>1. IsRunOf(program, trace, "RUNNING", StrategyTag, Len(schedule))
      BY UnderControl DEF OutcomeInv, RunsInv, Controls
    <2>2. WaitingAfter(program, trace, n) # {} /\ ReadyAfter(program, trace, n) = {}
      BY <1>1, SettledState
    <2>3. IsRunOf(program, trace', "DEADLOCK", StrategyTag, Len(schedule))
      BY <1>2, <1>3, <2>1, <2>2, RunAppended
    <2>. QED  BY <1>1, <1>5, <2>3 DEF OutcomeInv, RunsInv
  <1>8. EndInv'
    BY <1>1, <1>4, <1>5 DEF EndInv, Scheduled
  <1>9. AlikeInv'
    BY <1>1, <1>3, <1>4, <1>5 DEF OutcomeInv, AlikeInv, NrPerformed
  <1>. QED  BY <1>6, <1>7, <1>8, <1>9 DEF OutcomeInv

\* The schedule names a thread that cannot go on.
LEMMA ErrorOutcome ==
  ASSUME FilesInv, TraceInv, OutcomeInv, Controls, SelectionError
  PROVE  OutcomeInv'
  <1>1. /\ Scheduled /\ Settled /\ status' = "ERROR" /\ status = "RUNNING"
        /\ UNCHANGED <<ppc, trace, stage, holder, callerVars>>
        /\ stage[Entry] = "ended" \/ (stage[Entry] = "waiting" /\ ~ CanGoOn(task[Entry]))
    BY UnderControl DEF SelectionError
  <1>2. /\ UNCHANGED <<program, schedule, source, cwd, out>> /\ UNCHANGED StrategyTag
        /\ UNCHANGED <<Running, Replays, ContinuesAlike, Scheduled, Entry>>
    BY <1>1 DEF Running, Replays, ContinuesAlike, StrategyTag, Scheduled, Entry, callerVars, buildVars
  <1>3. StagesInv' /\ HoldersInv' /\ ChosenInv'
    BY <1>1, UnderControl DEF StagesInv, HoldersInv, ChosenInv, Controls
  <1>4. RunsInv'
    <2>1. IsRunOf(program, trace, "RUNNING", StrategyTag, Len(schedule))
      BY <1>1 DEF OutcomeInv, RunsInv, Controls
    <2>2. IsRunOf(program, trace, "ERROR", StrategyTag, Len(schedule))
      BY <2>1 DEF IsRunOf, NrPerformed
    <2>. QED  BY <1>1, <1>2, <2>2 DEF OutcomeInv, RunsInv
  <1>5. EndInv'
    <2>1. Entry \notin Ready
      BY <1>1 DEF Ready, WaitingThreads
    <2>2. Entry \notin ReadyAfter(program, trace, Len(trace))
      BY <1>1, <2>1, SettledState
    <2>. QED  BY <1>1, <1>2, <2>2 DEF EndInv
  <1>6. AlikeInv'
    BY <1>1, <1>2 DEF OutcomeInv, AlikeInv, NrPerformed
  <1>. QED  BY <1>3, <1>4, <1>5, <1>6 DEF OutcomeInv

LEMMA GoneOutcome ==
  ASSUME FilesInv, TraceInv, OutcomeInv, Gone, UNCHANGED callerVars
  PROVE  OutcomeInv'
  <1>1. ppc' = "over" /\ holder' = [mutex \in Mutexes |-> NoThread]
    BY DEF Gone
  <1>2. UNCHANGED <<schedule, source, cwd, out>>
    BY DEF callerVars
  <1>3. StagesInv' /\ HoldersInv' /\ ChosenInv' /\ EndInv' /\ AlikeInv'
    BY <1>1 DEF StagesInv, HoldersInv, ChosenInv, EndInv, AlikeInv, Controls, Running
  <1>4. RunsInv'
    BY <1>1, <1>2 DEF OutcomeInv, RunsInv, Running
  <1>. QED  BY <1>3, <1>4 DEF OutcomeInv

\* Where other threads than main create threads nothing is said of the process.
LEMMA OtherOutcome ==
  ASSUME FilesInv, TraceInv, OutcomeInv, ppc = "running", ppc' = "running",
         ~ OnlyMainCreates(program), UNCHANGED callerVars
  PROVE  OutcomeInv'
  <1>1. ~ Running' /\ UNCHANGED <<program, schedule, source, cwd, out>>
    BY DEF Running, callerVars, buildVars
  <1>2. StagesInv' /\ HoldersInv' /\ ChosenInv' /\ EndInv' /\ AlikeInv'
    BY <1>1 DEF StagesInv, HoldersInv, ChosenInv, EndInv, AlikeInv, Controls
  <1>3. RunsInv'
    BY <1>1 DEF OutcomeInv, RunsInv
  <1>. QED  BY <1>2, <1>3 DEF OutcomeInv

LEMMA ThreadOutcome ==
  ASSUME FilesInv, TraceInv, OutcomeInv, NEW t \in Thread,
         AnnounceNext(t) \/ ThreadEnds(t) \/ PerformGranted(t) \/ PerformFreely(t)
  PROVE  OutcomeInv'
  <1>1. ppc = "running" /\ UNCHANGED <<ppc, status, trace, callerVars>>
    BY DEF AnnounceNext, Announce, ThreadEnds, End, PerformGranted, Perform, Performs,
           PerformFreely, Controlled
  <1>2. CASE ~ OnlyMainCreates(program)
    BY <1>1, <1>2, OtherOutcome
  <1>3. CASE OnlyMainCreates(program) /\ status # "RUNNING"
    BY <1>1, <1>3, FreeOutcome
  <1>4. CASE OnlyMainCreates(program) /\ status = "RUNNING"
    <2>1. Controls /\ ~ PerformFreely(t)
      BY <1>1, <1>4 DEF Controls, Running, PerformFreely
    <2>. QED  BY <2>1, AnnounceOutcome, EndOutcome, PerformOutcome
  <1>. QED  BY <1>2, <1>3, <1>4

LEMMA SchedulerOutcome ==
  ASSUME FilesInv, TraceInv, OutcomeInv,
         \/ RecordPerformed \/ SelectScheduled \/ SelectByStrategy \/ SelectionError
         \/ SelectDone \/ SelectDeadlock
  PROVE  OutcomeInv'
  <1>1. ppc = "running" /\ status = "RUNNING" /\ UNCHANGED <<ppc, callerVars>>
    BY DEF RecordPerformed, SelectScheduled, SelectByStrategy, SelectionError, SelectDone,
           SelectDeadlock, Controlled
  <1>2. CASE ~ OnlyMainCreates(program)
    BY <1>1, <1>2, OtherOutcome
  <1>3. CASE OnlyMainCreates(program)
    <2>1. Controls
      BY <1>1, <1>3 DEF Controls, Running
    <2>. QED  BY <2>1, RecordOutcome, ChooseOutcome, ErrorOutcome, DoneOutcome, DeadlockOutcome
  <1>. QED  BY <1>2, <1>3

\* The record is what the process has done, and stays what it is.
LEMMA FilesOutcome ==
  ASSUME FilesInv, TraceInv, OutcomeInv, ppc = "running",
         UNCHANGED <<processVars, program, source, schedule, settings, out>>,
         cwd'.record # NoFile /\ OnlyMainCreates(cwd'.record.program) =>
             /\ IsRunOf(cwd'.record.program, cwd'.record.execution, cwd'.record.end,
                        cwd'.record.strategy, cwd'.record.scheduled)
             /\ cwd'.record.scheduled \in Nat
  PROVE  OutcomeInv'
  <1>. USE DEF processVars, turnVars
  <1>1. UNCHANGED <<Running, Controls, Performed, StrategyTag, Replays, ContinuesAlike,
                    Scheduled, Entry>>
    BY DEF Running, Controls, Performed, StrategyTag, Replays, ContinuesAlike, Scheduled, Entry
  <1>2. StagesInv' /\ HoldersInv'
    BY <1>1 DEF OutcomeInv, StagesInv, HoldersInv
  <1>3. ChosenInv'
    BY <1>1 DEF OutcomeInv, ChosenInv, IsChosen
  <1>4. RunsInv'
    BY <1>1 DEF OutcomeInv, RunsInv
  <1>5. EndInv' /\ AlikeInv'
    BY <1>1 DEF OutcomeInv, EndInv, AlikeInv
  <1>. QED  BY <1>2, <1>3, <1>4, <1>5 DEF OutcomeInv

LEMMA WritingOutcome ==
  ASSUME FilesInv, LengthsInv, TraceInv, OutcomeInv,
         OpenRecord \/ WriteRecord \/ OpenShortRecord \/ WriteShortRecord
  PROVE  OutcomeInv'
  <1>1. CASE OpenRecord /\ trace = <<>>
    BY <1>1, GoneOutcome DEF OpenRecord, callerVars
  <1>2. CASE OpenRecord /\ trace # <<>>
    <2>1. /\ ppc = "running"
          /\ OnlyMainCreates(program) =>
                IsRunOf(program, trace, status, StrategyTag, Len(schedule))
      BY <1>2, RecordOpened DEF OutcomeInv, RunsInv, Running
    <2>2. Len(schedule) \in Nat
      BY DEF LengthsInv
    <2>. QED  BY <1>2, <2>1, <2>2, RecordOpened, FilesOutcome
  <1>3. CASE WriteRecord \/ OpenShortRecord \/ WriteShortRecord
    <2>1. OnlyMainCreates(cwd.record.program) =>
              /\ IsRunOf(cwd.record.program, cwd.record.execution, cwd.record.end,
                         cwd.record.strategy, cwd.record.scheduled)
              /\ cwd.record.scheduled \in Nat
      BY <1>3, RecordKept DEF OutcomeInv, RunsInv
    <2>. QED  BY <1>3, <2>1, RecordKept, FilesOutcome
  <1>. QED  BY <1>1, <1>2, <1>3
-----------------------------------------------------------------------------
(***************************************************************************)
(* The steps of the caller.                                                *)
(***************************************************************************)
LEMMA CallerOutcome ==
  ASSUME FilesInv, TraceInv, OutcomeInv, ppc # "running", ppc' # "running",
         UNCHANGED holder, RunsInv'
  PROVE  OutcomeInv'
  <1>1. ~ Running' /\ ~ Controls'
    BY DEF Running, Controls
  <1>2. StagesInv' /\ ChosenInv' /\ EndInv' /\ AlikeInv'
    BY <1>1 DEF StagesInv, ChosenInv, EndInv, AlikeInv
  <1>3. HoldersInv'
    BY <1>1 DEF OutcomeInv, HoldersInv
  <1>. QED  BY <1>2, <1>3 DEF OutcomeInv

LEMMA InstrumentOutcome ==
  ASSUME FilesInv, TraceInv, OutcomeInv, Instrument
  PROVE  OutcomeInv'
  <1>1. /\ ppc # "running" /\ UNCHANGED processVars
        /\ out' \in {out, NoFiles} /\ UNCHANGED <<schedule, cwd, source>>
    BY DEF Instrument, FilesInv, CallInv, AtCaller
  <1>2. ppc' # "running" /\ UNCHANGED holder
    BY <1>1 DEF processVars, turnVars
  <1>3. RunsInv'
    BY <1>1, <1>2, NoFileIsFile DEF OutcomeInv, RunsInv, Running
  <1>. QED  BY <1>1, <1>2, <1>3, CallerOutcome

LEMMA RenameOutcome ==
  ASSUME FilesInv, TraceInv, OutcomeInv, RenameRecord \/ RenameShortRecord
  PROVE  OutcomeInv'
  <1>1. ppc # "running" /\ UNCHANGED <<processVars, schedule, source>>
    BY DEF RenameRecord, RenameShortRecord, FilesInv, CallInv
  <1>2. /\ cwd'.record \in {cwd.record, NoFile}
        /\ out'.record \in {out.record, cwd.record}
    BY RecordsRenamed
  <1>3. ppc' # "running" /\ UNCHANGED holder
    BY <1>1 DEF processVars, turnVars
  <1>4. RunsInv'
    BY <1>1, <1>2, <1>3 DEF OutcomeInv, RunsInv, Running
  <1>. QED  BY <1>1, <1>3, <1>4, CallerOutcome

\* A new process has performed nothing.
LEMMA RunOutcome ==
  ASSUME FilesInv, TraceInv, OutcomeInv, RunUnderSchedule
  PROVE  OutcomeInv'
  <1>1. /\ ppc # "running" /\ ppc' = IF program = NoProgram THEN "over" ELSE "running"
        /\ UNCHANGED <<turnVars, routine, at, children, trace, buildVars, cwd, out>>
    BY DEF RunUnderSchedule, AtCaller, FilesInv, CallInv
  <1>2. /\ stage = [t \in Thread |-> IF t = 0 THEN "busy" ELSE "unborn"]
        /\ status = "RUNNING" /\ unrecorded = NoTask /\ trace = <<>>
    BY <1>1 DEF TraceInv, NoProcess
  <1>3. UNCHANGED <<stage, holder, status, unrecorded, program>>
    BY <1>1 DEF turnVars, buildVars
  <1>4. source' \in {NoFile, out.record}
    BY DEF RunUnderSchedule, WriteSchedules
  <1>5. /\ Len(trace') = 0 /\ 1 .. Len(trace') = {} /\ Performed' = trace'
    BY <1>1, <1>2, <1>3 DEF Performed
  <1>6. \A t \in Thread : /\ stage'[t] # "unborn" <=> t = 0
                          /\ stage'[t] \notin {"granted", "ended"}
    BY <1>2, <1>3
  <1>7. StagesInv'
    BY <1>5, <1>6 DEF StagesInv, CreatedAfter
  <1>8. HoldersInv'
    <2>1. holder' = [mutex \in Mutexes |-> NoThread]
      BY <1>1, <1>3 DEF OutcomeInv, HoldersInv
    <2>. QED  BY <1>5, <2>1 DEF HoldersInv, HeldAfter
  <1>9. ChosenInv'
    BY <1>2, <1>3, <1>6 DEF ChosenInv
  <1>10. RunsInv'
    <2>1. NrPerformed(trace', "RUNNING") = 0
      BY <1>5 DEF NrPerformed
    <2>2. \A strategy, scheduled : IsRunOf(program', trace', "RUNNING", strategy, scheduled)
      BY <1>5, <2>1 DEF IsRunOf
    <2>. QED  BY <1>1, <1>2, <1>3, <1>4, <2>2 DEF OutcomeInv, RunsInv
  <1>11. EndInv'
    BY <1>2, <1>3 DEF EndInv
  <1>12. AlikeInv'
    BY <1>2, <1>3, <1>5 DEF AlikeInv, NrPerformed
  <1>. QED  BY <1>7, <1>8, <1>9, <1>10, <1>11, <1>12 DEF OutcomeInv

LEMMA InitOutcome == Init => OutcomeInv
  <1>. SUFFICES ASSUME Init PROVE OutcomeInv
    OBVIOUS
  <1>1. /\ ppc = "off" /\ cwd = NoFiles /\ out = NoFiles /\ source = NoFile
        /\ holder = [mutex \in Mutexes |-> NoThread]
    BY DEF Init, ProcessInit, TurnInit
  <1>2. ~ Running /\ ~ Controls
    BY <1>1 DEF Running, Controls
  <1>3. StagesInv /\ HoldersInv /\ ChosenInv /\ EndInv /\ AlikeInv
    BY <1>1, <1>2 DEF StagesInv, HoldersInv, ChosenInv, EndInv, AlikeInv
  <1>4. RunsInv
    BY <1>1, <1>2, NoFileIsFile DEF RunsInv
  <1>. QED  BY <1>3, <1>4 DEF OutcomeInv

LEMMA OutcomeStep ==
  FilesInv /\ LengthsInv /\ TraceInv /\ OutcomeInv /\ [Next]_vars => OutcomeInv'
  <1>. SUFFICES ASSUME FilesInv, LengthsInv, TraceInv, OutcomeInv, [Next]_vars
                PROVE  OutcomeInv'
    OBVIOUS
  <1>1. CASE UNCHANGED vars
    <2>. USE DEF vars, processVars, callerVars, buildVars, turnVars
    <2>1. UNCHANGED <<Running, Controls, Performed, StrategyTag, Replays, ContinuesAlike,
                      Scheduled, Entry>>
      BY <1>1 DEF Running, Controls, Performed, StrategyTag, Replays, ContinuesAlike, Scheduled, Entry
    <2>2. StagesInv' /\ HoldersInv' /\ ChosenInv'
      BY <1>1, <2>1 DEF OutcomeInv, StagesInv, HoldersInv, ChosenInv, IsChosen
    <2>3. RunsInv' /\ EndInv' /\ AlikeInv'
      BY <1>1, <2>1 DEF OutcomeInv, RunsInv, EndInv, AlikeInv
    <2>. QED  BY <2>2, <2>3 DEF OutcomeInv
  <1>2. CASE UnknownThread \/ Exit \/ Timeout
    BY <1>2, GoneOutcome DEF UnknownThread, Exit, Timeout
  <1>. QED
    BY <1>1, <1>2, ThreadOutcome, SchedulerOutcome, WritingOutcome, InstrumentOutcome, RunOutcome,
       RenameOutcome
       DEF Next, ProcessStep
-----------------------------------------------------------------------------
(***************************************************************************)
(* The schedule of a whole record is as long as the record.                *)
(***************************************************************************)
LEMMA Sequences ==
  ASSUME NEW execution, IsSequence(execution)
  PROVE  /\ Len(execution) \in Nat
         /\ \A instr : IsSequence(Append(execution, instr))
         /\ IsSequence(<<>>)
         /\ DOMAIN execution = 1 .. Len(execution)
  <1>1. ASSUME NEW instr PROVE IsSequence(Append(execution, instr))
    <2>. DEFINE longer == Append(execution, instr)
    <2>1. ToSet(longer) = ToSet(execution) \cup {instr}
      <3>1. Len(execution) \in Nat /\ DOMAIN execution = 1 .. Len(execution)
        BY DEF IsSequence
      <3>2. /\ DOMAIN longer = 1 .. Len(execution) + 1
            /\ longer[Len(execution) + 1] = instr
            /\ \A k \in DOMAIN execution : longer[k] = execution[k]
        BY DEF IsSequence
      <3>3. DOMAIN longer = DOMAIN execution \cup {Len(execution) + 1}
        BY <3>1, <3>2
      <3>. HIDE DEF longer
      <3>. QED  BY <3>2, <3>3 DEF ToSet
    <2>2. execution \in Seq(ToSet(execution) \cup {instr})
      <3>1. execution \in Seq(ToSet(execution))
        BY DEF IsSequence
      <3>. QED  BY <3>1
    <2>3. longer \in Seq(ToSet(execution) \cup {instr})
      BY <2>2
    <2>. QED  BY <2>1, <2>3 DEF IsSequence
  <1>. QED  BY <1>1 DEF IsSequence

LEMMA ProcessLengths ==
  ASSUME FilesInv, LengthsInv, UNCHANGED <<schedule, source, out>>,
         \/ UNCHANGED trace \/ trace' = <<>> \/ \E instr : trace' = Append(trace, instr),
         cwd'.record.execution \in {cwd.record.execution, trace}
  PROVE  LengthsInv'
  <1>1. IsSequence(trace')
    BY Sequences DEF LengthsInv
  <1>. QED  BY <1>1 DEF LengthsInv

LEMMA LengthsStep == FilesInv /\ LengthsInv /\ [Next]_vars => LengthsInv'
  <1>. SUFFICES ASSUME FilesInv, LengthsInv, [Next]_vars PROVE LengthsInv'
    OBVIOUS
  <1>. USE DEF callerVars, buildVars
  <1>1. CASE \/ UNCHANGED vars \/ UnknownThread \/ Exit \/ Timeout
             \/ \E t \in Thread : \/ AnnounceNext(t) \/ ThreadEnds(t) \/ PerformGranted(t)
                                  \/ PerformFreely(t)
             \/ RecordPerformed \/ SelectScheduled \/ SelectByStrategy \/ SelectionError
             \/ SelectDone \/ SelectDeadlock
    <2>1. UNCHANGED callerVars
      BY <1>1 DEF vars, AnnounceNext, ThreadEnds, PerformGranted, PerformFreely, RecordPerformed,
             SelectScheduled, SelectByStrategy, SelectionError, SelectDone, SelectDeadlock,
             UnknownThread, Exit, Timeout
    <2>2. UNCHANGED trace \/ trace' = <<>> \/ \E instr : trace' = Append(trace, instr)
      BY <1>1 DEF vars, processVars, AnnounceNext, ThreadEnds, PerformGranted, PerformFreely,
             RecordPerformed, SelectScheduled, SelectByStrategy, SelectionError, SelectDone,
             SelectDeadlock, UnknownThread, Exit, Timeout, Gone
    <2>. QED  BY <2>1, <2>2, ProcessLengths
  <1>2. CASE OpenRecord /\ trace = <<>>
    BY <1>2, ProcessLengths DEF OpenRecord, Gone
  <1>3. CASE OpenRecord /\ trace # <<>>
    BY <1>3, RecordOpened, ProcessLengths DEF processVars
  <1>4. CASE WriteRecord \/ OpenShortRecord \/ WriteShortRecord
    BY <1>4, RecordKept, ProcessLengths DEF processVars
  <1>5. IsSequence(NoFile.execution)
    BY DEF NoFile, IsSequence, ToSet
  <1>6. CASE Instrument
    <2>1. /\ UNCHANGED <<trace, schedule, cwd, source>>
          /\ out'.record \in {out.record, NoFile}
      BY <1>6, NoFileIsFile DEF Instrument, processVars
    <2>. QED  BY <1>5, <2>1 DEF LengthsInv
  <1>7. CASE RenameRecord \/ RenameShortRecord
    <2>1. UNCHANGED <<trace, schedule, source>>
      BY <1>7 DEF RenameRecord, RenameShortRecord, processVars
    <2>. QED  BY <1>5, <1>7, <2>1, RecordsRenamed DEF LengthsInv
  <1>8. CASE RunUnderSchedule
    <2>1. /\ UNCHANGED <<trace, cwd, out>> /\ source' \in {NoFile, out.record}
      BY <1>8 DEF RunUnderSchedule, WriteSchedules
    <2>2. CASE source' = NoFile /\ schedule' \in Schedules
      <3>1. Len(schedule') \in Nat
        BY <2>2, SchedulesAssumption
      <3>. QED  BY <1>5, <2>1, <2>2, <3>1 DEF LengthsInv
    <2>3. CASE /\ source' = out.record
               /\ \E execution \in Readable(out.record) : schedule' = ScheduleOf(execution)
      <3>. DEFINE E == out.record.execution
      <3>1. E \in Seq(ToSet(E)) /\ Len(E) \in Nat
        BY DEF LengthsInv, IsSequence
      <3>2. PICK execution \in Readable(out.record) : schedule' = ScheduleOf(execution)
        BY <2>3
      <3>3. /\ \E k \in 0 .. Len(E) : execution = SubSeq(E, 1, k)
            /\ out.record.whole => execution = E
        <4>1. Len(E) \in 0 .. Len(E) /\ SubSeq(E, 1, Len(E)) = E
          BY <3>1
        <4>. QED  BY <4>1 DEF Readable
      <3>4. Len(execution) \in Nat /\ DOMAIN execution = 1 .. Len(execution)
        BY <3>1, <3>3
      <3>5. Len(schedule') = Len(execution)
        BY <3>2, <3>4 DEF ScheduleOf
      <3>. QED  BY <2>1, <2>3, <3>3, <3>4, <3>5 DEF LengthsInv
    <2>. QED  BY <1>8, <2>2, <2>3 DEF RunUnderSchedule, WriteSchedules
  <1>. QED  BY <1>1, <1>2, <1>3, <1>4, <1>6, <1>7, <1>8 DEF Next, ProcessStep

LEMMA InitLengths == Init => LengthsInv
  <1>1. Init => /\ trace = <<>> /\ schedule = <<>> /\ source = NoFile
                /\ cwd.record = NoFile /\ out.record = NoFile
    BY NoFileIsFile DEF Init, ProcessInit
  <1>2. NoFile.execution = <<>> /\ IsSequence(<<>>) /\ Len(<<>>) \in Nat
    BY DEF NoFile, IsSequence
  <1>. QED  BY <1>1, <1>2 DEF LengthsInv

\* The records and the schedules are sequences of the same length, if a record is whole
\* (write_schedules in scheduler/replay.cpp, schedule in scheduler/schedule.cpp).
THEOREM LengthsInvariance == Spec => []LengthsInv
  BY InitLengths, LengthsStep, FilesInvariance, PTL DEF Spec

\* Every transition of a record was chosen when its thread could go on, by the schedule
\* or by the strategy, and its end is what it is called, if only main creates threads and
\* no thread has an empty routine or ends right after a creation (RoutinesAssumption):
\* else a joiner may be left disabled, and a deadlock be recorded that is none.
THEOREM OutcomeInvariance == Spec => []OutcomeInv
  BY InitOutcome, OutcomeStep, FilesInvariance, LengthsInvariance, TraceInvariance, PTL DEF Spec

-----------------------------------------------------------------------------
(***************************************************************************)
(* The replay.                                                             *)
(***************************************************************************)
\* Who was chosen could go on.
LEMMA PerformedWasReady ==
  ASSUME NEW name, NEW one, NEW other, NEW n \in Nat, \A k \in 1 .. n : one[k] = other[k],
         NEW end, NEW strategy, NEW scheduled, IsRunOf(name, other, end, strategy, scheduled),
         n + 1 <= NrPerformed(other, end)
  PROVE  other[n + 1].tid \in ReadyAfter(name, one, n)
  <1>1. n + 1 \in 1 .. NrPerformed(other, end) /\ (n + 1) - 1 = n
    BY DEF IsRunOf
  <1>2. MayBeChosen(name, other, other[n + 1].tid, n, strategy, scheduled)
    BY <1>1 DEF IsRunOf
  <1>. QED  BY <1>2, AlikeNext DEF MayBeChosen

\* Two executions of a program that have come to an end, and agree as long as both last,
\* have come to the same end.
LEMMA SameEnd ==
  ASSUME NEW name,
         NEW one, IsExecutionOf(one, name),
         NEW end \in {"DONE", "DEADLOCK"}, NEW strategy, NEW scheduled,
         IsRunOf(name, one, end, strategy, scheduled),
         NEW other, IsExecutionOf(other, name),
         NEW otherEnd \in {"DONE", "DEADLOCK"}, NEW otherStrategy, NEW otherScheduled,
         IsRunOf(name, other, otherEnd, otherStrategy, otherScheduled),
         \A k \in 1 .. NrPerformed(one, end) :
             k <= NrPerformed(other, otherEnd) => one[k].tid = other[k].tid
  PROVE  /\ end = otherEnd /\ NrPerformed(one, end) = NrPerformed(other, otherEnd)
         /\ \A k \in 1 .. NrPerformed(one, end) : one[k] = other[k]
  <1>. DEFINE n == NrPerformed(one, end)
              m == NrPerformed(other, otherEnd)
  <1>1. /\ Len(one) \in Nat /\ Len(other) \in Nat /\ n \in Nat /\ m \in Nat
        /\ n <= Len(one) /\ m <= Len(other)
    BY DEF IsExecutionOf, IsRunOf, NrPerformed
  <1>2. /\ ReadyAfter(name, one, n) = {} /\ (WaitingAfter(name, one, n) = {} <=> end = "DONE")
        /\ ReadyAfter(name, other, m) = {} /\ (WaitingAfter(name, other, m) = {} <=> otherEnd = "DONE")
    BY DEF IsRunOf, ReadyAfter
  <1>. HIDE DEF n, m
  <1>3. ASSUME NEW k \in Nat, k <= n, k <= m
        PROVE  \A j \in 1 .. k : one[j] = other[j]
    <2>1. \A j \in 1 .. k : j \in 1 .. n /\ j <= m
      BY <1>1, <1>3
    <2>2. \A j \in 1 .. k : one[j].tid = other[j].tid
      BY <2>1 DEF n, m
    <2>3. k <= Len(one) /\ k <= Len(other)
      BY <1>1, <1>3
    <2>. QED  BY <2>2, <2>3, TidsDetermine
  <1>4. ~ n < m
    <2>. SUFFICES ASSUME n < m PROVE FALSE
      OBVIOUS
    <2>1. n + 1 <= m /\ \A j \in 1 .. n : one[j] = other[j]
      BY <1>1, <1>3
    <2>. QED  BY <1>1, <1>2, <2>1, PerformedWasReady DEF m
  <1>5. ~ m < n
    <2>. SUFFICES ASSUME m < n PROVE FALSE
      OBVIOUS
    <2>1. m + 1 <= n /\ \A j \in 1 .. m : other[j] = one[j]
      BY <1>1, <1>3
    <2>. QED  BY <1>1, <1>2, <2>1, PerformedWasReady DEF n
  <1>6. n = m /\ \A j \in 1 .. n : one[j] = other[j]
    BY <1>1, <1>3, <1>4, <1>5
  <1>7. end = otherEnd
    BY <1>1, <1>2, <1>6, AlikeNext
  <1>. QED  BY <1>6, <1>7 DEF n, m

\* What the invariants say of a replay that has come to an end.
LEMMA EndOfReplay ==
  ASSUME FilesInv, LengthsInv, TraceInv, OutcomeInv, Running, Replays, status # "RUNNING"
  PROVE  /\ IsExecutionOf(trace, program) /\ IsExecutionOf(source.execution, program)
         /\ trace \in Seq(Instruction) /\ source.execution \in Seq(Instruction)
         /\ IsRunOf(program, trace, status, StrategyTag, Len(schedule))
         /\ IsRunOf(program, source.execution, source.end, source.strategy, source.scheduled)
         /\ schedule \in Seq(Thread) /\ Len(schedule) <= Len(source.execution)
         /\ \A k \in DOMAIN schedule : schedule[k] = source.execution[k].tid
         /\ \A k \in DOMAIN trace \cap DOMAIN schedule : trace[k] = source.execution[k]
  <1>1. source # NoFile /\ OnlyMainCreates(source.program) /\ source.program = program
    BY DEF Replays, Running
  <1>2. IsExecutionOf(trace, program) /\ IsExecutionOf(source.execution, program)
    BY <1>1 DEF TraceInv, ExecutionsInv
  <1>3. /\ IsRunOf(program, trace, status, StrategyTag, Len(schedule))
        /\ IsRunOf(program, source.execution, source.end, source.strategy, source.scheduled)
    BY <1>1 DEF OutcomeInv, RunsInv
  <1>4. /\ schedule \in Seq(Thread) /\ Len(schedule) <= Len(source.execution)
        /\ \A k \in DOMAIN schedule : schedule[k] = source.execution[k].tid
    BY <1>1 DEF TraceInv, ScheduleInv
  <1>5. trace \in Seq(Instruction) /\ source.execution \in Seq(Instruction)
    BY <1>2 DEF IsExecutionOf
  <1>6. \A k \in DOMAIN trace \cap DOMAIN schedule : trace[k] = source.execution[k]
    BY FollowedByInstructions
  <1>. QED  BY <1>2, <1>3, <1>4, <1>5, <1>6

\* The replay has come to the end of its record, if they agree as long as both last.
LEMMA EndIsReached ==
  ASSUME FilesInv, LengthsInv, TraceInv, OutcomeInv, Running, Replays,
         status \in {"DONE", "DEADLOCK"}, source.end \in {"DONE", "DEADLOCK"},
         source.whole \/ ContinuesAlike
  PROVE  /\ status = source.end
         /\ NrPerformed(trace, status) = NrPerformed(source.execution, source.end)
         /\ \A k \in 1 .. NrPerformed(trace, status) : trace[k] = source.execution[k]
  <1>. DEFINE n == NrPerformed(trace, status)
              m == NrPerformed(source.execution, source.end)
  <1>1. \A k \in 1 .. n : k <= m => trace[k].tid = source.execution[k].tid
    <2>1. CASE ContinuesAlike
      BY <2>1 DEF OutcomeInv, AlikeInv
    <2>2. CASE source.whole
      <3>1. Len(schedule) = Len(source.execution)
        BY <2>2 DEF LengthsInv, Replays
      <3>2. /\ Len(trace) \in Nat /\ Len(schedule) \in Nat
            /\ n \in Nat /\ m \in Nat /\ n <= Len(trace) /\ m <= Len(schedule)
            /\ DOMAIN trace = 1 .. Len(trace) /\ DOMAIN schedule = 1 .. Len(schedule)
        BY <3>1, EndOfReplay DEF NrPerformed, IsRunOf
      <3>. HIDE DEF n, m
      <3>3. \A k \in 1 .. n : k <= m => k \in DOMAIN trace \cap DOMAIN schedule
        BY <3>2
      <3>. QED  BY <3>3, EndOfReplay
    <2>. QED  BY <2>1, <2>2
  <1>2. /\ IsExecutionOf(trace, program) /\ IsExecutionOf(source.execution, program)
        /\ IsRunOf(program, trace, status, StrategyTag, Len(schedule))
        /\ IsRunOf(program, source.execution, source.end, source.strategy, source.scheduled)
    BY EndOfReplay
  <1>. QED  BY <1>1, <1>2, SameEnd

\* A selection error comes only where the record has a transition that was not performed.
LEMMA ErrorAtTheEnd ==
  ASSUME FilesInv, LengthsInv, TraceInv, OutcomeInv, Running, Replays, status = "ERROR"
  PROVE  /\ Len(trace) < Len(schedule)
         /\ \A k \in 1 .. Len(trace) : trace[k] = source.execution[k]
         /\ ~ Len(trace) + 1 <= NrPerformed(source.execution, source.end)
  <1>. DEFINE n == Len(trace)
  <1>1. n \in Nat /\ Len(schedule) \in Nat /\ n < Len(schedule)
        /\ Entry \notin ReadyAfter(program, trace, n)
    BY EndOfReplay DEF OutcomeInv, EndInv, Scheduled
  <1>2. /\ \A k \in 1 .. n : trace[k] = source.execution[k]
        /\ Entry = source.execution[n + 1].tid
    <2>1. /\ DOMAIN trace = 1 .. n /\ DOMAIN schedule = 1 .. Len(schedule)
      BY EndOfReplay
    <2>2. /\ \A k \in 1 .. n : k \in DOMAIN trace \cap DOMAIN schedule
          /\ n + 1 \in DOMAIN schedule
      BY <1>1, <2>1
    <2>. QED  BY <2>2, EndOfReplay DEF Entry
  <1>3. ~ n + 1 <= NrPerformed(source.execution, source.end)
    BY <1>1, <1>2, EndOfReplay, PerformedWasReady
  <1>. QED  BY <1>1, <1>2, <1>3

\* The replay of a whole record comes to the end of the record with the same execution, or
\* to a selection error where the record ends in a deadlock; and so does that of a cut
\* record if both runs go on with NonPreemptive (Selector::select, NonPreemptive::select
\* and Scheduler::run), if only the main thread of each program creates threads, and none
\* has an empty routine or ends right after a creation (RoutinesAssumption).
THEOREM ReplayEndsAsRecorded ==
  ASSUME \A name \in DOMAIN Programs : OnlyMainCreates(name)
  PROVE  Spec => []ReplayOutcome
  <1>1. FilesInv /\ LengthsInv /\ TraceInv /\ OutcomeInv => ReplayOutcome
    <2>. SUFFICES ASSUME FilesInv, LengthsInv, TraceInv, OutcomeInv, Replays, ~ AtCaller,
                         status # "RUNNING"
                  PROVE  /\ source.end = "DONE" /\ (source.whole \/ ContinuesAlike) =>
                               status = "DONE" /\ trace = source.execution
                         /\ source.end = "DEADLOCK" /\ source.whole =>
                               status = "ERROR" /\ trace = Front(source.execution)
                         /\ source.end = "DEADLOCK" /\ ContinuesAlike
                                 /\ Len(schedule) < Len(source.execution) =>
                               status = "DEADLOCK" /\ Front(trace) = Front(source.execution)
      BY DEF ReplayOutcome
    <2>. DEFINE E == source.execution
    <2>1. ppc = "running"
      BY DEF TraceInv, NoProcess
    <2>2. Running
      BY <2>1 DEF Running, FilesInv, CallInv
    <2>3. status \in {"DONE", "DEADLOCK", "ERROR"}
      BY <2>2 DEF OutcomeInv, EndInv
    <2>4. /\ trace \in Seq(Instruction) /\ E \in Seq(Instruction)
          /\ Len(trace) \in Nat /\ Len(E) \in Nat /\ Len(schedule) \in Nat
          /\ DOMAIN trace = 1 .. Len(trace) /\ DOMAIN E = 1 .. Len(E)
          /\ Len(schedule) <= Len(E)
      BY <2>2, EndOfReplay
    <2>5. ASSUME status = "ERROR", source.end = "DONE"
          PROVE  FALSE
      BY <2>2, <2>4, <2>5, ErrorAtTheEnd DEF NrPerformed
    <2>6. ASSUME status = "ERROR", source.end = "DEADLOCK"
          PROVE  Len(schedule) = Len(E) /\ trace = Front(E)
      <3>1. /\ Len(trace) < Len(schedule) /\ ~ Len(trace) + 1 <= Len(E) - 1
            /\ \A k \in 1 .. Len(trace) : trace[k] = E[k]
        BY <2>2, <2>6, ErrorAtTheEnd DEF NrPerformed
      <3>2. Len(schedule) = Len(E) /\ Len(trace) = Len(E) - 1
        BY <2>4, <3>1
      <3>3. trace = SubSeq(E, 1, Len(E) - 1)
        BY <2>4, <3>1, <3>2
      <3>. QED  BY <3>2, <3>3 DEF Front
    <2>7. ASSUME status # "ERROR", source.end \in {"DONE", "DEADLOCK"}, source.whole \/ ContinuesAlike
          PROVE  /\ status = source.end
                 /\ Len(trace) = Len(E)
                 /\ status = "DONE" => trace = E
                 /\ status = "DEADLOCK" => Front(trace) = Front(E) /\ Len(schedule) < Len(E)
      <3>1. /\ status = source.end /\ NrPerformed(trace, status) = NrPerformed(E, status)
            /\ \A k \in 1 .. NrPerformed(trace, status) : trace[k] = E[k]
        BY <2>2, <2>3, <2>7, EndIsReached
      <3>2. Len(trace) = Len(E)
        BY <2>4, <3>1 DEF NrPerformed
      <3>3. status = "DONE" => trace = E
        BY <2>4, <3>1, <3>2 DEF NrPerformed
      <3>4. ASSUME status = "DEADLOCK"
            PROVE  Front(trace) = Front(E) /\ Len(schedule) < Len(E)
        <4>1. \A k \in 1 .. Len(E) - 1 : trace[k] = E[k]
          BY <3>1, <3>2, <3>4 DEF NrPerformed
        <4>2. SubSeq(trace, 1, Len(E) - 1) = SubSeq(E, 1, Len(E) - 1)
          BY <2>4, <3>2, <4>1
        <4>3. ~ Len(trace) - 1 < Len(schedule) /\ NrPerformed(trace, "DEADLOCK") \in Nat
          BY <2>2, <3>4, EndOfReplay DEF OutcomeInv, EndInv, IsRunOf
        <4>4. Len(schedule) < Len(E)
          BY <2>4, <3>2, <4>3 DEF NrPerformed
        <4>. QED  BY <3>2, <4>2, <4>4 DEF Front
      <3>. QED  BY <3>1, <3>2, <3>3, <3>4
    <2>8. source.whole => Len(schedule) = Len(E)
      BY DEF LengthsInv, Replays
    <2>9. source.end = "DONE" /\ (source.whole \/ ContinuesAlike) => status = "DONE" /\ trace = E
      BY <2>5, <2>7
    <2>10. source.end = "DEADLOCK" /\ source.whole => status = "ERROR" /\ trace = Front(E)
      BY <2>4, <2>6, <2>7, <2>8
    <2>11. source.end = "DEADLOCK" /\ ContinuesAlike /\ Len(schedule) < Len(E) =>
               status = "DEADLOCK" /\ Front(trace) = Front(E)
      BY <2>4, <2>6, <2>7
    <2>. QED  BY <2>9, <2>10, <2>11
  <1>. QED
    BY <1>1, FilesInvariance, LengthsInvariance, TraceInvariance, OutcomeInvariance, PTL
-----------------------------------------------------------------------------
(***************************************************************************)
(* The values of the variables, if in all programs only main creates       *)
(* threads.                                                                *)
(***************************************************************************)
\* The creations of any routine, counted one by one.
LEMMA StepsCounted ==
  ASSUME NEW steps, NEW n \in Nat
  PROVE  /\ IsFiniteSet(Creations(steps, n)) /\ Cardinality(Creations(steps, n)) \in Nat
         /\ Cardinality(Creations(steps, 0)) = 0
         /\ Cardinality(Creations(steps, n + 1)) =
                Cardinality(Creations(steps, n)) + (IF steps[n + 1].op = "Spawn" THEN 1 ELSE 0)
  <1>1. IsFiniteSet(Creations(steps, n)) /\ Cardinality(Creations(steps, n)) \in Nat
    <2>1. IsFiniteSet(1 .. n)
      BY FS_Interval
    <2>2. Creations(steps, n) \in SUBSET (1 .. n)
      BY DEF Creations
    <2>. QED  BY <2>1, <2>2, FS_Subset, FS_CardinalityType
  <1>2. Cardinality(Creations(steps, 0)) = 0
    <2>1. Creations(steps, 0) = {}
      BY DEF Creations
    <2>. QED  BY <2>1, FS_EmptySet
  <1>3. CASE steps[n + 1].op = "Spawn"
    <2>1. Creations(steps, n + 1) = Creations(steps, n) \cup {n + 1}
          /\ n + 1 \notin Creations(steps, n)
      BY <1>3 DEF Creations
    <2>. QED  BY <1>1, <1>2, <1>3, <2>1, FS_AddElement
  <1>4. CASE steps[n + 1].op # "Spawn"
    <2>1. Creations(steps, n + 1) = Creations(steps, n)
      BY <1>4 DEF Creations
    <2>. QED  BY <1>1, <1>2, <1>4, <2>1
  <1>. QED  BY <1>3, <1>4

\* What is known of a process that runs.
LEMMA AtWork ==
  ASSUME FilesInv, WorkInv, Running
  PROVE  /\ ppc = "running" /\ OnlyMainCreates(program) /\ program \in DOMAIN Programs
         /\ 0 \in Thread /\ \A t \in Thread : t \in Nat
         /\ at \in [Thread -> Nat] /\ routine \in [Thread -> DOMAIN Programs[program]]
         /\ children \in [Thread -> Seq(Thread)]
         /\ routine[0] = "main" /\ at[0] \in Nat
         /\ nextTid \in Nat /\ nextTid = 1 + NrCreations(program, at[0])
         /\ nextTid \in 1 .. NrThreads
  <1>1. /\ ppc = "running" /\ OnlyMainCreates(program) /\ program \in DOMAIN Programs
    BY DEF Running, FilesInv, CallInv
  <1>2. 0 \in Thread /\ \A t \in Thread : t \in Nat
    BY NrThreadsAssumption DEF Thread
  <1>3. /\ at \in [Thread -> Nat] /\ routine \in [Thread -> DOMAIN Programs[program]]
        /\ children \in [Thread -> Seq(Thread)]
        /\ nextTid = 1 + NrCreations(program, at[0])
        /\ \A t \in Thread : /\ t = 0 => routine[t] = "main"
                             /\ at[t] <= Len(Programs[program][routine[t]])
    BY DEF WorkInv
  <1>4. routine[0] = "main" /\ at[0] \in Nat /\ at[0] <= Len(Programs[program]["main"])
    BY <1>2, <1>3
  <1>5. /\ Len(Programs[program]["main"]) \in Nat
        /\ NrCreations(program, Len(Programs[program]["main"])) < NrThreads
    BY <1>1, ProgramsAssumption DEF NrCreations
  <1>6. /\ NrCreations(program, at[0]) \in Nat
        /\ NrCreations(program, Len(Programs[program]["main"])) \in Nat
        /\ NrCreations(program, at[0]) <= NrCreations(program, Len(Programs[program]["main"]))
    BY <1>4, <1>5, CreationsCounted, CreationsGrow
  <1>7. nextTid \in Nat /\ nextTid \in 1 .. NrThreads
    BY <1>3, <1>5, <1>6, NrThreadsAssumption
  <1>. QED  BY <1>1, <1>2, <1>3, <1>4, <1>7

\* What a thread announces is an instruction, and there is a tid for what it creates.
LEMMA AnnouncedTyped ==
  ASSUME FilesInv, WorkInv, Running, NEW t \in Thread, stage[t] = "busy", HasStep(t)
  PROVE  /\ NextTask(t) \in Instruction /\ NextTask(t).tid = t
         /\ NextTask(t).op = NextStep(t).op
         /\ at[t] + 1 \in DOMAIN Programs[program][routine[t]]
         /\ at[t] + 1 <= Len(Programs[program][routine[t]])
         /\ NextStep(t).op = "Spawn" =>
               /\ t = 0 /\ NextTask(t).operand = nextTid /\ nextTid \in Thread
               /\ NextStep(t).arg \in DOMAIN Programs[program] \ {"main"}
  <1>. DEFINE steps == Programs[program][routine[t]]
              n == at[t] + 1
              step == steps[n]
              instr == NextTask(t)
  <1>1. /\ routine[t] \in DOMAIN Programs[program] /\ at[t] \in Nat
        /\ children[t] \in Seq(Thread)
        /\ routine[t] = "main" => t = 0
        /\ Len(children[t]) = Cardinality(Creations(steps, at[t]))
    BY AtWork DEF WorkInv
  <1>2. /\ DOMAIN steps = 1 .. Len(steps) /\ Len(steps) \in Nat
        /\ at[t] < Len(steps)
    BY <1>1, AtWork, ProgramsAssumption DEF HasStep
  <1>3. n \in DOMAIN steps /\ n <= Len(steps) /\ n - 1 = at[t] /\ NextStep(t) = step
    BY <1>1, <1>2 DEF NextStep
  <1>4. /\ step.op \in MemoryOp \cup LockOp \cup ManageOp
        /\ OnObject(step) => step.arg \in Objects
        /\ step.op = "Spawn" => step.arg \in DOMAIN Programs[program]
        /\ step.op = "Join" => step.arg \in 1 .. Cardinality(Creations(steps, n - 1))
    BY <1>1, <1>3, AtWork, ProgramsAssumption
  <1>5. step.op = "Spawn" => t = 0 /\ routine[t] = "main" /\ step.arg # "main"
    BY <1>1, <1>3, AtWork DEF OnlyMainCreates, OneCreator
  <1>. HIDE DEF steps, n
  <1>6. instr = [tid |-> t, op |-> step.op, atomic |-> FALSE, operand |-> instr.operand]
    BY <1>3 DEF NextTask
  <1>7. CASE step.op = "Spawn"
    <2>1. t = 0 /\ instr.operand = nextTid /\ step.arg \in DOMAIN Programs[program] \ {"main"}
      BY <1>3, <1>4, <1>5, <1>7 DEF NextTask
    <2>2. nextTid \in Thread
      <3>1. n \in Nat /\ n = at[0] + 1 /\ steps = Programs[program]["main"]
        BY <1>1, <1>5, <1>7 DEF n, steps
      <3>2. NrCreations(program, n) = nextTid
        <4>1. NrCreations(program, at[0] + 1) = NrCreations(program, at[0]) + 1
          BY <1>7, <3>1, AtWork, NextCreation
        <4>. QED  BY <3>1, <4>1, AtWork, CreationsCounted
      <3>3. NrCreations(program, n) <= NrCreations(program, Len(steps))
            /\ NrCreations(program, Len(steps)) \in Nat
        BY <1>2, <1>3, <3>1, CreationsGrow, CreationsCounted
      <3>4. NrCreations(program, Len(steps)) < NrThreads
        BY <3>1, AtWork, ProgramsAssumption DEF NrCreations
      <3>. QED  BY <3>2, <3>3, <3>4, AtWork, NrThreadsAssumption DEF Thread
    <2>3. instr \in Instruction
      BY <1>6, <1>7, <2>1, <2>2, InstructionMade DEF ManageOp
    <2>4. instr.tid = t /\ instr.op = step.op
      BY <1>6
    <2>. HIDE DEF instr, step
    <2>. QED  BY <1>3, <2>1, <2>2, <2>3, <2>4 DEF n, steps, instr
  <1>8. CASE step.op = "Join"
    <2>1. instr.operand = children[t][step.arg]
      BY <1>3, <1>8 DEF NextTask
    <2>2. step.arg \in 1 .. Len(children[t])
      BY <1>1, <1>3, <1>4, <1>8 DEF steps
    <2>3. children[t][step.arg] \in Thread
      BY <1>1, <2>2
    <2>4. instr \in Instruction
      BY <1>6, <1>8, <2>1, <2>3, InstructionMade DEF ManageOp
    <2>5. instr.tid = t /\ instr.op = step.op
      BY <1>6
    <2>. HIDE DEF instr, step
    <2>. QED  BY <1>3, <1>8, <2>4, <2>5 DEF n, steps, instr
  <1>9. CASE step.op \notin {"Spawn", "Join"}
    <2>1. instr.operand = step.arg
      BY <1>3, <1>9 DEF NextTask
    <2>2. step.op \in MemoryOp \cup LockOp /\ step.arg \in Objects
      BY <1>4, <1>9 DEF OnObject, ManageOp
    <2>3. instr \in Instruction
      BY <1>6, <2>1, <2>2, InstructionMade
    <2>4. instr.tid = t /\ instr.op = step.op
      BY <1>6
    <2>. HIDE DEF instr, step
    <2>. QED  BY <1>3, <1>9, <2>3, <2>4 DEF n, steps, instr
  <1>. QED  BY <1>7, <1>8, <1>9

\* A thread announces its next instruction.
LEMMA AnnounceWork ==
  ASSUME FilesInv, TypeOK, WorkInv, Running, NEW t \in Thread, AnnounceNext(t)
  PROVE  WorkInv'
  <1>. DEFINE steps == Programs[program][routine[t]]
              n == at[t] + 1
              creates == NextStep(t).op = "Spawn"
              new == NextStep(t).arg
              instr == NextTask(t)
  <1>1. stage[t] = "busy" /\ HasStep(t) /\ Announce(instr)
    BY DEF AnnounceNext
  <1>2. /\ instr \in Instruction /\ instr.tid = t /\ instr.op = NextStep(t).op
        /\ n \in DOMAIN steps /\ n <= Len(steps)
        /\ creates => t = 0 /\ instr.operand = nextTid /\ nextTid \in Thread
                      /\ new \in DOMAIN Programs[program] \ {"main"}
    BY <1>1, AnnouncedTyped
  <1>3. /\ stage' = [stage EXCEPT ![t] = "waiting"]
        /\ task' = [task EXCEPT ![t] = instr]
        /\ at' = [at EXCEPT ![t] = n]
        /\ nextTid' = IF creates THEN nextTid + 1 ELSE nextTid
        /\ routine' = IF creates THEN [routine EXCEPT ![nextTid] = new] ELSE routine
        /\ children' = IF creates THEN [children EXCEPT ![t] = Append(@, nextTid)] ELSE children
        /\ UNCHANGED <<ppc, program>>
    BY <1>1, <1>2 DEF AnnounceNext, Announce, callerVars, buildVars
  <1>4. at[t] \in Nat /\ n \in Nat /\ NextStep(t) = steps[n]
    BY AtWork DEF NextStep
  <1>5. /\ stage \in [Thread -> Stage] /\ DOMAIN task = Thread
        /\ \A u \in Thread :
              /\ u = 0 => routine[u] = "main"
              /\ routine[u] = "main" => u = 0 \/ nextTid <= u
              /\ nextTid <= u => stage[u] = "unborn"
              /\ stage[u] = "unborn" => at[u] = 0
              /\ at[u] <= Len(Programs[program][routine[u]])
              /\ Len(children[u]) =
                    Cardinality(Creations(Programs[program][routine[u]], at[u]))
              /\ IsAnnounced(u) /\ task[u].op = "Spawn" => task[u].operand \in 0 .. nextTid - 1
    BY DEF TypeOK, ProcessTypes, WorkInv
  <1>6. creates => t < nextTid
    BY <1>1, <1>2, <1>5, AtWork
  <1>. HIDE DEF steps, n, creates, new, instr
  <1>7. /\ at' \in [Thread -> Nat] /\ routine' \in [Thread -> DOMAIN Programs[program]]
        /\ children' \in [Thread -> Seq(Thread)]
    BY <1>2, <1>3, <1>4, AtWork
  <1>8. nextTid' = 1 + NrCreations(program, at'[0])
    <2>1. CASE t = 0
      <3>1. at'[0] = at[0] + 1 /\ steps = Programs[program]["main"] /\ n = at[0] + 1
        BY <1>3, <2>1, AtWork DEF n, steps
      <3>2. creates <=> Programs[program]["main"][at[0] + 1].op = "Spawn"
        BY <1>4, <3>1 DEF creates
      <3>3. NrCreations(program, at'[0])
                = NrCreations(program, at[0]) + (IF creates THEN 1 ELSE 0)
        BY <3>1, <3>2, AtWork, NextCreation
      <3>. QED  BY <1>3, <3>3, AtWork, CreationsCounted
    <2>2. CASE t # 0
      BY <1>2, <1>3, <2>2, AtWork
    <2>. QED  BY <2>1, <2>2
  <1>9. nextTid' \in Nat /\ nextTid <= nextTid'
    BY <1>3, AtWork
  <1>10. ASSUME NEW u \in Thread
         PROVE  /\ u = 0 => routine'[u] = "main"
                /\ routine'[u] = "main" => u = 0 \/ nextTid' <= u
                /\ nextTid' <= u => stage'[u] = "unborn"
                /\ stage'[u] = "unborn" => at'[u] = 0
    <2>1. CASE creates /\ u = nextTid
      <3>1. routine'[u] = new /\ new # "main" /\ u # 0 /\ ~ nextTid' <= u /\ u # t
        BY <1>2, <1>3, <1>6, <2>1, AtWork
      <3>2. at'[u] = at[u] /\ stage[u] = "unborn"
        BY <1>3, <1>5, <2>1, <3>1, AtWork
      <3>. QED  BY <1>5, <3>1, <3>2
    <2>2. CASE ~ (creates /\ u = nextTid)
      <3>1. routine'[u] = routine[u]
        BY <1>3, <2>2, AtWork
      <3>2. nextTid' <= u <=> nextTid <= u
        BY <1>3, <2>2, AtWork
      <3>3. CASE u = t
        BY <1>1, <1>3, <1>5, <3>1, <3>2, <3>3
      <3>4. CASE u # t
        <4>1. stage'[u] = stage[u] /\ at'[u] = at[u]
          BY <1>3, <1>5, <3>4, AtWork
        <4>. QED  BY <1>5, <3>1, <3>2, <4>1
      <3>. QED  BY <3>3, <3>4
    <2>. QED  BY <2>1, <2>2
  <1>11. ASSUME NEW u \in Thread
         PROVE  /\ at'[u] <= Len(Programs[program][routine'[u]])
                /\ Len(children'[u]) =
                      Cardinality(Creations(Programs[program][routine'[u]], at'[u]))
    <2>1. CASE u = t
      <3>1. routine'[u] = routine[t] /\ at'[u] = n
        BY <1>3, <1>6, <2>1, AtWork
      <3>2. Cardinality(Creations(steps, n)) =
                Cardinality(Creations(steps, at[t])) + (IF creates THEN 1 ELSE 0)
            /\ Cardinality(Creations(steps, at[t])) \in Nat
        BY <1>4, StepsCounted DEF n, creates
      <3>3. Len(children'[t]) = Len(children[t]) + (IF creates THEN 1 ELSE 0)
        <4>1. children[t] \in Seq(Thread)
          BY AtWork
        <4>2. CASE creates
          <5>1. children'[t] = Append(children[t], nextTid)
            BY <1>3, <4>2, AtWork
          <5>. QED  BY <4>1, <4>2, <5>1
        <4>3. CASE ~ creates
          <5>1. children'[t] = children[t]
            BY <1>3, <4>3
          <5>. QED  BY <4>1, <4>3, <5>1
        <4>. QED  BY <4>2, <4>3
      <3>. QED  BY <1>2, <1>5, <2>1, <3>1, <3>2, <3>3 DEF steps
    <2>2. CASE u # t
      <3>1. children'[u] = children[u] /\ at'[u] = at[u]
        BY <1>3, <2>2, AtWork
      <3>2. CASE creates /\ u = nextTid
        <4>1. at[u] = 0
          BY <1>5, <3>2, AtWork
        <4>2. routine'[u] \in DOMAIN Programs[program]
          BY <1>7
        <4>3. Len(Programs[program][routine'[u]]) \in Nat
          BY <4>2, AtWork, ProgramsAssumption
        <4>4. \A any : Cardinality(Creations(any, 0)) = 0
          BY StepsCounted
        <4>. QED  BY <1>5, <3>1, <4>1, <4>3, <4>4
      <3>3. CASE ~ (creates /\ u = nextTid)
        <4>1. routine'[u] = routine[u]
          BY <1>3, <3>3, AtWork
        <4>. QED  BY <1>5, <3>1, <4>1
      <3>. QED  BY <3>2, <3>3
    <2>. QED  BY <2>1, <2>2
  <1>12. ASSUME NEW u \in Thread
         PROVE  IsAnnounced(u)' /\ task'[u].op = "Spawn" => task'[u].operand \in 0 .. nextTid' - 1
    <2>1. CASE u = t
      <3>1. task'[u] = instr
        BY <1>3, <1>5, <2>1
      <3>. QED  BY <1>2, <1>3, <3>1, AtWork DEF creates
    <2>2. CASE u # t
      <3>1. task'[u] = task[u] /\ stage'[u] = stage[u]
        BY <1>3, <1>5, <2>2
      <3>2. IsAnnounced(u)' <=> IsAnnounced(u)
        BY <3>1 DEF IsAnnounced
      <3>3. CASE creates
        <4>1. t = 0 /\ nextTid' = nextTid + 1
          BY <1>2, <1>3, <3>3
        <4>2. IsAnnounced(u) /\ task[u].op = "Spawn" => task[u].operand \in 0 .. nextTid - 1
          BY <1>5
        <4>. QED  BY <3>1, <3>2, <4>1, <4>2, AtWork
      <3>4. CASE ~ creates
        BY <1>3, <1>5, <3>1, <3>2, <3>4
      <3>. QED  BY <3>3, <3>4
    <2>. QED  BY <2>1, <2>2
  <1>. QED  BY <1>3, <1>7, <1>8, <1>10, <1>11, <1>12, Zenon DEF WorkInv

\* A thread ends, or is chosen, or nobody does anything.
LEMMA StageWork ==
  ASSUME FilesInv, TypeOK, WorkInv, Running, NEW t, NEW new,
         t \in Thread => \/ stage[t] = "busy" /\ new = "ended"
                         \/ stage[t] = "waiting" /\ new = "granted",
         stage' = [stage EXCEPT ![t] = new] \/ UNCHANGED stage,
         UNCHANGED <<task, nextTid, routine, at, children, program, ppc>>
  PROVE  WorkInv'
  <1>1. stage \in [Thread -> Stage]
    BY DEF TypeOK, ProcessTypes
  <1>2. ASSUME NEW u \in Thread
        PROVE  (stage'[u] = "unborn" <=> stage[u] = "unborn") /\ (IsAnnounced(u)' => IsAnnounced(u))
    BY <1>1 DEF IsAnnounced
  <1>3. /\ at \in [Thread -> Nat] /\ routine \in [Thread -> DOMAIN Programs[program]]
        /\ children \in [Thread -> Seq(Thread)]
        /\ nextTid = 1 + NrCreations(program, at[0])
    BY AtWork
  <1>4. ASSUME NEW u \in Thread
        PROVE  /\ u = 0 => routine[u] = "main"
               /\ routine[u] = "main" => u = 0 \/ nextTid <= u
               /\ nextTid <= u => stage'[u] = "unborn"
               /\ stage'[u] = "unborn" => at[u] = 0
               /\ at[u] <= Len(Programs[program][routine[u]])
               /\ Len(children[u]) =
                     Cardinality(Creations(Programs[program][routine[u]], at[u]))
               /\ IsAnnounced(u)' /\ task[u].op = "Spawn" => task[u].operand \in 0 .. nextTid - 1
    BY <1>2 DEF WorkInv
  <1>. QED  BY <1>3, <1>4, Zenon DEF WorkInv

\* A thread performs its instruction, under the scheduler or without it.
LEMMA PerformWork ==
  ASSUME FilesInv, TypeOK, WorkInv, Running, NEW t \in Thread, IsAnnounced(t), Performs(t),
         UNCHANGED <<routine, at, children, program, ppc>>
  PROVE  WorkInv'
  <1>1. /\ stage \in [Thread -> Stage] /\ DOMAIN task = Thread
        /\ task' = [task EXCEPT ![t] = NoTask] /\ UNCHANGED nextTid
        /\ stage' = IF task[t].op = "Spawn"
                    THEN [stage EXCEPT ![t] = "busy", ![task[t].operand] = "busy"]
                    ELSE [stage EXCEPT ![t] = "busy"]
    BY DEF TypeOK, ProcessTypes, Performs
  <1>2. /\ at \in [Thread -> Nat] /\ routine \in [Thread -> DOMAIN Programs[program]]
        /\ children \in [Thread -> Seq(Thread)] /\ nextTid \in Nat
        /\ nextTid = 1 + NrCreations(program, at[0])
    BY AtWork
  <1>3. \A u \in Thread :
           /\ u = 0 => routine[u] = "main"
           /\ routine[u] = "main" => u = 0 \/ nextTid <= u
           /\ nextTid <= u => stage[u] = "unborn"
           /\ stage[u] = "unborn" => at[u] = 0
           /\ at[u] <= Len(Programs[program][routine[u]])
           /\ Len(children[u]) = Cardinality(Creations(Programs[program][routine[u]], at[u]))
           /\ IsAnnounced(u) /\ task[u].op = "Spawn" => task[u].operand \in 0 .. nextTid - 1
    BY DEF WorkInv
  <1>4. ASSUME NEW u \in Thread, ~ (u = t \/ (task[t].op = "Spawn" /\ u = task[t].operand))
        PROVE  stage'[u] = stage[u] /\ task'[u] = task[u]
    BY <1>1, <1>4
  <1>5. ASSUME NEW u \in Thread, u = t \/ (task[t].op = "Spawn" /\ u = task[t].operand)
        PROVE  stage'[u] = "busy" /\ ~ nextTid <= u
    <2>1. stage'[u] = "busy"
      BY <1>1, <1>5
    <2>2. ~ nextTid <= t
      BY <1>3 DEF IsAnnounced
    <2>3. task[t].op = "Spawn" => task[t].operand \in 0 .. nextTid - 1
      BY <1>3
    <2>. QED  BY <1>2, <1>5, <2>1, <2>2, <2>3
  <1>6. ASSUME NEW u \in Thread
        PROVE  /\ nextTid <= u => stage'[u] = "unborn"
               /\ stage'[u] = "unborn" => at[u] = 0
               /\ IsAnnounced(u)' /\ task'[u].op = "Spawn" => task'[u].operand \in 0 .. nextTid - 1
    <2>1. CASE u = t \/ (task[t].op = "Spawn" /\ u = task[t].operand)
      BY <1>5, <2>1 DEF IsAnnounced
    <2>2. CASE ~ (u = t \/ (task[t].op = "Spawn" /\ u = task[t].operand))
      <3>1. stage'[u] = stage[u] /\ task'[u] = task[u]
        BY <1>4, <2>2
      <3>2. IsAnnounced(u)' <=> IsAnnounced(u)
        BY <3>1 DEF IsAnnounced
      <3>. QED  BY <1>3, <3>1, <3>2
    <2>. QED  BY <2>1, <2>2
  <1>. QED  BY <1>1, <1>2, <1>3, <1>6, Zenon DEF WorkInv

\* A process that starts is at the beginning of main.
LEMMA StartWork ==
  ASSUME FilesInv, TraceInv, RunUnderSchedule, Running'
  PROVE  WorkInv'
  <1>1. /\ ppc # "running" /\ program # NoProgram /\ UNCHANGED program
        /\ UNCHANGED <<stage, task, nextTid, routine, at, children>>
    BY DEF RunUnderSchedule, AtCaller, FilesInv, CallInv, turnVars, buildVars, Running
  <1>2. /\ stage' = [t \in Thread |-> IF t = 0 THEN "busy" ELSE "unborn"]
        /\ nextTid' = 1
        /\ routine' = [t \in Thread |-> "main"]
        /\ at' = [t \in Thread |-> 0]
        /\ children' = [t \in Thread |-> <<>>]
    BY <1>1 DEF TraceInv, NoProcess
  <1>3. /\ program \in DOMAIN Programs
        /\ "main" \in DOMAIN Programs[program] /\ Len(Programs[program]["main"]) \in Nat
    BY <1>1, ProgramsAssumption DEF FilesInv, CallInv
  <1>4. 0 \in Thread /\ \A t \in Thread : t \in Nat
    BY NrThreadsAssumption DEF Thread
  <1>5. at'[0] = 0 /\ NrCreations(program, 0) = 0
    BY <1>2, <1>4, NoCreation
  <1>6. \A any : Cardinality(Creations(any, 0)) = 0
    BY StepsCounted
  <1>7. /\ at' \in [Thread -> Nat] /\ routine' \in [Thread -> DOMAIN Programs[program]]
        /\ children' \in [Thread -> Seq(Thread)]
    BY <1>2, <1>3
  <1>8. ASSUME NEW u \in Thread
        PROVE  /\ u = 0 => routine'[u] = "main"
               /\ routine'[u] = "main" => u = 0 \/ nextTid' <= u
               /\ nextTid' <= u => stage'[u] = "unborn"
               /\ stage'[u] = "unborn" => at'[u] = 0
               /\ at'[u] <= Len(Programs[program][routine'[u]])
               /\ Len(children'[u]) =
                     Cardinality(Creations(Programs[program][routine'[u]], at'[u]))
               /\ ~ IsAnnounced(u)'
    BY <1>2, <1>3, <1>4, <1>6 DEF IsAnnounced
  <1>. QED  BY <1>1, <1>2, <1>5, <1>7, <1>8 DEF WorkInv

LEMMA WorkStep == FilesInv /\ TraceInv /\ TypeOK /\ WorkInv /\ [Next]_vars => WorkInv'
  <1>. SUFFICES ASSUME FilesInv, TraceInv, TypeOK, WorkInv, [Next]_vars, Running'
                PROVE  WorkInv'
    BY DEF WorkInv
  <1>. USE DEF callerVars, buildVars, processVars, turnVars
  <1>1. CASE RunUnderSchedule
    BY <1>1, StartWork
  <1>2. CASE UnknownThread \/ Exit \/ Timeout \/ (OpenRecord /\ trace = <<>>)
    BY <1>2 DEF UnknownThread, Exit, Timeout, OpenRecord, Gone, Running
  <1>3. CASE Instrument \/ RenameRecord \/ RenameShortRecord
    BY <1>3 DEF Instrument, RenameRecord, RenameShortRecord, Running, FilesInv, CallInv, AtCaller
  <1>4. CASE \E t \in Thread : AnnounceNext(t)
    <2>1. PICK t \in Thread : AnnounceNext(t)
      BY <1>4
    <2>2. Running
      BY <2>1 DEF AnnounceNext, Running
    <2>. QED  BY <2>1, <2>2, AnnounceWork
  <1>5. CASE \E t \in Thread : PerformGranted(t) \/ PerformFreely(t)
    <2>1. PICK t \in Thread : PerformGranted(t) \/ PerformFreely(t)
      BY <1>5
    <2>2. /\ Running /\ IsAnnounced(t) /\ Performs(t)
          /\ UNCHANGED <<routine, at, children, program, ppc>>
      BY <2>1 DEF PerformGranted, PerformFreely, Perform, IsAnnounced, Running, Controlled
    <2>. QED  BY <2>2, PerformWork
  <1>6. ASSUME NEW t, NEW new,
               t \in Thread => \/ stage[t] = "busy" /\ new = "ended"
                               \/ stage[t] = "waiting" /\ new = "granted",
               stage' = [stage EXCEPT ![t] = new] \/ UNCHANGED stage,
               UNCHANGED <<task, nextTid, routine, at, children, program, ppc>>
        PROVE  WorkInv'
    <2>1. Running
      BY <1>6 DEF Running
    <2>. QED  BY <1>6, <2>1, StageWork
  <1>7. CASE \E t \in Thread : ThreadEnds(t)
    BY <1>6, <1>7 DEF ThreadEnds, End
  <1>8. CASE SelectScheduled \/ SelectByStrategy
    <2>1. PICK t : Choose(t)
      BY <1>8 DEF SelectScheduled, SelectByStrategy
    <2>2. UNCHANGED <<routine, at, children, program, ppc>>
      BY <1>8 DEF SelectScheduled, SelectByStrategy
    <2>. QED  BY <1>6, <2>1, <2>2 DEF Choose
  <1>9. CASE \/ RecordPerformed \/ SelectionError \/ SelectDone \/ SelectDeadlock
             \/ (OpenRecord /\ trace # <<>>) \/ WriteRecord \/ OpenShortRecord
             \/ WriteShortRecord \/ UNCHANGED vars
    <2>1. UNCHANGED <<stage, task, nextTid, routine, at, children, program, ppc>>
      BY <1>9 DEF RecordPerformed, Record, SelectionError, SelectDone, Done, SelectDeadlock,
             Deadlock, OpenRecord, WriteRecord, OpenShortRecord, WriteShortRecord, vars
    <2>2. NoThread \notin Thread
      BY NrThreadsAssumption DEF NoThread, Thread
    <2>. QED  BY <1>6, <2>1, <2>2
  <1>. QED
    BY <1>1, <1>2, <1>3, <1>4, <1>5, <1>7, <1>8, <1>9 DEF Next, ProcessStep

\* The execution and its last transition, when an instruction is pushed.
LEMMA PushedTypes ==
  ASSUME ProcessTypes, NEW instr \in Instruction,
         trace' = Append(trace, instr), recorded' = Pushed(instr)
  PROVE  /\ trace' \in Seq(Instruction)
         /\ recorded' = [nr |-> Len(trace'), last |-> IF trace' = <<>> THEN NoTask ELSE Last(trace')]
  <1>1. trace \in Seq(Instruction) /\ recorded.nr = Len(trace)
    BY DEF ProcessTypes
  <1>2. /\ trace' \in Seq(Instruction) /\ Len(trace') = Len(trace) + 1
        /\ trace'[Len(trace')] = instr /\ trace' # <<>>
    BY <1>1
  <1>3. Last(trace') = instr
    BY <1>2 DEF Last
  <1>. QED  BY <1>1, <1>2, <1>3 DEF Pushed

\* A process that is gone leaves the initial values.
LEMMA GoneTypes ==
  ASSUME Gone
  PROVE  ProcessTypes'
  <1>1. 0 \in Thread /\ 1 \in 1 .. NrThreads
    BY NrThreadsAssumption DEF Thread
  <1>. QED  BY <1>1 DEF Gone, ProcessTypes, Stage

\* The threads announce, perform and end.
LEMMA ThreadTypes ==
  ASSUME FilesInv, WorkInv, ProcessTypes, Running, NEW t \in Thread,
         AnnounceNext(t) \/ ThreadEnds(t) \/ PerformGranted(t) \/ PerformFreely(t)
  PROVE  ProcessTypes'
  <1>1. UNCHANGED <<trace, recorded, status>>
    BY DEF AnnounceNext, ThreadEnds, PerformGranted, PerformFreely, Announce, End, Perform, Performs
  <1>2. /\ stage \in [Thread -> Stage] /\ task \in [Thread -> Instruction \cup {NoTask}]
        /\ holder \in [Mutexes -> Thread \cup {NoThread}] /\ nextTid \in 1 .. NrThreads
        /\ {"busy", "waiting", "granted", "ended"} \subseteq Stage
    BY DEF ProcessTypes, Stage
  <1>3. CASE AnnounceNext(t)
    <2>1. stage[t] = "busy" /\ HasStep(t) /\ Announce(NextTask(t))
      BY <1>3 DEF AnnounceNext
    <2>2. /\ NextTask(t) \in Instruction /\ NextTask(t).tid = t
          /\ NextTask(t).op = "Spawn" => nextTid \in Thread
      BY <2>1, AnnouncedTyped
    <2>3. nextTid' \in 1 .. NrThreads
      <3>1. nextTid' = nextTid \/ (nextTid' = nextTid + 1 /\ nextTid \in Thread)
        BY <2>1, <2>2 DEF Announce
      <3>. QED  BY <1>2, <3>1, NrThreadsAssumption DEF Thread
    <2>4. /\ stage' = [stage EXCEPT ![t] = "waiting"] /\ UNCHANGED holder
          /\ task' = [task EXCEPT ![t] = NextTask(t)]
      BY <2>1, <2>2 DEF Announce
    <2>5. stage' \in [Thread -> Stage] /\ task' \in [Thread -> Instruction \cup {NoTask}]
      BY <1>2, <2>2, <2>4
    <2>. QED  BY <1>1, <1>2, <2>3, <2>4, <2>5 DEF ProcessTypes
  <1>4. CASE ThreadEnds(t)
    <2>1. UNCHANGED <<task, nextTid, holder>> /\ stage' = [stage EXCEPT ![t] = "ended"]
      BY <1>4 DEF ThreadEnds, End
    <2>. QED  BY <1>1, <1>2, <2>1 DEF ProcessTypes
  <1>5. CASE PerformGranted(t) \/ PerformFreely(t)
    <2>1. Performs(t)
      BY <1>5 DEF PerformGranted, PerformFreely, Perform
    <2>2. stage' \in [Thread -> Stage]
      BY <1>2, <2>1 DEF Performs
    <2>3. holder' \in [Mutexes -> Thread \cup {NoThread}]
      BY <1>2, <2>1 DEF Performs
    <2>4. task' \in [Thread -> Instruction \cup {NoTask}] /\ UNCHANGED nextTid
      BY <1>2, <2>1 DEF Performs
    <2>. QED  BY <1>1, <1>2, <2>2, <2>3, <2>4 DEF ProcessTypes
  <1>. QED  BY <1>3, <1>4, <1>5

\* The scheduler selects and records.
LEMMA SchedulerTypes ==
  ASSUME TraceInv, ProcessTypes, Running,
         \/ RecordPerformed \/ SelectScheduled \/ SelectByStrategy \/ SelectionError
         \/ SelectDone \/ SelectDeadlock
  PROVE  ProcessTypes'
  <1>1. /\ stage \in [Thread -> Stage] /\ task \in [Thread -> Instruction \cup {NoTask}]
        /\ "granted" \in Stage
    BY DEF ProcessTypes, Stage
  <1>2. CASE RecordPerformed
    <2>1. unrecorded \in Instruction
      BY <1>2 DEF RecordPerformed, Record, Controlled, Controls, TraceInv, UnrecordedInv
    <2>2. /\ trace' = Append(trace, unrecorded) /\ recorded' = Pushed(unrecorded)
          /\ UNCHANGED <<stage, task, nextTid, holder, status>>
      BY <1>2 DEF RecordPerformed, Record
    <2>. QED  BY <2>1, <2>2, PushedTypes DEF ProcessTypes
  <1>3. CASE SelectScheduled \/ SelectByStrategy
    <2>1. PICK t : Choose(t)
      BY <1>3 DEF SelectScheduled, SelectByStrategy
    <2>2. stage' \in [Thread -> Stage]
      BY <1>1, <2>1 DEF Choose
    <2>3. UNCHANGED <<task, nextTid, holder, status, recorded, trace>>
      BY <1>3, <2>1 DEF Choose, SelectScheduled, SelectByStrategy
    <2>. QED  BY <2>2, <2>3 DEF ProcessTypes
  <1>4. CASE SelectionError \/ SelectDone
    <2>1. /\ UNCHANGED <<stage, task, nextTid, holder, recorded, trace>>
          /\ status' \in {"DONE", "ERROR"}
      BY <1>4 DEF SelectionError, SelectDone, Done
    <2>. QED  BY <2>1 DEF ProcessTypes
  <1>5. CASE SelectDeadlock
    <2>1. PICK t \in WaitingThreads : recorded' = Pushed(task[t])
      BY <1>5 DEF SelectDeadlock, Deadlock
    <2>2. task[t] \in Instruction
      <3>1. t \in Thread /\ IsAnnounced(t) /\ Controls
        BY <1>5, <2>1 DEF WaitingThreads, IsAnnounced, SelectDeadlock, Controlled, Controls
      <3>. QED  BY <3>1 DEF TraceInv, AnnouncedInv
    <2>3. /\ trace' = Append(trace, recorded'.last)
          /\ status' = "DEADLOCK" /\ UNCHANGED <<stage, task, nextTid, holder>>
      BY <1>5 DEF SelectDeadlock, Deadlock
    <2>4. trace' = Append(trace, task[t])
      BY <2>1, <2>3 DEF Pushed
    <2>. QED  BY <2>1, <2>2, <2>3, <2>4, PushedTypes DEF ProcessTypes
  <1>. QED  BY <1>2, <1>3, <1>4, <1>5

LEMMA ProcessTypesStep ==
  FilesInv /\ TraceInv /\ WorkInv /\ ProcessTypes /\ (ppc = "running" => Running) /\ [Next]_vars
    => ProcessTypes'
  <1>. SUFFICES ASSUME FilesInv, TraceInv, WorkInv, ProcessTypes, ppc = "running" => Running,
                       [Next]_vars
                PROVE  ProcessTypes'
    OBVIOUS
  <1>1. CASE \E t \in Thread :
                AnnounceNext(t) \/ ThreadEnds(t) \/ PerformGranted(t) \/ PerformFreely(t)
    BY <1>1, ThreadTypes DEF AnnounceNext, ThreadEnds, PerformGranted, PerformFreely, Controlled
  <1>2. CASE \/ RecordPerformed \/ SelectScheduled \/ SelectByStrategy \/ SelectionError
             \/ SelectDone \/ SelectDeadlock
    BY <1>2, SchedulerTypes DEF RecordPerformed, SelectScheduled, SelectByStrategy,
       SelectionError, SelectDone, SelectDeadlock, Controlled
  <1>3. CASE UnknownThread \/ Exit \/ Timeout \/ (OpenRecord /\ trace = <<>>)
    BY <1>3, GoneTypes DEF UnknownThread, Exit, Timeout, OpenRecord
  <1>4. CASE \/ (OpenRecord /\ trace # <<>>) \/ WriteRecord \/ OpenShortRecord
             \/ WriteShortRecord \/ Instrument \/ RunUnderSchedule \/ RenameRecord
             \/ RenameShortRecord \/ UNCHANGED vars
    <2>1. UNCHANGED <<turnVars, trace>>
      BY <1>4 DEF OpenRecord, WriteRecord, OpenShortRecord, WriteShortRecord, Instrument,
         RunUnderSchedule, RenameRecord, RenameShortRecord, vars, processVars
    <2>. QED  BY <2>1 DEF ProcessTypes, turnVars
  <1>. QED  BY <1>1, <1>2, <1>3, <1>4 DEF Next, ProcessStep

\* The calls: their number, the programs they are about, the schedules they write.
LEMMA CallTypesStep == FilesInv /\ CallTypes /\ FileTypes /\ [Next]_vars => CallTypes'
  <1>. SUFFICES ASSUME FilesInv, CallTypes, FileTypes, [Next]_vars
                PROVE  CallTypes'
    OBVIOUS
  <1>. USE DEF callerVars, buildVars
  <1>1. /\ ppc' \in {"off", "running", "over"}
        /\ rpc' \in {"idle", "fork", "renamed", "returned", "threw"}
        /\ program' \in {wanted', NoProgram}
    BY FilesStep DEF FilesInv, FilesTyped, CallInv
  <1>2. ASSUME UNCHANGED <<program, wanted, schedule, settings, builds, runs>>
        PROVE  CallTypes'
    BY <1>1, <1>2 DEF CallTypes
  <1>3. CASE ProcessStep \/ Timeout \/ UNCHANGED vars
    <2>1. UNCHANGED <<program, wanted, schedule, settings, builds, runs>>
      BY <1>3 DEF ProcessStep, AnnounceNext, ThreadEnds, PerformGranted, PerformFreely,
         RecordPerformed, SelectScheduled, SelectByStrategy, SelectionError, UnknownThread,
         SelectDone, SelectDeadlock, OpenRecord, WriteRecord, OpenShortRecord,
         WriteShortRecord, Exit, Timeout, vars
    <2>. QED  BY <1>2, <2>1
  <1>4. CASE RenameRecord \/ RenameShortRecord
    BY <1>2, <1>4 DEF RenameRecord, RenameShortRecord
  <1>5. CASE Instrument
    <2>1. /\ wanted' \in Sources /\ builds + runs < MaxCalls /\ builds' = builds + 1
          /\ UNCHANGED <<runs, schedule, settings>>
      BY <1>5 DEF Instrument
    <2>2. builds' \in Nat /\ runs' \in Nat /\ builds' + runs' <= MaxCalls
      BY <2>1, MaxCallsAssumption DEF CallTypes
    <2>. QED  BY <1>1, <2>1, <2>2 DEF CallTypes
  <1>6. CASE RunUnderSchedule
    <2>1. /\ builds + runs < MaxCalls /\ runs' = runs + 1
          /\ UNCHANGED <<program, wanted, builds>>
          /\ settings' \in Settings \cup {settings} /\ WriteSchedules
      BY <1>6 DEF RunUnderSchedule, WriteSettings
    <2>2. builds' \in Nat /\ runs' \in Nat /\ builds' + runs' <= MaxCalls
      BY <2>1, MaxCallsAssumption DEF CallTypes
    <2>3. schedule' \in Seq(Thread)
      <3>1. CASE schedule' \in Schedules
        BY <3>1, SchedulesAssumption
      <3>2. CASE schedule' \notin Schedules
        <4>1. PICK execution \in Readable(out.record) : schedule' = ScheduleOf(execution)
          BY <2>1, <3>2 DEF WriteSchedules
        <4>2. out.record.execution \in Seq(Instruction)
          BY DEF FileTypes, Files
        <4>. QED  BY <4>1, <4>2, ScheduleRead
      <3>. QED  BY <3>1, <3>2
    <2>. QED  BY <1>1, <2>1, <2>2, <2>3 DEF CallTypes
  <1>. QED  BY <1>3, <1>4, <1>5, <1>6 DEF Next

LEMMA NoFileTyped == NoFile \in Files
  <1>1. 0 \in 0 .. MaxCalls /\ <<>> \in Seq(Instruction)
    BY MaxCallsAssumption
  <1>. QED  BY <1>1 DEF NoFile, Files

\* The files: what is opened, written and moved.
LEMMA FileTypesStep ==
  FilesInv /\ ProcessTypes /\ CallTypes /\ FileTypes /\ [Next]_vars => FileTypes'
  <1>. SUFFICES ASSUME FilesInv, ProcessTypes, CallTypes, FileTypes, [Next]_vars
                PROVE  FileTypes'
    OBVIOUS
  <1>1. /\ AreFiles(cwd) /\ AreFiles(out) /\ IsFile(cwd.record) /\ IsFile(cwd.short)
        /\ {cwd.record, cwd.short, out.record, out.short, source} \subseteq Files
        /\ NoFile \in Files
    BY NoFileTyped DEF FilesInv, FilesTyped, AreFiles, FileTypes
  <1>2. ASSUME NEW file \in Files, NEW b \in BOOLEAN
        PROVE  [file EXCEPT !.whole = b] \in Files
    BY <1>2 DEF Files
  <1>3. CASE \/ UNCHANGED <<cwd, out, source>>
             \/ Instrument \/ RunUnderSchedule
    <2>1. /\ UNCHANGED cwd
          /\ out' \in {out, NoFiles} /\ source' \in {source, NoFile, out.record}
      BY <1>3 DEF Instrument, RunUnderSchedule, WriteSchedules
    <2>. QED  BY <1>1, <2>1, NoFileIsFile DEF FileTypes
  <1>4. ASSUME NEW new, new \in Files, IsFile(new), UNCHANGED <<out, source>>,
               cwd' = [cwd EXCEPT !.record = new] \/ cwd' = [cwd EXCEPT !.short = new]
        PROVE  FileTypes'
    <2>1. cwd'.record \in {cwd.record, new} /\ cwd'.short \in {cwd.short, new}
      BY <1>1, <1>4, FileAssigned
    <2>. QED  BY <1>1, <1>4, <2>1 DEF FileTypes
  <1>5. CASE OpenRecord /\ trace # <<>>
    <2>. DEFINE new == [program |-> program, run |-> runs, execution |-> trace,
                        end |-> status, strategy |-> StrategyTag,
                        scheduled |-> Len(schedule), whole |-> FALSE]
    <2>1. /\ status \in {"DONE", "DEADLOCK", "ERROR"} /\ trace \in Seq(Instruction)
          /\ cwd' = [cwd EXCEPT !.record = new] /\ UNCHANGED <<out, source>>
      BY <1>5 DEF OpenRecord, ProcessTypes
    <2>2. /\ program \in Sources \cup {NoProgram} /\ runs \in 0 .. MaxCalls /\ runs \in Nat
          /\ Len(schedule) \in Nat /\ StrategyTag \in Settings \cup {"none", "Random"}
      BY MaxCallsAssumption DEF CallTypes, StrategyTag
    <2>3. new \in Files /\ IsFile(new)
      BY <2>1, <2>2 DEF Files, IsFile
    <2>. HIDE DEF new
    <2>. QED  BY <1>4, <2>1, <2>3
  <1>6. CASE WriteRecord \/ OpenShortRecord \/ WriteShortRecord
    <2>1. PICK file \in {cwd.record, cwd.short}, b \in BOOLEAN :
             /\ UNCHANGED <<out, source>>
             /\ \/ cwd' = [cwd EXCEPT !.record = [file EXCEPT !.whole = b]]
                \/ cwd' = [cwd EXCEPT !.short = [file EXCEPT !.whole = b]]
      BY <1>6 DEF WriteRecord, OpenShortRecord, WriteShortRecord
    <2>2. [file EXCEPT !.whole = b] \in Files /\ IsFile([file EXCEPT !.whole = b])
      BY <1>1, <1>2, <2>1, WholeAssigned
    <2>. QED  BY <1>4, <2>1, <2>2
  <1>7. CASE (RenameRecord \/ RenameShortRecord) /\ ~ UNCHANGED <<cwd, out, source>>
    <2>1. /\ UNCHANGED source
          /\ \/ /\ out' = [out EXCEPT !.record = cwd.record]
                /\ cwd' = [cwd EXCEPT !.record = NoFile]
             \/ /\ out' = [out EXCEPT !.short = cwd.short]
                /\ cwd' = [cwd EXCEPT !.short = NoFile]
      BY <1>7 DEF RenameRecord, RenameShortRecord, Rename, Moved
    <2>2. /\ cwd'.record \in {cwd.record, NoFile} /\ cwd'.short \in {cwd.short, NoFile}
      BY <1>1, <2>1, NoFileIsFile, FileAssigned
    <2>3. ASSUME NEW file, IsFile(file),
                 out' = [out EXCEPT !.record = file] \/ out' = [out EXCEPT !.short = file]
          PROVE  out'.record \in {out.record, file} /\ out'.short \in {out.short, file}
      BY <1>1, <2>3, FileAssigned
    <2>4. /\ out'.record \in {out.record, cwd.record, cwd.short}
          /\ out'.short \in {out.short, cwd.record, cwd.short}
      BY <1>1, <2>1, <2>3
    <2>. QED  BY <1>1, <2>1, <2>2, <2>4 DEF FileTypes
  <1>8. CASE ~ (WriteRecord \/ OpenShortRecord \/ WriteShortRecord \/ Instrument \/ RunUnderSchedule
                  \/ RenameRecord \/ RenameShortRecord \/ (OpenRecord /\ trace # <<>>))
    <2>1. UNCHANGED <<cwd, out, source>>
      BY <1>8 DEF Next, ProcessStep, AnnounceNext, ThreadEnds, PerformGranted, PerformFreely,
         RecordPerformed, SelectScheduled, SelectByStrategy, SelectionError, UnknownThread,
         SelectDone, SelectDeadlock, OpenRecord, Exit, Timeout, vars, callerVars
    <2>. QED  BY <1>3, <2>1
  <1>. QED  BY <1>3, <1>5, <1>6, <1>7, <1>8

LEMMA InitTypes == Init => TypeOK /\ WorkInv
  <1>. SUFFICES ASSUME Init PROVE TypeOK /\ WorkInv
    OBVIOUS
  <1>1. ProcessTypes
    <2>1. 0 \in Thread /\ 1 \in 1 .. NrThreads
      BY NrThreadsAssumption DEF Thread
    <2>. QED  BY <2>1 DEF Init, ProcessInit, TurnInit, ProcessTypes, Stage
  <1>2. CallTypes
    BY MaxCallsAssumption DEF Init, CallTypes
  <1>3. FileTypes
    BY NoFileTyped, NoFileIsFile DEF Init, FileTypes
  <1>4. WorkInv
    BY DEF Init, WorkInv, Running
  <1>. QED  BY <1>1, <1>2, <1>3, <1>4 DEF TypeOK

\* The values of all variables, in the files as in the process, under the scheduler and
\* after a selection error: there is a tid for each creation, and a thread for each join.
THEOREM RecordReplayInvariance ==
  ASSUME \A name \in DOMAIN Programs : OnlyMainCreates(name)
  PROVE  Spec => []RecordReplayInv
  <1>1. Init => TypeOK /\ WorkInv
    BY InitTypes
  <1>2. FilesInv /\ TraceInv /\ TypeOK /\ WorkInv /\ [Next]_vars => (TypeOK /\ WorkInv)'
    <2>. SUFFICES ASSUME FilesInv, TraceInv, TypeOK, WorkInv, [Next]_vars
                  PROVE  TypeOK' /\ WorkInv'
      OBVIOUS
    <2>1. ppc = "running" => Running
      BY DEF FilesInv, CallInv, Running
    <2>. QED  BY <2>1, WorkStep, ProcessTypesStep, CallTypesStep, FileTypesStep DEF TypeOK
  <1>3. FilesInv /\ LengthsInv /\ TraceInv /\ (TypeOK /\ WorkInv) => RecordReplayInv
    BY DEF RecordReplayInv
  <1>. QED
    BY <1>1, <1>2, <1>3, FilesInvariance, LengthsInvariance, TraceInvariance, PTL DEF Spec
=============================================================================
