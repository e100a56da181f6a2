--------------------------- MODULE SandboxProofs ----------------------------
(***************************************************************************)
(* Proofs about runSandbox, for any pipe size, limits, program and number  *)
(* of runs.  A child that is running has never been collected above the    *)
(* limit, since the chunk that passes it kills; so what is collected and   *)
(* in the pipes is bounded when it dies, and stays so.  Output is never    *)
(* lost (Accounted), and the pipes are empty when the wait is over.        *)
(***************************************************************************)
EXTENDS Sandbox, TLAPS

Bounded == Kept + InPipes <= MaxOutputBytes + 2 * PipeSize

SandboxInv ==
  /\ TypeOK
  /\ Accounted
  /\ held = "none" => RunningBelowLimit /\ Bounded
  /\ WaitOver
  /\ Directories

LEMMA Initially == Init => SandboxInv
BY SandboxAssumption
DEF Init, SandboxInv, TypeOK, Accounted, RunningBelowLimit, Bounded, WaitOver, Directories,
    Streams, Empty, Over, Length, Kept, InPipes

\* The types, as the steps below use them.
LEMMA Counts ==
  ASSUME TypeOK
  PROVE  /\ pipe.stdout \in 0..PipeSize /\ pipe.stderr \in 0..PipeSize
         /\ kept.stdout \in Nat /\ kept.stderr \in Nat
         /\ written.stdout \in Nat /\ written.stderr \in Nat
         /\ marks \in Nat
BY SandboxAssumption DEF TypeOK, Streams

LEMMA NothingYet ==
  ASSUME NoOutput
  PROVE  /\ pipe'.stdout = 0 /\ pipe'.stderr = 0 /\ kept'.stdout = 0 /\ kept'.stderr = 0
         /\ Accounted' /\ marks' = 0 /\ pipe' = Empty /\ kept' = Empty /\ written' = Empty
BY DEF NoOutput, Empty, Streams, Accounted

\* The conjuncts that are about output alone.
Amounts == Accounted /\ (held = "none" => RunningBelowLimit /\ Bounded)

\* A step that leaves the output alone keeps what it amounts to.
LEMMA SameOutput ==
  ASSUME SandboxInv, UNCHANGED output,
         held' = "none" => held = "none" /\ (child' = "running" => child = "running"),
         pc' = "staging" => pc = "staging"
  PROVE  Amounts'
BY DEF SandboxInv, Amounts, output, Accounted, RunningBelowLimit, Over, Length, Bounded, Kept,
       InPipes

LEMMA Sums ==
  ASSUME NEW a \in Nat, NEW b \in Nat, NEW c \in Nat, NEW d \in Nat,
         NEW e \in Nat, NEW f \in Nat, NEW g \in Nat, NEW h \in Nat,
         a + b = e + f, c + d = g + h
  PROVE  (a + c) + (b + d) = (e + g) + (f + h)
OBVIOUS

LEMMA BoundsKeep ==
  ASSUME TypeOK, UNCHANGED bounds \/ Fault
  PROVE  faults' \in 0..MaxFaults /\ crashes' \in 0..MaxCrashes
BY SandboxAssumption DEF TypeOK, bounds, Fault

-----------------------------------------------------------------------------
(* The worker's steps                                                      *)

LEMMA BeginKeeps == ASSUME SandboxInv, Begin PROVE SandboxInv'
<1> USE SandboxAssumption
<1>1. /\ run' = run + 1 /\ run' \in 1..MaxRuns /\ run \in Nat
      /\ pc = "idle" /\ child = "none" /\ dirs \subseteq lost /\ lost \subseteq 1..run
      /\ child' = child /\ timer' = timer /\ lost' = lost /\ held' = "none" /\ NoOutput
      /\ detached' = detached /\ detached \subseteq 1..run
      /\ staged' = 0 /\ timer = "off"
  BY DEF Begin, SandboxInv, TypeOK, Directories
<1>2. /\ \/ pc' = "staging" /\ dirs' = dirs \cup {run'} /\ result' = "none"
         \/ pc' = "idle" /\ dirs' = dirs /\ result' = "threw"
      /\ faults' \in 0..MaxFaults /\ crashes' \in 0..MaxCrashes
  BY <1>1, BoundsKeep DEF Begin, SandboxInv
<1>3. TypeOK'
  <2>1. /\ pipe' \in [Streams -> 0..PipeSize] /\ written' \in [Streams -> 0..MaxWritten]
        /\ kept' \in [Streams -> 0..MaxWritten] /\ marks' = 0
    BY <1>1, NothingYet DEF Empty
  <2>2. dirs' \subseteq 1..run' /\ lost' \subseteq 1..run' /\ detached' \subseteq 1..run'
    <3>1. 1..run \subseteq 1..run' /\ run' \in 1..run'
      BY <1>1
    <3> QED
      BY <1>1, <1>2, <3>1
  <2>3. run' \in 0..MaxRuns /\ staged' \in 0..Files /\ marks' \in Nat
    BY <1>1, <2>1
  <2> QED
    BY <1>1, <1>2, <2>1, <2>2, <2>3 DEF TypeOK
<1>4. Accounted' /\ RunningBelowLimit' /\ Bounded'
  BY <1>1, NothingYet DEF RunningBelowLimit, Length, Bounded, Kept, InPipes
<1>5. WaitOver' /\ Directories'
  BY <1>1, <1>2 DEF WaitOver, Directories
<1> QED
  BY <1>3, <1>4, <1>5 DEF SandboxInv

LEMMA StageKeeps == ASSUME SandboxInv, Stage PROVE SandboxInv'
<1> USE SandboxAssumption
<1>1. /\ UNCHANGED <<run, dirs, child, held, detached, timer, output, lost>>
      /\ staged' \in 0..Files /\ pc = "staging"
      /\ \/ pc' = "staging" /\ result' = result
         \/ pc' = "removing" /\ result' = "threw"
  <2>1. staged \in 0..Files /\ pc = "staging" /\ staged < Files
    BY DEF Stage, SandboxInv, TypeOK
  <2>2. UNCHANGED <<run, dirs, child, held, detached, timer, output, lost>>
    BY DEF Stage, process
  <2>3. \/ staged' = staged + 1 /\ pc' = pc /\ result' = result
        \/ staged' = staged /\ pc' = "removing" /\ result' = "threw"
    BY DEF Stage
  <2>4. staged' \in 0..Files
    BY <2>1, <2>3
  <2> QED
    BY <2>1, <2>2, <2>3, <2>4
<1>2. faults' \in 0..MaxFaults /\ crashes' \in 0..MaxCrashes
  BY BoundsKeep DEF Stage, SandboxInv
<1>3. TypeOK'
  BY <1>1, <1>2 DEF SandboxInv, TypeOK, output
<1>4. Amounts'
  BY <1>1, SameOutput
<1>5. WaitOver' /\ Directories'
  BY <1>1 DEF SandboxInv, WaitOver, Directories, output
<1> QED
  BY <1>3, <1>4, <1>5 DEF SandboxInv, Amounts

LEMMA SpawnKeeps == ASSUME SandboxInv, Spawn PROVE SandboxInv'
<1> USE SandboxAssumption
<1>1. /\ UNCHANGED <<run, staged, dirs, held, detached, output, lost>> /\ pc = "staging"
      /\ child = "none" /\ timer = "off"
      /\ \/ pc' = "waiting" /\ child' = "running" /\ timer' = "armed" /\ result' = result
         \/ pc' = "removing" /\ result' = "threw" /\ UNCHANGED <<child, timer>>
  BY DEF Spawn, SandboxInv, TypeOK
<1>2. faults' \in 0..MaxFaults /\ crashes' \in 0..MaxCrashes
  BY BoundsKeep DEF Spawn, SandboxInv
<1>3. TypeOK'
  BY <1>1, <1>2 DEF SandboxInv, TypeOK, output
<1>4. Amounts'
  <2>1. held = "none" => Length = 0
    BY <1>1 DEF SandboxInv, RunningBelowLimit
  <2>2. held = "none" => RunningBelowLimit'
    BY <1>1, <2>1 DEF RunningBelowLimit, Over, Length, output
  <2> QED
    BY <1>1, <2>2 DEF SandboxInv, Amounts, Accounted, Bounded, Kept, InPipes, output
<1>5. WaitOver' /\ Directories'
  BY <1>1 DEF SandboxInv, WaitOver, Directories, output
<1> QED
  BY <1>3, <1>4, <1>5 DEF SandboxInv, Amounts

\* The chunk that passes the limit kills; any chunk moves units from a pipe to the
\* collected output.
LEMMA CollectKeeps ==
  ASSUME SandboxInv, NEW s \in Streams, NEW n \in 1..PipeSize, Collect(s, n)
  PROVE  SandboxInv'
<1> USE SandboxAssumption
<1>1. /\ UNCHANGED <<pc, run, staged, dirs, held, detached, timer, written, result, lost, faults,
                     crashes>>
      /\ pc = "waiting" /\ n \in 1..pipe[s]
      /\ pipe' = [pipe EXCEPT ![s] = pipe[s] - n] /\ kept' = [kept EXCEPT ![s] = kept[s] + n]
  BY DEF Collect, bounds
<1>2. pipe \in [Streams -> 0..PipeSize] /\ kept \in [Streams -> 0..MaxWritten]
      /\ written \in [Streams -> 0..MaxWritten] /\ Accounted
  BY DEF SandboxInv, TypeOK
<1>3. kept[s] + n \in 0..MaxWritten /\ pipe[s] - n \in 0..PipeSize
  BY <1>1, <1>2 DEF Accounted
<1>4. /\ child' \in {child, "killed"} /\ child # "none" /\ child' # "none"
      /\ child' = "running" => child = "running" /\ ~ Over'
      /\ marks' \in Nat
  BY <1>1, Counts DEF Collect, Kill, Over, Length, SandboxInv, TypeOK
<1>5. TypeOK'
  <2>1. pipe' \in [Streams -> 0..PipeSize] /\ kept' \in [Streams -> 0..MaxWritten]
    BY <1>1, <1>2, <1>3
  <2> QED
    BY <1>1, <1>4, <2>1 DEF SandboxInv, TypeOK
<1>6. Accounted' /\ Kept' + InPipes' = Kept + InPipes
  <2>1. \A x \in Streams : kept'[x] + pipe'[x] = kept[x] + pipe[x]
    BY <1>1, <1>2, <1>3
  <2>2. Accounted'
    BY <1>1, <1>2, <2>1 DEF Accounted
  <2>3. Kept' + InPipes' = Kept + InPipes
    <3>1. /\ kept'.stdout + pipe'.stdout = kept.stdout + pipe.stdout
          /\ kept'.stderr + pipe'.stderr = kept.stderr + pipe.stderr
      BY <2>1 DEF Streams
    <3>2. /\ kept'.stdout \in Nat /\ pipe'.stdout \in Nat /\ kept'.stderr \in Nat
          /\ pipe'.stderr \in Nat
      BY <1>5 DEF TypeOK, Streams
    <3> QED
      BY <1>2, <3>1, <3>2, Sums, Counts DEF Kept, InPipes, SandboxInv
  <2> QED
    BY <2>2, <2>3
<1>7. held' = "none" => RunningBelowLimit' /\ Bounded'
  BY <1>1, <1>4, <1>6 DEF SandboxInv, RunningBelowLimit, Bounded
<1>8. WaitOver' /\ Directories'
  BY <1>1 DEF SandboxInv, WaitOver, Directories
<1> QED
  BY <1>5, <1>6, <1>7, <1>8 DEF SandboxInv

LEMMA TimeoutKeeps == ASSUME SandboxInv, Timeout PROVE SandboxInv'
<1>1. /\ UNCHANGED <<pc, run, staged, dirs, held, detached, output, result, lost, faults, crashes>>
      /\ pc = "waiting" /\ timer' = "fired"
      /\ child' \in {child, "killed"} /\ child # "none" /\ child' # "none"
  BY DEF Timeout, Kill, bounds, SandboxInv, TypeOK
<1>2. TypeOK'
  BY <1>1 DEF SandboxInv, TypeOK, output
<1>3. Amounts'
  BY <1>1, SameOutput
<1>4. WaitOver' /\ Directories'
  BY <1>1 DEF SandboxInv, WaitOver, Directories, output
<1> QED
  BY <1>2, <1>3, <1>4 DEF SandboxInv, Amounts

LEMMA CloseKeeps == ASSUME SandboxInv, Close PROVE SandboxInv'
<1>1. /\ UNCHANGED <<run, staged, dirs, held, detached, output, lost, faults, crashes>>
      /\ pc = "waiting" /\ pc' = "removing" /\ child' = "none" /\ timer' = "off"
      /\ result' \in {"ok", "failed"} /\ held # "holding" /\ pipe = Empty
  BY DEF Close, Closed, bounds
<1>2. TypeOK'
  BY <1>1 DEF SandboxInv, TypeOK, output
<1>3. Amounts'
  BY <1>1, SameOutput
<1>4. WaitOver' /\ Directories'
  BY <1>1 DEF SandboxInv, WaitOver, Directories, output
<1> QED
  BY <1>2, <1>3, <1>4 DEF SandboxInv, Amounts

LEMMA RemoveKeeps == ASSUME SandboxInv, Remove PROVE SandboxInv'
<1>1. /\ UNCHANGED <<run, staged, child, held, detached, timer, output>>
      /\ pc = "removing" /\ pc' = "idle"
      /\ \/ dirs' = dirs \ {run} /\ lost' = lost /\ result' = result
         \/ dirs' = dirs /\ lost' = lost \cup {run} /\ result' = "threw"
  BY DEF Remove, process
<1>2. faults' \in 0..MaxFaults /\ crashes' \in 0..MaxCrashes
  BY BoundsKeep DEF Remove, SandboxInv
<1>3. run \in dirs
  BY <1>1 DEF SandboxInv, Directories
<1>4. TypeOK'
  BY <1>1, <1>2, <1>3 DEF SandboxInv, TypeOK, output
<1>5. Amounts'
  BY <1>1, SameOutput
<1>6. WaitOver' /\ Directories'
  BY <1>1 DEF SandboxInv, WaitOver, Directories, output
<1> QED
  BY <1>4, <1>5, <1>6 DEF SandboxInv, Amounts

-----------------------------------------------------------------------------
(* The program's steps                                                     *)

LEMMA ChildWritesKeeps ==
  ASSUME SandboxInv, NEW s \in Streams, ChildWrites(s)
  PROVE  SandboxInv'
<1> USE SandboxAssumption
<1>1. /\ UNCHANGED <<pc, run, staged, dirs, child, held, detached, timer, kept, marks, result,
                     lost, faults, crashes>>
      /\ child = "running" \/ held = "holding"
      /\ pipe[s] < PipeSize /\ written[s] < MaxWritten
      /\ pipe' = [pipe EXCEPT ![s] = pipe[s] + 1]
      /\ written' = [written EXCEPT ![s] = written[s] + 1]
  BY DEF ChildWrites, process, bounds
<1>2. pipe \in [Streams -> 0..PipeSize] /\ written \in [Streams -> 0..MaxWritten]
      /\ kept \in [Streams -> 0..MaxWritten] /\ Accounted
  BY DEF SandboxInv, TypeOK
<1>3. TypeOK'
  <2>1. pipe[s] + 1 \in 0..PipeSize /\ written[s] + 1 \in 0..MaxWritten
    BY <1>1, <1>2
  <2>2. pipe' \in [Streams -> 0..PipeSize] /\ written' \in [Streams -> 0..MaxWritten]
    BY <1>1, <1>2, <2>1
  <2> QED
    BY <1>1, <2>2 DEF SandboxInv, TypeOK
<1>4. Accounted'
  BY <1>1, <1>2 DEF Accounted
<1>5. held' = "none" => RunningBelowLimit' /\ Bounded'
  <2> SUFFICES ASSUME held = "none"
               PROVE  RunningBelowLimit' /\ Bounded'
    BY <1>1
  <2>1. child = "running" /\ RunningBelowLimit /\ ~ Over
    BY <1>1 DEF SandboxInv, RunningBelowLimit
  <2>2. Kept <= MaxOutputBytes /\ Kept' = Kept
    BY <1>1, <2>1, Counts DEF Over, Length, Kept, SandboxInv
  <2>3. InPipes' <= 2 * PipeSize /\ InPipes' \in Nat /\ Kept \in Nat
    <3>1. pipe'.stdout \in 0..PipeSize /\ pipe'.stderr \in 0..PipeSize
      BY <1>3 DEF TypeOK, Streams
    <3> QED
      BY <3>1, Counts DEF InPipes, Kept, SandboxInv
  <2>4. Bounded'
    <3>1. ASSUME NEW k \in Nat, NEW i \in Nat, k <= MaxOutputBytes, i <= 2 * PipeSize
          PROVE  k + i <= MaxOutputBytes + 2 * PipeSize
      BY <3>1
    <3>2. Kept' + InPipes' <= MaxOutputBytes + 2 * PipeSize
      BY <2>2, <2>3, <3>1
    <3> QED
      BY <3>2 DEF Bounded
  <2>5. RunningBelowLimit'
    BY <1>1, <2>1 DEF RunningBelowLimit, Over, Length
  <2> QED
    BY <2>4, <2>5
<1>6. WaitOver' /\ Directories'
  BY <1>1 DEF SandboxInv, TypeOK, WaitOver, Directories
<1> QED
  BY <1>3, <1>4, <1>5, <1>6 DEF SandboxInv

LEMMA ProgramKeeps ==
  ASSUME SandboxInv,
         \/ ChildForks \/ DescendantsEnd \/ ChildExits("zero") \/ ChildExits("nonzero")
         \/ \E r \in detached : DetachedEnds(r)
  PROVE  SandboxInv'
<1>1. /\ UNCHANGED <<pc, run, staged, dirs, timer, output, result, lost, faults, crashes>>
      /\ detached' \subseteq detached \cup {run}
      /\ \/ UNCHANGED <<child, held>>
         \/ /\ child = "running" \/ held = "holding"
            /\ \/ child' = child /\ held' \in {"holding", "gone"}
               \/ child' \in {"zero", "nonzero"} /\ held' = held /\ child = "running"
  BY DEF ChildForks, DescendantsEnd, DetachedEnds, ChildExits, bounds
<1>2. child = "running" \/ held = "holding" => pc = "waiting"
  BY DEF SandboxInv, TypeOK, WaitOver
<1>3. detached' \subseteq 1..run
  <2>1. CASE run \in 1..run
    BY <1>1, <2>1 DEF SandboxInv, TypeOK
  <2>2. CASE run \notin 1..run
    <3>1. run = 0 /\ dirs = {} /\ pc # "waiting"
      BY <2>2, SandboxAssumption DEF SandboxInv, TypeOK, Directories
    <3>2. detached' \subseteq detached
      BY <1>2, <3>1 DEF ChildForks, DescendantsEnd, DetachedEnds, ChildExits
    <3> QED
      BY <3>2 DEF SandboxInv, TypeOK
  <2> QED
    BY <2>1, <2>2
<1>4. TypeOK'
  BY <1>1, <1>2, <1>3 DEF SandboxInv, TypeOK, output
<1>5. Amounts'
  BY <1>1, <1>2, SameOutput
<1>6. WaitOver' /\ Directories'
  BY <1>1, <1>2 DEF SandboxInv, WaitOver, Directories, output
<1> QED
  BY <1>4, <1>5, <1>6 DEF SandboxInv, Amounts

-----------------------------------------------------------------------------
(* Crashes                                                                 *)

LEMMA SpawnErrorKeeps == ASSUME SandboxInv, SpawnError PROVE SandboxInv'
<1>1. /\ UNCHANGED <<run, staged, dirs, child, held, timer, output, result>> /\ detached' = {}
      /\ pc = "staging" /\ pc' = "down" /\ lost' = lost \cup {run}
  BY DEF SpawnError, process
<1>2. faults' \in 0..MaxFaults /\ crashes' \in 0..MaxCrashes
  BY BoundsKeep DEF SpawnError, SandboxInv
<1>3. TypeOK'
  BY <1>1, <1>2 DEF SandboxInv, TypeOK, output, Directories
<1>4. Amounts'
  BY <1>1, SameOutput
<1>5. WaitOver' /\ Directories'
  BY <1>1 DEF SandboxInv, WaitOver, Directories, output
<1> QED
  BY <1>3, <1>4, <1>5 DEF SandboxInv, Amounts

LEMMA CrashKeeps == ASSUME SandboxInv, Crash PROVE SandboxInv'
<1> USE SandboxAssumption
<1>1. /\ UNCHANGED <<run, staged, dirs, faults>>
      /\ pc' = "down" /\ child' = "none" /\ held' = "none" /\ timer' = "off" /\ detached' = {}
      /\ lost' = lost \cup (dirs \cap {run}) /\ result' = "none" /\ NoOutput
      /\ crashes' \in 0..MaxCrashes
  BY DEF Crash, SandboxInv, TypeOK
<1>2. TypeOK'
  <2>1. /\ pipe' \in [Streams -> 0..PipeSize] /\ written' \in [Streams -> 0..MaxWritten]
        /\ kept' \in [Streams -> 0..MaxWritten] /\ marks' \in Nat
    BY <1>1, NothingYet DEF Empty
  <2> QED
    BY <1>1, <2>1 DEF SandboxInv, TypeOK
<1>3. Accounted' /\ RunningBelowLimit' /\ Bounded'
  BY <1>1, NothingYet DEF RunningBelowLimit, Length, Bounded, Kept, InPipes
<1>4. WaitOver' /\ Directories'
  BY <1>1 DEF SandboxInv, WaitOver, Directories
<1> QED
  BY <1>2, <1>3, <1>4 DEF SandboxInv

LEMMA RestartKeeps == ASSUME SandboxInv, Restart PROVE SandboxInv'
<1>1. /\ UNCHANGED <<run, staged, dirs, child, held, detached, timer, output, result, lost, faults,
                  crashes>>
      /\ pc = "down" /\ pc' = "idle"
  BY DEF Restart, process, bounds
<1>2. TypeOK'
  BY <1>1 DEF SandboxInv, TypeOK, output
<1>3. Amounts'
  BY <1>1, SameOutput
<1>4. WaitOver' /\ Directories'
  BY <1>1 DEF SandboxInv, WaitOver, Directories, output
<1> QED
  BY <1>2, <1>3, <1>4 DEF SandboxInv, Amounts

LEMMA SandboxStep == SandboxInv /\ [Next]_vars => SandboxInv'
<1> SUFFICES ASSUME SandboxInv, [Next]_vars
             PROVE  SandboxInv'
  OBVIOUS
<1>1. CASE Worker
  BY <1>1, BeginKeeps, StageKeeps, SpawnKeeps, CollectKeeps, TimeoutKeeps, CloseKeeps,
     RemoveKeeps DEF Worker
<1>2. CASE Program
  BY <1>2, ChildWritesKeeps, ProgramKeeps DEF Program
<1>3. CASE SpawnError \/ Crash \/ Restart
  BY <1>3, SpawnErrorKeeps, CrashKeeps, RestartKeeps
<1>4. CASE UNCHANGED vars
  <2>1. UNCHANGED <<pc, run, staged, dirs, child, held, detached, timer, output, result, lost,
                  faults, crashes>>
    BY <1>4 DEF vars, process, bounds
  <2>2. TypeOK'
    BY <2>1 DEF SandboxInv, TypeOK, output
  <2>3. Amounts'
    BY <2>1, SameOutput
  <2>4. WaitOver' /\ Directories'
    BY <2>1 DEF SandboxInv, WaitOver, Directories, output
  <2> QED
    BY <2>2, <2>3, <2>4 DEF SandboxInv, Amounts
<1> QED
  BY <1>1, <1>2, <1>3, <1>4 DEF Next

\* The inductive invariant of the sandbox.
THEOREM SandboxInvariant == Spec => []SandboxInv
BY Initially, SandboxStep, PTL DEF Spec

-----------------------------------------------------------------------------
(* What follows                                                            *)

\* Types; only a wait has a child and a timer.
THEOREM TypeCorrect == Spec => []TypeOK
BY SandboxInvariant, PTL DEF SandboxInv

LEMMA OkFollows == SandboxInv => OkIsComplete
<1> SUFFICES ASSUME SandboxInv, result = "ok"
             PROVE  kept = written
  BY DEF OkIsComplete
<1>1. /\ \A s \in Streams : pipe[s] = 0
      /\ kept \in [Streams -> 0..MaxWritten] /\ written \in [Streams -> 0..MaxWritten]
  BY DEF SandboxInv, WaitOver, Empty, TypeOK
<1>2. \A s \in Streams : written[s] = kept[s]
  BY <1>1 DEF SandboxInv, Accounted
<1> QED
  BY <1>1, <1>2

\* A run reported ok has all the output there was ("close", not "exit").
THEOREM OkCorrect == Spec => []OkIsComplete
BY OkFollows, SandboxInvariant, PTL

\* What is collected from a program without descendants is bounded (collect).
THEOREM OutputCorrect == Spec => []OutputBounded
<1>1. SandboxInv => OutputBounded
  BY DEF SandboxInv, OutputBounded, Bounded
<1> QED
  BY <1>1, SandboxInvariant, PTL

\* The directory outlives the child and whoever holds its pipes (the finally comes
\* after "close").
THEOREM DirectoryCorrect == Spec => []RunsInItsDirectory
<1>1. SandboxInv => RunsInItsDirectory
  BY DEF SandboxInv, TypeOK, WaitOver, Directories, RunsInItsDirectory
<1> QED
  BY <1>1, SandboxInvariant, PTL

\* Between runs the child has ended, nobody holds its pipes, and no directory is left
\* but those of crashes and of a failed rm; of detached descendants it says nothing.
THEOREM CleanupCorrect == Spec => []CleanedUp
<1>1. SandboxInv => CleanedUp
  BY DEF SandboxInv, TypeOK, WaitOver, Directories, CleanedUp
<1> QED
  BY <1>1, SandboxInvariant, PTL
=============================================================================
