------------------------------ MODULE Sandbox -------------------------------
(***************************************************************************)
(* runSandbox of apps-worker, called again and again by one worker: a      *)
(* directory with the module's files, a child process that runs in it, two *)
(* pipes that are read while it runs, a timer, and the result.  The child  *)
(* is any program.  It may leave descendants: ones that hold its pipes     *)
(* open (so does firejail's own child when firejail is killed), and ones   *)
(* whose output goes elsewhere, which nothing waits for and nothing kills. *)
(* What programs do to the file system is not modelled.  spawnPlain and    *)
(* firejail's spawnAndCollect are the same code.                           *)
(*                                                                         *)
(* Output is counted in units; a pipe holds PipeSize of them.              *)
(***************************************************************************)
EXTENDS Naturals

CONSTANTS
  Files,            \* files to write into the directory
  PipeSize,
  MaxOutputBytes,   \* limits.maxOutputBytes
  Marker,           \* length of "\nOUTPUT_LIMIT_EXCEEDED"
  Descendants,      \* whether programs leave descendants
  MaxRuns,          \* bound on the calls of runSandbox
  MaxWritten,       \* bound on what is written to a pipe in a run
  MaxFaults,        \* bound on failing calls
  MaxCrashes        \* bound on crashes

ASSUME SandboxAssumption ==
  /\ Files \in Nat /\ PipeSize \in Nat \ {0} /\ MaxOutputBytes \in Nat /\ Marker \in Nat
  /\ Descendants \in BOOLEAN
  /\ MaxRuns \in Nat /\ MaxWritten \in Nat /\ MaxFaults \in Nat /\ MaxCrashes \in Nat

VARIABLES
  pc,        \* where the worker is
  run,       \* number of the last call
  staged,    \* files written
  dirs,      \* the calls whose directories exist
  child,     \* none, running, or how it ended: zero, nonzero, killed
  held,      \* descendants that hold the pipes: none, holding, gone
  detached,  \* the calls whose programs left descendants that do not hold them
  pipe,      \* units in each pipe
  written,   \* units that were ever written to it
  kept,      \* units of it in the collected output
  marks,     \* units of markers in it
  timer,     \* off, armed or fired (timedOut)
  result,    \* of the last call: none, ok, failed or threw
  lost,      \* calls that crashed or whose directory could not be removed
  faults,
  crashes

output == <<pipe, written, kept, marks>>
process == <<child, held, detached, timer>>
bounds == <<faults, crashes>>
vars == <<pc, run, staged, dirs, process, output, result, lost, bounds>>

Streams == {"stdout", "stderr"}
Empty == [s \in Streams |-> 0]
Length == kept.stdout + kept.stderr + marks
Over == Length > MaxOutputBytes
Kept == kept.stdout + kept.stderr
InPipes == pipe.stdout + pipe.stderr

NoOutput == pipe' = Empty /\ written' = Empty /\ kept' = Empty /\ marks' = 0

Fault == faults < MaxFaults /\ faults' = faults + 1 /\ UNCHANGED crashes

Init ==
  /\ pc = "idle" /\ run = 0 /\ staged = 0 /\ dirs = {}
  /\ child = "none" /\ held = "none" /\ detached = {} /\ timer = "off"
  /\ pipe = Empty /\ written = Empty /\ kept = Empty /\ marks = 0
  /\ result = "none" /\ lost = {}
  /\ faults = 0 /\ crashes = 0

-----------------------------------------------------------------------------
(* Before the child                                                        *)

\* mkdtemp.
Begin ==
  /\ pc = "idle" /\ run < MaxRuns
  /\ run' = run + 1
  /\ \/ pc' = "staging" /\ dirs' = dirs \cup {run'} /\ result' = "none" /\ UNCHANGED bounds
     \/ UNCHANGED <<pc, dirs>> /\ result' = "threw" /\ Fault
  /\ staged' = 0
  /\ NoOutput
  /\ held' = "none"
  /\ UNCHANGED <<child, detached, timer, lost>>

\* Mutant: a file that cannot be written is thrown past the finally.
StageOutside ==
  /\ pc = "staging" /\ staged < Files
  /\ \/ staged' = staged + 1 /\ UNCHANGED <<pc, result, bounds>>
     \/ pc' = "idle" /\ result' = "threw" /\ UNCHANGED staged /\ Fault
  /\ UNCHANGED <<run, dirs, process, output, lost>>

\* One file of the module, with its directory.
Stage ==
  /\ pc = "staging" /\ staged < Files
  /\ \/ staged' = staged + 1 /\ UNCHANGED <<pc, result, bounds>>
     \/ pc' = "removing" /\ result' = "threw" /\ UNCHANGED staged /\ Fault
  /\ UNCHANGED <<run, dirs, process, output, lost>>

\* spawn, the readers and the timer; spawn may throw.
Spawn ==
  /\ pc = "staging" /\ staged = Files
  /\ \/ /\ pc' = "waiting" /\ child' = "running" /\ timer' = "armed"
        /\ UNCHANGED <<result, bounds>>
     \/ pc' = "removing" /\ result' = "threw" /\ Fault /\ UNCHANGED <<child, timer>>
  /\ UNCHANGED <<run, staged, dirs, held, detached, output, lost>>

\* The program cannot be started: "error" has no listener, and the worker dies,
\* and its container with it.
SpawnError ==
  /\ pc = "staging" /\ staged = Files
  /\ pc' = "down"
  /\ lost' = lost \cup {run}
  /\ detached' = {}
  /\ Fault
  /\ UNCHANGED <<run, staged, dirs, child, held, timer, output, result>>

-----------------------------------------------------------------------------
(* The child                                                               *)

\* The child or a descendant writes; a full pipe blocks it.
ChildWrites(s) ==
  /\ child = "running" \/ held = "holding"
  /\ pipe[s] < PipeSize /\ written[s] < MaxWritten
  /\ pipe' = [pipe EXCEPT ![s] = pipe[s] + 1]
  /\ written' = [written EXCEPT ![s] = written[s] + 1]
  /\ UNCHANGED <<pc, run, staged, dirs, process, kept, marks, result, lost, bounds>>

\* A descendant inherits the pipes, or has its output redirected.
ChildForks ==
  /\ child = "running" /\ Descendants
  /\ \/ held' = "holding" /\ UNCHANGED detached
     \/ detached' = detached \cup {run} /\ UNCHANGED held
  /\ UNCHANGED <<pc, run, staged, dirs, child, timer, output, result, lost, bounds>>

\* The last descendant with the pipes ends, or closes them and runs on.
DescendantsEnd ==
  /\ held = "holding"
  /\ held' = "gone"
  /\ detached' \in {detached, detached \cup {run}}
  /\ UNCHANGED <<pc, run, staged, dirs, child, timer, output, result, lost, bounds>>

\* A descendant without the pipes ends when it likes, the run long over perhaps.
DetachedEnds(r) ==
  /\ detached' = detached \ {r}
  /\ UNCHANGED <<pc, run, staged, dirs, child, held, timer, output, result, lost, bounds>>

ChildExits(code) ==
  /\ child = "running"
  /\ child' = code
  /\ UNCHANGED <<pc, run, staged, dirs, held, detached, timer, output, result, lost, bounds>>

-----------------------------------------------------------------------------
(* The worker meanwhile                                                    *)

\* SIGKILL finds the child running, or comes too late.
Kill == child' = IF child = "running" THEN "killed" ELSE child

\* Mutant: the limit is for stdout alone.
CollectStdout(s, n) ==
  /\ pc = "waiting" /\ n \in 1..pipe[s]
  /\ pipe' = [pipe EXCEPT ![s] = pipe[s] - n]
  /\ kept' = [kept EXCEPT ![s] = kept[s] + n]
  /\ IF kept'.stdout > MaxOutputBytes
       THEN Kill /\ marks' = marks + Marker
       ELSE UNCHANGED <<child, marks>>
  /\ UNCHANGED <<pc, run, staged, dirs, held, detached, timer, written, result, lost, bounds>>

\* A chunk of n units arrives; above the limit the child is killed, at every chunk.
Collect(s, n) ==
  /\ pc = "waiting" /\ n \in 1..pipe[s]
  /\ pipe' = [pipe EXCEPT ![s] = pipe[s] - n]
  /\ kept' = [kept EXCEPT ![s] = kept[s] + n]
  /\ IF kept'.stdout + kept'.stderr + marks > MaxOutputBytes
       THEN Kill /\ marks' = marks + Marker
       ELSE UNCHANGED <<child, marks>>
  /\ UNCHANGED <<pc, run, staged, dirs, held, detached, timer, written, result, lost, bounds>>

\* Mutant: the timer ends the wait and leaves the child alone.
TimeoutReturns ==
  /\ pc = "waiting" /\ timer = "armed"
  /\ timer' = "off"
  /\ pc' = "removing" /\ result' = "failed"
  /\ UNCHANGED <<run, staged, dirs, child, held, detached, output, lost, bounds>>

\* Mutant: the timer only notes that it fired.
TimeoutSpares ==
  /\ pc = "waiting" /\ timer = "armed"
  /\ timer' = "fired"
  /\ UNCHANGED <<pc, run, staged, dirs, child, held, detached, output, result, lost, bounds>>

Timeout ==
  /\ pc = "waiting" /\ timer = "armed"
  /\ timer' = "fired"
  /\ Kill
  /\ UNCHANGED <<pc, run, staged, dirs, held, detached, output, result, lost, bounds>>

Ended == child \in {"zero", "nonzero", "killed"}

\* Mutant: "exit" instead of "close".
ClosedAtExit == Ended

\* Node emits "close" when the child has ended and both pipes are at their end.
Closed == Ended /\ held # "holding" /\ pipe = Empty

\* Mutant: no clearTimeout.
CloseArmed ==
  /\ pc = "waiting" /\ Closed
  /\ result' = IF timer # "fired" /\ child = "zero" THEN "ok" ELSE "failed"
  /\ pc' = "removing" /\ child' = "none"
  /\ UNCHANGED <<timer, run, staged, dirs, held, detached, output, lost, bounds>>

Close ==
  /\ pc = "waiting" /\ Closed
  /\ result' = IF timer # "fired" /\ child = "zero" THEN "ok" ELSE "failed"
  /\ pc' = "removing" /\ child' = "none" /\ timer' = "off"
  /\ UNCHANGED <<run, staged, dirs, held, detached, output, lost, bounds>>

\* The finally; when rm fails, so does the call, whatever its result was.
Remove ==
  /\ pc = "removing"
  /\ pc' = "idle"
  /\ \/ dirs' = dirs \ {run} /\ UNCHANGED <<result, lost, bounds>>
     \/ result' = "threw" /\ lost' = lost \cup {run} /\ UNCHANGED dirs /\ Fault
  /\ UNCHANGED <<run, staged, process, output>>

-----------------------------------------------------------------------------

\* The container dies with every process in it; its /tmp stays.
Crash ==
  /\ pc # "down" /\ crashes < MaxCrashes
  /\ crashes' = crashes + 1
  /\ pc' = "down"
  /\ child' = "none" /\ held' = "none" /\ detached' = {} /\ timer' = "off"
  /\ lost' = lost \cup (dirs \cap {run})
  /\ NoOutput /\ result' = "none"
  /\ UNCHANGED <<run, staged, dirs, faults>>

Restart ==
  /\ pc = "down"
  /\ pc' = "idle"
  /\ UNCHANGED <<run, staged, dirs, process, output, result, lost, bounds>>

Worker == Begin \/ Stage \/ Spawn \/ (\E s \in Streams : \E n \in 1..PipeSize : Collect(s, n))
          \/ Timeout \/ Close \/ Remove

Program == (\E s \in Streams : ChildWrites(s)) \/ ChildForks \/ DescendantsEnd
           \/ (\E r \in detached : DetachedEnds(r))
           \/ ChildExits("zero") \/ ChildExits("nonzero")

Next == Worker \/ Program \/ SpawnError \/ Crash \/ Restart

Spec == Init /\ [][Next]_vars

\* The event loop goes on and runs the timers; nothing is assumed of programs.
FairSpec == Spec /\ WF_vars(Worker) /\ WF_vars(Timeout)

-----------------------------------------------------------------------------
(* Properties                                                              *)

TypeOK ==
  /\ pc \in {"idle", "staging", "waiting", "removing", "down"}
  /\ run \in 0..MaxRuns /\ staged \in 0..Files
  /\ dirs \subseteq 1..run /\ lost \subseteq 1..run
  /\ child \in {"none", "running", "zero", "nonzero", "killed"}
  /\ held \in {"none", "holding", "gone"} /\ detached \subseteq 1..run
  /\ pipe \in [Streams -> 0..PipeSize]
  /\ written \in [Streams -> 0..MaxWritten]
  /\ kept \in [Streams -> 0..MaxWritten]
  /\ marks \in Nat
  /\ timer \in {"off", "armed", "fired"}
  /\ result \in {"none", "ok", "failed", "threw"}
  /\ faults \in 0..MaxFaults /\ crashes \in 0..MaxCrashes
  /\ pc = "waiting" <=> child # "none"
  /\ pc = "waiting" <=> timer # "off"

\* A run that is reported ok has all the output of its program and of what the
\* program left behind: the result waits for the pipes ("close"), not for the
\* child ("exit").
OkIsComplete == result = "ok" => kept = written

\* The worker collects at most the limit and what the two pipes held when it was
\* passed, whatever the program writes, unless descendants went on writing.
OutputBounded ==
  held = "none" => Kept + InPipes <= MaxOutputBytes + 2 * PipeSize

\* The directory is there as long as the child runs, or a descendant that holds its
\* pipes: rm comes after "close".  Under a descendant that let go of the pipes, or
\* never had them, it is removed.
RunsInItsDirectory ==
  child = "running" \/ held = "holding" => run \in dirs

\* Between two runs the child of the earlier one has ended and nobody holds its pipes,
\* and no directory is left but those of crashes and of an rm that failed.  What runs
\* on without the pipes (detached) is not cleaned up.
CleanedUp ==
  pc = "idle" => child = "none" /\ held # "holding" /\ dirs \subseteq lost

\* The wait for a child ends even if the program never does, unless descendants
\* hold its pipes: then it outlasts the wall time.
WaitEnds == pc = "waiting" ~> (pc # "waiting" \/ held = "holding")

\* Inductive, in parts: what is written is in a pipe or collected; a child runs on
\* only below the limit; nothing holds the pipes after the wait; where the
\* directories are.
Accounted == \A s \in Streams : written[s] = kept[s] + pipe[s]

RunningBelowLimit == (child = "running" => ~ Over) /\ (pc = "staging" => Length = 0)

WaitOver ==
  /\ held = "holding" => pc = "waiting"
  /\ result = "ok" => pc \in {"removing", "idle"} /\ pipe = Empty

Directories ==
  /\ dirs \subseteq lost \cup {run}
  /\ pc \in {"staging", "waiting", "removing"} => run \in dirs
  /\ pc \in {"idle", "down"} => dirs \subseteq lost

\* What test/sandbox.spec.ts says of a program that prints too much.
OverLimitFails == Over => result # "ok"
=============================================================================
