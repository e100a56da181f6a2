------------------------------- MODULE Worker -------------------------------
(***************************************************************************)
(* The worker around the sandbox: an in-memory queue, one job at a time,   *)
(* the four processors, and the artifact store they share.  An artifact is *)
(* kept under the hash of its bytes, so a content stands for its key.      *)
(* putBytes truncates the file and then writes it.  A run job goes through *)
(* Sandbox.                                                                *)
(***************************************************************************)
EXTENDS Sandbox, Sequences

CONSTANTS
  Bundles,     \* contents that are bundles: JSON with an entry file and files
  Others,      \* contents that are something else
  Queues,      \* what the queue may be filled with when the worker starts
  NoJob

Contents == Bundles \cup Others

\* A job's payload is valid when its schema accepts it and, to pack, when its
\* source is inline.
Job == [kind : {"pack", "verify", "run", "publish", "unknown"},
        content : Contents, valid : BOOLEAN]

ASSUME WorkerAssumption ==
  /\ Bundles \cap Others = {}
  /\ Queues \subseteq Seq(Job)
  /\ NoJob \notin Job

VARIABLES
  queue,       \* jobs waiting
  job,         \* the job in hand
  step,        \* where its processor is: start, writing, sandbox
  artifacts,   \* content -> absent, cut (truncated) or whole
  verified,    \* contents a verification has vouched for
  retaken      \* contents whose file was truncated again since

jobVars == <<queue, job, step, artifacts, verified, retaken>>
workerVars == <<vars, jobVars>>

WorkerInit ==
  /\ Init
  /\ queue \in Queues
  /\ job = NoJob /\ step = "start"
  /\ artifacts = [c \in Contents |-> "absent"]
  /\ verified = {} /\ retaken = {}

-----------------------------------------------------------------------------
(* The loop                                                                *)

\* pull.
Pull ==
  /\ pc = "idle" /\ job = NoJob /\ queue # <<>>
  /\ job' = Head(queue)
  /\ queue' = Tail(queue)
  /\ step' = "start"
  /\ UNCHANGED <<vars, artifacts, verified, retaken>>

\* Mutant: a job that fails goes back to the queue.
DroppedAgain ==
  /\ job' = NoJob /\ step' = "start"
  /\ queue' = Append(queue, job)

\* A job that fails is logged and forgotten, like one that is done.
Dropped == job' = NoJob /\ step' = "start" /\ UNCHANGED queue

Done == job' = NoJob /\ step' = "start" /\ UNCHANGED queue

At(kind, where) ==
  pc = "idle" /\ job # NoJob /\ job.kind = kind /\ step = where

\* The schema refuses the payload, or the source cannot be packed.
RefuseJob ==
  /\ pc = "idle" /\ job # NoJob /\ step = "start"
  /\ job.kind # "unknown" /\ ~ job.valid
  /\ Dropped
  /\ UNCHANGED <<vars, artifacts, verified, retaken>>

\* publishModuleProcessor attests what it is told and reads nothing; a type that
\* handleJob does not know is logged.
PublishModule ==
  /\ At("publish", "start") \/ At("unknown", "start")
  /\ job.valid \/ job.kind = "unknown"
  /\ Done
  /\ UNCHANGED <<vars, artifacts, verified, retaken>>

-----------------------------------------------------------------------------
(* packModuleProcessor and putBytes                                        *)

\* mkdir, and writeFile's open with O_TRUNC.
PackOpen ==
  /\ At("pack", "start") /\ job.valid
  /\ \/ /\ artifacts' = [artifacts EXCEPT ![job.content] = "cut"]
        /\ retaken' = retaken \cup {job.content}
        /\ step' = "writing" /\ UNCHANGED <<queue, job, bounds>>
     \/ Fault /\ Dropped /\ UNCHANGED <<artifacts, retaken>>
  /\ UNCHANGED <<pc, run, staged, dirs, process, output, result, lost, verified>>

\* The bytes, and stat; one that is refused leaves the file as it is.
PackWrite ==
  /\ At("pack", "writing")
  /\ \/ /\ artifacts' = [artifacts EXCEPT ![job.content] = "whole"]
        /\ Done /\ UNCHANGED bounds
     \/ Fault /\ Dropped /\ UNCHANGED artifacts
  /\ UNCHANGED <<pc, run, staged, dirs, process, output, result, lost, verified, retaken>>

-----------------------------------------------------------------------------
(* getBytes and JSON.parse                                                 *)

\* Mutant: what is read is not parsed.
ParsesAnything(c) == artifacts[c] # "absent"

\* A beginning of a JSON text that is not all of it does not parse.
Parses(c) == artifacts[c] = "whole"

\* verifyModuleProcessor.
Verify ==
  /\ At("verify", "start") /\ job.valid
  /\ \/ /\ Parses(job.content) /\ job.content \in Bundles
        /\ verified' = verified \cup {job.content}
        /\ retaken' = retaken \ {job.content}
        /\ Done /\ UNCHANGED bounds
     \/ /\ ~ (Parses(job.content) /\ job.content \in Bundles)
        /\ Dropped /\ UNCHANGED <<verified, retaken, bounds>>
     \/ Fault /\ Dropped /\ UNCHANGED <<verified, retaken>>
  /\ UNCHANGED <<pc, run, staged, dirs, process, output, result, lost, artifacts>>

\* runModuleProcessor: what parses goes to the sandbox, a bundle or not (without
\* files it is the bootstrap alone).
LoadRun ==
  /\ At("run", "start") /\ job.valid
  /\ \/ Parses(job.content) /\ step' = "load" /\ UNCHANGED <<queue, job, bounds>>
     \/ ~ Parses(job.content) /\ Dropped /\ UNCHANGED bounds
     \/ Fault /\ Dropped
  /\ UNCHANGED <<pc, run, staged, dirs, process, output, result, lost,
                 artifacts, verified, retaken>>

\* runSandbox is called ...
CallSandbox ==
  /\ At("run", "load")
  /\ Begin
  /\ step' = "sandbox"
  /\ UNCHANGED <<queue, job, artifacts, verified, retaken>>

\* ... and has returned or thrown.
SandboxReturned ==
  /\ At("run", "sandbox")
  /\ IF result = "threw" THEN Dropped ELSE Done
  /\ UNCHANGED <<vars, artifacts, verified, retaken>>

-----------------------------------------------------------------------------

InSandbox == pc \notin {"idle", "down"}

Process ==
  \/ Pull \/ RefuseJob \/ PublishModule \/ PackOpen \/ PackWrite \/ Verify
  \/ LoadRun \/ CallSandbox \/ SandboxReturned
  \/ InSandbox /\ Worker /\ UNCHANGED jobVars

\* The process dies with the queue and the job in hand; artifacts stay.
Dies ==
  /\ Crash \/ SpawnError
  /\ queue' = <<>> /\ job' = NoJob /\ step' = "start"
  /\ UNCHANGED <<artifacts, verified, retaken>>

\* A new process fills its own queue (with no more runs than MaxRuns allows).
Restarts ==
  /\ Restart
  /\ queue' \in {q \in Queues : Len(SelectSeq(q, LAMBDA j : j.kind = "run")) <= MaxRuns - run}
  /\ UNCHANGED <<job, step, artifacts, verified, retaken>>

WorkerNext == Process \/ (Program /\ UNCHANGED jobVars) \/ Dies \/ Restarts

WorkerSpec == WorkerInit /\ [][WorkerNext]_workerVars

\* As in Sandbox, and the loop goes on to the next job.
FairWorkerSpec ==
  WorkerSpec /\ WF_workerVars(Process) /\ WF_workerVars(Timeout /\ UNCHANGED jobVars)

-----------------------------------------------------------------------------
(* Properties                                                              *)

\* What runs in the sandbox was read whole, and what a verification vouched for is
\* whole unless it was packed again since: a file that a crash or a failing write
\* cut off, under the hash of all its bytes, is never taken for its content.
OnlyWholeArtifactsUsed ==
  /\ InSandbox => artifacts[job.content] = "whole"
  /\ \A c \in verified : c \in Bundles /\ (artifacts[c] = "whole" \/ c \in retaken)

\* Every job in the queue has its turn, whether the jobs before it were done, were
\* refused, failed or threw, unless the descendants of a program hold the sandbox or
\* the process dies: in a crash, or of a program that cannot be started.  Then the
\* jobs behind it are lost with the queue.
JobsServed ==
  queue # <<>> ~> (queue = <<>> /\ job = NoJob) \/ held = "holding" \/ pc = "down"
=============================================================================
