---------------------------- MODULE WorkerProofs ----------------------------
(***************************************************************************)
(* Proofs about the worker, for any bundles, queues, program and number of *)
(* runs, crashes and faults.  The sandbox keeps its invariant under the    *)
(* worker, whose other jobs leave it alone but for the faults they share;  *)
(* and an artifact that a job has read stays whole while the job is in     *)
(* hand, since one job is in hand at a time.                               *)
(***************************************************************************)
EXTENDS Worker, SandboxProofs

Reads(j) == j # NoJob /\ j.kind = "run" /\ step \in {"load", "sandbox"}

WorkerInv ==
  /\ SandboxInv
  /\ queue \in Seq(Job) /\ job \in Job \cup {NoJob}
  /\ DOMAIN artifacts = Contents
  /\ InSandbox => job # NoJob /\ job.kind = "run" /\ step = "sandbox"
  /\ Reads(job) => artifacts[job.content] = "whole"
  /\ \A c \in verified : c \in Bundles /\ (artifacts[c] = "whole" \/ c \in retaken)

\* The conjuncts that are about jobs and artifacts.
Jobs ==
  /\ queue \in Seq(Job) /\ job \in Job \cup {NoJob}
  /\ DOMAIN artifacts = Contents
  /\ InSandbox => job # NoJob /\ job.kind = "run" /\ step = "sandbox"
  /\ Reads(job) => artifacts[job.content] = "whole"
  /\ \A c \in verified : c \in Bundles /\ (artifacts[c] = "whole" \/ c \in retaken)

LEMMA WorkerInitially == WorkerInit => WorkerInv
<1> SUFFICES ASSUME WorkerInit PROVE WorkerInv
  OBVIOUS
<1>1. SandboxInv /\ pc = "idle"
  BY Initially DEF WorkerInit, Init
<1>2. queue \in Seq(Job) /\ job = NoJob /\ DOMAIN artifacts = Contents /\ verified = {}
  BY WorkerAssumption DEF WorkerInit
<1> QED
  BY <1>1, <1>2 DEF WorkerInv, InSandbox, Reads

\* A job outside the sandbox that fails spends a fault and nothing else of it.
LEMMA SandboxAside ==
  ASSUME SandboxInv, UNCHANGED bounds \/ Fault,
         UNCHANGED <<pc, run, staged, dirs, process, output, result, lost>>
  PROVE  SandboxInv'
<1>1. /\ UNCHANGED <<pc, run, staged, dirs, child, held, detached, timer, output, result, lost>>
      /\ faults' \in 0..MaxFaults /\ crashes' \in 0..MaxCrashes
  BY BoundsKeep DEF SandboxInv, process
<1>2. TypeOK'
  BY <1>1 DEF SandboxInv, TypeOK, output
<1>3. Amounts'
  BY <1>1, SameOutput
<1>4. WaitOver' /\ Directories'
  BY <1>1 DEF SandboxInv, WaitOver, Directories, output
<1> QED
  BY <1>2, <1>3, <1>4 DEF SandboxInv, Amounts

\* Every step of the worker is one of the sandbox, or leaves it alone.
LEMMA SandboxInWorker == WorkerInv /\ [WorkerNext]_workerVars => SandboxInv'
<1> SUFFICES ASSUME WorkerInv, [WorkerNext]_workerVars PROVE SandboxInv'
  OBVIOUS
<1>1. SandboxInv
  BY DEF WorkerInv
<1>2. CASE [Next]_vars
  BY <1>1, <1>2, SandboxStep
<1>3. CASE PackOpen \/ PackWrite \/ Verify \/ LoadRun
  <2>1. UNCHANGED <<pc, run, staged, dirs, process, output, result, lost>>
        /\ (UNCHANGED bounds \/ Fault)
    BY <1>3 DEF PackOpen, PackWrite, Verify, LoadRun
  <2> QED
    BY <1>1, <2>1, SandboxAside
<1> QED
  BY <1>2, <1>3
  DEF WorkerNext, Process, Pull, RefuseJob, PublishModule, CallSandbox, SandboxReturned, Dies,
      Restarts, Next, Worker, workerVars

\* A job that ends, or never began, leaves what a verification vouched for.
LEMMA JobsWithout ==
  ASSUME WorkerInv, queue' \in Seq(Job), job' = NoJob, ~ InSandbox',
         DOMAIN artifacts' = Contents,
         \A c \in verified' : c \in Bundles /\ (artifacts'[c] = "whole" \/ c \in retaken')
  PROVE  Jobs'
BY DEF Jobs, Reads

LEMMA JobsStep == WorkerInv /\ [WorkerNext]_workerVars => Jobs'
<1> SUFFICES ASSUME WorkerInv, [WorkerNext]_workerVars PROVE Jobs'
  OBVIOUS
<1>1. /\ queue \in Seq(Job) /\ job \in Job \cup {NoJob} /\ DOMAIN artifacts = Contents
      /\ InSandbox => job # NoJob /\ job.kind = "run" /\ step = "sandbox"
      /\ Reads(job) => artifacts[job.content] = "whole"
      /\ \A c \in verified : c \in Bundles /\ (artifacts[c] = "whole" \/ c \in retaken)
  BY DEF WorkerInv
<1>2. pc = "idle" => ~ InSandbox
  BY DEF InSandbox
<1>3. CASE UNCHANGED <<pc, jobVars>>
  BY <1>1, <1>3 DEF Jobs, jobVars, InSandbox, Reads
<1>4. CASE Pull
  <2>1. /\ job' \in Job /\ job' # NoJob /\ step' = "start" /\ queue' \in Seq(Job)
        /\ pc' = pc /\ pc = "idle" /\ UNCHANGED <<artifacts, verified, retaken>>
    BY <1>1, <1>4, WorkerAssumption DEF Pull, vars
  <2> QED
    BY <1>1, <2>1 DEF Jobs, InSandbox, Reads
<1>5. CASE RefuseJob \/ PublishModule \/ SandboxReturned
  <2>1. queue' = queue /\ job' = NoJob /\ ~ InSandbox' /\ UNCHANGED <<artifacts, verified, retaken>>
    BY <1>5 DEF RefuseJob, PublishModule, SandboxReturned, At, Dropped, Done, InSandbox, vars
  <2> QED
    BY <1>1, <2>1, JobsWithout
<1>6. CASE PackOpen
  <2>1. job # NoJob /\ job \in Job /\ job.kind = "pack" /\ ~ InSandbox' /\ job.content \in Contents
        /\ queue' = queue /\ verified' = verified
    BY <1>1, <1>6 DEF PackOpen, At, InSandbox, Dropped, Job
  <2>2. CASE artifacts' = [artifacts EXCEPT ![job.content] = "cut"]
             /\ retaken' = retaken \cup {job.content} /\ job' = job
    BY <1>1, <2>1, <2>2 DEF Jobs, Reads
  <2>3. CASE Dropped /\ UNCHANGED <<artifacts, retaken>>
    BY <1>1, <2>1, <2>3, JobsWithout DEF Dropped
  <2> QED
    BY <1>6, <2>2, <2>3 DEF PackOpen
<1>7. CASE PackWrite
  <2>1. ~ InSandbox' /\ queue' = queue /\ job' = NoJob /\ verified' = verified
        /\ retaken' = retaken /\ job.content \in Contents
    BY <1>1, <1>7 DEF PackWrite, At, InSandbox, Dropped, Done, Job
  <2>2. artifacts' \in {artifacts, [artifacts EXCEPT ![job.content] = "whole"]}
    BY <1>7 DEF PackWrite
  <2>3. DOMAIN artifacts' = Contents
        /\ \A c \in Contents : artifacts[c] = "whole" => artifacts'[c] = "whole"
    BY <1>1, <2>2
  <2>4. \A c \in verified : c \in Contents
    BY <1>1 DEF Contents
  <2> QED
    BY <1>1, <2>1, <2>3, <2>4, JobsWithout
<1>8. CASE Verify
  <2>1. ~ InSandbox' /\ queue' = queue /\ job' = NoJob /\ artifacts' = artifacts
    BY <1>8 DEF Verify, At, InSandbox, Dropped, Done
  <2>2. \/ UNCHANGED <<verified, retaken>>
        \/ /\ Parses(job.content) /\ job.content \in Bundles
           /\ verified' = verified \cup {job.content} /\ retaken' = retaken \ {job.content}
    BY <1>8 DEF Verify
  <2> QED
    BY <1>1, <2>1, <2>2, JobsWithout DEF Parses
<1>9. CASE LoadRun
  <2>1. ~ InSandbox' /\ queue' = queue /\ UNCHANGED <<artifacts, verified, retaken>>
    BY <1>9 DEF LoadRun, At, InSandbox, Dropped
  <2>2. CASE Parses(job.content) /\ job' = job
    BY <1>1, <2>1, <2>2 DEF Jobs, Reads, Parses
  <2>3. CASE Dropped
    BY <1>1, <2>1, <2>3, JobsWithout DEF Dropped
  <2> QED
    BY <1>9, <2>2, <2>3 DEF LoadRun
<1>10. CASE CallSandbox
  <2>1. job.kind = "run" /\ job # NoJob /\ step = "load" /\ step' = "sandbox"
        /\ UNCHANGED <<queue, job, artifacts, verified, retaken>>
    BY <1>10 DEF CallSandbox, At
  <2> QED
    BY <1>1, <2>1 DEF Jobs, Reads
<1>11. CASE InSandbox /\ Worker /\ UNCHANGED jobVars
  BY <1>1, <1>11 DEF Jobs, jobVars, Reads
<1>12. CASE Program /\ UNCHANGED jobVars
  <2>1. pc' = pc
    BY <1>12 DEF Program, ChildWrites, ChildForks, DescendantsEnd, DetachedEnds, ChildExits
  <2> QED
    BY <1>3, <1>12, <2>1
<1>13. CASE Dies
  <2>1. queue' = <<>> /\ job' = NoJob /\ ~ InSandbox' /\ UNCHANGED <<artifacts, verified, retaken>>
    BY <1>13 DEF Dies, Crash, SpawnError, InSandbox
  <2> QED
    BY <1>1, <2>1, JobsWithout
<1>14. CASE Restarts
  <2>1. queue' \in Seq(Job) /\ pc = "down" /\ pc' = "idle"
        /\ UNCHANGED <<job, step, artifacts, verified, retaken>>
    BY <1>14, WorkerAssumption DEF Restarts, Restart
  <2> QED
    BY <1>1, <2>1 DEF Jobs, InSandbox, Reads
<1> QED
  BY <1>3, <1>4, <1>5, <1>6, <1>7, <1>8, <1>9, <1>10, <1>11, <1>12, <1>13, <1>14
  DEF WorkerNext, Process, workerVars, vars

\* The inductive invariant of the worker: the sandbox's, and what a job has read.
THEOREM WorkerInvariant == WorkerSpec => []WorkerInv
<1>1. WorkerInv /\ [WorkerNext]_workerVars => WorkerInv'
  BY SandboxInWorker, JobsStep DEF WorkerInv, Jobs
<1> QED
  BY <1>1, WorkerInitially, PTL DEF WorkerSpec

\* What runs was read whole, and what a verification vouched for is whole unless it
\* was packed again since: whatever crashes and failing writes cut off.
THEOREM ArtifactsCorrect == WorkerSpec => []OnlyWholeArtifactsUsed
<1>1. WorkerInv => OnlyWholeArtifactsUsed
  BY DEF WorkerInv, OnlyWholeArtifactsUsed, Reads
<1> QED
  BY <1>1, WorkerInvariant, PTL

\* What holds of the sandbox alone holds of it in the worker's hands.  Descendants that
\* hold no pipe are nobody's concern here, as in CleanupCorrect.
THEOREM SandboxCorrect ==
  WorkerSpec => [](TypeOK /\ OkIsComplete /\ OutputBounded /\ RunsInItsDirectory /\ CleanedUp)
<1>1. SandboxInv => OutputBounded /\ RunsInItsDirectory /\ CleanedUp
  BY DEF SandboxInv, TypeOK, WaitOver, Directories, Bounded, OutputBounded, RunsInItsDirectory,
         CleanedUp
<1>2. WorkerInv => TypeOK /\ OkIsComplete /\ OutputBounded /\ RunsInItsDirectory /\ CleanedUp
  BY <1>1, OkFollows DEF WorkerInv, SandboxInv
<1> QED
  BY <1>2, WorkerInvariant, PTL
=============================================================================
