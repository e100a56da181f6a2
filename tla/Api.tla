-------------------------------- MODULE Api ---------------------------------
(***************************************************************************)
(* apps-api: the requests that create modules, forks and runs, from the    *)
(* parsed body to the answer, over one database, one queue and one         *)
(* directory of objects.  A step of a request is the code between two      *)
(* awaits; requests interleave at every await.  Reading requests change    *)
(* nothing and are left out.                                               *)
(*                                                                         *)
(* The id of a new row is written as the request that inserts it.          *)
(***************************************************************************)
EXTENDS ObjectStore, FiniteSets

CONSTANTS
  Names,        \* module names with their versions
  Bodies,       \* what each request may ask for
  Queued,       \* TRUE when REDIS_URL configures a queue
  MaxFaults,    \* bound on failing calls
  MaxCrashes,   \* bound on crashes
  None          \* null

ModuleBody == [kind : {"module"}, name : Names, content : Contents \cup {None}]
LinkBody == [kind : {"fork", "run"}, module : Requests, fork : Requests \cup {None}]
NoBody == [kind |-> "none"]

ASSUME ApiAssumption ==
  /\ Bodies \in [Requests -> SUBSET (ModuleBody \cup LinkBody)]
  /\ Queued \in BOOLEAN
  /\ MaxFaults \in Nat /\ MaxCrashes \in Nat
  /\ None \notin Requests \cup Contents

VARIABLES
  req,       \* the state of each request
  modules,   \* id -> [name, content]
  forks,     \* id -> [module, parent]
  runs,      \* id -> [module, fork, status]
  jobs,      \* the runs that "run.execute" jobs name
  faults,
  crashes

tables == <<modules, forks, runs, jobs>>
vars == <<storeVars, req, tables, faults, crashes>>

\* pc: waiting (not sent), store (an artifact to put), storing, module and fork
\* (rows to look up), insert, enqueue, answered, refused (an error or no answer).
InFlight == {"store", "storing", "module", "fork", "insert", "enqueue"}

Goto(q, pc) == req' = [req EXCEPT ![q].pc = pc]

\* A call fails, and the request with it; the work of the call may be done.
Fault == faults < MaxFaults /\ faults' = faults + 1
NoFault == UNCHANGED faults

Insert(table, q, row) ==
  [id \in DOMAIN table \cup {q} |-> IF id = q THEN row ELSE table[id]]

Init ==
  /\ StoreInit
  /\ req = [q \in Requests |-> [pc |-> "waiting", body |-> NoBody]]
  /\ modules = [q \in {} |-> {}]
  /\ forks = [q \in {} |-> {}]
  /\ runs = [q \in {} |-> {}]
  /\ jobs = {}
  /\ faults = 0
  /\ crashes = 0

Receive(q, body, pc) ==
  /\ req[q].pc = "waiting"
  /\ req' = [req EXCEPT ![q] = [pc |-> pc, body |-> body]]
  /\ UNCHANGED <<storeVars, tables, faults, crashes>>

-----------------------------------------------------------------------------
(* POST /modules                                                           *)

PostModule(q, body) ==
  /\ body.kind = "module"
  /\ Receive(q, body, IF body.content = None THEN "insert" ELSE "store")

\* Mutant: putObject is not awaited.
StoreUnawaited(q) ==
  /\ req[q].pc = "store"
  /\ Open(q, req[q].body.content)
  /\ Goto(q, "insert")
  /\ UNCHANGED <<tables, faults, crashes>>

Store(q) ==
  /\ req[q].pc = "store"
  /\ Open(q, req[q].body.content)
  /\ Goto(q, "storing")
  /\ UNCHANGED <<tables, faults, crashes>>

\* The directory cannot be made or the file not opened, or the store is S3.
StoreRefused(q) ==
  /\ req[q].pc = "store"
  /\ Fault
  /\ Goto(q, "refused")
  /\ UNCHANGED <<storeVars, tables, crashes>>

StorePiece(q) ==
  /\ WritePiece(q)
  /\ UNCHANGED <<req, tables, faults, crashes>>

Stored(q) ==
  /\ Close(q)
  /\ Goto(q, "insert")
  /\ UNCHANGED <<tables, faults, crashes>>

StoreFails(q) ==
  /\ FailPut(q)
  /\ Fault
  /\ Goto(q, "refused")
  /\ UNCHANGED <<tables, crashes>>

\* The database holds one module of a name and version.
InsertModule(q) ==
  /\ req[q].pc = "insert" /\ req[q].body.kind = "module"
  /\ LET taken == \E m \in DOMAIN modules : modules[m].name = req[q].body.name
         inserted == Insert(modules, q, [name |-> req[q].body.name,
                                         content |-> req[q].body.content])
     IN  \/ ~ taken /\ modules' = inserted /\ Goto(q, "answered") /\ NoFault
         \/ taken /\ UNCHANGED modules /\ Goto(q, "refused") /\ NoFault
         \/ /\ Fault
            /\ Goto(q, "refused")
            /\ modules' = modules \/ (~ taken /\ modules' = inserted)
  /\ UNCHANGED <<storeVars, forks, runs, jobs, crashes>>

-----------------------------------------------------------------------------
(* POST /forks and POST /runs                                              *)

PostLink(q, body) == body.kind \in {"fork", "run"} /\ Receive(q, body, "module")

\* module.findUnique; the fork is looked up only if one is named.
FindModule(q) ==
  /\ req[q].pc = "module"
  /\ \/ /\ NoFault
        /\ Goto(q, IF req[q].body.module \notin DOMAIN modules THEN "refused"
                   ELSE IF req[q].body.fork = None THEN "insert" ELSE "fork")
     \/ Fault /\ Goto(q, "refused")
  /\ UNCHANGED <<storeVars, tables, crashes>>

\* Mutant: any fork will do.
AnyFork(f, module) == f \in DOMAIN forks

\* The parent of a new fork, or the fork of a new run, is of the same module.
ForkOf(f, module) == f \in DOMAIN forks /\ forks[f].module = module

FindFork(q) ==
  /\ req[q].pc = "fork"
  /\ \/ /\ NoFault
        /\ Goto(q, IF ForkOf(req[q].body.fork, req[q].body.module)
                     THEN "insert" ELSE "refused")
     \/ Fault /\ Goto(q, "refused")
  /\ UNCHANGED <<storeVars, tables, crashes>>

InsertFork(q) ==
  /\ req[q].pc = "insert" /\ req[q].body.kind = "fork"
  /\ LET inserted == Insert(forks, q, [module |-> req[q].body.module,
                                       parent |-> req[q].body.fork])
     IN  \/ forks' = inserted /\ Goto(q, "answered") /\ NoFault
         \/ forks' \in {forks, inserted} /\ Goto(q, "refused") /\ Fault
  /\ UNCHANGED <<storeVars, modules, runs, jobs, crashes>>

InsertRun(q) ==
  /\ req[q].pc = "insert" /\ req[q].body.kind = "run"
  /\ LET inserted == Insert(runs, q, [module |-> req[q].body.module,
                                      fork |-> req[q].body.fork,
                                      status |-> IF Queued THEN "QUEUED" ELSE "CREATED"])
     IN  \/ /\ runs' = inserted
            /\ Goto(q, IF Queued THEN "enqueue" ELSE "answered")
            /\ NoFault
         \/ runs' \in {runs, inserted} /\ Goto(q, "refused") /\ Fault
  /\ UNCHANGED <<storeVars, modules, forks, jobs, crashes>>

\* Mutant: the queue's answer is not awaited.
EnqueueUnawaited(q) ==
  /\ req[q].pc = "enqueue"
  /\ Goto(q, "answered")
  /\ (jobs' = jobs \cup {q} /\ NoFault) \/ (UNCHANGED jobs /\ Fault)
  /\ UNCHANGED <<storeVars, modules, forks, runs, crashes>>

Enqueue(q) ==
  /\ req[q].pc = "enqueue"
  /\ \/ jobs' = jobs \cup {q} /\ Goto(q, "answered") /\ NoFault
     \/ jobs' \in {jobs, jobs \cup {q}} /\ Goto(q, "refused") /\ Fault
  /\ UNCHANGED <<storeVars, modules, forks, runs, crashes>>

-----------------------------------------------------------------------------

\* The process dies: no request in flight is answered.
Crash ==
  /\ crashes < MaxCrashes
  /\ crashes' = crashes + 1
  /\ CrashPuts
  /\ req' = [q \in Requests |->
               IF req[q].pc \in InFlight THEN [req[q] EXCEPT !.pc = "refused"]
                                         ELSE req[q]]
  /\ UNCHANGED <<tables, faults>>

Next ==
  \/ \E q \in Requests :
       \/ \E body \in Bodies[q] : PostModule(q, body) \/ PostLink(q, body)
       \/ Store(q) \/ StoreRefused(q) \/ StorePiece(q) \/ Stored(q) \/ StoreFails(q)
       \/ InsertModule(q)
       \/ FindModule(q) \/ FindFork(q) \/ InsertFork(q)
       \/ InsertRun(q) \/ Enqueue(q)
  \/ Crash

Spec == Init /\ [][Next]_vars

-----------------------------------------------------------------------------
(* Properties                                                              *)

TypeOK ==
  /\ StoreTypeOK
  /\ req \in [Requests -> [pc : InFlight \cup {"waiting", "answered", "refused"},
                           body : ModuleBody \cup LinkBody \cup {NoBody}]]
  /\ DOMAIN modules \subseteq Requests
  /\ modules \in [DOMAIN modules -> [name : Names, content : Contents \cup {None}]]
  /\ DOMAIN forks \subseteq Requests
  /\ forks \in [DOMAIN forks -> [module : DOMAIN modules,
                                 parent : DOMAIN forks \cup {None}]]
  /\ DOMAIN runs \subseteq Requests
  /\ runs \in [DOMAIN runs -> [module : DOMAIN modules, fork : DOMAIN forks \cup {None},
                               status : {"QUEUED", "CREATED"}]]
  /\ jobs \subseteq Requests
  /\ \A q \in DOMAIN put : req[q].pc = "storing"
  /\ faults \in 0..MaxFaults
  /\ crashes \in 0..MaxCrashes

\* A module's row comes after its object: the object is there and whole, unless
\* another request is writing it again or was cut off doing so
\* (ModuleService.create awaits putObject before it inserts).
RowsFollowObjects ==
  \A m \in DOMAIN modules :
    LET c == modules[m].content
    IN  c # None => /\ c \in DOMAIN files
                    /\ files[c] = Whole \/ c \in cut \/ Writers(c) \ {m} # {}

\* Every fork and run is of one module throughout: a fork's parent and a run's
\* fork are of the same module as it is, although they were looked up before the
\* insertion and by other queries.
LineageInModule ==
  /\ \A f \in DOMAIN forks : forks[f].parent # None =>
       forks[forks[f].parent].module = forks[f].module
  /\ \A r \in DOMAIN runs : runs[r].fork # None =>
       forks[runs[r].fork].module = runs[r].module

\* A job names a run whose row says QUEUED, and a run that was answered QUEUED has
\* a job: RunService.create answers after the queue did.  (A refused one may be
\* QUEUED without a job.)
QueueMatchesRuns ==
  /\ \A r \in jobs : r \in DOMAIN runs /\ runs[r].status = "QUEUED"
  /\ \A q \in DOMAIN runs :
       req[q].pc = "answered" /\ runs[q].status = "QUEUED" => q \in jobs

\* Inductive: what a request that is at a step has found out and done before it,
\* and that the steps of others do not undo, since no row and no file goes away.
UnderwayAt(q) ==
  LET pc == req[q].pc
      b == req[q].body
  IN  /\ pc \in {"waiting"} \cup InFlight => q \notin DOMAIN modules \cup DOMAIN forks
      /\ pc \in {"waiting"} \cup (InFlight \ {"enqueue"}) => q \notin DOMAIN runs
      /\ pc \in {"store", "storing"} => b.kind = "module" /\ b.content # None
      /\ pc \in {"module", "fork", "enqueue"} => b.kind \in {"fork", "run"}
      /\ pc = "fork" => b.module \in DOMAIN modules /\ b.fork # None
      /\ pc = "insert" => b.kind \in {"module", "fork", "run"}
      /\ pc = "insert" /\ b.kind = "module" => b.content \in DOMAIN files \cup {None}
      /\ pc = "insert" /\ b.kind # "module" =>
           b.module \in DOMAIN modules /\ (b.fork = None \/ ForkOf(b.fork, b.module))
      /\ pc = "enqueue" => q \in DOMAIN runs /\ runs[q].status = "QUEUED"

Underway ==
  /\ \A q \in Requests : UnderwayAt(q)
  /\ \A q \in DOMAIN put : put[q].content = req[q].body.content
  /\ \A m \in DOMAIN modules : modules[m].content \in DOMAIN files \cup {None}

\* What the requests do to the objects, the object store does.
StoresObjects == StoreSpec
=============================================================================
