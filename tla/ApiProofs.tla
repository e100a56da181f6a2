------------------------------ MODULE ApiProofs ------------------------------
(***************************************************************************)
(* Proofs about apps-api for any number of requests: an object nobody      *)
(* writes is whole, in the store by itself and as the requests use it;     *)
(* a row follows its object; forks and runs stay in one module; the queue  *)
(* and the runs agree.                                                     *)
(*                                                                         *)
(* A request acts on what it looked up several steps before.  Underway     *)
(* says what it knows at each step.  It keeps knowing it when others act,  *)
(* since every step only adds rows and files (Grows), and its own steps    *)
(* establish what the next one needs.                                      *)
(***************************************************************************)
EXTENDS Api, TLAPS

-----------------------------------------------------------------------------
(* The object store.  The invariant names a witness: as long as a file     *)
(* lacks pieces, one of its writers has all of them still to write, the    *)
(* one that truncated it last; the pieces the others write are the same,   *)
(* so they only help.  A writer that goes away without finishing marks the *)
(* content as cut off.                                                     *)

\* Types, and a pending writer for what is missing.
StoreInv == StoreTypeOK /\ MissingIsPending

\* Nothing is missing at first.
LEMMA StoreInitially == StoreInit => StoreInv
BY DEF StoreInit, StoreInv, StoreTypeOK, MissingIsPending

\* Opening truncates the file; the request that did has every piece to write.
LEMMA OpenKeeps ==
  ASSUME StoreInv, NEW q \in Requests, NEW c \in Contents, Open(q, c)
  PROVE  StoreInv'
<1> USE PiecesAssumption
<1>1. /\ DOMAIN put' = DOMAIN put \cup {q} /\ put'[q] = [content |-> c, at |-> 1]
      /\ \A p \in DOMAIN put : put'[p] = put[p]
  BY DEF Open, Begin
<1>2. /\ DOMAIN files' = DOMAIN files \cup {c} /\ files'[c] = {}
      /\ \A d \in DOMAIN files \ {c} : files'[d] = files[d]
  BY DEF Open, Holds
<1>3. StoreTypeOK'
  <2>1. files' \in [DOMAIN files' -> SUBSET Whole]
    BY DEF StoreInv, StoreTypeOK, Open, Holds
  <2>2. put' \in [DOMAIN put' -> [content : DOMAIN files', at : 1..Pieces + 1]]
    BY <1>2 DEF StoreInv, StoreTypeOK, Open, Begin
  <2> QED
    BY <1>1, <1>2, <2>1, <2>2 DEF StoreInv, StoreTypeOK, Open
<1>4. MissingIsPending'
  <2> SUFFICES ASSUME NEW d \in DOMAIN files', d \notin cut', Missing(d)' # {}
               PROVE  \E p \in Writers(d)' : Missing(d)' \subseteq put'[p].at..Pieces
    BY DEF MissingIsPending
  <2>1. CASE d = c
    <3>1. q \in Writers(c)' /\ put'[q].at = 1
      BY <1>1 DEF Writers
    <3> QED
      BY <3>1, <2>1 DEF Missing, Whole
  <2>2. CASE d # c
    <3>1. d \in DOMAIN files /\ Missing(d)' = Missing(d) /\ d \notin cut
      BY <1>2, <2>2 DEF Missing, Open
    <3>2. PICK p \in Writers(d) : Missing(d) \subseteq put[p].at..Pieces
      BY <3>1 DEF StoreInv, MissingIsPending
    <3>3. p \in Writers(d)' /\ put'[p] = put[p]
      BY <1>1, <3>2 DEF Writers
    <3> QED
      BY <3>1, <3>2, <3>3
  <2> QED
    BY <2>1, <2>2
<1> QED
  BY <1>3, <1>4 DEF StoreInv

\* A piece that is written is missing no more, and the writer that writes it has
\* one piece less to write.
LEMMA WritePieceKeeps ==
  ASSUME StoreInv, NEW q \in Requests, WritePiece(q)
  PROVE  StoreInv'
<1> USE PiecesAssumption
<1> DEFINE c == put[q].content
           n == put[q].at
<1>1. q \in DOMAIN put /\ c \in DOMAIN files /\ n \in 1..Pieces
  BY DEF WritePiece, StoreInv, StoreTypeOK
<1>2. /\ DOMAIN put' = DOMAIN put /\ put'[q] = [content |-> c, at |-> n + 1]
      /\ \A p \in DOMAIN put \ {q} : put'[p] = put[p]
  BY <1>1 DEF WritePiece, StoreInv, StoreTypeOK
<1>3. /\ DOMAIN files' = DOMAIN files /\ files'[c] = files[c] \cup {n}
      /\ \A d \in DOMAIN files \ {c} : files'[d] = files[d]
  BY <1>1 DEF WritePiece, Holds
<1>4. StoreTypeOK'
  <2>1. files' \in [DOMAIN files' -> SUBSET Whole]
    BY <1>1 DEF StoreInv, StoreTypeOK, WritePiece, Holds, Whole
  <2>2. put' \in [DOMAIN put' -> [content : DOMAIN files', at : 1..Pieces + 1]]
    BY <1>1, <1>2, <1>3 DEF StoreInv, StoreTypeOK, WritePiece
  <2> QED
    BY <1>1, <1>2, <1>3, <2>1, <2>2 DEF StoreInv, StoreTypeOK, WritePiece
<1>5. MissingIsPending'
  <2> SUFFICES ASSUME NEW d \in DOMAIN files', d \notin cut', Missing(d)' # {}
               PROVE  \E p \in Writers(d)' : Missing(d)' \subseteq put'[p].at..Pieces
    BY DEF MissingIsPending
  <2>1. d \in DOMAIN files /\ d \notin cut
    BY <1>3 DEF WritePiece
  <2>2. Missing(d)' \subseteq Missing(d) /\ (d = c => n \notin Missing(d)')
    BY <1>3, <2>1 DEF Missing
  <2>3. PICK p \in Writers(d) : Missing(d) \subseteq put[p].at..Pieces
    BY <2>1, <2>2 DEF StoreInv, MissingIsPending
  <2>4. p \in Writers(d)'
    BY <1>2, <2>3 DEF Writers
  <2>5. Missing(d)' \subseteq put'[p].at..Pieces
    <3>1. CASE p = q
      <4>1. d = c /\ put'[p].at = n + 1 /\ put[p].at = n
        BY <1>2, <2>3, <3>1 DEF Writers
      <4> QED
        BY <1>1, <2>2, <2>3, <4>1
    <3>2. CASE p # q
      BY <1>2, <2>2, <2>3, <3>2 DEF Writers
    <3> QED
      BY <3>1, <3>2
  <2> QED
    BY <2>4, <2>5
<1> QED
  BY <1>4, <1>5 DEF StoreInv

\* A writer that goes away had nothing left to write, or marks what it wrote.
LEMMA EndKeeps ==
  ASSUME StoreInv, NEW gone \in SUBSET DOMAIN put, UNCHANGED files,
         put' = [p \in DOMAIN put \ gone |-> put[p]],
         cut' \in SUBSET Contents, cut \subseteq cut',
         \A q \in gone : put[q].at > Pieces \/ put[q].content \in cut'
  PROVE  StoreInv'
<1> USE PiecesAssumption
<1>1. StoreTypeOK'
  BY DEF StoreInv, StoreTypeOK
<1>2. MissingIsPending'
  <2> SUFFICES ASSUME NEW d \in DOMAIN files', d \notin cut', Missing(d)' # {}
               PROVE  \E p \in Writers(d)' : Missing(d)' \subseteq put'[p].at..Pieces
    BY DEF MissingIsPending
  <2>1. d \in DOMAIN files /\ d \notin cut /\ Missing(d)' = Missing(d)
    BY DEF Missing
  <2>2. PICK p \in Writers(d) : Missing(d) \subseteq put[p].at..Pieces
    BY <2>1 DEF StoreInv, MissingIsPending
  <2>3. p \notin gone
    <3>1. put[p].content = d /\ put[p].at \in 1..Pieces + 1
      BY <2>2 DEF Writers, StoreInv, StoreTypeOK
    <3>2. put[p].at > Pieces => Missing(d) = {}
      BY <2>2, <3>1
    <3> QED
      BY <2>1, <3>1, <3>2
  <2> QED
    BY <2>1, <2>2, <2>3 DEF Writers
<1> QED
  BY <1>1, <1>2 DEF StoreInv

\* Every step of the store keeps the invariant.
LEMMA StoreStep == StoreInv /\ [StoreNext]_storeVars => StoreInv'
<1> SUFFICES ASSUME StoreInv, [StoreNext]_storeVars
             PROVE  StoreInv'
  OBVIOUS
<1>1. ASSUME NEW q \in Requests, NEW c \in Contents, Open(q, c)
      PROVE  StoreInv'
  BY <1>1, OpenKeeps
<1>2. ASSUME NEW q \in Requests, WritePiece(q)
      PROVE  StoreInv'
  BY <1>2, WritePieceKeeps
<1>3. ASSUME NEW q \in Requests, Close(q)
      PROVE  StoreInv'
  <2>1. {q} \in SUBSET DOMAIN put /\ put' = [p \in DOMAIN put \ {q} |-> put[p]]
    BY <1>3 DEF Close, End
  <2>2. UNCHANGED files /\ cut' = cut /\ cut \in SUBSET Contents /\ put[q].at > Pieces
    BY <1>3 DEF Close, StoreInv, StoreTypeOK
  <2> QED
    BY <2>1, <2>2, EndKeeps
<1>4. ASSUME NEW q \in Requests, FailPut(q)
      PROVE  StoreInv'
  <2>1. {q} \in SUBSET DOMAIN put /\ put' = [p \in DOMAIN put \ {q} |-> put[p]]
    BY <1>4 DEF FailPut, End
  <2>2. UNCHANGED files /\ cut' = cut \cup {put[q].content} /\ cut' \in SUBSET Contents
    BY <1>4 DEF FailPut, StoreInv, StoreTypeOK
  <2> QED
    BY <2>1, <2>2, EndKeeps
<1>5. ASSUME CrashPuts
      PROVE  StoreInv'
  <2>1. put' = [p \in DOMAIN put \ DOMAIN put |-> put[p]]
    BY <1>5 DEF CrashPuts
  <2>2. /\ UNCHANGED files /\ cut' \in SUBSET Contents /\ cut \subseteq cut'
        /\ \A q \in DOMAIN put : put[q].content \in cut'
    BY <1>5 DEF CrashPuts, StoreInv, StoreTypeOK
  <2> QED
    BY <2>1, <2>2, EndKeeps
<1>6. CASE UNCHANGED storeVars
  BY <1>6 DEF storeVars, StoreInv, StoreTypeOK, MissingIsPending, Missing, Writers
<1> QED
  BY <1>1, <1>2, <1>3, <1>4, <1>5, <1>6 DEF StoreNext

\* The inductive invariant of the store.
THEOREM StoreInvariant == StoreSpec => []StoreInv
BY StoreInitially, StoreStep, PTL DEF StoreSpec

\* When nothing is pending, nothing is missing.
LEMMA PendingMeansComplete == StoreInv => ObjectsComplete
BY DEF StoreInv, StoreTypeOK, MissingIsPending, ObjectsComplete, Missing, Whole

\* However many requests write an object at the same time, once none does and
\* none was cut off, its file holds every piece (putObject).
THEOREM StoreComplete == StoreSpec => []ObjectsComplete
BY StoreInvariant, PendingMeansComplete, PTL

-----------------------------------------------------------------------------
(* The requests                                                            *)

\* A table gains the row of request q at most, and changes none.
Extended(old, new, q) ==
  /\ DOMAIN old \subseteq DOMAIN new
  /\ DOMAIN new \subseteq DOMAIN old \cup {q}
  /\ \A x \in DOMAIN old : new[x] = old[x]

\* The step is one of request q.
Grows(q) ==
  /\ \A p \in Requests \ {q} : req'[p] = req[p]
  /\ DOMAIN files \subseteq DOMAIN files'
  /\ Extended(modules, modules', q)
  /\ Extended(forks, forks', q)
  /\ Extended(runs, runs', q)

\* The steps of a request.
Handler(q) ==
  \/ \E body \in Bodies[q] : PostModule(q, body) \/ PostLink(q, body)
  \/ Store(q) \/ StoreRefused(q) \/ StorePiece(q) \/ Stored(q) \/ StoreFails(q)
  \/ InsertModule(q)
  \/ FindModule(q) \/ FindFork(q) \/ InsertFork(q)
  \/ InsertRun(q) \/ Enqueue(q)

\* Every step is one of a request or a crash.
LEMMA NextSplits == Next <=> (\E q \in Requests : Handler(q)) \/ Crash
BY DEF Next, Handler

\* The inductive invariant of the API.
ApiInv == StoreInv /\ TypeOK /\ Underway /\ LineageInModule /\ QueueMatchesRuns

\* It holds at first.
LEMMA Initially == Init => ApiInv
<1> SUFFICES ASSUME Init
             PROVE  ApiInv
  OBVIOUS
<1> USE ApiAssumption
<1>1. StoreInv
  BY StoreInitially DEF Init
<1>2. TypeOK
  BY <1>1 DEF Init, TypeOK, StoreInv, StoreInit
<1>3. Underway
  BY DEF Init, Underway, UnderwayAt, StoreInit, InFlight
<1> QED
  BY <1>1, <1>2, <1>3 DEF ApiInv, Init, LineageInModule, QueueMatchesRuns

-----------------------------------------------------------------------------
(* The objects                                                             *)

\* A step does to the objects what one of the store's actions does, or nothing.
LEMMA StepRefines == TypeOK /\ Underway /\ [Next]_vars => [StoreNext]_storeVars
<1> SUFFICES ASSUME TypeOK, Underway, [Next]_vars
             PROVE  [StoreNext]_storeVars
  OBVIOUS
<1>1. ASSUME NEW q \in Requests, Store(q)
      PROVE  StoreNext
  <2>1. req[q].body \in ModuleBody /\ req[q].body.content # None
    BY <1>1 DEF Store, TypeOK, Underway, UnderwayAt, ModuleBody, LinkBody, NoBody
  <2>2. req[q].body.content \in Contents
    BY <2>1 DEF ModuleBody
  <2> QED
    BY <1>1, <2>2 DEF Store, StoreNext
<1>2. ASSUME NEW q \in Requests, StorePiece(q) \/ Stored(q) \/ StoreFails(q)
      PROVE  StoreNext
  BY <1>2 DEF StorePiece, Stored, StoreFails, StoreNext
<1>3. ASSUME NEW q \in Requests,
             \/ \E body \in Bodies[q] : PostModule(q, body) \/ PostLink(q, body)
             \/ StoreRefused(q)
             \/ InsertModule(q) \/ FindModule(q) \/ FindFork(q) \/ InsertFork(q)
             \/ InsertRun(q) \/ Enqueue(q)
      PROVE  UNCHANGED storeVars
  BY <1>3 DEF PostModule, PostLink, Receive, StoreRefused, InsertModule, FindModule,
     FindFork, InsertFork, InsertRun, Enqueue
<1>4. CASE Crash
  BY <1>4 DEF Crash, StoreNext
<1>5. CASE UNCHANGED vars
  BY <1>5 DEF vars
<1> QED
  BY <1>1, <1>2, <1>3, <1>4, <1>5, NextSplits DEF Handler

-----------------------------------------------------------------------------
(* What a handler leaves alone                                             *)

LEMMA Inserted ==
  ASSUME NEW table, NEW q, NEW row, q \notin DOMAIN table
  PROVE  /\ Extended(table, Insert(table, q, row), q)
         /\ DOMAIN Insert(table, q, row) = DOMAIN table \cup {q}
         /\ Insert(table, q, row)[q] = row
BY DEF Insert, Extended

LEMMA HandlersGrow ==
  ASSUME ApiInv, NEW q \in Requests, Handler(q)
  PROVE  Grows(q)
<1>1. /\ q \in DOMAIN put => put[q].content \in DOMAIN files
      /\ req[q].pc \in {"waiting"} \cup InFlight => q \notin DOMAIN modules \cup DOMAIN forks
      /\ req[q].pc \in {"waiting"} \cup (InFlight \ {"enqueue"}) => q \notin DOMAIN runs
  BY DEF ApiInv, StoreInv, StoreTypeOK, Underway, UnderwayAt
<1>2. DOMAIN files \subseteq DOMAIN files'
  BY <1>1 DEF Handler, PostModule, PostLink, Receive, Store, StoreRefused, Open, Holds,
     StorePiece, WritePiece, Stored, Close, StoreFails, FailPut, InsertModule,
     FindModule, FindFork, InsertFork, InsertRun, Enqueue, storeVars
<1>3. \A p \in Requests \ {q} : req'[p] = req[p]
  BY DEF Handler, PostModule, PostLink, Receive, Store, StoreRefused, StorePiece,
     Stored, StoreFails, InsertModule, FindModule, FindFork, InsertFork, InsertRun,
     Enqueue, Goto, ApiInv, TypeOK
<1>4. CASE InsertModule(q)
  <2> DEFINE row == [name |-> req[q].body.name, content |-> req[q].body.content]
  <2>1. modules' \in {modules, Insert(modules, q, row)} /\ UNCHANGED <<forks, runs>>
    BY <1>4 DEF InsertModule
  <2>2. q \notin DOMAIN modules
    BY <1>1, <1>4 DEF InsertModule, InFlight
  <2> HIDE DEF row
  <2>3. Extended(modules, Insert(modules, q, row), q)
    BY <2>2, Inserted
  <2> QED
    BY <1>2, <1>3, <2>1, <2>3 DEF Grows, Extended
<1>5. CASE InsertFork(q)
  <2> DEFINE row == [module |-> req[q].body.module, parent |-> req[q].body.fork]
  <2>1. forks' \in {forks, Insert(forks, q, row)} /\ UNCHANGED <<modules, runs>>
    BY <1>5 DEF InsertFork
  <2>2. q \notin DOMAIN forks
    BY <1>1, <1>5 DEF InsertFork, InFlight
  <2> HIDE DEF row
  <2>3. Extended(forks, Insert(forks, q, row), q)
    BY <2>2, Inserted
  <2> QED
    BY <1>2, <1>3, <2>1, <2>3 DEF Grows, Extended
<1>6. CASE InsertRun(q)
  <2> DEFINE row == [module |-> req[q].body.module, fork |-> req[q].body.fork,
                      status |-> IF Queued THEN "QUEUED" ELSE "CREATED"]
  <2>1. runs' \in {runs, Insert(runs, q, row)} /\ UNCHANGED <<modules, forks>>
    BY <1>6 DEF InsertRun
  <2>2. q \notin DOMAIN runs
    BY <1>1, <1>6 DEF InsertRun, InFlight
  <2> HIDE DEF row
  <2>3. Extended(runs, Insert(runs, q, row), q)
    BY <2>2, Inserted
  <2> QED
    BY <1>2, <1>3, <2>1, <2>3 DEF Grows, Extended
<1>7. CASE ~ (InsertModule(q) \/ InsertFork(q) \/ InsertRun(q))
  <2>1. UNCHANGED <<modules, forks, runs>>
    BY <1>7 DEF Handler, PostModule, PostLink, Receive, Store, StoreRefused, StorePiece,
       Stored, StoreFails, FindModule, FindFork, Enqueue, tables
  <2> QED
    BY <1>2, <1>3, <2>1 DEF Grows, Extended
<1> QED
  BY <1>4, <1>5, <1>6, <1>7

\* What a request knows stays so when another one acts.
LEMMA OthersKnow ==
  ASSUME ApiInv, NEW q \in Requests, Grows(q), NEW p \in Requests \ {q}
  PROVE  UnderwayAt(p)'
<1>1. UnderwayAt(p) /\ req'[p] = req[p]
  BY DEF ApiInv, Underway, Grows
<1>2. /\ DOMAIN files \subseteq DOMAIN files'
      /\ DOMAIN modules \subseteq DOMAIN modules' /\ DOMAIN modules' \subseteq DOMAIN modules \cup {q}
      /\ DOMAIN forks \subseteq DOMAIN forks' /\ DOMAIN forks' \subseteq DOMAIN forks \cup {q}
      /\ DOMAIN runs \subseteq DOMAIN runs' /\ DOMAIN runs' \subseteq DOMAIN runs \cup {q}
      /\ \A f \in DOMAIN forks : forks'[f] = forks[f]
      /\ \A r \in DOMAIN runs : runs'[r] = runs[r]
  BY DEF Grows, Extended
<1> QED
  BY <1>1, <1>2 DEF UnderwayAt, ForkOf

-----------------------------------------------------------------------------
(* What a request knows after a step of its own                            *)

\* The bodies requests may have.
LEMMA BodyKinds ==
  ASSUME NEW b \in ModuleBody \cup LinkBody \cup {NoBody}
  PROVE  /\ b.kind \in {"module", "fork", "run", "none"}
         /\ b.kind = "module" => /\ b \in ModuleBody /\ b.name \in Names
                                 /\ b.content \in Contents \cup {None}
         /\ b.kind \in {"fork", "run"} => /\ b \in LinkBody /\ b.module \in Requests
                                          /\ b.fork \in Requests \cup {None}
BY DEF ModuleBody, LinkBody, NoBody

LEMMA KnowsNext ==
  ASSUME ApiInv, NEW q \in Requests, Handler(q)
  PROVE  UnderwayAt(q)'
<1> DEFINE b == req[q].body
<1>1. UnderwayAt(q) /\ b.kind \in {"module", "fork", "run", "none"}
      /\ req \in [Requests -> [pc : InFlight \cup {"waiting", "answered", "refused"},
                               body : ModuleBody \cup LinkBody \cup {NoBody}]]
  BY BodyKinds DEF ApiInv, Underway, TypeOK
<1>2. \A pc : Goto(q, pc) => req'[q].pc = pc /\ req'[q].body = b
  BY <1>1 DEF Goto
<1>3. ASSUME Goto(q, "refused") \/ Goto(q, "answered")
      PROVE  UnderwayAt(q)'
  BY <1>2, <1>3 DEF UnderwayAt, InFlight
<1>4. ASSUME NEW body \in Bodies[q], PostModule(q, body)
      PROVE  UnderwayAt(q)'
  BY <1>1, <1>4, ApiAssumption, BodyKinds
     DEF PostModule, Receive, UnderwayAt, InFlight, tables, storeVars
<1>5. ASSUME NEW body \in Bodies[q], PostLink(q, body)
      PROVE  UnderwayAt(q)'
  BY <1>1, <1>5, ApiAssumption, BodyKinds
     DEF PostLink, Receive, UnderwayAt, InFlight, tables, storeVars
<1>6. CASE Store(q)
  BY <1>1, <1>2, <1>6 DEF Store, UnderwayAt, InFlight, tables
<1>7. CASE StorePiece(q)
  <2>1. q \in DOMAIN put /\ req' = req /\ UNCHANGED tables /\ DOMAIN files \subseteq DOMAIN files'
    BY <1>7 DEF StorePiece, WritePiece, Holds
  <2> QED
    BY <1>1, <2>1 DEF UnderwayAt, tables, ForkOf
<1>8. CASE Stored(q)
  <2>1. /\ q \in DOMAIN put /\ req[q].pc = "storing" /\ put[q].content = b.content
        /\ put[q].content \in DOMAIN files /\ UNCHANGED <<tables, files>>
    BY <1>8 DEF Stored, Close, ApiInv, StoreInv, StoreTypeOK, TypeOK, Underway
  <2> QED
    BY <1>1, <1>2, <1>8, <2>1 DEF Stored, UnderwayAt, InFlight, tables
<1>9. CASE StoreRefused(q) \/ StoreFails(q)
  BY <1>3, <1>9 DEF StoreRefused, StoreFails
<1>10. CASE InsertModule(q)
  BY <1>3, <1>10 DEF InsertModule
<1>11. CASE FindModule(q)
  <2>1. UNCHANGED tables /\ req[q].pc = "module"
    BY <1>11 DEF FindModule
  <2>2. \/ Goto(q, "refused")
        \/ b.module \in DOMAIN modules /\ b.fork = None /\ Goto(q, "insert")
        \/ b.module \in DOMAIN modules /\ b.fork # None /\ Goto(q, "fork")
    BY <1>11 DEF FindModule
  <2> QED
    BY <1>1, <1>2, <1>3, <2>1, <2>2 DEF UnderwayAt, InFlight, tables
<1>12. CASE FindFork(q)
  <2>1. UNCHANGED tables /\ req[q].pc = "fork"
    BY <1>12 DEF FindFork
  <2>2. Goto(q, "refused") \/ (ForkOf(b.fork, b.module) /\ Goto(q, "insert"))
    BY <1>12 DEF FindFork
  <2> QED
    BY <1>1, <1>2, <1>3, <2>1, <2>2 DEF UnderwayAt, InFlight, tables, ForkOf
<1>13. CASE InsertFork(q)
  BY <1>3, <1>13 DEF InsertFork
<1>14. CASE InsertRun(q)
  <2> DEFINE row == [module |-> b.module, fork |-> b.fork, status |-> "QUEUED"]
  <2>1. CASE Goto(q, "enqueue")
    <3>1. /\ Queued /\ b.kind = "run" /\ req[q].pc = "insert"
          /\ UNCHANGED <<modules, forks>> /\ runs' = Insert(runs, q, row)
      BY <1>2, <1>14, <2>1 DEF InsertRun
    <3>2. row.status = "QUEUED"
      OBVIOUS
    <3> HIDE DEF row
    <3>3. q \notin DOMAIN runs /\ q \notin DOMAIN modules \cup DOMAIN forks
      BY <1>1, <3>1 DEF UnderwayAt, InFlight
    <3>4. q \in DOMAIN runs' /\ runs'[q].status = "QUEUED"
      <4>1. /\ DOMAIN Insert(runs, q, row) = DOMAIN runs \cup {q}
            /\ Insert(runs, q, row)[q] = row
        BY DEF Insert
      <4> QED
        BY <3>1, <3>2, <4>1
    <3>5. req'[q].pc = "enqueue" /\ req'[q].body = b
      BY <1>2, <2>1
    <3> QED
      BY <3>1, <3>3, <3>4, <3>5 DEF UnderwayAt, InFlight
  <2> QED
    BY <1>3, <1>14, <2>1 DEF InsertRun
<1>15. CASE Enqueue(q)
  BY <1>3, <1>15 DEF Enqueue
<1> QED
  BY <1>4, <1>5, <1>6, <1>7, <1>8, <1>9, <1>10, <1>11, <1>12, <1>13, <1>14, <1>15
  DEF Handler

-----------------------------------------------------------------------------
(* Types                                                                   *)

\* Only the request that has one may begin, go on with or end a writeFile.
LEMMA WritersStoring ==
  ASSUME ApiInv, NEW q \in Requests, Handler(q), NEW p \in DOMAIN put'
  PROVE  req'[p].pc = "storing" /\ put'[p].content = req'[p].body.content
<1>1. /\ \A x \in DOMAIN put : req[x].pc = "storing" /\ put[x].content = req[x].body.content
      /\ DOMAIN put \subseteq Requests
      /\ req \in [Requests -> [pc : InFlight \cup {"waiting", "answered", "refused"},
                               body : ModuleBody \cup LinkBody \cup {NoBody}]]
  BY DEF ApiInv, TypeOK, StoreTypeOK, Underway
<1>2. CASE Store(q)
  BY <1>1, <1>2 DEF Store, Open, Begin, Goto
<1>3. CASE StorePiece(q)
  BY <1>1, <1>3 DEF StorePiece, WritePiece
<1>4. CASE Stored(q) \/ StoreFails(q)
  <2>1. DOMAIN put' = DOMAIN put \ {q} /\ \A x \in DOMAIN put \ {q} : put'[x] = put[x]
    BY <1>4 DEF Stored, Close, StoreFails, FailPut, End
  <2>2. \A x \in Requests \ {q} : req'[x] = req[x]
    BY HandlersGrow DEF Grows
  <2> QED
    BY <1>1, <2>1, <2>2
<1>5. CASE ~ (Store(q) \/ StorePiece(q) \/ Stored(q) \/ StoreFails(q))
  <2>1. put' = put /\ q \notin DOMAIN put
    BY <1>1, <1>5 DEF Handler, PostModule, PostLink, Receive, StoreRefused,
       InsertModule, FindModule, FindFork, InsertFork, InsertRun, Enqueue, storeVars
  <2>2. \A x \in Requests \ {q} : req'[x] = req[x]
    BY HandlersGrow DEF Grows
  <2> QED
    BY <1>1, <2>1, <2>2
<1> QED
  BY <1>2, <1>3, <1>4, <1>5

LEMMA RequestTypes ==
  ASSUME ApiInv, NEW q \in Requests, Handler(q)
  PROVE  req' \in [Requests -> [pc : InFlight \cup {"waiting", "answered", "refused"},
                                body : ModuleBody \cup LinkBody \cup {NoBody}]]
<1> DEFINE Kind == [pc : InFlight \cup {"waiting", "answered", "refused"},
                    body : ModuleBody \cup LinkBody \cup {NoBody}]
<1>1. req \in [Requests -> Kind]
  BY DEF ApiInv, TypeOK
<1>2. ASSUME NEW pc \in InFlight \cup {"waiting", "answered", "refused"}, Goto(q, pc)
      PROVE  req' \in [Requests -> Kind]
  BY <1>1, <1>2 DEF Goto
<1>3. ASSUME NEW body \in Bodies[q], PostModule(q, body)
      PROVE  req' \in [Requests -> Kind]
  BY <1>1, <1>3, ApiAssumption DEF PostModule, Receive, InFlight
<1>4. ASSUME NEW body \in Bodies[q], PostLink(q, body)
      PROVE  req' \in [Requests -> Kind]
  BY <1>1, <1>4, ApiAssumption DEF PostLink, Receive, InFlight
<1>5. CASE StorePiece(q)
  BY <1>1, <1>5 DEF StorePiece
<1>6. CASE \/ Store(q) \/ StoreRefused(q) \/ Stored(q) \/ StoreFails(q) \/ InsertModule(q) \/ FindModule(q)
           \/ FindFork(q) \/ InsertFork(q) \/ InsertRun(q) \/ Enqueue(q)
  <2>1. \E pc \in InFlight \cup {"waiting", "answered", "refused"} : Goto(q, pc)
    BY <1>6 DEF Store, StoreRefused, Stored, StoreFails, InsertModule, FindModule,
       FindFork, InsertFork, InsertRun, Enqueue, InFlight
  <2> QED
    BY <1>2, <2>1
<1> QED
  BY <1>3, <1>4, <1>5, <1>6 DEF Handler

\* The rows of the tables, with their references.
TablesOK ==
  /\ DOMAIN modules \subseteq Requests
  /\ modules \in [DOMAIN modules -> [name : Names, content : Contents \cup {None}]]
  /\ DOMAIN forks \subseteq Requests
  /\ forks \in [DOMAIN forks -> [module : DOMAIN modules,
                                 parent : DOMAIN forks \cup {None}]]
  /\ DOMAIN runs \subseteq Requests
  /\ runs \in [DOMAIN runs -> [module : DOMAIN modules, fork : DOMAIN forks \cup {None},
                               status : {"QUEUED", "CREATED"}]]

\* The body is what the row needs, since the request looked up what it names.
LEMMA InsertReady ==
  ASSUME ApiInv, NEW q \in Requests, req[q].pc = "insert"
  PROVE  /\ q \notin DOMAIN modules \cup DOMAIN forks \cup DOMAIN runs
         /\ req[q].body.kind = "module" =>
              /\ req[q].body.name \in Names
              /\ req[q].body.content \in Contents \cup {None}
              /\ req[q].body.content \in DOMAIN files \cup {None}
         /\ req[q].body.kind # "module" =>
              /\ req[q].body.module \in DOMAIN modules
              /\ req[q].body.fork \in DOMAIN forks \cup {None}
              /\ req[q].body.fork # None =>
                   forks[req[q].body.fork].module = req[q].body.module
<1>1. UnderwayAt(q) /\ req[q].body \in ModuleBody \cup LinkBody \cup {NoBody}
  BY DEF ApiInv, Underway, TypeOK
<1>2. /\ req[q].body.kind = "module" =>
           req[q].body.name \in Names /\ req[q].body.content \in Contents \cup {None}
      /\ req[q].body.kind \in {"fork", "run"} => req[q].body.fork \in Requests \cup {None}
  BY <1>1, BodyKinds
<1> QED
  BY <1>1, <1>2 DEF UnderwayAt, ForkOf, InFlight

LEMMA TablesKeep ==
  ASSUME ApiInv, NEW q \in Requests, Handler(q)
  PROVE  TablesOK'
<1>1. TablesOK
  BY DEF ApiInv, TypeOK, TablesOK
<1> DEFINE b == req[q].body
<1>2. CASE UNCHANGED <<modules, forks, runs>>
  BY <1>1, <1>2 DEF TablesOK
<1>3. CASE InsertModule(q)
  <2> DEFINE row == [name |-> b.name, content |-> b.content]
  <2>1. /\ req[q].pc = "insert" /\ b.kind = "module" /\ UNCHANGED <<forks, runs>>
        /\ modules' \in {modules, Insert(modules, q, row)}
    BY <1>3 DEF InsertModule
  <2>2. row \in [name : Names, content : Contents \cup {None}]
    BY <2>1, InsertReady
  <2> HIDE DEF row
  <2>3. modules' = modules \/ modules' = [id \in DOMAIN modules \cup {q} |->
                                            IF id = q THEN row ELSE modules[id]]
    BY <2>1 DEF Insert
  <2> QED
    BY <1>1, <2>1, <2>2, <2>3 DEF TablesOK
<1>4. CASE InsertFork(q)
  <2> DEFINE row == [module |-> b.module, parent |-> b.fork]
  <2>1. /\ req[q].pc = "insert" /\ b.kind = "fork" /\ UNCHANGED <<modules, runs>>
        /\ forks' \in {forks, Insert(forks, q, row)}
    BY <1>4 DEF InsertFork
  <2>2. row \in [module : DOMAIN modules, parent : DOMAIN forks \cup {None}]
    BY <2>1, InsertReady
  <2> HIDE DEF row
  <2>3. forks' = forks \/ forks' = [id \in DOMAIN forks \cup {q} |->
                                      IF id = q THEN row ELSE forks[id]]
    BY <2>1 DEF Insert
  <2> QED
    BY <1>1, <2>1, <2>2, <2>3 DEF TablesOK
<1>5. CASE InsertRun(q)
  <2> DEFINE row == [module |-> b.module, fork |-> b.fork,
                     status |-> IF Queued THEN "QUEUED" ELSE "CREATED"]
  <2>1. /\ req[q].pc = "insert" /\ b.kind = "run" /\ UNCHANGED <<modules, forks>>
        /\ runs' \in {runs, Insert(runs, q, row)}
    BY <1>5 DEF InsertRun
  <2>2. row \in [module : DOMAIN modules, fork : DOMAIN forks \cup {None},
                 status : {"QUEUED", "CREATED"}]
    BY <2>1, InsertReady
  <2> HIDE DEF row
  <2>3. runs' = runs \/ runs' = [id \in DOMAIN runs \cup {q} |->
                                   IF id = q THEN row ELSE runs[id]]
    BY <2>1 DEF Insert
  <2> QED
    BY <1>1, <2>1, <2>2, <2>3 DEF TablesOK
<1> QED
  BY <1>2, <1>3, <1>4, <1>5 DEF Handler, PostModule, PostLink, Receive, Store,
     StoreRefused, StorePiece, Stored, StoreFails, FindModule, FindFork, Enqueue, tables

LEMMA TypesKeep ==
  ASSUME ApiInv, StoreTypeOK', NEW q \in Requests, Handler(q)
  PROVE  TypeOK'
<1> USE ApiAssumption
<1>1. jobs' \subseteq Requests
  BY DEF ApiInv, TypeOK, Handler, PostModule, PostLink, Receive, Store, StoreRefused,
     StorePiece, Stored, StoreFails, InsertModule, FindModule, FindFork, InsertFork,
     InsertRun, Enqueue, tables
<1>2. faults' \in 0..MaxFaults
  <2>1. faults' = faults \/ (faults < MaxFaults /\ faults' = faults + 1)
    BY DEF Handler, PostModule, PostLink, Receive, Store, StoreRefused, StorePiece, Stored,
       StoreFails, InsertModule, FindModule, FindFork, InsertFork, InsertRun, Enqueue,
       Fault, NoFault
  <2> QED
    BY <2>1 DEF ApiInv, TypeOK
<1>3. crashes' \in 0..MaxCrashes
  <2>1. crashes' = crashes
    BY DEF Handler, PostModule, PostLink, Receive, Store, StoreRefused, StorePiece, Stored,
       StoreFails, InsertModule, FindModule, FindFork, InsertFork, InsertRun, Enqueue
  <2> QED
    BY <2>1 DEF ApiInv, TypeOK
<1>4. TablesOK' /\ \A p \in DOMAIN put' : req'[p].pc = "storing"
  BY TablesKeep, WritersStoring
<1> QED
  BY <1>1, <1>2, <1>3, <1>4, RequestTypes DEF TypeOK, TablesOK

-----------------------------------------------------------------------------
(* The invariant                                                           *)

LEMMA UnderwayKeeps ==
  ASSUME ApiInv, NEW q \in Requests, Handler(q)
  PROVE  Underway'
<1>1. ASSUME NEW p \in Requests
      PROVE  UnderwayAt(p)'
  BY HandlersGrow, OthersKnow, KnowsNext
<1>2. ASSUME NEW m \in DOMAIN modules'
      PROVE  modules'[m].content \in DOMAIN files' \cup {None}
  <2>1. CASE m \in DOMAIN modules
    BY <2>1, HandlersGrow DEF Grows, Extended, ApiInv, Underway
  <2>2. CASE m \notin DOMAIN modules
    <3>1. InsertModule(q)
      BY <1>2, <2>2 DEF Handler, PostModule, PostLink, Receive, Store, StoreRefused,
         StorePiece, Stored, StoreFails, FindModule, FindFork, InsertFork, InsertRun,
         Enqueue, tables
    <3> DEFINE row == [name |-> req[q].body.name, content |-> req[q].body.content]
    <3>2. /\ modules' \in {modules, Insert(modules, q, row)} /\ files' = files
          /\ req[q].pc = "insert" /\ req[q].body.kind = "module"
      BY <3>1 DEF InsertModule, storeVars
    <3>3. row.content \in DOMAIN files \cup {None}
      BY <3>2, InsertReady
    <3> HIDE DEF row
    <3>4. modules'[m] = row
      BY <1>2, <2>2, <3>2 DEF Insert
    <3> QED
      BY <3>2, <3>3, <3>4
  <2> QED
    BY <2>1, <2>2
<1> QED
  BY <1>1, <1>2, WritersStoring DEF Underway

\* A row's references are those its request looked up, and rows do not change.
LEMMA LineageKeeps ==
  ASSUME ApiInv, NEW q \in Requests, Handler(q)
  PROVE  LineageInModule'
<1> DEFINE b == req[q].body
<1>1. Grows(q)
  BY HandlersGrow
<1>2. /\ \A f \in DOMAIN forks : forks[f].parent \in DOMAIN forks \cup {None}
      /\ \A r \in DOMAIN runs : runs[r].fork \in DOMAIN forks \cup {None}
  BY DEF ApiInv, TypeOK
<1>3. ASSUME NEW f \in DOMAIN forks', forks'[f].parent # None
      PROVE  forks'[forks'[f].parent].module = forks'[f].module
  <2>1. CASE f \in DOMAIN forks
    BY <1>1, <1>2, <1>3, <2>1 DEF Grows, Extended, ApiInv, LineageInModule
  <2>2. CASE f \notin DOMAIN forks
    <3>1. InsertFork(q)
      BY <1>3, <2>2 DEF Handler, PostModule, PostLink, Receive, Store, StoreRefused,
         StorePiece, Stored, StoreFails, InsertModule, FindModule, FindFork, InsertRun,
         Enqueue, tables
    <3> DEFINE row == [module |-> b.module, parent |-> b.fork]
    <3>2. /\ forks' \in {forks, Insert(forks, q, row)}
          /\ req[q].pc = "insert" /\ b.kind = "fork"
      BY <3>1 DEF InsertFork
    <3>3. /\ row.parent \in DOMAIN forks \cup {None}
          /\ row.parent # None => forks[row.parent].module = row.module
      BY <3>2, InsertReady
    <3> HIDE DEF row
    <3>4. forks'[f] = row
      BY <1>3, <2>2, <3>2 DEF Insert
    <3> QED
      BY <1>1, <1>3, <3>3, <3>4 DEF Grows, Extended
  <2> QED
    BY <2>1, <2>2
<1>4. ASSUME NEW r \in DOMAIN runs', runs'[r].fork # None
      PROVE  forks'[runs'[r].fork].module = runs'[r].module
  <2>1. CASE r \in DOMAIN runs
    BY <1>1, <1>2, <1>4, <2>1 DEF Grows, Extended, ApiInv, LineageInModule
  <2>2. CASE r \notin DOMAIN runs
    <3>1. InsertRun(q)
      BY <1>4, <2>2 DEF Handler, PostModule, PostLink, Receive, Store, StoreRefused,
         StorePiece, Stored, StoreFails, InsertModule, FindModule, FindFork, InsertFork,
         Enqueue, tables
    <3> DEFINE row == [module |-> b.module, fork |-> b.fork,
                       status |-> IF Queued THEN "QUEUED" ELSE "CREATED"]
    <3>2. /\ runs' \in {runs, Insert(runs, q, row)}
          /\ req[q].pc = "insert" /\ b.kind = "run"
      BY <3>1 DEF InsertRun
    <3>3. /\ row.fork \in DOMAIN forks \cup {None}
          /\ row.fork # None => forks[row.fork].module = row.module
      BY <3>2, InsertReady
    <3> HIDE DEF row
    <3>4. runs'[r] = row
      BY <1>4, <2>2, <3>2 DEF Insert
    <3> QED
      BY <1>1, <1>4, <3>3, <3>4 DEF Grows, Extended
  <2> QED
    BY <2>1, <2>2
<1> QED
  BY <1>3, <1>4 DEF LineageInModule

\* A request answers after its job is in the queue, and gets one after its row.
LEMMA QueueKeeps ==
  ASSUME ApiInv, NEW q \in Requests, Handler(q)
  PROVE  QueueMatchesRuns'
<1>1. /\ Grows(q) /\ UnderwayAt(q) /\ QueueMatchesRuns /\ jobs \subseteq Requests
      /\ DOMAIN runs \subseteq Requests
      /\ req \in [Requests -> [pc : InFlight \cup {"waiting", "answered", "refused"},
                               body : ModuleBody \cup LinkBody \cup {NoBody}]]
  BY HandlersGrow DEF ApiInv, Underway, TypeOK
<1>2. CASE Enqueue(q)
  <2>1. /\ req[q].pc = "enqueue" /\ runs' = runs
        /\ jobs' \in {jobs, jobs \cup {q}}
        /\ q \in jobs' \/ Goto(q, "refused")
    BY <1>2 DEF Enqueue
  <2>2. q \in DOMAIN runs /\ runs[q].status = "QUEUED"
    BY <1>1, <2>1 DEF UnderwayAt
  <2>3. Goto(q, "refused") => req'[q].pc = "refused"
    BY <1>1 DEF Goto
  <2> QED
    BY <1>1, <2>1, <2>2, <2>3 DEF QueueMatchesRuns, Grows
<1>3. CASE InsertRun(q)
  <2> DEFINE status == IF Queued THEN "QUEUED" ELSE "CREATED"
             row == [module |-> req[q].body.module, fork |-> req[q].body.fork,
                     status |-> status]
  <2>1. /\ req[q].pc = "insert" /\ jobs' = jobs
        /\ runs' \in {runs, Insert(runs, q, row)}
        /\ Goto(q, "enqueue") \/ Goto(q, "refused") \/ (~ Queued /\ Goto(q, "answered"))
    BY <1>3 DEF InsertRun
  <2>2. ~ Queued => row.status # "QUEUED"
    OBVIOUS
  <2> HIDE DEF row
  <2>3. q \notin DOMAIN runs
    BY <2>1, InsertReady
  <2>4. req'[q].pc = "answered" /\ q \in DOMAIN runs' => runs'[q].status # "QUEUED"
    <3>1. req'[q].pc = "answered" => ~ Queued
      BY <1>1, <2>1 DEF Goto
    <3>2. q \in DOMAIN runs' => runs'[q] = row
      BY <2>1, <2>3 DEF Insert
    <3> QED
      BY <2>2, <3>1, <3>2
  <2> QED
    BY <1>1, <2>1, <2>3, <2>4 DEF QueueMatchesRuns, Grows, Extended
<1>4. CASE ~ (Enqueue(q) \/ InsertRun(q))
  <2>1. UNCHANGED <<runs, jobs>>
    BY <1>4 DEF Handler, PostModule, PostLink, Receive, Store, StoreRefused, StorePiece,
       Stored, StoreFails, InsertModule, FindModule, FindFork, InsertFork, tables
  <2>2. q \in DOMAIN runs => req'[q].pc # "answered" \/ req'[q].pc = req[q].pc
    <3>1. ASSUME req[q].pc \in {"waiting"} \cup (InFlight \ {"enqueue"})
          PROVE  q \notin DOMAIN runs
      BY <1>1, <3>1 DEF UnderwayAt
    <3>2. CASE StorePiece(q)
      BY <3>2 DEF StorePiece
    <3>3. CASE ~ StorePiece(q)
      <4>1. Stored(q) \/ StoreFails(q) => req[q].pc = "storing"
        BY DEF Stored, Close, StoreFails, FailPut, ApiInv, TypeOK
      <4>2. req[q].pc \in {"waiting", "store", "storing", "module", "fork", "insert"}
        BY <1>4, <3>3, <4>1 DEF Handler, PostModule, PostLink, Receive, Store,
           StoreRefused, InsertModule, FindModule, FindFork, InsertFork
      <4> QED
        BY <3>1, <4>2 DEF InFlight
    <3> QED
      BY <3>2, <3>3
  <2> QED
    BY <1>1, <2>1, <2>2 DEF QueueMatchesRuns, Grows
<1> QED
  BY <1>2, <1>3, <1>4

LEMMA CrashKeeps ==
  ASSUME ApiInv, StoreInv', Crash
  PROVE  ApiInv'
<1> USE ApiAssumption
<1>1. /\ UNCHANGED <<modules, forks, runs, jobs, faults>>
      /\ DOMAIN put' = {} /\ files' = files
      /\ crashes' \in 0..MaxCrashes
  BY DEF Crash, CrashPuts, tables, ApiInv, TypeOK
<1>2. /\ req' \in [Requests -> [pc : InFlight \cup {"waiting", "answered", "refused"},
                                body : ModuleBody \cup LinkBody \cup {NoBody}]]
      /\ \A q \in Requests : \/ req'[q].pc = "refused"
                             \/ req'[q] = req[q] /\ req[q].pc \notin InFlight
  <2> DEFINE Kind == [pc : InFlight \cup {"waiting", "answered", "refused"},
                      body : ModuleBody \cup LinkBody \cup {NoBody}]
  <2>1. /\ req \in [Requests -> Kind]
        /\ req' = [q \in Requests |-> IF req[q].pc \in InFlight
                                        THEN [req[q] EXCEPT !.pc = "refused"] ELSE req[q]]
    BY DEF Crash, ApiInv, TypeOK
  <2>2. ASSUME NEW r \in Kind
        PROVE  /\ [r EXCEPT !.pc = "refused"] \in Kind
               /\ [r EXCEPT !.pc = "refused"].pc = "refused"
    OBVIOUS
  <2> HIDE DEF Kind
  <2>3. ASSUME NEW q \in Requests
        PROVE  /\ req'[q] \in Kind
               /\ \/ req'[q].pc = "refused"
                  \/ req'[q] = req[q] /\ req[q].pc \notin InFlight
    BY <2>1, <2>2
  <2>4. req' \in [Requests -> Kind]
    BY <2>1, <2>3
  <2> QED
    BY <2>3, <2>4 DEF Kind
<1>3. TypeOK'
  BY <1>1, <1>2 DEF ApiInv, StoreInv, TypeOK
<1>4. Underway'
  <2>1. ASSUME NEW q \in Requests
        PROVE  UnderwayAt(q)'
    BY <1>1, <1>2 DEF ApiInv, Underway, UnderwayAt, ForkOf, InFlight
  <2> QED
    BY <1>1, <2>1 DEF ApiInv, Underway
<1>5. LineageInModule'
  BY <1>1 DEF ApiInv, LineageInModule
<1>6. QueueMatchesRuns'
  <2>1. \A q \in Requests : req'[q].pc = "answered" => req[q].pc = "answered"
    BY <1>2
  <2> QED
    BY <1>1, <2>1 DEF ApiInv, TypeOK, QueueMatchesRuns
<1> QED
  BY <1>3, <1>4, <1>5, <1>6 DEF ApiInv

LEMMA ApiStep == ApiInv /\ [Next]_vars => ApiInv'
<1> SUFFICES ASSUME ApiInv, [Next]_vars
             PROVE  ApiInv'
  OBVIOUS
<1>1. StoreInv' /\ StoreTypeOK'
  BY StepRefines, StoreStep DEF ApiInv, StoreInv
<1>2. ASSUME NEW q \in Requests, Handler(q)
      PROVE  ApiInv'
  BY <1>1, <1>2, TypesKeep, UnderwayKeeps, LineageKeeps, QueueKeeps DEF ApiInv
<1>3. CASE Crash
  BY <1>1, <1>3, CrashKeeps
<1>4. CASE UNCHANGED vars
  <2>1. UNCHANGED <<files, put, cut, req, modules, forks, runs, jobs, faults, crashes>>
    BY <1>4 DEF vars, tables, storeVars
  <2>2. TypeOK'
    BY <1>1, <2>1 DEF ApiInv, TypeOK
  <2>3. Underway'
    BY <2>1 DEF ApiInv, Underway, UnderwayAt, ForkOf
  <2>4. LineageInModule' /\ QueueMatchesRuns'
    BY <2>1 DEF ApiInv, LineageInModule, QueueMatchesRuns
  <2> QED
    BY <1>1, <2>2, <2>3, <2>4 DEF ApiInv
<1> QED
  BY <1>2, <1>3, <1>4, NextSplits

\* The inductive invariant of the requests.
THEOREM ApiInvariant == Spec => []ApiInv
BY Initially, ApiStep, PTL DEF Spec

-----------------------------------------------------------------------------
(* What follows                                                            *)

\* Types, with the references between the tables, are kept.
THEOREM TypeCorrect == Spec => []TypeOK
BY ApiInvariant, PTL DEF ApiInv

\* Every step of a request is one of the object store, or leaves the objects alone.
THEOREM ApiStores == Spec => StoresObjects
<1>1. Init => StoreInit
  BY DEF Init
<1>2. ApiInv /\ [Next]_vars => [StoreNext]_storeVars
  BY StepRefines DEF ApiInv
<1> QED
  BY <1>1, <1>2, ApiInvariant, PTL DEF Spec, StoresObjects, StoreSpec

\* However many requests put an object, once none does it is whole.
THEOREM ObjectsStayComplete == Spec => []ObjectsComplete
BY ApiInvariant, PendingMeansComplete, PTL DEF ApiInv

LEMMA RowHasObject == ApiInv => RowsFollowObjects
<1> SUFFICES ASSUME ApiInv, NEW m \in DOMAIN modules, modules[m].content # None
             PROVE  LET c == modules[m].content
                    IN  /\ c \in DOMAIN files
                        /\ files[c] = Whole \/ c \in cut \/ Writers(c) \ {m} # {}
  BY DEF RowsFollowObjects
<1> DEFINE c == modules[m].content
<1>1. c \in DOMAIN files /\ files[c] \subseteq Whole
  BY DEF ApiInv, Underway, StoreInv, StoreTypeOK
<1>2. m \notin DOMAIN put
  BY DEF ApiInv, TypeOK, Underway, UnderwayAt, InFlight
<1>3. Missing(c) = {} \/ c \in cut \/ Writers(c) # {}
  BY <1>1 DEF ApiInv, StoreInv, MissingIsPending
<1> QED
  BY <1>1, <1>2, <1>3 DEF Missing, Writers

\* A module's row is inserted after its object is stored (ModuleService.create).
THEOREM RowsCorrect == Spec => []RowsFollowObjects
BY ApiInvariant, RowHasObject, PTL

\* Parents and forks are of the module they are used with, although they are
\* looked up before the insertion and by queries of their own.
THEOREM LineageCorrect == Spec => []LineageInModule
BY ApiInvariant, PTL DEF ApiInv

\* Every job names a queued run; every run answered as queued has a job.
THEOREM QueueCorrect == Spec => []QueueMatchesRuns
BY ApiInvariant, PTL DEF ApiInv
=============================================================================
