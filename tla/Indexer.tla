------------------------------ MODULE Indexer -------------------------------
(***************************************************************************)
(* apps-indexer in polling mode: main boots with backfill, then            *)
(* startPollingStream scans slot after slot, persists what the             *)
(* transactions logged and saves a checkpoint after each slot.  Several    *)
(* instances may run on the same database while a deployment rolls over.   *)
(*                                                                         *)
(* A step of an instance is the code between two awaits.  The chain and    *)
(* the database are external: a call of either may fail, at most MaxFaults *)
(* times, and the code turns most failures into an empty result.           *)
(***************************************************************************)
EXTENDS Persist, FiniteSets, SequencesExt

CONSTANTS
  Instances,     \* indexer processes
  Chains,        \* possible contents of the chain: slot -> sequence of transactions
  MaxSlot,       \* last slot of a chain
  StartHeads,    \* confirmed slots at which the system may be switched on
  Resumed,       \* TRUE when an earlier instance already left checkpoints
  Window,        \* slots the poller looks back without a checkpoint (50)
  BackWindow,    \* slots backfill looks back (100)
  TxCap,         \* transactions of a slot that are looked at (200)
  MaxFaults,     \* bound on failing calls
  MaxCrashes,    \* bound on crashes
  None           \* null

ASSUME IndexerAssumption ==
  /\ MaxSlot \in Nat /\ Window \in Nat /\ BackWindow \in Nat
  /\ TxCap \in Nat /\ MaxFaults \in Nat /\ MaxCrashes \in Nat
  /\ StartHeads \subseteq 0..MaxSlot
  /\ Resumed \in BOOLEAN
  /\ IsFiniteSet(Instances)
  /\ None \notin Nat
  /\ Chains \subseteq [0..MaxSlot -> Seq(Seq(Event))]

\* The events a chain logs.
Logged(c) == UNION {Range(tx) : tx \in UNION {Range(c[s]) : s \in DOMAIN c}}

\* An id is the address of an account, which the program creates once (Registry),
\* and upsert creates the rows of a table with one status: creations logged for one
\* id name the same parents and the same status (and the same NameOf[id]).
ASSUME CreationsAssumption ==
  \A c \in Chains : \A d, e \in {e \in Logged(c) : e.op = "create"} :
    d.id = e.id => d.needs = e.needs /\ d.status = e.status

Slots == 0..MaxSlot
Slot == Slots \cup {None}

VARIABLES
  chain,    \* contents of the chain
  head,     \* last confirmed slot
  rows,     \* module, fork and run tables: id -> status
  events,   \* indexer_event table: <<slot, index of the transaction>>
  ckpt,     \* indexer_checkpoint table: stream -> slot
  proc,     \* the state of each instance
  faults,   \* calls that failed so far
  crashes   \* crashes so far

vars == <<chain, head, rows, events, ckpt, proc, faults, crashes>>

\* pc: down, boot (getSlot), read (the polling checkpoint), seed (save it), logs
\* (read the logs checkpoint), logseed (save it), resume (read the polling checkpoint
\* again), poll, scan, write (statements in work, then the checkpoint), subscribed
\* (IndexerWs).
Process == [pc : {"down", "boot", "read", "seed", "logs", "logseed", "resume", "poll",
                  "scan", "write", "subscribed"},
            current : Slots, last : Slot, slot : 0..MaxSlot + 1,
            work : Seq([kind : {"log"}, tx : Nat] \cup [kind : {"event"}, event : Event])]

Down == [pc |-> "down", current |-> 0, last |-> None, slot |-> 0, work |-> <<>>]

-----------------------------------------------------------------------------
(* Helpers                                                                 *)

\* JavaScript's truth of a slot or null: slot 0 is falsy, like null.
Truthy(slot) == slot # None /\ slot # 0

Minus(a, b) == IF a >= b THEN a - b ELSE 0

Lesser(a, b) == IF a <= b THEN a ELSE b

\* backfill's start and the first slot of a poll.
BackfillStart(last, current) ==
  IF Truthy(last) THEN Lesser(last, current) ELSE Minus(current, BackWindow)

\* Mutant: resume at the checkpoint of a slot not scanned yet.
SkipOne(last, current) == IF Truthy(last) THEN last + 2 ELSE Minus(current, Window)

PollFrom(last, current) ==
  IF Truthy(last) THEN last + 1 ELSE Minus(current, Window)

\* The statements of the transactions of a slot that were fetched, those of a
\* transaction that logged an event.
Statements(slot, fetched) ==
  LET txs == chain[slot]
      of(i) == <<[kind |-> "log", tx |-> i]>> \o
               [j \in 1..Len(WriteOrder(txs[i])) |->
                  [kind |-> "event", event |-> WriteOrder(txs[i])[j]]]
  IN  FlattenSeq([i \in 1..Lesser(Len(txs), TxCap) |->
                    IF i \in fetched /\ txs[i] # <<>> THEN of(i) ELSE <<>>])

\* A call of the chain or the database fails.
Fault == faults < MaxFaults /\ faults' = faults + 1
NoFault == UNCHANGED faults

Goto(i, pc) == proc' = [proc EXCEPT ![i].pc = pc]

\* checkpoints.getLatest: null when the row is missing or the query fails.
ReadCheckpoint(stream, value) ==
  \/ value = ckpt[stream] /\ NoFault
  \/ value = None /\ Fault

\* checkpoints.saveLatest: a failing upsert is logged and dropped.
SaveCheckpoint(stream, slot) ==
  \/ ckpt' = [ckpt EXCEPT ![stream] = slot] /\ NoFault
  \/ UNCHANGED ckpt /\ Fault

-----------------------------------------------------------------------------
(* The chain and the orchestrator                                          *)

Init ==
  /\ chain \in Chains
  /\ head \in StartHeads
  /\ rows = NoRows
  /\ events = {}
  /\ ckpt = IF Resumed THEN [s \in {"polling", "logs"} |-> Minus(head, BackWindow)]
                       ELSE [s \in {"polling", "logs"} |-> None]
  /\ proc = [i \in Instances |-> Down]
  /\ faults = 0
  /\ crashes = 0

Confirm ==
  /\ head < MaxSlot
  /\ head' = head + 1
  /\ UNCHANGED <<chain, rows, events, ckpt, proc, faults, crashes>>

Start(i) ==
  /\ proc[i].pc = "down"
  /\ Goto(i, "boot")
  /\ UNCHANGED <<chain, head, rows, events, ckpt, faults, crashes>>

Crash(i) ==
  /\ proc[i].pc # "down"
  /\ crashes < MaxCrashes
  /\ crashes' = crashes + 1
  /\ proc' = [proc EXCEPT ![i] = Down]
  /\ UNCHANGED <<chain, head, rows, events, ckpt, faults>>

-----------------------------------------------------------------------------
(* backfill                                                                *)

BackfillSlot(i) ==
  /\ proc[i].pc = "boot"
  /\ proc' = [proc EXCEPT ![i].pc = "read", ![i].current = head]
  /\ UNCHANGED <<chain, head, rows, events, ckpt, faults, crashes>>

BackfillRead(i) ==
  /\ proc[i].pc = "read"
  /\ \E last \in Slot :
       /\ ReadCheckpoint("polling", last)
       /\ proc' = [proc EXCEPT ![i].last = last,
                               ![i].pc = IF Truthy(last) THEN "logs" ELSE "seed"]
  /\ UNCHANGED <<chain, head, rows, events, ckpt, crashes>>

BackfillSeed(i) ==
  /\ proc[i].pc = "seed"
  /\ SaveCheckpoint("polling", BackfillStart(proc[i].last, proc[i].current))
  /\ Goto(i, "logs")
  /\ UNCHANGED <<chain, head, rows, events, crashes>>

\* The logs stream has a checkpoint of its own, which nothing resumes from.
BackfillReadLogs(i) ==
  /\ proc[i].pc = "logs"
  /\ \E last \in Slot :
       /\ ReadCheckpoint("logs", last)
       /\ Goto(i, IF Truthy(last) THEN "resume" ELSE "logseed")
  /\ UNCHANGED <<chain, head, rows, events, ckpt, crashes>>

BackfillLogs(i) ==
  /\ proc[i].pc = "logseed"
  /\ SaveCheckpoint("logs", BackfillStart(proc[i].last, proc[i].current))
  /\ Goto(i, "resume")
  /\ UNCHANGED <<chain, head, rows, events, crashes>>

-----------------------------------------------------------------------------
(* startPollingStream                                                      *)

Resume(i) ==
  /\ proc[i].pc = "resume"
  /\ \E last \in Slot :
       /\ ReadCheckpoint("polling", last)
       /\ proc' = [proc EXCEPT ![i].last = last, ![i].pc = "poll"]
  /\ UNCHANGED <<chain, head, rows, events, ckpt, crashes>>

\* getSlot, then the range to scan; without one, or when getSlot fails, it sleeps.
Poll(i) ==
  /\ proc[i].pc = "poll"
  /\ PollFrom(proc[i].last, head) <= head
  /\ proc' = [proc EXCEPT ![i].pc = "scan", ![i].current = head,
                          ![i].slot = PollFrom(proc[i].last, head)]
  /\ UNCHANGED <<chain, head, rows, events, ckpt, faults, crashes>>

\* getBlockSignatures and getTransaction: what fails is skipped.
Scan(i) ==
  /\ proc[i].pc = "scan"
  /\ \E lost \in SUBSET DOMAIN chain[proc[i].slot] :
       /\ IF lost = {} THEN NoFault ELSE Fault
       /\ proc' = [proc EXCEPT
            ![i].pc = "write",
            ![i].work = Statements(proc[i].slot, DOMAIN chain[proc[i].slot] \ lost)]
  /\ UNCHANGED <<chain, head, rows, events, ckpt, crashes>>

\* One statement of persistEvents; a failing one is logged and dropped.
Write(i) ==
  /\ proc[i].pc = "write"
  /\ proc[i].work # <<>>
  /\ LET s == Head(proc[i].work)
     IN  \/ /\ NoFault
            /\ s.kind = "log"
            /\ events' = events \cup {<<proc[i].slot, s.tx>>}
            /\ UNCHANGED rows
         \/ /\ NoFault
            /\ s.kind = "event"
            /\ rows' = ApplyEvent(rows, s.event)
            /\ UNCHANGED events
         \/ Fault /\ UNCHANGED <<rows, events>>
  /\ proc' = [proc EXCEPT ![i].work = Tail(@)]
  /\ UNCHANGED <<chain, head, ckpt, crashes>>

\* Mutant: scans one slot more than the confirmed ones.
SaveInclusive(i) ==
  /\ proc[i].pc = "write"
  /\ proc[i].work = <<>>
  /\ SaveCheckpoint("polling", proc[i].slot)
  /\ proc' = [proc EXCEPT ![i].last = proc[i].slot,
                          ![i].slot = @ + 1,
                          ![i].pc = IF proc[i].slot <= proc[i].current
                                      THEN "scan" ELSE "poll"]
  /\ UNCHANGED <<chain, head, rows, events, crashes>>

\* Mutant: the checkpoint of the whole range after its first slot.
SaveRange(i) ==
  /\ proc[i].pc = "write"
  /\ proc[i].work = <<>>
  /\ SaveCheckpoint("polling", proc[i].current)
  /\ proc' = [proc EXCEPT ![i].last = proc[i].slot,
                          ![i].slot = @ + 1,
                          ![i].pc = IF proc[i].slot < proc[i].current
                                      THEN "scan" ELSE "poll"]
  /\ UNCHANGED <<chain, head, rows, events, crashes>>

\* last = slot; saveLatest; then the next slot or the next poll.
Save(i) ==
  /\ proc[i].pc = "write"
  /\ proc[i].work = <<>>
  /\ SaveCheckpoint("polling", proc[i].slot)
  /\ proc' = [proc EXCEPT ![i].last = proc[i].slot,
                          ![i].slot = @ + 1,
                          ![i].pc = IF proc[i].slot < proc[i].current
                                      THEN "scan" ELSE "poll"]
  /\ UNCHANGED <<chain, head, rows, events, crashes>>

Backfill(i) ==
  BackfillSlot(i) \/ BackfillRead(i) \/ BackfillSeed(i) \/ BackfillReadLogs(i)
  \/ BackfillLogs(i)

Step(i) == Backfill(i) \/ Resume(i) \/ Poll(i) \/ Scan(i) \/ Write(i) \/ Save(i)

Next ==
  \/ Confirm
  \/ \E i \in Instances : Start(i) \/ Crash(i) \/ Step(i)

Spec == Init /\ [][Next]_vars

\* The orchestrator restarts what is down and the event loop goes on: no step of
\* an instance waits for anything but a call that answers.
FairSpec == Spec /\ \A i \in Instances : WF_vars(Start(i)) /\ WF_vars(Step(i))

-----------------------------------------------------------------------------
(* Properties                                                              *)

\* The state is well typed, and an instance scans confirmed slots only.
TypeOK ==
  /\ chain \in Chains
  /\ head \in Slots
  /\ rows \in [Ids -> Row]
  /\ events \subseteq Slots \X Nat
  /\ ckpt \in [{"polling", "logs"} -> Slot]
  /\ \A i \in Instances :
       /\ proc[i] \in Process
       /\ proc[i].pc \in {"scan", "write"} =>
            proc[i].slot <= proc[i].current /\ proc[i].current <= head
  /\ faults \in 0..MaxFaults
  /\ crashes \in 0..MaxCrashes

\* The slots after the one at which indexing began, which the logs checkpoint
\* keeps while nothing failed, up to a slot.
Indexed(slot) == {s \in Slots : ckpt["logs"] < s /\ s <= slot}

Begun == faults = 0 /\ Truthy(ckpt["logs"])

\* As long as no call has failed, a checkpoint covers what it claims: every
\* logging transaction of every slot from the beginning up to the polling checkpoint is
\* in the event table, whatever crashed and however many instances overlapped
\* (the order of persistEvents and saveLatest in startPollingStream).
NoLostTransaction ==
  Begun /\ ckpt["polling"] # None =>
    \A s \in Indexed(ckpt["polling"]) : \A n \in 1..Lesser(Len(chain[s]), TxCap) :
      chain[s][n] # <<>> => <<s, n>> \in events

\* The transactions of some slots, and the lines of some transactions: where a
\* line is, its slot, its transaction and its place in the log.
Transactions(c, slots) == UNION {{<<s, n>> : n \in DOMAIN c[s]} : s \in slots}
Lines(c, txs) == UNION {{<<t[1], t[2], j>> : j \in DOMAIN c[t[1]][t[2]]} : t \in txs}
Line(c, p) == c[p[1]][p[2]][p[3]]

Later(p, q) ==
  \/ q[1] < p[1]
  \/ q[1] = p[1] /\ q[2] < p[2]
  \/ q[1] = p[1] /\ q[2] = p[2] /\ q[3] < p[3]

\* The lines of some transactions that create a row or change its status.
Of(id, op, txs) == {p \in Lines(chain, txs) : Line(chain, p).id = id /\ Line(chain, p).op = op}

\* What transactions say of a row: the status it was created with or the last one
\* it changed to.
SaidBy(id, txs) ==
  LET created == Of(id, "create", txs)
      changed == Of(id, "status", txs)
      last == CHOOSE p \in changed : \A q \in changed : q = p \/ Later(p, q)
  IN  IF created = {} THEN Absent
      ELSE IF changed = {} THEN Line(chain, CHOOSE p \in created : TRUE).status
      ELSE Line(chain, last).status

\* The order persistEvents writes two lines in: by transaction, then by table, then
\* as they were logged.
WrittenBefore(c, p, q) ==
  LET rank == [registry |-> 1, forks |-> 2, runs |-> 3]
      d == Line(c, p).group
      e == Line(c, q).group
  IN  \/ p[1] < q[1]
      \/ p[1] = q[1] /\ p[2] < q[2]
      \/ p[1] = q[1] /\ p[2] = q[2] /\ (rank[d] < rank[e] \/ (d = e /\ p[3] < q[3]))

\* The program's logs: a row belongs to one table, and what a line refers to, the
\* row it changes or the parents of the one it creates, was created before it.
InOrder(c) ==
  LET all == Lines(c, Transactions(c, Slots))
  IN  \A q \in all : LET e == Line(c, q) IN
        /\ \A p \in all : Line(c, p).id = e.id => Line(c, p).group = e.group
        /\ \A id \in IF e.op = "create" THEN e.needs ELSE {e.id} :
             \E p \in all : /\ WrittenBefore(c, p, q)
                           /\ Line(c, p).op = "create" /\ Line(c, p).id = id

ProgramOrder == \A c \in Chains : InOrder(c)

\* The transactions the poller looks at from the beginning up to a slot.
Taken(slot) == {t \in Transactions(chain, Indexed(slot)) : t[2] <= TxCap}

\* Rows of which some transactions are all that was logged up to a slot, which refer
\* to no others, and of which each was created before any other that these
\* transactions create with its name and version.
Followed(ids, slot, txs) ==
  /\ \A p \in Lines(chain, Transactions(chain, 0..slot)) : LET e == Line(chain, p) IN
       e.id \in ids => <<p[1], p[2]>> \in txs /\ (e.op = "create" => e.needs \subseteq ids)
  /\ \A id \in ids : \A o \in Rivals(id) : \A q \in Of(o, "create", txs) :
       \E p \in Of(id, "create", txs) : WrittenBefore(chain, p, q)

\* When a single instance has written a slot, the tables are what the chain says of
\* every row it could follow from its creation, the first of a name and version (the
\* database refuses the others, and with them what refers to them), although a crash may have left part
\* of the slot behind and made it write the slot again, and although it writes by
\* table and not in the order of the log (docs/protocol/state-machine.md: replaying
\* must not corrupt state).
Converged ==
  \A i \in Instances :
    Begun /\ proc[i].pc = "write" /\ proc[i].work = <<>> =>
      \A ids \in SUBSET Ids : Followed(ids, proc[i].slot, Taken(proc[i].slot)) =>
        \A id \in ids : rows[id] = SaidBy(id, Taken(proc[i].slot))

\* A fork or a run is in the tables only with the rows it refers to, whatever was
\* lost before it: a creation is dropped, never stored dangling.
ReferencesIntact ==
  \A s \in Slots : \A n \in DOMAIN chain[s] : \A j \in DOMAIN chain[s][n] :
    LET e == chain[s][n][j]
    IN  e.op = "create" /\ rows[e.id] # Absent => \A p \in e.needs : rows[p] # Absent

\* Every confirmed slot is eventually behind the checkpoint: the poller neither
\* stops nor stays behind the head, across crashes.
CaughtUp ==
  \A s \in Slots : head >= s ~> (ckpt["polling"] # None /\ ckpt["polling"] >= s)

\* tests/security/threat-model.md: idempotent indexer processing and checkpoints.
\* A poll that starts with a checkpoint scans the slot after it first.
ResumesAtCheckpoint ==
  [][\A i \in Instances :
       proc[i].pc = "poll" /\ proc'[i].pc = "scan" /\ proc[i].last # None
         => proc'[i].slot = proc[i].last + 1]_vars
=============================================================================
