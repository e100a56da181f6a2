------------------------------ MODULE Persist -------------------------------
(***************************************************************************)
(* PersistService.persistEvents and the three log parsers of               *)
(* apps-indexer: what one transaction does to the tables, statement by     *)
(* statement.  A log line is an event                                      *)
(*   [group, op, id, needs, status]                                        *)
(* where group is the parser that recognises it, op is "create" for        *)
(* ModuleRegistered, ForkCreated and RunCreated and "status" for the three *)
(* status changes, and needs are the rows its foreign keys name.           *)
(* The tables are as this code writes them, with the keys of               *)
(* packages/db/prisma/schema.prisma, which itself lacks some of their      *)
(* columns.                                                                *)
(***************************************************************************)
EXTENDS Naturals, Sequences, SequencesExt

CONSTANTS
  Ids,       \* rows of the module, fork and run tables
  NameOf     \* what no other row may have: of a module its (name, version), which is
             \* ("unknown", "0.0.0") where the log has none; of a fork or a run its id

\* The rows that cannot be in a table together with a row.
Rivals(id) == {o \in Ids \ {id} : NameOf[o] = NameOf[id]}

Absent == "absent"

Statuses == {"ACTIVE", "CREATED", "RUNNING", "SUCCEEDED", "DISABLED"}

Groups == {"registry", "forks", "runs"}

Event == [group : Groups, op : {"create", "status"}, id : Ids, needs : SUBSET Ids,
          status : Statuses]

Row == Statuses \cup {Absent}

NoRows == [id \in Ids |-> Absent]

\* The foreign keys of a new row, and the unique (name, version).
References(rows, e) == \A n \in e.needs : rows[n] # Absent
Unique(rows, e) == \A o \in Rivals(e.id) : rows[o] = Absent

\* Mutants: upsert resets the status it creates with, creation without foreign keys.
ResettingUpsert(rows, e) ==
  IF References(rows, e) /\ Unique(rows, e)
    THEN [rows EXCEPT ![e.id] = e.status]
    ELSE rows
UncheckedUpsert(rows, e) ==
  IF rows[e.id] = Absent /\ Unique(rows, e)
    THEN [rows EXCEPT ![e.id] = e.status]
    ELSE rows

\* upsert: a new row starts with the status in its create branch; the update
\* branch leaves the status alone.  A row whose parents are missing, or whose name and
\* version are taken, is refused by the database and the error is logged and dropped.
Upsert(rows, e) ==
  IF rows[e.id] = Absent /\ References(rows, e) /\ Unique(rows, e)
    THEN [rows EXCEPT ![e.id] = e.status]
    ELSE rows

\* update: a missing row is an error, which is dropped too.
Update(rows, e) ==
  IF rows[e.id] # Absent THEN [rows EXCEPT ![e.id] = e.status] ELSE rows

ApplyEvent(rows, e) == IF e.op = "create" THEN Upsert(rows, e) ELSE Update(rows, e)

\* What each parser finds, in the order of the log.
Parsed(tx, group) ==
  FlattenSeq([j \in DOMAIN tx |-> IF tx[j].group = group THEN <<tx[j]>> ELSE <<>>])
ModuleEvents(tx) == Parsed(tx, "registry")
ForkEvents(tx) == Parsed(tx, "forks")
RunEvents(tx) == Parsed(tx, "runs")

\* Mutant: the runs before the rows they refer to.
RunsFirst(tx) == RunEvents(tx) \o ModuleEvents(tx) \o ForkEvents(tx)

\* The order persistEvents writes them in: not the order of the log.
WriteOrder(tx) == ModuleEvents(tx) \o ForkEvents(tx) \o RunEvents(tx)
=============================================================================
