----------------------------- MODULE IndexerWs ------------------------------
(***************************************************************************)
(* apps-indexer with STREAM_MODE=websockets: the same boot, then onLogs    *)
(* calls back for every transaction the cluster confirms from then on.     *)
(* Each callback runs persistEvents and then saves the "logs" checkpoint;  *)
(* the callbacks do not wait for each other and mix at every await.  What  *)
(* is confirmed while the process is down, or lost with the connection, is *)
(* never delivered: nothing reads the "logs" checkpoint to go back.        *)
(***************************************************************************)
EXTENDS Indexer

VARIABLES
  calls,    \* callbacks in progress: <<instance, slot, transaction>> -> statements left
  heard,    \* <<slot, transaction>> whose callback has ended
  calm      \* no callbacks have overlapped, no boot has saved a checkpoint after one,
            \* nothing failed, was lost or crashed

wsVars == <<vars, calls, heard, calm>>

NoCalls == [c \in {} |-> <<>>]

Persisting(slot, n) ==
  LET work == WriteOrder(chain[slot][n])
  IN  <<[kind |-> "log", tx |-> n]>> \o
      [j \in DOMAIN work |-> [kind |-> "event", event |-> work[j]]]

Saving == <<[kind |-> "save"]>>

\* Mutant: like the polling stream, only transactions with events are stored.
WorkOfEvents(slot, n) ==
  (IF chain[slot][n] = <<>> THEN <<>> ELSE Persisting(slot, n)) \o Saving

\* Mutant: the checkpoint first.
WorkSavedFirst(slot, n) == Saving \o Persisting(slot, n)

\* The statements of a callback: all of persistEvents, also for a transaction
\* that logged no event, and saveLatest.
CallbackWork(slot, n) == Persisting(slot, n) \o Saving

Subscribed(i) == proc[i].pc = "subscribed"

\* The callbacks of a slot: each subscribed instance has one for each transaction.
CallbacksOf(slot) ==
  {<<i, slot, n>> : i \in {j \in Instances : Subscribed(j)}, n \in DOMAIN chain[slot]}

-----------------------------------------------------------------------------

WsInit == Init /\ calls = NoCalls /\ heard = {} /\ calm = TRUE

\* conn.onLogs, after backfill.
Subscribe(i) ==
  /\ proc[i].pc = "resume"
  /\ Goto(i, "subscribed")
  /\ UNCHANGED <<chain, head, rows, events, ckpt, faults, crashes, calls, heard, calm>>

\* A slot is confirmed; the subscribed instances are told of its transactions,
\* but for those lost with the connection.
WsConfirm ==
  /\ head < MaxSlot
  /\ head' = head + 1
  /\ LET told == CallbacksOf(head')
     IN \E lost \in SUBSET told :
          /\ IF lost = {} THEN NoFault ELSE Fault
          /\ calls' = [c \in DOMAIN calls \cup (told \ lost) |->
                         IF c \in told THEN CallbackWork(c[2], c[3]) ELSE calls[c]]
          /\ calm' = (calm /\ lost = {} /\ Cardinality(DOMAIN calls') <= 1
                        /\ (chain[head'] = <<>> \/ told # {}))
  /\ UNCHANGED <<chain, rows, events, ckpt, proc, crashes, heard>>

\* The next statement of a callback; a failing one is logged and dropped.
Callback(c) ==
  /\ c \in DOMAIN calls
  /\ LET s == Head(calls[c])
     IN  /\ \/ /\ NoFault
               /\ s.kind = "log"
               /\ events' = events \cup {<<c[2], c[3]>>}
               /\ UNCHANGED <<rows, ckpt>>
            \/ /\ NoFault
               /\ s.kind = "event"
               /\ rows' = ApplyEvent(rows, s.event)
               /\ UNCHANGED <<events, ckpt>>
            \/ /\ NoFault
               /\ s.kind = "save"
               /\ ckpt' = [ckpt EXCEPT !["logs"] = c[2]]
               /\ UNCHANGED <<rows, events>>
            \/ Fault /\ UNCHANGED <<rows, events, ckpt>>
  /\ calm' = (calm /\ faults' = faults)
  /\ IF Len(calls[c]) = 1
       THEN /\ calls' = [d \in DOMAIN calls \ {c} |-> calls[d]]
            /\ heard' = heard \cup {<<c[2], c[3]>>}
       ELSE /\ calls' = [calls EXCEPT ![c] = Tail(calls[c])]
            /\ UNCHANGED heard
  /\ UNCHANGED <<chain, head, proc, crashes>>

\* The process dies with its callbacks.
WsCrash(i) ==
  /\ Crash(i)
  /\ calls' = [c \in {d \in DOMAIN calls : d[1] # i} |-> calls[c]]
  /\ calm' = FALSE
  /\ UNCHANGED heard

WsStart(i) == Start(i) /\ UNCHANGED <<calls, heard, calm>>

\* The boot of an instance that found no logs checkpoint may save one over that of a
\* callback of another.
WsBoot(i) ==
  /\ Backfill(i)
  /\ calm' = (calm /\ faults' = faults /\ (heard = {} \/ UNCHANGED ckpt))
  /\ UNCHANGED <<calls, heard>>

WsNext ==
  \/ WsConfirm
  \/ \E i \in Instances : WsStart(i) \/ WsCrash(i) \/ WsBoot(i) \/ Subscribe(i)
  \/ \E c \in DOMAIN calls : Callback(c)

WsSpec == WsInit /\ [][WsNext]_wsVars

-----------------------------------------------------------------------------
(* Properties                                                              *)

\* While no call has failed, every transaction whose callback went through is in
\* the event table, with events or without, however the callbacks were mixed and
\* whatever crashed (persistEvents awaits the insert before anything else).
HeardIsStored == faults = 0 => heard \subseteq events

\* While no call has failed, the logs checkpoint says no more than the tables: one
\* that is too recent to be the boot's names a slot with a transaction that is
\* stored (the order of persistEvents and saveLatest in the callback).
LogsCheckpointBacked ==
  faults = 0 /\ ckpt["logs"] # None /\ ckpt["logs"] > Minus(head, BackWindow) =>
    \E n \in DOMAIN chain[ckpt["logs"]] : <<ckpt["logs"], n>> \in events

\* Callbacks that do not overlap leave in the tables what the chain says of the rows
\* they were told everything of, and in the checkpoint the slot they were last told
\* of.  With the mixing of callbacks, a lost connection or a crash neither is so:
\* then a status may come before its row, and a slow callback, or the boot of a second
\* instance, may take the checkpoint back.
ConvergedWhenCalm ==
  calm /\ calls = NoCalls =>
    /\ \A ids \in SUBSET Ids : Followed(ids, head, heard) =>
         \A id \in ids : rows[id] = SaidBy(id, heard)
    /\ \A c \in heard : ckpt["logs"] >= c[1]
=============================================================================
