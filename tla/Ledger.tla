------------------------------- MODULE Ledger -------------------------------
(***************************************************************************)
(* What the registry program promises its readers: the accounts of each    *)
(* registry form an append-only ledger.  An entry is never changed or      *)
(* removed, an address is used once, a fork or a run names a module that   *)
(* is already there, a run one of its own registry, and the counters of a  *)
(* registry move by one exactly when an entry is appended to it.           *)
(***************************************************************************)
EXTENDS Naturals

CONSTANTS Keys, ModuleIds, ForkIds, RunIds, MaxCount

VARIABLES
  entries,   \* the accounts: [kind, registry, id, module]
  counters   \* by registry, the number of entries it advertises per kind

vars == <<entries, counters>>

Ids(kind) == CASE kind = "module" -> ModuleIds
               [] kind = "fork" -> ForkIds
               [] kind = "run" -> RunIds

Kinds == {"module", "fork", "run"}

Init == entries = {} /\ counters = [r \in {} |-> {}]

Open(r) ==
  /\ r \in Keys \ DOMAIN counters
  /\ counters' = [s \in DOMAIN counters \cup {r} |->
                    IF s = r THEN [kind \in Kinds |-> 0] ELSE counters[s]]
  /\ UNCHANGED entries

CountOne(c, kind) == [c EXCEPT ![kind] = IF @ < MaxCount THEN @ + 1 ELSE MaxCount]

Append(kind, r, id, module) ==
  /\ r \in DOMAIN counters
  /\ ~ \E e \in entries : e.kind = kind /\ e.registry = r /\ e.id = id
  /\ IF kind = "module"
       THEN module = <<r, id>>
       ELSE \E e \in entries : e.kind = "module" /\ e.module = module
  /\ kind = "run" => module[1] = r
  /\ entries' = entries \cup
       {[kind |-> kind, registry |-> r, id |-> id, module |-> module]}
  /\ counters' = [counters EXCEPT ![r] = CountOne(@, kind)]

Next ==
  \/ \E r \in Keys : Open(r)
  \/ \E kind \in Kinds, r \in Keys, module \in Keys \X ModuleIds :
       \E id \in Ids(kind) : Append(kind, r, id, module)

Spec == Init /\ [][Next]_vars
=============================================================================
