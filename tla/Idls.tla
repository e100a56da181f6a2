-------------------------------- MODULE Idls --------------------------------
(***************************************************************************)
(* scripts/solana/export-idls.ts copies the IDLs that anchor build left in *)
(* target/idl into packages/solana/idls, one file after the other, and     *)
(* writes an index of what it copied with a hash of each.  anchor build is *)
(* external and may run at any time.  The files are taken in any order,    *)
(* the code's is that of their names.                                      *)
(***************************************************************************)
EXTENDS Naturals, FiniteSets

CONSTANTS
  Programs,
  MaxBuilds   \* bound on builds

\* An IDL is the build that made it, and whether it is JSON.
NoIdl == [build |-> 0, json |-> TRUE]

VARIABLES
  target,   \* program -> the IDL in target/idl, or NoIdl
  out,      \* program -> the exported IDL, or NoIdl
  index,    \* entries of the index: [name, hash], the hash standing for the content
  export,   \* the export in progress, or the last one
  builds

idlVars == <<target, out, index, export, builds>>

ExportArgs == [only : {{p} : p \in Programs} \cup {Programs}, force : BOOLEAN,
               clean : BOOLEAN, makeIndex : BOOLEAN]

NoExport == [pc |-> "none", todo |-> {}, file |-> {}, metas |-> {},
             force |-> FALSE, makeIndex |-> FALSE]

IdlsInit ==
  /\ target = [p \in Programs |-> NoIdl] /\ out = [p \in Programs |-> NoIdl]
  /\ index = {} /\ export = NoExport /\ builds = 0

AnchorBuild(p, json) ==
  /\ builds < MaxBuilds
  /\ builds' = builds + 1
  /\ target' = [target EXCEPT ![p] = [build |-> builds + 1, json |-> json]]
  /\ UNCHANGED <<out, index, export>>

\* The directory is cleaned before the IDLs are listed, found or not.
ExportIdls(a) ==
  LET found == {p \in a.only : target[p] # NoIdl} IN
  /\ export.pc \in {"none", "done"}
  /\ IF a.clean THEN out' = [p \in Programs |-> NoIdl] /\ index' = {}
     ELSE UNCHANGED <<out, index>>
  /\ export' = IF found = {} THEN NoExport
               ELSE [NoExport EXCEPT !.pc = "read", !.todo = found,
                                     !.force = a.force, !.makeIndex = a.makeIndex]
  /\ UNCHANGED <<target, builds>>

\* A file is read to see that it is JSON, and read again to be copied.
ReadIdl(p) ==
  /\ export.pc = "read" /\ p \in export.todo
  /\ target[p].json
  /\ export' = [export EXCEPT !.pc = "copy", !.file = {p}, !.todo = @ \ {p}]
  /\ UNCHANGED <<target, out, index, builds>>

CopyIdl(p) ==
  /\ export.pc = "copy" /\ p \in export.file
  /\ out[p] # NoIdl => export.force
  /\ out' = [out EXCEPT ![p] = target[p]]
  /\ export' = [export EXCEPT !.pc = "hash"]
  /\ UNCHANGED <<target, index, builds>>

\* Mutant: the hash of the file the copy was made from.
HashOfSource(p) == target[p]

HashOf(p) == out[p]

HashIdl(p) ==
  /\ export.pc = "hash" /\ p \in export.file
  /\ export' = [export EXCEPT !.pc = IF export.todo = {} THEN "index" ELSE "read",
                              !.metas = @ \cup {[name |-> p, hash |-> HashOf(p)]}]
  /\ UNCHANGED <<target, out, index, builds>>

ExportIdl == \E p \in Programs : ReadIdl(p) \/ CopyIdl(p) \/ HashIdl(p)

WriteIndex ==
  /\ export.pc = "index"
  /\ index' = IF export.makeIndex THEN export.metas ELSE index
  /\ export' = [export EXCEPT !.pc = "done"]
  /\ UNCHANGED <<target, out, builds>>

\* An IDL that is not JSON, a file in the way without --force, or a kill.
ExportDies ==
  /\ export.pc \notin {"none", "done"}
  /\ export' = NoExport
  /\ UNCHANGED <<target, out, index, builds>>

-----------------------------------------------------------------------------
(* Properties                                                              *)

\* When an export that makes the index has ended, the index has the hash of the
\* file beside it for each IDL it names, though IDLs are rebuilt meanwhile.
IndexMatchesFiles ==
  export.pc = "done" /\ export.makeIndex =>
    \A e \in index : out[e.name] # NoIdl /\ e.hash = out[e.name]
=============================================================================
