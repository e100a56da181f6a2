------------------------------ MODULE Release -------------------------------
(***************************************************************************)
(* scripts/ci over a git history: version.ts computes a version from a     *)
(* base, a tag, a build number and the commit, and writes it to the root   *)
(* and to target directories one after the other; release-notes.ts sorts   *)
(* the commits since the last tag into sections.  A commit is the kind of  *)
(* its subject; no commit message holds the separator ---END---.  A git    *)
(* command may fail.                                                       *)
(***************************************************************************)
EXTENDS Naturals, Sequences

CONSTANTS
  Subjects,     \* kinds of subjects: [type, breaking]
  Targets,      \* directories given to --targets
  MaxCommits    \* bound on the history

Root == "root"
Places == Targets \cup {Root}
NoSha == 0

VARIABLES
  log,       \* the commits' subjects, the oldest first
  tags,      \* positions in the log that are tagged
  versions,  \* place -> the VERSION file: [version, at, strict], at 0 when absent
  writing,   \* the version.ts run in progress: what is left to write, and what
  notes      \* the last release notes written

releaseVars == <<log, tags, versions, writing, notes>>

VersionArgs == [tag : {"dev", "ci", "release"}, strict : BOOLEAN, build : 0..1,
                targets : SUBSET Targets]
NotesArgs == [from : 0..MaxCommits, strict : BOOLEAN]   \* --from, 0 when not given

NoVersion == [version |-> [base |-> 0, pre |-> "", build |-> 0, sha |-> NoSha],
              at |-> 0, strict |-> FALSE]
NoWriting == [left |-> {}, file |-> NoVersion]

NoNotes == [from |-> 0, to |-> 0, strict |-> FALSE, sections |-> {}]

ReleaseInit ==
  /\ log = <<>> /\ tags = {} /\ versions = [p \in Places |-> NoVersion]
  /\ writing = NoWriting /\ notes = NoNotes

Commit(s) ==
  /\ Len(log) < MaxCommits
  /\ log' = Append(log, s)
  /\ UNCHANGED <<tags, versions, writing, notes>>

Tag ==
  /\ Len(log) \notin tags \cup {0}
  /\ tags' = tags \cup {Len(log)}
  /\ UNCHANGED <<log, versions, writing, notes>>

-----------------------------------------------------------------------------
(* version.ts                                                              *)

\* Mutant: a release has the base alone.
BareRelease(tag, build, sha) ==
  IF tag = "release" THEN [base |-> 1, pre |-> "", build |-> 0, sha |-> NoSha]
  ELSE [base |-> 1, pre |-> tag, build |-> build, sha |-> sha]

ComputeVersion(tag, build, sha) ==
  IF tag = "release" THEN [base |-> 1, pre |-> "", build |-> 0, sha |-> sha]
  ELSE [base |-> 1, pre |-> tag, build |-> build, sha |-> sha]

\* Under --strict the run needs a commit, and git that works.
StartVersion(a, gitFails) ==
  LET sha == IF gitFails THEN NoSha ELSE Len(log) IN
  /\ writing.left = {}
  /\ a.strict => sha # NoSha
  /\ writing' = [left |-> {Root} \cup a.targets,
                 file |-> [version |-> ComputeVersion(a.tag, a.build, sha),
                           at |-> Len(log), strict |-> a.strict]]
  /\ UNCHANGED <<log, tags, versions, notes>>

WriteVersion(p) ==
  /\ p \in writing.left
  /\ Root \in writing.left => p = Root
  /\ versions' = [versions EXCEPT ![p] = writing.file]
  /\ writing' = [writing EXCEPT !.left = @ \ {p}]
  /\ UNCHANGED <<log, tags, notes>>

\* A directory that cannot be written, or a kill.
VersionDies ==
  /\ writing.left # {}
  /\ writing' = NoWriting
  /\ UNCHANGED <<log, tags, versions, notes>>

-----------------------------------------------------------------------------
(* release-notes.ts                                                        *)

Sections == {"Breaking Changes", "Features", "Fixes", "Performance", "Refactors",
             "Chores", "Other"}

\* Mutant: a breaking change is listed with its type as well.
InEverySection(title, s) ==
  CASE title = "Breaking Changes" -> s.breaking
    [] title = "Features" -> s.type = "feat"
    [] title = "Fixes" -> s.type = "fix"
    [] title = "Performance" -> s.type = "perf"
    [] title = "Refactors" -> s.type = "refactor"
    [] title = "Chores" -> s.type \in {"chore", "ci", "build"}
    [] title = "Other" -> ~s.breaking /\ s.type = "other"

\* The first test that a subject passes decides.
Classify(title, s) ==
  title = CASE s.breaking -> "Breaking Changes"
            [] ~s.breaking /\ s.type = "feat" -> "Features"
            [] ~s.breaking /\ s.type = "fix" -> "Fixes"
            [] ~s.breaking /\ s.type = "perf" -> "Performance"
            [] ~s.breaking /\ s.type = "refactor" -> "Refactors"
            [] ~s.breaking /\ s.type \in {"chore", "ci", "build"} -> "Chores"
            [] OTHER -> "Other"

LastTag == IF tags = {} THEN 0 ELSE CHOOSE p \in tags : \A q \in tags : q <= p

\* Without --strict, no tag gives the whole history and a git log that fails gives
\* no commits.  It fails for a history without commits or without the one --from
\* names.  Sections without commits are left out.
WriteNotes(a, describeFails, logFails) ==
  LET from == IF a.from # 0 THEN a.from ELSE IF describeFails THEN 0 ELSE LastTag
      listed == IF logFails THEN {} ELSE from + 1 .. Len(log)
      commits(title) == {c \in listed : Classify(title, log[c])}
  IN /\ log = <<>> \/ a.from > Len(log) => logFails
     /\ a.strict => ~logFails /\ from # 0
     /\ notes' = [from |-> from, to |-> Len(log), strict |-> a.strict,
                  sections |-> {[title |-> t, commits |-> commits(t)] :
                                  t \in {t \in Sections : commits(t) # {}}}]
     /\ UNCHANGED <<log, tags, versions, writing>>

-----------------------------------------------------------------------------
ReleaseCommand ==
  \/ \E a \in VersionArgs, g \in BOOLEAN : StartVersion(a, g)
  \/ \E a \in NotesArgs, d, g \in BOOLEAN : WriteNotes(a, d, g)

ReleaseStep ==
  \/ (\E s \in Subjects : Commit(s)) \/ Tag
  \/ (\E p \in Places : WriteVersion(p)) \/ VersionDies

-----------------------------------------------------------------------------
(* Properties                                                              *)

\* Two VERSION files that strict runs wrote hold the same version only when they
\* were made from the same commit, whatever run left either of them there.
StrictVersionsTellCommits ==
  \A p, q \in Places :
    versions[p].strict /\ versions[q].strict /\ versions[p].version = versions[q].version
      => versions[p].at = versions[q].at

\* Strict notes list each commit of their range in one section, and no other.
NotesListTheRange ==
  notes.strict =>
    /\ UNION {s.commits : s \in notes.sections} = notes.from + 1 .. notes.to
    /\ \A s, r \in notes.sections : s # r => s.commits \cap r.commits = {}
=============================================================================
