---------------------------- MODULE ObjectStore -----------------------------
(***************************************************************************)
(* StorageService.putObject of apps-api: an object is written under the    *)
(* hash of its bytes, so a content stands for its key as well.  writeFile  *)
(* truncates the file and writes it piece by piece, each piece at its own  *)
(* position, so a file is the set of the pieces it holds.  Requests may    *)
(* write the same object at the same time; its pieces are the same.        *)
(***************************************************************************)
EXTENDS Naturals

CONSTANTS
  Requests,   \* HTTP requests
  Contents,   \* what may be stored
  Pieces      \* writes an object takes

ASSUME PiecesAssumption == Pieces \in Nat \ {0}

VARIABLES
  files,   \* content -> pieces its file holds; the domain: the files there are
  put,     \* the writeFiles in progress: request -> [content, at]
  cut      \* contents whose writing was cut off, and not begun again since

storeVars == <<files, put, cut>>

Whole == 1..Pieces

StoreTypeOK ==
  /\ DOMAIN files \subseteq Contents
  /\ files \in [DOMAIN files -> SUBSET Whole]
  /\ DOMAIN put \subseteq Requests
  /\ put \in [DOMAIN put -> [content : DOMAIN files, at : 1..Pieces + 1]]
  /\ cut \subseteq Contents

StoreInit ==
  /\ files = [c \in {} |-> {}]
  /\ put = [q \in {} |-> {}]
  /\ cut = {}

-----------------------------------------------------------------------------

Begin(q, c, at) ==
  put' = [p \in DOMAIN put \cup {q} |->
            IF p = q THEN [content |-> c, at |-> at] ELSE put[p]]

End(q) == put' = [p \in DOMAIN put \ {q} |-> put[p]]

Holds(c, pieces) ==
  files' = [d \in DOMAIN files \cup {c} |-> IF d = c THEN pieces ELSE files[d]]

\* Mutant: an object that is there is not written again.
OpenUnlessThere(q, c) ==
  /\ q \notin DOMAIN put
  /\ IF c \in DOMAIN files THEN Begin(q, c, Pieces + 1) /\ UNCHANGED files
                           ELSE Begin(q, c, 1) /\ Holds(c, {})
  /\ cut' = cut \ {c}

\* mkdir, the hash, and writeFile's open with O_TRUNC.
Open(q, c) ==
  /\ q \notin DOMAIN put
  /\ Begin(q, c, 1)
  /\ Holds(c, {})
  /\ cut' = cut \ {c}

WritePiece(q) ==
  /\ q \in DOMAIN put
  /\ put[q].at <= Pieces
  /\ Holds(put[q].content, files[put[q].content] \cup {put[q].at})
  /\ put' = [put EXCEPT ![q].at = @ + 1]
  /\ UNCHANGED cut

\* writeFile is done.
Close(q) ==
  /\ q \in DOMAIN put
  /\ put[q].at > Pieces
  /\ End(q)
  /\ UNCHANGED <<files, cut>>

\* A write is refused (no space, an I/O error): the file stays as it is.
FailPut(q) ==
  /\ q \in DOMAIN put
  /\ End(q)
  /\ cut' = cut \cup {put[q].content}
  /\ UNCHANGED files

\* The process dies with all its writes.
CrashPuts ==
  /\ put' = [q \in {} |-> {}]
  /\ cut' = cut \cup {put[q].content : q \in DOMAIN put}
  /\ UNCHANGED files

StoreNext ==
  \/ \E q \in Requests, c \in Contents : Open(q, c)
  \/ \E q \in Requests : WritePiece(q) \/ Close(q) \/ FailPut(q)
  \/ CrashPuts

StoreSpec == StoreInit /\ [][StoreNext]_storeVars

-----------------------------------------------------------------------------

Writers(c) == {q \in DOMAIN put : put[q].content = c}

\* An object nobody is writing holds every piece, however many requests wrote it
\* at the same time and in whatever order they truncated it, unless the write of
\* one was cut off (putObject writes an object again although it is there).
ObjectsComplete ==
  \A c \in DOMAIN files : Writers(c) = {} /\ c \notin cut => files[c] = Whole

\* Inductive: what a file lacks, one of its writers has yet to write.
Missing(c) == Whole \ files[c]

MissingIsPending ==
  \A c \in DOMAIN files :
    Missing(c) = {} \/ c \in cut \/
      \E q \in Writers(c) : Missing(c) \subseteq put[q].at..Pieces
=============================================================================
