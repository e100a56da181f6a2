-------------------------- MODULE ConvergenceProofs --------------------------
(***************************************************************************)
(* Proofs that the indexer leaves in the tables what the chain says: the   *)
(* polling stream after each slot, whatever crashed, and the websocket     *)
(* while its callbacks do not overlap.                                     *)
(*                                                                         *)
(* The idea is the work ahead.  A list of statements is ahead of a row     *)
(* when applying it will leave the row with a given status: what it        *)
(* changes is created before, what it creates has its parents before, a    *)
(* row of the same name and version comes after (the database refuses it), *)
(* and its last change has the status.  The parsers and persistEvents make *)
(* such a list of a slot although they reorder it by table, because of the *)
(* order in which the program logs (AheadStart); a statement leaves the    *)
(* rest ahead (AheadStep); when nothing is left, the row has the status    *)
(* (AheadEnd).  A crash throws a list away in the middle; AfterRow is what *)
(* then is left of the tables, and enough for the list of the whole slot   *)
(* to be ahead again.                                                      *)
(***************************************************************************)
EXTENDS IndexerProofs, FiniteSetTheorems

-----------------------------------------------------------------------------
(* Sequences                                                               *)

\* The last element of a kind in a sequence, and a kind of element that only comes
\* after one of another kind.
LastIs(E, s, x) ==
  \E k \in 1..Len(s) : s[k] = x /\ x \in E /\ \A l \in k + 1..Len(s) : s[l] \notin E
Covered(E, D, s) ==
  \A k \in 1..Len(s) : s[k] \in E => \E l \in 1..k - 1 : s[l] \in D

\* A sequence of numbers up to a bound has a last one.
LEMMA LastNumber ==
  ASSUME NEW n \in Nat, NEW S \in SUBSET (1..n), S # {}
  PROVE  \E k \in S : \A l \in S : l <= k
<1> DEFINE Tall == {h \in Nat : \A P \in SUBSET (1..h) : P # {} => \E k \in P : \A l \in P : l <= k}
<1>1. 0 \in Tall
  <2>1. 1..0 = {}
    OBVIOUS
  <2> QED
    BY <2>1
<1>2. ASSUME NEW h \in Tall PROVE h + 1 \in Tall
  <2>1. h \in Nat
    OBVIOUS
  <2>2. SUFFICES ASSUME NEW P \in SUBSET (1..h + 1), P # {}
                 PROVE  \E k \in P : \A l \in P : l <= k
    BY <2>1
  <2>3. CASE h + 1 \in P
    BY <2>1, <2>3
  <2>4. CASE h + 1 \notin P
    <3>1. P \in SUBSET (1..h)
      BY <2>1, <2>4
    <3> QED
      BY <2>2, <3>1
  <2> QED
    BY <2>3, <2>4
<1> HIDE DEF Tall
<1>3. Tall = Nat
  <2>1. Tall \in SUBSET Nat
    BY DEF Tall
  <2> QED
    BY <1>1, <1>2, <2>1, SetInduction
<1> QED
  BY <1>3 DEF Tall

\* The last element of a kind when sequences are put together.
LEMMA LastConcat ==
  ASSUME NEW T, NEW s \in Seq(T), NEW t \in Seq(T), NEW E, NEW x
  PROVE  /\ LastIs(E, t, x) => LastIs(E, s \o t, x)
         /\ LastIs(E, s, x) /\ (\A e \in E : ~ In(e, t)) => LastIs(E, s \o t, x)
<1>1. /\ Len(s) \in Nat /\ Len(t) \in Nat /\ Len(s \o t) = Len(s) + Len(t)
      /\ \A k \in 1..Len(s) : (s \o t)[k] = s[k]
      /\ \A k \in 1..Len(t) : (s \o t)[Len(s) + k] = t[k]
  OBVIOUS
<1>2. \A k \in Len(s) + 1..Len(s) + Len(t) : k - Len(s) \in 1..Len(t) /\ (s \o t)[k] = t[k - Len(s)]
  BY <1>1
<1>3. ASSUME LastIs(E, t, x) PROVE LastIs(E, s \o t, x)
  <2>1. PICK k \in 1..Len(t) : t[k] = x /\ x \in E /\ \A l \in k + 1..Len(t) : t[l] \notin E
    BY <1>3 DEF LastIs
  <2>2. Len(s) + k \in 1..Len(s \o t) /\ (s \o t)[Len(s) + k] = x
    BY <1>1, <2>1
  <2>3. ASSUME NEW l \in Len(s) + k + 1..Len(s \o t) PROVE (s \o t)[l] \notin E
    <3>1. l \in Len(s) + 1..Len(s) + Len(t) /\ l - Len(s) \in k + 1..Len(t)
      BY <1>1
    <3> QED
      BY <1>2, <2>1, <3>1
  <2> QED
    BY <2>1, <2>2, <2>3 DEF LastIs
<1>4. ASSUME LastIs(E, s, x), \A e \in E : ~ In(e, t) PROVE LastIs(E, s \o t, x)
  <2>1. PICK k \in 1..Len(s) : s[k] = x /\ x \in E /\ \A l \in k + 1..Len(s) : s[l] \notin E
    BY <1>4 DEF LastIs
  <2>2. k \in 1..Len(s \o t) /\ (s \o t)[k] = x
    BY <1>1, <2>1
  <2>3. ASSUME NEW l \in k + 1..Len(s \o t) PROVE (s \o t)[l] \notin E
    <3>1. CASE l <= Len(s)
      <4>1. l \in k + 1..Len(s) /\ l \in 1..Len(s)
        BY <1>1, <3>1
      <4> QED
        BY <1>1, <2>1, <4>1
    <3>2. CASE l > Len(s)
      <4>1. l \in Len(s) + 1..Len(s) + Len(t)
        BY <1>1, <3>2
      <4>2. \A j \in 1..Len(t) : t[j] \notin E
        BY <1>4 DEF In
      <4> QED
        BY <1>2, <4>1, <4>2
    <3> QED
      BY <1>1, <3>1, <3>2
  <2> QED
    BY <2>1, <2>2, <2>3 DEF LastIs
<1> QED
  BY <1>3, <1>4

\* If the second sequence does not cover its own, the first has what covers it.
LEMMA CoveredConcat ==
  ASSUME NEW T, NEW s \in Seq(T), NEW t \in Seq(T), NEW E, NEW D, Covered(E, D, s),
         (\E d \in D : In(d, s)) \/ Covered(E, D, t)
  PROVE  Covered(E, D, s \o t)
<1>1. /\ Len(s) \in Nat /\ Len(t) \in Nat /\ Len(s \o t) = Len(s) + Len(t)
      /\ \A k \in 1..Len(s) : (s \o t)[k] = s[k]
      /\ \A k \in 1..Len(t) : (s \o t)[Len(s) + k] = t[k]
  OBVIOUS
<1>2. SUFFICES ASSUME NEW k \in 1..Len(s \o t), (s \o t)[k] \in E
               PROVE  \E l \in 1..k - 1 : (s \o t)[l] \in D
  BY DEF Covered
<1>3. CASE k <= Len(s)
  <2>1. k \in 1..Len(s) /\ s[k] \in E
    BY <1>1, <1>2, <1>3
  <2>2. PICK l \in 1..k - 1 : s[l] \in D
    BY <2>1 DEF Covered
  <2>3. l \in 1..Len(s)
    BY <1>1, <2>1
  <2> QED
    BY <1>1, <2>2, <2>3
<1>4. CASE k > Len(s) /\ \E d \in D : In(d, s)
  <2>1. PICK l \in 1..Len(s) : s[l] \in D
    BY <1>4 DEF In
  <2>2. l \in 1..k - 1
    BY <1>1, <1>4
  <2> QED
    BY <1>1, <2>1, <2>2
<1>5. CASE k > Len(s) /\ Covered(E, D, t)
  <2>1. k - Len(s) \in 1..Len(t) /\ Len(s) + (k - Len(s)) = k
    BY <1>1, <1>5
  <2>2. t[k - Len(s)] \in E
    BY <1>1, <1>2, <2>1
  <2>3. PICK l \in 1..k - Len(s) - 1 : t[l] \in D
    BY <1>5, <2>1, <2>2 DEF Covered
  <2>4. l \in 1..Len(t) /\ Len(s) + l \in 1..k - 1
    BY <1>1, <2>1
  <2> QED
    BY <1>1, <2>3, <2>4
<1> QED
  BY <1>1, <1>3, <1>4, <1>5

\* The last element of a kind is in the last sequence that has one.
LEMMA LastOfFlatten ==
  ASSUME NEW T, NEW seqs \in Seq(Seq(T)), NEW E, NEW x,
         NEW i \in 1..Len(seqs), LastIs(E, seqs[i], x),
         \A l \in i + 1..Len(seqs) : \A e \in E : ~ In(e, seqs[l])
  PROVE  LastIs(E, FlattenSeq(seqs), x)
<1>1. Len(seqs) \in Nat /\ Len(seqs) # 0 /\ \A k \in 1..Len(seqs) : seqs[k] \in Seq(T)
  OBVIOUS
<1>2. PICK f : FlattenSeq(seqs) = f[Len(seqs)] /\ PrefixesOf(f, seqs, T)
  BY <1>1, FlattenPrefixes
<1> USE DEF PrefixesOf
<1> DEFINE S == {d \in Nat : i + d <= Len(seqs) => LastIs(E, f[i + d], x)}
<1>3. 0 \in S
  <2>1. CASE i = 1
    BY <1>2, <2>1
  <2>2. CASE i # 1
    <3>1. i - 1 \in 1..Len(seqs)
      BY <1>1, <2>2
    <3>2. f[i] = f[i - 1] \o seqs[i] /\ f[i - 1] \in Seq(T) /\ seqs[i] \in Seq(T)
      BY <1>1, <1>2, <2>2, <3>1
    <3>3. LastIs(E, f[i], x)
      BY <3>2, LastConcat
    <3> QED
      BY <1>1, <3>3
  <2> QED
    BY <2>1, <2>2
<1>4. ASSUME NEW d \in S PROVE d + 1 \in S
  <2>1. d \in Nat
    OBVIOUS
  <2>2. SUFFICES ASSUME i + (d + 1) <= Len(seqs) PROVE LastIs(E, f[i + (d + 1)], x)
    BY <2>1
  <2> DEFINE k == i + d
             m == i + (d + 1)
  <2>3. /\ k \in 1..Len(seqs) /\ m \in 1..Len(seqs) /\ m # 1 /\ m - 1 = k
        /\ m \in i + 1..Len(seqs) /\ i + d <= Len(seqs)
    BY <1>1, <2>1, <2>2
  <2>4. LastIs(E, f[k], x)
    BY <2>3
  <2> HIDE DEF k, m
  <2>5. f[m] = f[k] \o seqs[m] /\ f[k] \in Seq(T) /\ seqs[m] \in Seq(T)
    BY <1>1, <1>2, <2>3
  <2>6. LastIs(E, f[m], x)
    BY <2>3, <2>4, <2>5, LastConcat
  <2> QED
    BY <2>6 DEF m
<1>5. S = Nat
  <2> HIDE DEF S
  <2>1. S \in SUBSET Nat
    BY DEF S
  <2> QED
    BY <1>3, <1>4, <2>1, SetInduction
<1>6. Len(seqs) - i \in S
  <2> HIDE DEF S
  <2> QED
    BY <1>1, <1>5
<1>7. i + (Len(seqs) - i) = Len(seqs)
  BY <1>1
<1> QED
  BY <1>1, <1>2, <1>6, <1>7

\* What must come after another in each sequence, or has it in an earlier one, comes
\* after it.
LEMMA CoveredFlatten ==
  ASSUME NEW T, NEW seqs \in Seq(Seq(T)), NEW E, NEW D,
         \A i \in 1..Len(seqs) :
           Covered(E, D, seqs[i]) \/ \E l \in 1..i - 1 : \E d \in D : In(d, seqs[l])
  PROVE  Covered(E, D, FlattenSeq(seqs))
<1>1. Len(seqs) \in Nat /\ \A k \in 1..Len(seqs) : seqs[k] \in Seq(T)
  OBVIOUS
<1>2. CASE Len(seqs) = 0
  <2>1. FlattenSeq(seqs) = seqs
    BY <1>2 DEF FlattenSeq
  <2> QED
    BY <1>2, <2>1 DEF Covered
<1>3. CASE Len(seqs) # 0
  <2>1. PICK f : FlattenSeq(seqs) = f[Len(seqs)] /\ PrefixesOf(f, seqs, T)
    BY <1>3, FlattenPrefixes
  <2> USE DEF PrefixesOf
  <2> DEFINE S == {k \in Nat : k \in 1..Len(seqs) => Covered(E, D, f[k])}
  <2>2. 0 \in S
    OBVIOUS
  <2>3. ASSUME NEW k \in S PROVE k + 1 \in S
    <3>1. k \in Nat
      OBVIOUS
    <3>2. SUFFICES ASSUME k + 1 \in 1..Len(seqs) PROVE Covered(E, D, f[k + 1])
      BY <3>1
    <3>3. CASE k = 0
      <4>1. ~ \E l \in 1..1 - 1 : TRUE
        OBVIOUS
      <4>2. Covered(E, D, seqs[1])
        BY <3>2, <3>3, <4>1
      <4> QED
        BY <2>1, <3>3, <4>2
    <3>4. CASE k # 0
      <4> DEFINE m == k + 1
      <4>1. k \in 1..Len(seqs) /\ m \in 1..Len(seqs) /\ m # 1 /\ m - 1 = k
        BY <1>1, <3>1, <3>2, <3>4
      <4>2. Covered(E, D, f[k])
        BY <4>1
      <4> HIDE DEF m
      <4>3. f[m] = f[k] \o seqs[m] /\ f[k] \in Seq(T) /\ seqs[m] \in Seq(T)
        BY <1>1, <2>1, <4>1
      <4>4. Covered(E, D, seqs[m]) \/ \E l \in 1..k : \E d \in D : In(d, seqs[l])
        BY <4>1
      <4>5. (\E l \in 1..k : \E d \in D : In(d, seqs[l])) => \E d \in D : In(d, f[k])
        BY <2>1, <4>1
      <4>6. Covered(E, D, f[m])
        BY <4>2, <4>3, <4>4, <4>5, CoveredConcat
      <4> QED
        BY <4>6 DEF m
    <3> QED
      BY <3>3, <3>4
  <2>4. S = Nat
    <3> HIDE DEF S
    <3>1. S \in SUBSET Nat
      BY DEF S
    <3> QED
      BY <2>2, <2>3, <3>1, SetInduction
  <2>5. Len(seqs) \in S
    <3> HIDE DEF S
    <3> QED
      BY <1>1, <2>4
  <2> QED
    BY <1>1, <1>3, <2>1, <2>5
<1> QED
  BY <1>2, <1>3

-----------------------------------------------------------------------------
(* The order persistEvents writes in                                       *)

\* The last event of a kind that a parser picks is the last it yields.
LEMMA LastParsed ==
  ASSUME NEW tx \in Seq(Event), NEW group, NEW E, NEW j \in 1..Len(tx),
         tx[j] \in E, tx[j].group = group, \A l \in j + 1..Len(tx) : tx[l] \notin E
  PROVE  LastIs(E, Parsed(tx, group), tx[j])
<1>1. PICK parts \in Seq(Seq(Event)) :
             /\ Len(parts) = Len(tx) /\ Parsed(tx, group) = FlattenSeq(parts)
             /\ \A k \in 1..Len(tx) : PartOf(parts[k], tx[k], group)
  BY ParsedParts
<1>2. LastIs(E, parts[j], tx[j])
  <2>1. parts[j] = <<tx[j]>>
    BY <1>1 DEF PartOf
  <2>2. <<tx[j]>>[1] = tx[j] /\ Len(<<tx[j]>>) = 1 /\ 1 \in 1..1 /\ 1 + 1..1 = {}
    OBVIOUS
  <2> QED
    BY <2>1, <2>2 DEF LastIs
<1>3. \A l \in j + 1..Len(parts) : \A e \in E : ~ In(e, parts[l])
  <2>1. \A l \in j + 1..Len(parts) : l \in 1..Len(tx) /\ l \in j + 1..Len(tx)
    BY <1>1
  <2> QED
    BY <1>1, <2>1 DEF PartOf
<1>4. j \in 1..Len(parts) /\ LastIs(E, FlattenSeq(parts), tx[j])
  BY <1>1, <1>2, <1>3, LastOfFlatten
<1> QED
  BY <1>1, <1>4

\* A parser keeps the order of what it picks.
LEMMA CoveredParsed ==
  ASSUME NEW tx \in Seq(Event), NEW group, NEW E, NEW D,
         \A j \in 1..Len(tx) : tx[j] \in E /\ tx[j].group = group =>
           \E l \in 1..j - 1 : tx[l] \in D /\ tx[l].group = group
  PROVE  Covered(E, D, Parsed(tx, group))
<1>1. PICK parts \in Seq(Seq(Event)) :
             /\ Len(parts) = Len(tx) /\ Parsed(tx, group) = FlattenSeq(parts)
             /\ \A k \in 1..Len(tx) : PartOf(parts[k], tx[k], group)
  BY ParsedParts
<1>2. ASSUME NEW i \in 1..Len(parts)
      PROVE  Covered(E, D, parts[i]) \/ \E l \in 1..i - 1 : \E d \in D : In(d, parts[l])
  <2>1. i \in 1..Len(tx) /\ parts[i] \in Seq(Event)
    BY <1>1
  <2>2. CASE tx[i] \in E /\ tx[i].group = group
    <3>1. PICK l \in 1..i - 1 : tx[l] \in D /\ tx[l].group = group
      BY <2>1, <2>2
    <3>2. l \in 1..Len(tx)
      BY <2>1
    <3>3. In(tx[l], parts[l])
      BY <1>1, <3>1, <3>2 DEF PartOf
    <3> QED
      BY <3>1, <3>3
  <2>3. CASE ~ (tx[i] \in E /\ tx[i].group = group)
    <3>1. \A e \in E : ~ In(e, parts[i])
      BY <1>1, <2>1, <2>3 DEF PartOf
    <3> QED
      BY <3>1 DEF Covered, In
  <2> QED
    BY <2>2, <2>3
<1> QED
  BY <1>1, <1>2, CoveredFlatten

\* The tables, in the order their events are written in.
Rank(group) == [registry |-> 1, forks |-> 2, runs |-> 3][group]

\* The last event of a kind is written last, when the kind is of one table.
LEMMA LastWritten ==
  ASSUME NEW tx \in Seq(Event), NEW E, NEW j \in 1..Len(tx), tx[j] \in E,
         \A l \in j + 1..Len(tx) : tx[l] \notin E,
         \A l \in 1..Len(tx) : tx[l] \in E => tx[l].group = tx[j].group
  PROVE  LastIs(E, WriteOrder(tx), tx[j])
<1> DEFINE M == ModuleEvents(tx)
           F == ForkEvents(tx)
           R == RunEvents(tx)
<1>1. /\ M \in Seq(Event) /\ \A e : In(e, M) <=> In(e, tx) /\ e.group = "registry"
      /\ F \in Seq(Event) /\ \A e : In(e, F) <=> In(e, tx) /\ e.group = "forks"
      /\ R \in Seq(Event) /\ \A e : In(e, R) <=> In(e, tx) /\ e.group = "runs"
  BY InParsed DEF ModuleEvents, ForkEvents, RunEvents
<1>2. WriteOrder(tx) = M \o F \o R
  BY DEF WriteOrder
<1>3. tx[j].group \in {"registry", "forks", "runs"}
  <2>1. tx[j] \in Event
    OBVIOUS
  <2> QED
    BY <2>1 DEF Event, Groups
<1>4. /\ tx[j].group = "registry" => LastIs(E, M, tx[j])
      /\ tx[j].group = "forks" => LastIs(E, F, tx[j])
      /\ tx[j].group = "runs" => LastIs(E, R, tx[j])
  BY LastParsed DEF ModuleEvents, ForkEvents, RunEvents
<1>5. \A e \in E : In(e, tx) => e.group = tx[j].group
  BY DEF In
<1> HIDE DEF M, F, R
<1> DEFINE MF == M \o F
<1>6. MF \in Seq(Event)
  BY <1>1
<1>7. CASE tx[j].group = "registry"
  <2>1. \A e \in E : ~ In(e, F) /\ ~ In(e, R)
    BY <1>1, <1>5, <1>7
  <2>2. LastIs(E, MF, tx[j])
    BY <1>1, <1>4, <1>7, <2>1, LastConcat
  <2> HIDE DEF MF
  <2>3. LastIs(E, MF \o R, tx[j])
    BY <1>1, <1>6, <2>1, <2>2, LastConcat
  <2> QED
    BY <1>2, <2>3 DEF MF
<1>8. CASE tx[j].group = "forks"
  <2>1. \A e \in E : ~ In(e, R)
    BY <1>1, <1>5, <1>8
  <2>2. LastIs(E, MF, tx[j])
    BY <1>1, <1>4, <1>8, LastConcat
  <2> HIDE DEF MF
  <2>3. LastIs(E, MF \o R, tx[j])
    BY <1>1, <1>6, <2>1, <2>2, LastConcat
  <2> QED
    BY <1>2, <2>3 DEF MF
<1>9. CASE tx[j].group = "runs"
  <2> HIDE DEF MF
  <2>1. LastIs(E, MF \o R, tx[j])
    BY <1>1, <1>4, <1>6, <1>9, LastConcat
  <2> QED
    BY <1>2, <2>1 DEF MF
<1> QED
  BY <1>3, <1>7, <1>8, <1>9

\* What follows another event in table order, or in its own table, is written after it.
LEMMA CoveredWritten ==
  ASSUME NEW tx \in Seq(Event), NEW E, NEW D,
         \A j \in 1..Len(tx) : tx[j] \in E => \E l \in 1..Len(tx) :
           /\ tx[l] \in D
           /\ \/ Rank(tx[l].group) < Rank(tx[j].group)
              \/ tx[l].group = tx[j].group /\ l < j
  PROVE  Covered(E, D, WriteOrder(tx))
<1> DEFINE M == ModuleEvents(tx)
           F == ForkEvents(tx)
           R == RunEvents(tx)
<1>1. /\ M \in Seq(Event) /\ \A e : In(e, M) <=> In(e, tx) /\ e.group = "registry"
      /\ F \in Seq(Event) /\ \A e : In(e, F) <=> In(e, tx) /\ e.group = "forks"
      /\ R \in Seq(Event) /\ \A e : In(e, R) <=> In(e, tx) /\ e.group = "runs"
  BY InParsed DEF ModuleEvents, ForkEvents, RunEvents
<1>2. WriteOrder(tx) = M \o F \o R
  BY DEF WriteOrder
<1>3. \A l \in 1..Len(tx) : In(tx[l], tx) /\ tx[l].group \in {"registry", "forks", "runs"}
  <2>1. \A l \in 1..Len(tx) : tx[l] \in Event
    OBVIOUS
  <2> QED
    BY <2>1 DEF In, Event, Groups
<1>4. Rank("registry") = 1 /\ Rank("forks") = 2 /\ Rank("runs") = 3
  BY DEF Rank
<1>5. ASSUME NEW group \in {"registry", "forks", "runs"},
             \A l \in 1..Len(tx) : tx[l] \in D => ~ Rank(tx[l].group) < Rank(group)
      PROVE  Covered(E, D, Parsed(tx, group))
  <2>1. ASSUME NEW j \in 1..Len(tx), tx[j] \in E, tx[j].group = group
        PROVE  \E l \in 1..j - 1 : tx[l] \in D /\ tx[l].group = group
    <3>1. PICK l \in 1..Len(tx) : /\ tx[l] \in D
                                  /\ \/ Rank(tx[l].group) < Rank(tx[j].group)
                                     \/ tx[l].group = tx[j].group /\ l < j
      BY <2>1
    <3>2. tx[l].group = group /\ l < j
      BY <1>5, <2>1, <3>1
    <3>3. l \in 1..j - 1
      BY <3>2
    <3> QED
      BY <3>1, <3>2, <3>3
  <2> QED
    BY <2>1, CoveredParsed
<1>6. Covered(E, D, M)
  BY <1>3, <1>4, <1>5 DEF ModuleEvents
<1>7. (\E d \in D : In(d, M)) \/ Covered(E, D, F)
  <2>1. SUFFICES ASSUME \A d \in D : ~ In(d, M) PROVE Covered(E, D, F)
    OBVIOUS
  <2>2. \A l \in 1..Len(tx) : tx[l] \in D => tx[l].group # "registry"
    BY <1>1, <1>3, <2>1
  <2>3. \A l \in 1..Len(tx) : tx[l] \in D => ~ Rank(tx[l].group) < Rank("forks")
    BY <1>3, <1>4, <2>2
  <2> QED
    BY <1>5, <2>3 DEF ForkEvents
<1>8. (\E d \in D : In(d, M) \/ In(d, F)) \/ Covered(E, D, R)
  <2>1. SUFFICES ASSUME \A d \in D : ~ In(d, M) /\ ~ In(d, F) PROVE Covered(E, D, R)
    OBVIOUS
  <2>2. \A l \in 1..Len(tx) : tx[l] \in D => tx[l].group \notin {"registry", "forks"}
    BY <1>1, <1>3, <2>1
  <2>3. \A l \in 1..Len(tx) : tx[l] \in D => ~ Rank(tx[l].group) < Rank("runs")
    BY <1>3, <1>4, <2>2
  <2> QED
    BY <1>5, <2>3 DEF RunEvents
<1> HIDE DEF M, F, R
<1> DEFINE MF == M \o F
<1>9. MF \in Seq(Event) /\ \A e : In(e, MF) <=> In(e, M) \/ In(e, F)
  BY <1>1, InConcat
<1>10. Covered(E, D, MF)
  BY <1>1, <1>6, <1>7, CoveredConcat
<1> HIDE DEF MF
<1>11. (\E d \in D : In(d, MF)) \/ Covered(E, D, R)
  BY <1>8, <1>9
<1>12. Covered(E, D, MF \o R)
  BY <1>1, <1>9, <1>10, <1>11, CoveredConcat
<1> QED
  BY <1>2, <1>12 DEF MF

\* The statement that applies an event.
Apply(e) == [kind |-> "event", event |-> e]
Applying(E) == {Apply(e) : e \in E}

\* The statements that apply events are told apart by them.
LEMMA ApplyOne ==
  /\ \A d, e : Apply(d) = Apply(e) <=> d = e
  /\ \A E, e : Apply(e) \in Applying(E) <=> e \in E
  /\ \A w \in Statement \cup [kind : {"save"}] :
       w.kind = "event" => w.event \in Event /\ w = Apply(w.event)
  /\ \A e : Apply(e).kind = "event" /\ Apply(e).event = e
<1>1. \A d : Apply(d).event = d /\ Apply(d).kind = "event"
  BY DEF Apply
<1>2. \A d, e : Apply(d) = Apply(e) <=> d = e
  BY <1>1
<1>3. \A E, e : Apply(e) \in Applying(E) <=> e \in E
  BY <1>2 DEF Applying
<1>4. \A w \in Statement \cup [kind : {"save"}] :
        w.kind = "event" => w.event \in Event /\ w = Apply(w.event)
  BY DEF Apply, Statement
<1> QED
  BY <1>1, <1>2, <1>3, <1>4

\* The statements of a transaction: its events, the last of a kind last, and what
\* depends on another after it.
TxWork(work, tx) ==
  /\ \A e : In(Apply(e), work) <=> In(e, tx)
  /\ \A E \in SUBSET Event : \A j \in 1..Len(tx) :
       /\ tx[j] \in E
       /\ \A l \in j + 1..Len(tx) : tx[l] \notin E
       /\ \A l \in 1..Len(tx) : tx[l] \in E => tx[l].group = tx[j].group
       => LastIs(Applying(E), work, Apply(tx[j]))
  /\ \A E, D \in SUBSET Event :
       (\A j \in 1..Len(tx) : tx[j] \in E => \E l \in 1..Len(tx) :
           /\ tx[l] \in D
           /\ \/ Rank(tx[l].group) < Rank(tx[j].group)
              \/ tx[l].group = tx[j].group /\ l < j)
       => Covered(Applying(E), Applying(D), work)

\* The part of persistEvents that applies the events.
LEMMA EventsWork ==
  ASSUME NEW tx \in Seq(Event)
  PROVE  LET order == WriteOrder(tx)
             work == [j \in 1..Len(order) |-> Apply(order[j])]
         IN  work \in Seq(Statement) /\ TxWork(work, tx)
<1> DEFINE order == WriteOrder(tx)
           work == [j \in 1..Len(order) |-> Apply(order[j])]
<1>1. order \in Seq(Event) /\ \A e : In(e, order) <=> In(e, tx)
  BY InWriteOrder
<1>2. /\ \A E \in SUBSET Event : \A j \in 1..Len(tx) :
           /\ tx[j] \in E
           /\ \A l \in j + 1..Len(tx) : tx[l] \notin E
           /\ \A l \in 1..Len(tx) : tx[l] \in E => tx[l].group = tx[j].group
           => LastIs(E, order, tx[j])
      /\ \A E, D \in SUBSET Event :
           (\A j \in 1..Len(tx) : tx[j] \in E => \E l \in 1..Len(tx) :
               /\ tx[l] \in D
               /\ \/ Rank(tx[l].group) < Rank(tx[j].group)
                  \/ tx[l].group = tx[j].group /\ l < j)
           => Covered(E, D, order)
  BY LastWritten, CoveredWritten
<1> HIDE DEF order
<1>3. Len(order) \in Nat /\ \A j \in 1..Len(order) : order[j] \in Event
  BY <1>1
<1>4. work \in Seq(Statement) /\ Len(work) = Len(order)
      /\ \A j \in 1..Len(order) : work[j] = Apply(order[j])
  <2>1. \A j \in 1..Len(order) : Apply(order[j]) \in Statement
    BY <1>3 DEF Apply, Statement
  <2> QED
    BY <1>3, <2>1
<1> HIDE DEF work
<1>5. \A e : In(Apply(e), work) <=> In(e, order)
  BY <1>4, ApplyOne DEF In
<1>6. ASSUME NEW E, NEW e, LastIs(E, order, e)
      PROVE  LastIs(Applying(E), work, Apply(e))
  <2>1. PICK k \in 1..Len(order) :
          order[k] = e /\ e \in E /\ \A l \in k + 1..Len(order) : order[l] \notin E
    BY <1>6 DEF LastIs
  <2>2. \A l \in k + 1..Len(order) : l \in 1..Len(order)
    BY <1>3, <2>1
  <2>3. \A l \in k + 1..Len(order) : work[l] \notin Applying(E)
    BY <1>4, <2>1, <2>2, ApplyOne
  <2>4. work[k] = Apply(e) /\ Apply(e) \in Applying(E)
    BY <1>4, <2>1, ApplyOne
  <2> QED
    BY <1>4, <2>3, <2>4 DEF LastIs
<1>7. ASSUME NEW E, NEW D, Covered(E, D, order)
      PROVE  Covered(Applying(E), Applying(D), work)
  <2>1. SUFFICES ASSUME NEW k \in 1..Len(order), work[k] \in Applying(E)
                 PROVE  \E l \in 1..k - 1 : work[l] \in Applying(D)
    BY <1>4 DEF Covered
  <2>2. order[k] \in E
    BY <1>4, <2>1, ApplyOne
  <2>3. PICK l \in 1..k - 1 : order[l] \in D
    BY <1>7, <2>2 DEF Covered
  <2>4. l \in 1..Len(order)
    BY <1>3
  <2>5. work[l] \in Applying(D)
    BY <1>4, <2>3, <2>4, ApplyOne
  <2> QED
    BY <2>5
<1>8. TxWork(work, tx)
  BY <1>1, <1>2, <1>5, <1>6, <1>7 DEF TxWork
<1> QED
  BY <1>4, <1>8 DEF work, order

\* A statement that is not an event, before or after, is no matter.
LEMMA WorkAround ==
  ASSUME NEW T, NEW s \in Seq(T), NEW t \in Seq(T), NEW tx,
         \/ TxWork(t, tx) /\ \A e : ~ In(Apply(e), s)
         \/ TxWork(s, tx) /\ \A e : ~ In(Apply(e), t)
  PROVE  TxWork(s \o t, tx)
<1>1. \A x : In(x, s \o t) <=> In(x, s) \/ In(x, t)
  BY InConcat
<1>2. \A E : \A x \in Applying(E) : \E e : x = Apply(e)
  BY DEF Applying
<1>3. CASE TxWork(t, tx) /\ \A e : ~ In(Apply(e), s)
  <2>1. \A E, x : LastIs(E, t, x) => LastIs(E, s \o t, x)
    BY LastConcat
  <2>2. ASSUME NEW E, NEW D, Covered(Applying(E), Applying(D), t)
        PROVE  Covered(Applying(E), Applying(D), s \o t)
    <3>1. \A k \in 1..Len(s) : s[k] \notin Applying(E)
      BY <1>2, <1>3 DEF In
    <3>2. Covered(Applying(E), Applying(D), s)
      BY <3>1 DEF Covered
    <3> QED
      BY <2>2, <3>2, CoveredConcat
  <2> QED
    BY <1>1, <1>3, <2>1, <2>2 DEF TxWork
<1>4. CASE TxWork(s, tx) /\ \A e : ~ In(Apply(e), t)
  <2>1. ASSUME NEW E, NEW x, LastIs(Applying(E), s, x)
        PROVE  LastIs(Applying(E), s \o t, x)
    <3>1. \A y \in Applying(E) : ~ In(y, t)
      BY <1>2, <1>4
    <3> QED
      BY <2>1, <3>1, LastConcat
  <2>2. ASSUME NEW E, NEW D, Covered(Applying(E), Applying(D), s)
        PROVE  Covered(Applying(E), Applying(D), s \o t)
    <3>1. \A k \in 1..Len(t) : t[k] \notin Applying(E)
      BY <1>2, <1>4 DEF In
    <3>2. Covered(Applying(E), Applying(D), t)
      BY <3>1 DEF Covered
    <3> QED
      BY <2>2, <3>2, CoveredConcat
  <2> QED
    BY <1>1, <1>4, <2>1, <2>2 DEF TxWork
<1> QED
  BY <1>3, <1>4

-----------------------------------------------------------------------------
(* Lines                                                                   *)

\* A transaction is named by its slot and its place there.
LEMMA TransactionsOf ==
  ASSUME chain \in Chains, NEW slots \in SUBSET Slots
  PROVE  /\ \A t \in Transactions(chain, slots) :
              t = <<t[1], t[2]>> /\ t[1] \in slots /\ t[2] \in 1..Len(chain[t[1]])
         /\ \A s \in slots : \A n \in 1..Len(chain[s]) : <<s, n>> \in Transactions(chain, slots)
<1>1. \A s \in slots : DOMAIN chain[s] = 1..Len(chain[s])
  BY ChainType
<1> QED
  BY <1>1 DEF Transactions

\* A line is where its position says.
LEMMA LinesOf ==
  ASSUME chain \in Chains, NEW txs \in SUBSET Transactions(chain, Slots)
  PROVE  /\ \A p \in Lines(chain, txs) :
              /\ p = <<p[1], p[2], p[3]>> /\ <<p[1], p[2]>> \in txs
              /\ p[1] \in Slots /\ p[2] \in 1..Len(chain[p[1]])
              /\ p[3] \in 1..Len(chain[p[1]][p[2]])
              /\ Line(chain, p) = chain[p[1]][p[2]][p[3]]
              /\ Line(chain, p) \in Event /\ Line(chain, p) \in Logged(chain)
         /\ \A s, n : <<s, n>> \in txs => \A j \in 1..Len(chain[s][n]) :
              <<s, n, j>> \in Lines(chain, txs) /\ Line(chain, <<s, n, j>>) = chain[s][n][j]
<1>1. \A t \in txs : /\ t = <<t[1], t[2]>> /\ t[1] \in Slots /\ t[2] \in 1..Len(chain[t[1]])
                    /\ DOMAIN chain[t[1]][t[2]] = 1..Len(chain[t[1]][t[2]])
  BY TransactionsOf, ChainType
<1>2. ASSUME NEW p \in Lines(chain, txs)
      PROVE  /\ p = <<p[1], p[2], p[3]>> /\ <<p[1], p[2]>> \in txs
             /\ p[1] \in Slots /\ p[2] \in 1..Len(chain[p[1]])
             /\ p[3] \in 1..Len(chain[p[1]][p[2]])
  <2>1. PICK t \in txs : \E j \in DOMAIN chain[t[1]][t[2]] : p = <<t[1], t[2], j>>
    BY DEF Lines
  <2>2. PICK j \in 1..Len(chain[t[1]][t[2]]) : p = <<t[1], t[2], j>>
    BY <1>1, <2>1
  <2>3. p[1] = t[1] /\ p[2] = t[2] /\ p[3] = j
    BY <2>2
  <2> QED
    BY <1>1, <2>2, <2>3
<1>3. ASSUME NEW p \in Lines(chain, txs)
      PROVE  /\ Line(chain, p) = chain[p[1]][p[2]][p[3]]
             /\ Line(chain, p) \in Event /\ Line(chain, p) \in Logged(chain)
  <2>1. Line(chain, p) = chain[p[1]][p[2]][p[3]]
    BY DEF Line
  <2>2. In(Line(chain, p), chain[p[1]][p[2]])
    BY <1>2, <2>1 DEF In
  <2> QED
    BY <1>2, <2>1, <2>2, ChainType
<1>4. ASSUME NEW s, NEW n, <<s, n>> \in txs, NEW j \in 1..Len(chain[s][n])
      PROVE  <<s, n, j>> \in Lines(chain, txs) /\ Line(chain, <<s, n, j>>) = chain[s][n][j]
  <2>1. <<s, n>>[1] = s /\ <<s, n>>[2] = n /\ DOMAIN chain[s][n] = 1..Len(chain[s][n])
    BY <1>1, <1>4
  <2>2. <<s, n, j>> \in {<<s, n, k>> : k \in DOMAIN chain[s][n]}
    BY <2>1
  <2>3. <<s, n, j>> \in Lines(chain, txs)
    BY <1>4, <2>1, <2>2 DEF Lines
  <2> QED
    BY <2>3 DEF Line
<1> QED
  BY <1>2, <1>3, <1>4

\* More transactions have more lines.
LEMMA LinesGrow ==
  ASSUME NEW txs, NEW more, txs \subseteq more
  PROVE  Lines(chain, txs) \subseteq Lines(chain, more)
BY DEF Lines

-----------------------------------------------------------------------------
(* The work for some transactions                                          *)

\* The statements of a transaction, from storing it to its last event.
Stored(s, n) ==
  LET order == WriteOrder(chain[s][n])
  IN  <<LogOf(n)>> \o [j \in 1..Len(order) |-> Apply(order[j])]

\* Storing a transaction applies its events, in order.
LEMMA StoredWork ==
  ASSUME chain \in Chains, NEW s \in Slots, NEW n \in 1..Len(chain[s])
  PROVE  Stored(s, n) \in Seq(Statement) /\ TxWork(Stored(s, n), chain[s][n])
<1> DEFINE order == WriteOrder(chain[s][n])
           evs == [j \in 1..Len(order) |-> Apply(order[j])]
           first == <<LogOf(n)>>
<1>1. chain[s][n] \in Seq(Event) /\ n \in Nat
  BY ChainType
<1>2. evs \in Seq(Statement) /\ TxWork(evs, chain[s][n])
  BY <1>1, EventsWork
<1>3. Stored(s, n) = first \o evs
  BY DEF Stored
<1>4. first \in Seq(Statement)
  <2>1. LogOf(n) \in Statement
    BY <1>1 DEF LogOf, Statement
  <2> QED
    BY <2>1
<1>5. \A e : ~ In(Apply(e), first)
  <2>1. \A e : Apply(e) # LogOf(n)
    <3>1. LogOf(n).kind = "log" /\ \A e : Apply(e).kind = "event"
      BY DEF LogOf, Apply
    <3> QED
      BY <3>1
  <2>2. Len(first) = 1 /\ first[1] = LogOf(n)
    OBVIOUS
  <2> QED
    BY <2>1, <2>2 DEF In
<1> HIDE DEF evs, first
<1>6. first \o evs \in Seq(Statement)
  BY <1>2, <1>4
<1>7. TxWork(first \o evs, chain[s][n])
  BY <1>2, <1>4, <1>5, WorkAround
<1> QED
  BY <1>3, <1>6, <1>7

\* The work of transactions: their lines, the last of a kind last, and what depends
\* on another after it.
WorkFor(work, txs) ==
  /\ \A e : In(Apply(e), work) <=> \E p \in Lines(chain, txs) : Line(chain, p) = e
  /\ \A E \in SUBSET Event : \A p \in Lines(chain, txs) :
       /\ Line(chain, p) \in E
       /\ \A q \in Lines(chain, txs) : Line(chain, q) \in E =>
            (q = p \/ Later(p, q)) /\ Line(chain, q).group = Line(chain, p).group
       => LastIs(Applying(E), work, Apply(Line(chain, p)))
  /\ \A E, D \in SUBSET Event :
       (\A q \in Lines(chain, txs) : Line(chain, q) \in E =>
          \E p \in Lines(chain, txs) : Line(chain, p) \in D /\ WrittenBefore(chain, p, q))
       => Covered(Applying(E), Applying(D), work)

\* The statements of a transaction are the work for it alone.
LEMMA WorkForOne ==
  ASSUME chain \in Chains, NEW s \in Slots, NEW n \in 1..Len(chain[s]),
         NEW work, TxWork(work, chain[s][n])
  PROVE  WorkFor(work, {<<s, n>>})
<1> DEFINE txs == {<<s, n>>}
           tx == chain[s][n]
<1>1. txs \in SUBSET Transactions(chain, Slots)
  BY TransactionsOf
<1>2. /\ \A p \in Lines(chain, txs) : /\ p = <<s, n, p[3]>> /\ p[1] = s /\ p[2] = n
                                      /\ p[3] \in 1..Len(tx) /\ Line(chain, p) = tx[p[3]]
      /\ \A j \in 1..Len(tx) : <<s, n, j>> \in Lines(chain, txs)
                               /\ Line(chain, <<s, n, j>>) = tx[j]
  <2>1. \A p : <<p[1], p[2]>> \in txs => p[1] = s /\ p[2] = n
    OBVIOUS
  <2>2. <<s, n>> \in txs
    OBVIOUS
  <2> HIDE DEF txs
  <2>3. ASSUME NEW p \in Lines(chain, txs)
        PROVE  /\ p = <<s, n, p[3]>> /\ p[1] = s /\ p[2] = n
               /\ p[3] \in 1..Len(tx) /\ Line(chain, p) = tx[p[3]]
    <3>1. p[1] = s /\ p[2] = n
      BY <1>1, <2>1, LinesOf
    <3> QED
      BY <1>1, <3>1, LinesOf
  <2>4. \A j \in 1..Len(tx) : <<s, n, j>> \in Lines(chain, txs)
                               /\ Line(chain, <<s, n, j>>) = tx[j]
    BY <1>1, <2>2, LinesOf
  <2> QED
    BY <2>3, <2>4
<1> HIDE DEF txs
<1>3. s \in Nat /\ n \in Nat /\ Len(tx) \in Nat
  BY ChainType DEF Slots
<1>4. ASSUME NEW e
      PROVE  In(e, tx) <=> \E p \in Lines(chain, txs) : Line(chain, p) = e
  BY <1>2 DEF In
<1>5. ASSUME NEW E \in SUBSET Event, NEW p \in Lines(chain, txs), Line(chain, p) \in E,
             \A q \in Lines(chain, txs) : Line(chain, q) \in E =>
               (q = p \/ Later(p, q)) /\ Line(chain, q).group = Line(chain, p).group
      PROVE  LastIs(Applying(E), work, Apply(Line(chain, p)))
  <2> DEFINE j == p[3]
  <2>1. j \in 1..Len(tx) /\ Line(chain, p) = tx[j] /\ tx[j] \in E /\ p[1] = s /\ p[2] = n
    BY <1>2, <1>5
  <2>2. \A l \in 1..Len(tx) : tx[l] \in E => tx[l].group = tx[j].group
    <3>1. SUFFICES ASSUME NEW l \in 1..Len(tx), tx[l] \in E PROVE tx[l].group = tx[j].group
      OBVIOUS
    <3>2. <<s, n, l>> \in Lines(chain, txs) /\ Line(chain, <<s, n, l>>) = tx[l]
      BY <1>2
    <3> HIDE DEF tx, j
    <3>3. Line(chain, <<s, n, l>>).group = Line(chain, p).group
      BY <1>5, <3>1, <3>2
    <3> QED
      BY <2>1, <3>2, <3>3
  <2>3. ASSUME NEW l \in j + 1..Len(tx) PROVE tx[l] \notin E
    <3>1. l \in 1..Len(tx) /\ j < l
      BY <1>3, <2>1
    <3>2. ~ Later(p, <<s, n, l>>) /\ <<s, n, l>> # p
      BY <1>2, <1>3, <2>1, <3>1 DEF Later
    <3> QED
      BY <1>2, <1>5, <3>1, <3>2
  <2> HIDE DEF j, tx
  <2> QED
    BY <2>1, <2>2, <2>3 DEF TxWork, tx
<1>6. ASSUME NEW E \in SUBSET Event, NEW D \in SUBSET Event,
             \A q \in Lines(chain, txs) : Line(chain, q) \in E =>
               \E p \in Lines(chain, txs) : Line(chain, p) \in D /\ WrittenBefore(chain, p, q)
      PROVE  Covered(Applying(E), Applying(D), work)
  <2>1. ASSUME NEW j \in 1..Len(tx), tx[j] \in E
        PROVE  \E l \in 1..Len(tx) :
                 /\ tx[l] \in D
                 /\ \/ Rank(tx[l].group) < Rank(tx[j].group)
                    \/ tx[l].group = tx[j].group /\ l < j
    <3> DEFINE q == <<s, n, j>>
    <3>1. PICK p \in Lines(chain, txs) : Line(chain, p) \in D /\ WrittenBefore(chain, p, q)
      <4> HIDE DEF tx
      <4> QED
        BY <1>2, <1>6, <2>1
    <3>2. p[1] = s /\ p[2] = n /\ p[3] \in 1..Len(tx) /\ Line(chain, p) = tx[p[3]]
      BY <1>2
    <3>3. WrittenBefore(chain, p, q) =>
            \/ p[1] < q[1]
            \/ p[1] = q[1] /\ p[2] < q[2]
            \/ Rank(Line(chain, p).group) < Rank(Line(chain, q).group)
            \/ Line(chain, p).group = Line(chain, q).group /\ p[3] < q[3]
      <4> HIDE DEF q
      <4> QED
        BY DEF WrittenBefore, Rank
    <3>4. q[1] = s /\ q[2] = n /\ q[3] = j /\ Line(chain, q) = tx[j]
      BY <1>2
    <3>5. \/ Rank(tx[p[3]].group) < Rank(tx[j].group)
          \/ tx[p[3]].group = tx[j].group /\ p[3] < j
      <4> HIDE DEF q, tx
      <4> QED
        BY <1>3, <3>1, <3>2, <3>3, <3>4
    <3> QED
      BY <3>1, <3>2, <3>5
  <2> HIDE DEF tx
  <2> QED
    BY <2>1 DEF TxWork, tx
<1>7. \A e : In(Apply(e), work) <=> In(e, tx)
  BY DEF TxWork
<1>8. WorkFor(work, txs)
  BY <1>4, <1>5, <1>6, <1>7 DEF WorkFor
<1> QED
  BY <1>8 DEF txs

\* The work of a slot is that of its transactions, one after the other.
LEMMA WorkForSlot ==
  ASSUME chain \in Chains, NEW s \in Slots, NEW m \in Nat, m <= Len(chain[s]),
         NEW parts \in Seq(Seq(Statement)), Len(parts) = m,
         \A i \in 1..m : TxWork(parts[i], chain[s][i])
  PROVE  WorkFor(FlattenSeq(parts), {<<s, n>> : n \in 1..m})
<1> DEFINE txs == {<<s, n>> : n \in 1..m}
           work == FlattenSeq(parts)
           log == chain[s]
<1>1. s \in Nat /\ Len(log) \in Nat /\ \A i \in 1..m : i \in 1..Len(log) /\ Len(log[i]) \in Nat
  BY ChainType DEF Slots
<1>2. txs \in SUBSET Transactions(chain, Slots)
  BY <1>1, TransactionsOf
<1>3. \A p : <<p[1], p[2]>> \in txs => p[1] = s /\ p[2] \in 1..m
  OBVIOUS
<1>4. \A n \in 1..m : <<s, n>> \in txs
  OBVIOUS
<1> HIDE DEF txs
<1>5. ASSUME NEW p \in Lines(chain, txs)
      PROVE  /\ p = <<s, p[2], p[3]>> /\ p[1] = s /\ p[2] \in 1..m
             /\ p[3] \in 1..Len(log[p[2]]) /\ Line(chain, p) = log[p[2]][p[3]]
  <2>1. p[1] = s /\ p[2] \in 1..m
    BY <1>2, <1>3, LinesOf
  <2> QED
    BY <1>2, <2>1, LinesOf
<1>6. ASSUME NEW n \in 1..m, NEW j \in 1..Len(log[n])
      PROVE  <<s, n, j>> \in Lines(chain, txs) /\ Line(chain, <<s, n, j>>) = log[n][j]
  <2>1. <<s, n>> \in txs
    BY <1>4
  <2>2. \A k \in 1..Len(chain[s][n]) :
          <<s, n, k>> \in Lines(chain, txs) /\ Line(chain, <<s, n, k>>) = chain[s][n][k]
    <3>1. \A x, y : <<x, y>> \in txs => \A k \in 1..Len(chain[x][y]) :
            <<x, y, k>> \in Lines(chain, txs) /\ Line(chain, <<x, y, k>>) = chain[x][y][k]
      BY <1>2, LinesOf, Zenon
    <3> QED
      BY <2>1, <3>1
  <2> QED
    BY <2>2
<1>7. \A x : In(x, work) <=> \E i \in 1..m : In(x, parts[i])
  BY InFlatten
<1> HIDE DEF work, log
<1>8. \A i \in 1..m : \A e : In(Apply(e), parts[i]) <=> In(e, log[i])
  BY DEF TxWork, log
<1>9. ASSUME NEW e
      PROVE  In(Apply(e), work) <=> \E p \in Lines(chain, txs) : Line(chain, p) = e
  <2>1. In(Apply(e), work) <=> \E i \in 1..m : In(e, log[i])
    BY <1>7, <1>8
  <2>2. ASSUME NEW i \in 1..m, In(e, log[i]) PROVE \E p \in Lines(chain, txs) : Line(chain, p) = e
    <3>1. PICK j \in 1..Len(log[i]) : log[i][j] = e
      BY <2>2 DEF In
    <3> QED
      BY <1>6, <3>1
  <2>3. ASSUME NEW p \in Lines(chain, txs), Line(chain, p) = e PROVE \E i \in 1..m : In(e, log[i])
    BY <1>5, <2>3 DEF In
  <2> QED
    BY <2>1, <2>2, <2>3
<1>10. ASSUME NEW E \in SUBSET Event, NEW p \in Lines(chain, txs), Line(chain, p) \in E,
              \A q \in Lines(chain, txs) : Line(chain, q) \in E =>
                (q = p \/ Later(p, q)) /\ Line(chain, q).group = Line(chain, p).group
       PROVE  LastIs(Applying(E), work, Apply(Line(chain, p)))
  <2> DEFINE n == p[2]
             j == p[3]
  <2>1. /\ n \in 1..m /\ j \in 1..Len(log[n]) /\ Line(chain, p) = log[n][j] /\ log[n][j] \in E
        /\ p[1] = s /\ p = <<s, n, j>>
    BY <1>5, <1>10
  <2> HIDE DEF n, j
  <2>2. ASSUME NEW l \in 1..Len(log[n]), log[n][l] \in E
        PROVE  log[n][l].group = log[n][j].group /\ l <= j
    <3> DEFINE q == <<s, n, l>>
    <3>1. q \in Lines(chain, txs) /\ Line(chain, q) = log[n][l]
      BY <1>6, <2>1
    <3>2. q[1] = s /\ q[2] = n /\ q[3] = l
      OBVIOUS
    <3>3. p[1] = s /\ p[2] = n /\ p[3] = j
      BY <2>1 DEF n, j
    <3> HIDE DEF q
    <3>4. (q = p \/ Later(p, q)) /\ Line(chain, q).group = Line(chain, p).group
      BY <1>10, <2>2, <3>1
    <3>5. l <= j
      <4>1. n \in Nat /\ l \in Nat /\ j \in Nat
        BY <1>1, <2>1
      <4> QED
        BY <1>1, <3>2, <3>3, <3>4, <4>1 DEF Later
    <3> QED
      BY <2>1, <3>1, <3>4, <3>5
  <2>3. ASSUME NEW l \in n + 1..m, NEW e \in E PROVE ~ In(Apply(e), parts[l])
    <3>1. l \in 1..m /\ n < l /\ l \in Nat /\ n \in Nat
      BY <2>1
    <3>2. SUFFICES ASSUME In(e, log[l]) PROVE FALSE
      BY <1>8, <3>1
    <3>3. PICK k \in 1..Len(log[l]) : log[l][k] = e
      BY <3>2 DEF In
    <3> DEFINE q == <<s, l, k>>
    <3>4. q \in Lines(chain, txs) /\ Line(chain, q) \in E
      BY <1>6, <3>1, <3>3
    <3>5. q[1] = s /\ q[2] = l
      OBVIOUS
    <3>6. p[1] = s /\ p[2] = n
      BY <2>1 DEF n
    <3> HIDE DEF q
    <3>7. q = p \/ Later(p, q)
      BY <1>10, <3>4
    <3> QED
      BY <1>1, <3>1, <3>5, <3>6, <3>7 DEF Later
  <2>4. LastIs(Applying(E), parts[n], Apply(log[n][j]))
    <3>1. TxWork(parts[n], log[n])
      BY <2>1 DEF log
    <3>2. \A l \in j + 1..Len(log[n]) : log[n][l] \notin E
      <4>1. \A l \in j + 1..Len(log[n]) : l \in 1..Len(log[n]) /\ ~ (l <= j)
        BY <1>1, <2>1
      <4> QED
        BY <2>2, <4>1
    <3>3. \A l \in 1..Len(log[n]) : log[n][l] \in E => log[n][l].group = log[n][j].group
      BY <2>2
    <3> QED
      BY <2>1, <3>1, <3>2, <3>3 DEF TxWork
  <2>5. \A l \in n + 1..Len(parts) : \A x \in Applying(E) : ~ In(x, parts[l])
    BY <2>3 DEF Applying
  <2>6. n \in 1..Len(parts)
    BY <2>1
  <2>7. LastIs(Applying(E), FlattenSeq(parts), Apply(log[n][j]))
    BY <2>4, <2>5, <2>6, LastOfFlatten
  <2> QED
    BY <2>1, <2>7 DEF work
<1>11. ASSUME NEW E \in SUBSET Event, NEW D \in SUBSET Event,
              \A q \in Lines(chain, txs) : Line(chain, q) \in E =>
                \E p \in Lines(chain, txs) : Line(chain, p) \in D /\ WrittenBefore(chain, p, q)
       PROVE  Covered(Applying(E), Applying(D), work)
  <2>1. ASSUME NEW i \in 1..Len(parts),
               ~ \E l \in 1..i - 1 : \E x \in Applying(D) : In(x, parts[l])
        PROVE  Covered(Applying(E), Applying(D), parts[i])
    <3>1. i \in 1..m
      OBVIOUS
    <3>2. ASSUME NEW j \in 1..Len(log[i]), log[i][j] \in E
          PROVE  \E l \in 1..Len(log[i]) :
                   /\ log[i][l] \in D
                   /\ \/ Rank(log[i][l].group) < Rank(log[i][j].group)
                      \/ log[i][l].group = log[i][j].group /\ l < j
      <4> DEFINE q == <<s, i, j>>
      <4>1. q \in Lines(chain, txs) /\ Line(chain, q) = log[i][j]
        BY <1>6, <3>1
      <4>2. q[1] = s /\ q[2] = i /\ q[3] = j
        OBVIOUS
      <4> HIDE DEF q
      <4>3. PICK p \in Lines(chain, txs) : Line(chain, p) \in D /\ WrittenBefore(chain, p, q)
        BY <1>11, <3>2, <4>1
      <4>4. /\ p[1] = s /\ p[2] \in 1..m /\ p[3] \in 1..Len(log[p[2]])
            /\ Line(chain, p) = log[p[2]][p[3]]
        BY <1>5
      <4>5. \/ p[1] < q[1]
            \/ p[2] < q[2]
            \/ /\ p[2] = q[2]
               /\ \/ Rank(Line(chain, p).group) < Rank(Line(chain, q).group)
                  \/ Line(chain, p).group = Line(chain, q).group /\ p[3] < q[3]
        BY <4>3 DEF WrittenBefore, Rank
      <4>6. ~ (p[2] < i)
        <5>1. SUFFICES ASSUME p[2] < i PROVE FALSE
          OBVIOUS
        <5>2. In(Line(chain, p), log[p[2]])
          BY <4>4 DEF In
        <5>3. In(Apply(Line(chain, p)), parts[p[2]])
          BY <1>8, <4>4, <5>2
        <5>4. p[2] \in 1..i - 1 /\ Apply(Line(chain, p)) \in Applying(D)
          BY <3>1, <4>3, <4>4, <5>1, ApplyOne
        <5> QED
          BY <2>1, <5>3, <5>4
      <4>7. p[2] = i
        BY <1>1, <4>2, <4>4, <4>5, <4>6
      <4>8. \/ Rank(log[i][p[3]].group) < Rank(log[i][j].group)
            \/ log[i][p[3]].group = log[i][j].group /\ p[3] < j
        BY <1>1, <4>1, <4>2, <4>4, <4>5, <4>6, <4>7
      <4> QED
        BY <4>3, <4>4, <4>7, <4>8
    <3>3. TxWork(parts[i], log[i])
      BY <3>1 DEF log
    <3> QED
      BY <3>2, <3>3 DEF TxWork
  <2>2. Covered(Applying(E), Applying(D), FlattenSeq(parts))
    BY <2>1, CoveredFlatten
  <2> QED
    BY <2>2 DEF work
<1>12. WorkFor(work, txs)
  BY <1>9, <1>10, <1>11 DEF WorkFor
<1> QED
  BY <1>12 DEF work, txs

\* The transactions of a slot that the poller looks at.
SlotTxs(s) == {t \in Transactions(chain, {s}) : t[2] <= TxCap}

\* What a scan that fetches everything puts to work.
LEMMA StatementsWork ==
  ASSUME chain \in Chains, NEW s \in Slots, NEW fetched, 1..Len(chain[s]) \subseteq fetched
  PROVE  WorkFor(Statements(s, fetched), SlotTxs(s))
<1> DEFINE txs == chain[s]
           of(i) == <<[kind |-> "log", tx |-> i]>> \o
                    [j \in 1..Len(WriteOrder(txs[i])) |->
                       [kind |-> "event", event |-> WriteOrder(txs[i])[j]]]
           m == Lesser(Len(txs), TxCap)
           part(i) == IF i \in fetched /\ txs[i] # <<>> THEN of(i) ELSE <<>>
           parts == [i \in 1..m |-> part(i)]
<1>1. m \in Nat /\ m <= Len(txs) /\ \A i \in 1..m : i \in 1..Len(txs)
  BY ChainType, IndexerAssumption DEF Lesser
<1>2. \A i \in 1..Len(txs) : of(i) = Stored(s, i)
  BY DEF Stored, LogOf, Apply
<1>3. Statements(s, fetched) = FlattenSeq(parts)
  BY DEF Statements
<1> HIDE DEF of
<1>4. TxWork(<<>>, <<>>) /\ <<>> \in Seq(Statement)
  BY DEF TxWork, In, Covered
<1>5. \A i \in 1..m : part(i) \in Seq(Statement) /\ TxWork(part(i), txs[i])
  <2>1. SUFFICES ASSUME NEW i \in 1..m PROVE part(i) \in Seq(Statement) /\ TxWork(part(i), txs[i])
    OBVIOUS
  <2>2. i \in fetched /\ i \in 1..Len(txs)
    BY <1>1
  <2>3. of(i) \in Seq(Statement) /\ TxWork(of(i), txs[i])
    BY <1>2, <2>2, StoredWork
  <2> QED
    BY <1>4, <2>2, <2>3
<1> HIDE DEF part
<1>6. parts \in Seq(Seq(Statement)) /\ Len(parts) = m /\ \A i \in 1..m : parts[i] = part(i)
  <2> HIDE DEF m
  <2> QED
    BY <1>1, <1>5
<1>7. SlotTxs(s) = {<<s, n>> : n \in 1..m}
  <2>1. \A t \in SlotTxs(s) : t \in {<<s, n>> : n \in 1..m}
    <3>1. SUFFICES ASSUME NEW t \in SlotTxs(s) PROVE t = <<s, t[2]>> /\ t[2] \in 1..m
      OBVIOUS
    <3>2. t = <<t[1], t[2]>> /\ t[1] = s /\ t[2] \in 1..Len(txs) /\ t[2] <= TxCap
      BY TransactionsOf DEF SlotTxs
    <3> QED
      BY <3>2, ChainType DEF Lesser
  <2>2. ASSUME NEW n \in 1..m PROVE <<s, n>> \in SlotTxs(s)
    <3>1. n \in 1..Len(txs) /\ n <= TxCap
      BY <1>1, ChainType, IndexerAssumption DEF Lesser
    <3>2. <<s, n>> \in Transactions(chain, {s}) /\ <<s, n>>[2] = n
      BY <3>1, TransactionsOf
    <3> QED
      BY <3>1, <3>2 DEF SlotTxs
  <2> QED
    BY <2>1, <2>2
<1> HIDE DEF parts, m
<1>8. \A i \in 1..m : TxWork(parts[i], chain[s][i])
  BY <1>5, <1>6
<1>9. WorkFor(FlattenSeq(parts), {<<s, n>> : n \in 1..m})
  BY <1>1, <1>6, <1>8, WorkForSlot
<1> QED
  BY <1>3, <1>7, <1>9

\* What a callback does.
LEMMA CallbackWorkFor ==
  ASSUME chain \in Chains, NEW s \in Slots, NEW n \in 1..Len(chain[s])
  PROVE  WorkFor(CallbackWork(s, n), {<<s, n>>})
<1> DEFINE stored == Stored(s, n)
<1>1. stored \in Seq(Statement) /\ TxWork(stored, chain[s][n])
  BY StoredWork
<1>2. Persisting(s, n) = stored
  <2>1. WriteOrder(chain[s][n]) \in Seq(Event)
    BY ChainType, InWriteOrder
  <2>2. DOMAIN WriteOrder(chain[s][n]) = 1..Len(WriteOrder(chain[s][n]))
    BY <2>1
  <2> QED
    BY <2>2 DEF Persisting, Stored, LogOf, Apply
<1>3. stored \in Seq(WsStatement) /\ Saving \in Seq(WsStatement)
  <2>1. [kind |-> "save"] \in WsStatement /\ Statement \subseteq WsStatement
    BY DEF WsStatement
  <2> HIDE DEF stored
  <2> QED
    BY <1>1, <2>1 DEF Saving
<1>4. \A e : ~ In(Apply(e), Saving)
  <2>1. \A e : Apply(e) # [kind |-> "save"]
    <3>1. \A e : Apply(e).kind = "event" /\ [kind |-> "save"].kind = "save"
      BY ApplyOne
    <3> QED
      BY <3>1
  <2> QED
    BY <2>1 DEF Saving, In
<1> HIDE DEF stored
<1>5. TxWork(stored \o Saving, chain[s][n])
  BY <1>1, <1>3, <1>4, WorkAround
<1> QED
  BY <1>2, <1>5, WorkForOne DEF CallbackWork

-----------------------------------------------------------------------------
(* What transactions say of a row                                          *)

\* The lines of the whole chain.
Logs == Lines(chain, Transactions(chain, Slots))

\* A line of the chain is an event it logs, where its position says.
LEMMA LogsOf ==
  ASSUME chain \in Chains
  PROVE  \A p \in Logs :
           /\ p = <<p[1], p[2], p[3]>>
           /\ p[1] \in Slots /\ p[2] \in 1..Len(chain[p[1]])
           /\ p[3] \in 1..Len(chain[p[1]][p[2]])
           /\ Line(chain, p) \in Event /\ Line(chain, p) \in Logged(chain)
BY LinesOf DEF Logs

\* The lines of some transactions are lines of the chain.
LEMMA InLines ==
  ASSUME chain \in Chains, NEW txs \in SUBSET Transactions(chain, Slots)
  PROVE  Lines(chain, txs) = {p \in Logs : <<p[1], p[2]>> \in txs}
<1>1. ASSUME NEW p \in Lines(chain, txs) PROVE p \in Logs /\ <<p[1], p[2]>> \in txs
  BY LinesOf, LinesGrow DEF Logs
<1>2. ASSUME NEW p \in Logs, <<p[1], p[2]>> \in txs PROVE p \in Lines(chain, txs)
  <2>1. p = <<p[1], p[2], p[3]>> /\ p[3] \in 1..Len(chain[p[1]][p[2]])
    BY LogsOf
  <2>2. \A x, y : <<x, y>> \in txs => \A k \in 1..Len(chain[x][y]) :
          <<x, y, k>> \in Lines(chain, txs)
    BY LinesOf, Zenon
  <2> QED
    BY <1>2, <2>1, <2>2
<1> QED
  BY <1>1, <1>2

\* The lines that create or change a row, by position.
LEMMA OfLines ==
  ASSUME chain \in Chains, NEW txs \in SUBSET Transactions(chain, Slots), NEW id, NEW op
  PROVE  Of(id, op, txs) = {p \in Logs : /\ <<p[1], p[2]>> \in txs
                                         /\ Line(chain, p).id = id /\ Line(chain, p).op = op}
BY InLines DEF Of

\* Every line of a followed row up to a slot is in the transactions.
LEMMA FollowedLines ==
  ASSUME chain \in Chains, NEW ids, NEW slot \in Slots, NEW txs, Followed(ids, slot, txs),
         NEW p \in Logs, p[1] <= slot, Line(chain, p).id \in ids
  PROVE  /\ <<p[1], p[2]>> \in txs
         /\ Line(chain, p).op = "create" => Line(chain, p).needs \subseteq ids
<1>1. /\ p[1] \in Slots /\ p[2] \in 1..Len(chain[p[1]]) /\ p[1] \in 0..slot
  BY LogsOf, IndexerAssumption DEF Slots
<1>2. 0..slot \in SUBSET Slots
  BY IndexerAssumption DEF Slots
<1>3. Transactions(chain, 0..slot) \in SUBSET Transactions(chain, Slots)
  BY <1>2 DEF Transactions
<1>4. <<p[1], p[2]>> \in Transactions(chain, 0..slot)
  BY <1>1, <1>2, TransactionsOf
<1>5. p \in Lines(chain, Transactions(chain, 0..slot))
  BY <1>3, <1>4, InLines
<1> QED
  BY <1>5 DEF Followed

\* What is written before is of a slot that is not later.
LEMMA WrittenFirst ==
  ASSUME chain \in Chains, NEW p \in Logs, NEW q \in Logs, WrittenBefore(chain, p, q)
  PROVE  p[1] <= q[1]
<1>1. p[1] \in Nat /\ q[1] \in Nat
  BY LogsOf DEF Slots
<1> QED
  BY <1>1 DEF WrittenBefore

\* What the program's order says of a line.
LEMMA Ordered ==
  ASSUME chain \in Chains, InOrder(chain), NEW q \in Logs
  PROVE  /\ \A p \in Logs : Line(chain, p).id = Line(chain, q).id =>
              Line(chain, p).group = Line(chain, q).group
         /\ Line(chain, q).op = "create" => \A id \in Line(chain, q).needs :
              \E p \in Logs : /\ WrittenBefore(chain, p, q) /\ p[1] <= q[1]
                             /\ Line(chain, p).op = "create" /\ Line(chain, p).id = id
         /\ Line(chain, q).op = "status" =>
              \E p \in Logs : /\ WrittenBefore(chain, p, q) /\ p[1] <= q[1]
                             /\ Line(chain, p).op = "create"
                             /\ Line(chain, p).id = Line(chain, q).id
<1>1. \A p \in Logs : Line(chain, p).id = Line(chain, q).id =>
        Line(chain, p).group = Line(chain, q).group
  BY DEF InOrder, Logs
<1>2. \A id \in IF Line(chain, q).op = "create" THEN Line(chain, q).needs ELSE {Line(chain, q).id} :
        \E p \in Logs : /\ WrittenBefore(chain, p, q)
                       /\ Line(chain, p).op = "create" /\ Line(chain, p).id = id
  BY DEF InOrder, Logs
<1>3. \A p \in Logs : WrittenBefore(chain, p, q) => p[1] <= q[1]
  BY WrittenFirst
<1> QED
  BY <1>1, <1>2, <1>3

\* Of some lines one is the last.
LEMMA LastLine ==
  ASSUME chain \in Chains, NEW S \in SUBSET Logs, S # {}
  PROVE  \E p \in S : \A q \in S : q = p \/ Later(p, q)
<1>1. \A p \in S : /\ p = <<p[1], p[2], p[3]>> /\ p[1] \in Slots /\ p[2] \in 1..Len(chain[p[1]])
                   /\ p[3] \in 1..Len(chain[p[1]][p[2]])
  BY LogsOf
<1> DEFINE A == {p[1] + 1 : p \in S}
<1>2. A \in SUBSET (1..MaxSlot + 1) /\ A # {} /\ MaxSlot + 1 \in Nat
  BY <1>1, IndexerAssumption DEF Slots
<1>3. \E a \in A : \A x \in A : x <= a
  <2> HIDE DEF A
  <2> QED
    BY <1>2, LastNumber
<1>4. PICK a \in S : \A x \in S : x[1] + 1 <= a[1] + 1
  BY <1>3
<1>5. \A x \in S : x[1] <= a[1]
  BY <1>1, <1>4 DEF Slots
<1> DEFINE B == {p[2] : p \in {x \in S : x[1] = a[1]}}
<1>6. B \in SUBSET (1..Len(chain[a[1]])) /\ B # {} /\ Len(chain[a[1]]) \in Nat
  BY <1>1, ChainType
<1>7. \E b \in B : \A x \in B : x <= b
  <2> HIDE DEF B
  <2> QED
    BY <1>6, LastNumber
<1>8. PICK b \in S : b[1] = a[1] /\ \A x \in S : x[1] = a[1] => x[2] <= b[2]
  BY <1>7
<1> DEFINE C == {p[3] : p \in {x \in S : x[1] = a[1] /\ x[2] = b[2]}}
<1>9. C \in SUBSET (1..Len(chain[a[1]][b[2]])) /\ C # {} /\ Len(chain[a[1]][b[2]]) \in Nat
  BY <1>1, <1>8, ChainType
<1>10. \E c \in C : \A x \in C : x <= c
  <2> HIDE DEF C
  <2> QED
    BY <1>9, LastNumber
<1>11. PICK c \in S : /\ c[1] = a[1] /\ c[2] = b[2]
                      /\ \A x \in S : x[1] = a[1] /\ x[2] = b[2] => x[3] <= c[3]
  BY <1>10
<1>12. ASSUME NEW q \in S PROVE q = c \/ Later(c, q)
  <2>1. /\ q[1] \in Nat /\ q[2] \in Nat /\ q[3] \in Nat /\ c[1] \in Nat /\ c[2] \in Nat /\ c[3] \in Nat
        /\ q = <<q[1], q[2], q[3]>> /\ c = <<c[1], c[2], c[3]>>
    BY <1>1 DEF Slots
  <2>2. q[1] < c[1] \/ (q[1] = c[1] /\ q[2] < c[2]) \/ (q[1] = c[1] /\ q[2] = c[2] /\ q[3] < c[3])
        \/ (q[1] = c[1] /\ q[2] = c[2] /\ q[3] = c[3])
    BY <1>5, <1>8, <1>11, <2>1
  <2> QED
    BY <2>1, <2>2 DEF Later
<1> QED
  BY <1>12

\* What transactions say of a row.
LEMMA Said ==
  ASSUME chain \in Chains, NEW txs \in SUBSET Transactions(chain, Slots), NEW id
  PROVE  /\ Of(id, "create", txs) = {} => SaidBy(id, txs) = Absent
         /\ Of(id, "status", txs) = {} => \A p \in Of(id, "create", txs) :
              SaidBy(id, txs) = Line(chain, p).status
         /\ Of(id, "create", txs) # {} => \A p \in Of(id, "status", txs) :
              (\A q \in Of(id, "status", txs) : q = p \/ Later(p, q)) =>
                SaidBy(id, txs) = Line(chain, p).status
         /\ Of(id, "create", txs) # {} => SaidBy(id, txs) # Absent
<1> DEFINE created == Of(id, "create", txs)
           changed == Of(id, "status", txs)
           IsLast(p) == \A q \in changed : q = p \/ Later(p, q)
           last == CHOOSE p \in changed : IsLast(p)
           first == CHOOSE p \in created : TRUE
<1>1. SaidBy(id, txs) = IF created = {} THEN Absent
                        ELSE IF changed = {} THEN Line(chain, first).status
                        ELSE Line(chain, last).status
  BY DEF SaidBy
<1>2. created \in SUBSET Logs /\ changed \in SUBSET Logs
      /\ \A p \in created : Line(chain, p).id = id /\ Line(chain, p).op = "create"
  <2>1. created = {p \in Logs : /\ <<p[1], p[2]>> \in txs
                                /\ Line(chain, p).id = id /\ Line(chain, p).op = "create"}
    BY OfLines
  <2>2. changed = {p \in Logs : /\ <<p[1], p[2]>> \in txs
                                /\ Line(chain, p).id = id /\ Line(chain, p).op = "status"}
    BY OfLines
  <2> QED
    BY <2>1, <2>2
<1>3. created # {} => first \in created
  OBVIOUS
<1>4. changed # {} => last \in changed /\ IsLast(last)
  <2>1. changed # {} => \E p \in changed : IsLast(p)
    BY <1>2, LastLine
  <2> QED
    BY <2>1
<1> HIDE DEF created, changed, last, first
<1>5. \A p \in Logs : Line(chain, p) \in Event /\ Line(chain, p) \in Logged(chain)
                      /\ p[1] \in Nat /\ p[2] \in Nat /\ p[3] \in Nat
  BY LogsOf DEF Slots
<1>6. ASSUME NEW p \in created PROVE Line(chain, first).status = Line(chain, p).status
  BY <1>2, <1>3, <1>5, CreationsAssumption
<1>7. ASSUME NEW p \in changed, IsLast(p) PROVE p = last
  <2>1. last = p \/ Later(p, last)
    BY <1>4, <1>7
  <2>2. last = p \/ Later(last, p)
    BY <1>4
  <2>3. last \in Logs /\ p \in Logs
    BY <1>2, <1>4
  <2> QED
    BY <1>5, <2>1, <2>2, <2>3 DEF Later
<1>8. \A e \in Event : e.status # Absent
  BY DEF Event, Statuses, Absent
<1>9. created # {} => SaidBy(id, txs) # Absent
  BY <1>1, <1>2, <1>3, <1>4, <1>5, <1>8
<1>10. ASSUME created # {}, NEW p \in changed, IsLast(p) PROVE SaidBy(id, txs) = Line(chain, p).status
  BY <1>1, <1>7, <1>10
<1>11. ASSUME changed = {}, NEW p \in created PROVE SaidBy(id, txs) = Line(chain, p).status
  BY <1>1, <1>6, <1>11
<1>12. created = {} => SaidBy(id, txs) = Absent
  BY <1>1
<1> QED
  BY <1>9, <1>10, <1>11, <1>12 DEF created, changed

-----------------------------------------------------------------------------
(* Work ahead of a row                                                     *)

\* The events that create a row and those that change its status.
Creates(id) == {e \in Event : e.id = id /\ e.op = "create"}
Changes(id) == {e \in Event : e.id = id /\ e.op = "status"}

\* The events that create another row with its name and version.
Rivaling(id) == {e \in Event : e.id \in Rivals(id) /\ e.op = "create"}

\* Until a row is there nothing has its name and version.
Free(table, id) == table[id] = Absent => \A o \in Rivals(id) : table[o] = Absent

\* Work ahead of a row that will leave it with a status: a change comes after a
\* creation of the row, and so does the creation of a rival, a creation after one of
\* each of its parents, unless those are there, and the last change or, when there is
\* none, the creation has the status.
AheadRow(table, id, ids, work, st) ==
  /\ Free(table, id)
  /\ table[id] = Absent =>
       /\ Covered(Applying(Changes(id)), Applying(Creates(id)), work)
       /\ Covered(Applying(Rivaling(id)), Applying(Creates(id)), work)
  /\ \A p \in ids : table[p] = Absent =>
       Covered(Applying({e \in Creates(id) : p \in e.needs}), Applying(Creates(p)), work)
  /\ IF \E e \in Changes(id) : In(Apply(e), work)
       THEN \E e \in Changes(id) : e.status = st /\ LastIs(Applying(Changes(id)), work, Apply(e))
     ELSE IF table[id] = Absent /\ \E e \in Creates(id) : In(Apply(e), work)
       THEN \A e \in Creates(id) : In(Apply(e), work) => e.status = st
     ELSE table[id] = st

\* The transactions that were seen, and those of a later slot that are seen now.
Seen(ids, slot, before, now) ==
  /\ before \in SUBSET Transactions(chain, Slots) /\ now \in SUBSET Transactions(chain, Slots)
  /\ \A t \in before : \A u \in now : t[1] < u[1]
  /\ \A t \in before \cup now : t[1] <= slot
  /\ Followed(ids, slot, before \cup now)

\* The tables are what was seen before says of a row, but for one that was created now.
AfterRow(table, id, before, now) ==
  /\ Free(table, id)
  /\ Of(id, "create", before) # {} => table[id] # Absent
  /\ Of(id, "status", now) = {} =>
       \/ table[id] = SaidBy(id, before)
       \/ /\ Of(id, "create", before) = {}
          /\ \E p \in Of(id, "create", now) : table[id] = Line(chain, p).status

\* The lines of a row seen before or now: what it was created with comes with them.
SeenOf(id, before, now) ==
  /\ Of(id, "create", before \cup now) = Of(id, "create", before) \cup Of(id, "create", now)
  /\ Of(id, "status", before \cup now) = Of(id, "status", before) \cup Of(id, "status", now)
  /\ Of(id, "status", before) # {} => Of(id, "create", before) # {}
  /\ Of(id, "status", now) # {} => Of(id, "create", before \cup now) # {}

\* What a line refers to was created in a slot up to its own, so it was seen as well.
LEMMA SeenLines ==
  ASSUME chain \in Chains, InOrder(chain), NEW ids, NEW slot \in Slots, NEW before, NEW now,
         Seen(ids, slot, before, now), NEW id \in ids
  PROVE  /\ SeenOf(id, before, now)
         /\ \A p \in Logs, q \in Logs :
              /\ <<q[1], q[2]>> \in before \cup now
              /\ p[1] <= q[1] /\ Line(chain, p).op = "create" /\ Line(chain, p).id = id
              => p \in Of(id, "create", before \cup now)
<1> DEFINE all == before \cup now
<1>1. before \in SUBSET Transactions(chain, Slots) /\ now \in SUBSET Transactions(chain, Slots)
      /\ all \in SUBSET Transactions(chain, Slots)
  BY DEF Seen
<1>2. \A op : /\ Of(id, op, before) = {p \in Logs : /\ <<p[1], p[2]>> \in before
                                                   /\ Line(chain, p).id = id /\ Line(chain, p).op = op}
              /\ Of(id, op, now) = {p \in Logs : /\ <<p[1], p[2]>> \in now
                                                /\ Line(chain, p).id = id /\ Line(chain, p).op = op}
              /\ Of(id, op, all) = {p \in Logs : /\ <<p[1], p[2]>> \in all
                                                /\ Line(chain, p).id = id /\ Line(chain, p).op = op}
  <2> HIDE DEF all
  <2> QED
    BY <1>1, OfLines
<1>3. ASSUME NEW op PROVE Of(id, op, all) = Of(id, op, before) \cup Of(id, op, now)
  <2> DEFINE Is(p) == Line(chain, p).id = id /\ Line(chain, p).op = op
  <2>1. /\ Of(id, op, before) = {p \in Logs : <<p[1], p[2]>> \in before /\ Is(p)}
        /\ Of(id, op, now) = {p \in Logs : <<p[1], p[2]>> \in now /\ Is(p)}
        /\ Of(id, op, all) = {p \in Logs : <<p[1], p[2]>> \in all /\ Is(p)}
    <3> HIDE DEF all
    <3> QED
      BY <1>2, Zenon
  <2> HIDE DEF Is
  <2> QED
    BY <2>1
<1>4. \A p \in Logs : p[1] \in Slots /\ p[1] \in Nat
  BY LogsOf DEF Slots
<1>5. ASSUME NEW p \in Logs, NEW q \in Logs, <<q[1], q[2]>> \in all, p[1] <= q[1],
             Line(chain, p).op = "create", Line(chain, p).id = id
      PROVE  /\ p \in Of(id, "create", all)
             /\ <<q[1], q[2]>> \in before => p \in Of(id, "create", before)
  <2>1. <<q[1], q[2]>>[1] = q[1]
    OBVIOUS
  <2>2. q[1] <= slot
    BY <1>5, <2>1 DEF Seen
  <2>3. p[1] <= slot
    BY <1>4, <1>5, <2>2 DEF Slots
  <2>4. <<p[1], p[2]>> \in all
    <3> HIDE DEF all
    <3>1. Followed(ids, slot, all)
      BY DEF Seen, all
    <3> QED
      BY <1>5, <2>3, <3>1, FollowedLines
  <2>5. p \in Of(id, "create", all)
    BY <1>2, <1>5, <2>4
  <2>6. ASSUME <<q[1], q[2]>> \in before PROVE <<p[1], p[2]>> \in before
    <3>1. SUFFICES ASSUME <<p[1], p[2]>> \in now PROVE FALSE
      BY <2>4
    <3>2. <<q[1], q[2]>>[1] < <<p[1], p[2]>>[1]
      BY <2>6, <3>1, Zenon DEF Seen
    <3>3. <<p[1], p[2]>>[1] = p[1]
      OBVIOUS
    <3> QED
      BY <1>4, <1>5, <2>1, <3>2, <3>3
  <2> QED
    BY <1>2, <1>5, <2>5, <2>6
<1> HIDE DEF all
<1>6. before \subseteq all /\ now \subseteq all
  BY DEF all
<1>7. ASSUME NEW q \in Logs, <<q[1], q[2]>> \in all, Line(chain, q).id = id, Line(chain, q).op = "status"
      PROVE  /\ Of(id, "create", all) # {}
             /\ <<q[1], q[2]>> \in before => Of(id, "create", before) # {}
  <2>1. PICK p \in Logs : p[1] <= q[1] /\ Line(chain, p).op = "create"
                          /\ Line(chain, p).id = Line(chain, q).id
    BY <1>7, Ordered
  <2> QED
    BY <1>5, <1>7, <2>1
<1>8. Of(id, "status", before) # {} => Of(id, "create", before) # {}
  BY <1>2, <1>6, <1>7
<1>9. Of(id, "status", now) # {} => Of(id, "create", all) # {}
  BY <1>2, <1>6, <1>7
<1> QED
  BY <1>3, <1>5, <1>8, <1>9 DEF all, SeenOf

\* What refers to a row comes after its creation, unless the row is there.
LEMMA AheadCovered ==
  ASSUME chain \in Chains, InOrder(chain), NEW ids, NEW slot \in Slots, NEW before, NEW now,
         Seen(ids, slot, before, now), NEW work, WorkFor(work, now), NEW id \in ids,
         Of(id, "create", before) # {} => rows[id] # Absent, rows[id] = Absent,
         NEW E \in SUBSET Event,
         \A q \in Logs : <<q[1], q[2]>> \in now /\ Line(chain, q) \in E =>
           \E p \in Logs : /\ WrittenBefore(chain, p, q) /\ p[1] <= q[1]
                          /\ Line(chain, p).op = "create" /\ Line(chain, p).id = id
  PROVE  Covered(Applying(E), Applying(Creates(id)), work)
<1>1. now \in SUBSET Transactions(chain, Slots)
  BY DEF Seen
<1>2. Lines(chain, now) = {p \in Logs : <<p[1], p[2]>> \in now}
  BY <1>1, InLines
<1>3. ASSUME NEW q \in Lines(chain, now), Line(chain, q) \in E
      PROVE  \E p \in Lines(chain, now) : /\ Line(chain, p) \in Creates(id)
                                          /\ WrittenBefore(chain, p, q)
  <2>1. q \in Logs /\ <<q[1], q[2]>> \in now
    BY <1>2
  <2>2. PICK p \in Logs : /\ WrittenBefore(chain, p, q) /\ p[1] <= q[1]
                          /\ Line(chain, p).op = "create" /\ Line(chain, p).id = id
    BY <1>3, <2>1
  <2>3. p \in Of(id, "create", before \cup now)
    BY <2>1, <2>2, SeenLines
  <2>4. p \in Of(id, "create", now)
    <3>1. SeenOf(id, before, now)
      BY SeenLines
    <3> QED
      BY <2>3, <3>1 DEF SeenOf
  <2>5. p \in Lines(chain, now) /\ Line(chain, p) \in Event
    BY <2>2, <2>4, LogsOf DEF Of
  <2> QED
    BY <2>2, <2>5 DEF Creates
<1>4. Creates(id) \in SUBSET Event
  BY DEF Creates
<1> QED
  BY <1>3, <1>4 DEF WorkFor

\* The statements of what is seen now leave each row with what is said of it.
LEMMA AheadStart ==
  ASSUME chain \in Chains, InOrder(chain), NEW ids, NEW slot \in Slots, NEW before, NEW now,
         Seen(ids, slot, before, now), NEW work, WorkFor(work, now),
         \A p \in ids : AfterRow(rows, p, before, now), NEW id \in ids
  PROVE  AheadRow(rows, id, ids, work, SaidBy(id, before \cup now))
<1> DEFINE all == before \cup now
<1>1. before \in SUBSET Transactions(chain, Slots) /\ now \in SUBSET Transactions(chain, Slots)
      /\ all \in SUBSET Transactions(chain, Slots)
  BY DEF Seen
<1>2. /\ Changes(id) \in SUBSET Event /\ Rivaling(id) \in SUBSET Event
      /\ \A p : {e \in Creates(id) : p \in e.needs} \in SUBSET Event
  BY DEF Changes, Creates, Rivaling
<1>3. \A p \in ids : Of(p, "create", before) # {} => rows[p] # Absent
  BY DEF AfterRow
<1>4. ASSUME rows[id] = Absent
      PROVE  Covered(Applying(Changes(id)), Applying(Creates(id)), work)
  <2>1. \A q \in Logs : Line(chain, q) \in Changes(id) =>
          \E p \in Logs : /\ WrittenBefore(chain, p, q) /\ p[1] <= q[1]
                         /\ Line(chain, p).op = "create" /\ Line(chain, p).id = id
    BY Ordered DEF Changes
  <2> QED
    BY <1>2, <1>3, <1>4, <2>1, AheadCovered
<1>5. ASSUME NEW p \in ids, rows[p] = Absent
      PROVE  Covered(Applying({e \in Creates(id) : p \in e.needs}), Applying(Creates(p)), work)
  <2> DEFINE E == {e \in Creates(id) : p \in e.needs}
  <2>1. \A q \in Logs : Line(chain, q) \in E =>
          \E x \in Logs : /\ WrittenBefore(chain, x, q) /\ x[1] <= q[1]
                         /\ Line(chain, x).op = "create" /\ Line(chain, x).id = p
    BY Ordered DEF Creates
  <2>2. E \in SUBSET Event
    BY <1>2
  <2> HIDE DEF E
  <2>3. Covered(Applying(E), Applying(Creates(p)), work)
    BY <1>3, <1>5, <2>1, <2>2, AheadCovered
  <2> QED
    BY <2>3 DEF E
<1>6. /\ Of(id, "create", all) = Of(id, "create", before) \cup Of(id, "create", now)
      /\ Of(id, "status", all) = Of(id, "status", before) \cup Of(id, "status", now)
      /\ Of(id, "status", before) # {} => Of(id, "create", before) # {}
      /\ Of(id, "status", now) # {} => Of(id, "create", all) # {}
  <2>1. SeenOf(id, before, now)
    BY SeenLines
  <2> QED
    BY <2>1 DEF SeenOf
<1>7. \A op : Of(id, op, now) = {p \in Lines(chain, now) : Line(chain, p).id = id
                                                         /\ Line(chain, p).op = op}
  BY DEF Of
<1>8. \A p \in Logs : Line(chain, p) \in Event /\ p[1] \in Nat
  BY LogsOf DEF Slots
<1>9. Lines(chain, now) = {p \in Logs : <<p[1], p[2]>> \in now}
      /\ Lines(chain, before) = {p \in Logs : <<p[1], p[2]>> \in before}
  BY <1>1, InLines
<1>10. (\E e \in Changes(id) : In(Apply(e), work)) <=> Of(id, "status", now) # {}
  <2>1. \A e : In(Apply(e), work) <=> \E p \in Lines(chain, now) : Line(chain, p) = e
    BY DEF WorkFor
  <2>2. ASSUME NEW e \in Changes(id), In(Apply(e), work) PROVE Of(id, "status", now) # {}
    BY <1>7, <2>1, <2>2 DEF Changes
  <2>3. ASSUME NEW p \in Of(id, "status", now) PROVE \E e \in Changes(id) : In(Apply(e), work)
    <3>1. p \in Lines(chain, now) /\ Line(chain, p) \in Changes(id)
      BY <1>7, <1>8, <1>9 DEF Changes
    <3> QED
      BY <2>1, <3>1
  <2> QED
    BY <2>2, <2>3
<1>11. \A e \in Creates(id) : In(Apply(e), work) => \E p \in Of(id, "create", now) : Line(chain, p) = e
  <2>1. \A e : In(Apply(e), work) <=> \E p \in Lines(chain, now) : Line(chain, p) = e
    BY DEF WorkFor
  <2> QED
    BY <1>7, <2>1 DEF Creates
<1>12. Of(id, "create", now) # {} => \E e \in Creates(id) : In(Apply(e), work)
  <2>1. \A e : In(Apply(e), work) <=> \E p \in Lines(chain, now) : Line(chain, p) = e
    BY DEF WorkFor
  <2> QED
    BY <1>7, <1>8, <1>9, <2>1 DEF Creates
<1> HIDE DEF all
<1>13. /\ Of(id, "create", all) = {} => SaidBy(id, all) = Absent
       /\ Of(id, "status", all) = {} => \A p \in Of(id, "create", all) :
            SaidBy(id, all) = Line(chain, p).status
       /\ Of(id, "create", all) # {} => \A p \in Of(id, "status", all) :
            (\A q \in Of(id, "status", all) : q = p \/ Later(p, q)) =>
              SaidBy(id, all) = Line(chain, p).status
  BY <1>1, Said
<1>14. ASSUME Of(id, "status", now) # {}
       PROVE  \E e \in Changes(id) : /\ e.status = SaidBy(id, all)
                                     /\ LastIs(Applying(Changes(id)), work, Apply(e))
  <2>1. Of(id, "status", now) \in SUBSET Logs
    BY <1>7, <1>9
  <2>2. PICK p \in Of(id, "status", now) : \A q \in Of(id, "status", now) : q = p \/ Later(p, q)
    BY <1>14, <2>1, LastLine
  <2>3. /\ p \in Lines(chain, now) /\ p \in Logs /\ Line(chain, p) \in Changes(id)
        /\ Line(chain, p).id = id
    BY <1>7, <1>8, <1>9, <2>2 DEF Changes
  <2>4. ASSUME NEW q \in Lines(chain, now), Line(chain, q) \in Changes(id)
        PROVE  (q = p \/ Later(p, q)) /\ Line(chain, q).group = Line(chain, p).group
    <3>1. q \in Of(id, "status", now) /\ q \in Logs /\ Line(chain, q).id = id
      BY <1>7, <1>9, <2>4 DEF Changes
    <3> QED
      BY <2>2, <2>3, <3>1, Ordered
  <2>5. LastIs(Applying(Changes(id)), work, Apply(Line(chain, p)))
    BY <1>2, <2>3, <2>4 DEF WorkFor
  <2>6. ASSUME NEW q \in Of(id, "status", all) PROVE q = p \/ Later(p, q)
    <3>1. CASE q \in Of(id, "status", now)
      BY <2>2, <3>1
    <3>2. CASE q \in Of(id, "status", before)
      <4>1. <<q[1], q[2]>> \in before
        BY <1>9, <3>2 DEF Of
      <4>2. <<p[1], p[2]>> \in now
        BY <1>9, <2>3
      <4>3. <<q[1], q[2]>>[1] < <<p[1], p[2]>>[1]
        BY <4>1, <4>2, Zenon DEF Seen
      <4>4. q[1] < p[1]
        BY <4>3
      <4> QED
        BY <4>4 DEF Later
    <3> QED
      BY <1>6, <3>1, <3>2
  <2>7. SaidBy(id, all) = Line(chain, p).status
    BY <1>6, <1>13, <1>14, <2>2, <2>6
  <2> QED
    BY <2>3, <2>5, <2>7
<1>15. ASSUME Of(id, "status", now) = {}, rows[id] = Absent, \E e \in Creates(id) : In(Apply(e), work),
              NEW e \in Creates(id), In(Apply(e), work)
       PROVE  e.status = SaidBy(id, all)
  <2>1. Of(id, "status", all) = {}
    BY <1>3, <1>6, <1>15
  <2> QED
    BY <1>6, <1>11, <1>13, <1>15, <2>1
<1>16. ASSUME Of(id, "status", now) = {},
              ~ (rows[id] = Absent /\ \E e \in Creates(id) : In(Apply(e), work))
       PROVE  rows[id] = SaidBy(id, all)
  <2>1. CASE rows[id] = Absent
    <3>1. Of(id, "create", all) = {}
      BY <1>3, <1>6, <1>12, <1>16, <2>1
    <3> QED
      BY <1>13, <2>1, <3>1
  <2>2. CASE rows[id] # Absent /\ rows[id] = SaidBy(id, before)
    <3>1. /\ Of(id, "create", before) = {} => SaidBy(id, before) = Absent
          /\ Of(id, "status", before) = {} => \A p \in Of(id, "create", before) :
               SaidBy(id, before) = Line(chain, p).status
      BY <1>1, Said
    <3>2. Of(id, "create", before) # {} /\ Of(id, "create", all) # {}
      BY <1>6, <2>2, <3>1
    <3>3. Of(id, "status", all) = Of(id, "status", before)
      BY <1>6, <1>16
    <3>4. CASE Of(id, "status", all) = {}
      BY <1>6, <1>13, <2>2, <3>1, <3>2, <3>3, <3>4
    <3>5. CASE Of(id, "status", all) # {}
      BY <2>2, <3>2, <3>3, <3>5 DEF SaidBy
    <3> QED
      BY <3>4, <3>5
  <2>3. CASE rows[id] # Absent /\ rows[id] # SaidBy(id, before)
    <3>1. PICK p \in Of(id, "create", now) :
            rows[id] = Line(chain, p).status /\ Of(id, "create", before) = {}
      BY <1>16, <2>3 DEF AfterRow
    <3>2. Of(id, "status", all) = {}
      BY <1>6, <1>16, <3>1
    <3> QED
      BY <1>6, <1>13, <3>1, <3>2
  <2> QED
    BY <2>1, <2>2, <2>3
<1>17. ASSUME rows[id] = Absent
       PROVE  Covered(Applying(Rivaling(id)), Applying(Creates(id)), work)
  <2>1. ASSUME NEW q \in Logs, <<q[1], q[2]>> \in now, Line(chain, q) \in Rivaling(id)
        PROVE  \E p \in Logs : /\ WrittenBefore(chain, p, q) /\ p[1] <= q[1]
                              /\ Line(chain, p).op = "create" /\ Line(chain, p).id = id
    <3> DEFINE o == Line(chain, q).id
    <3>1. o \in Rivals(id) /\ Line(chain, q).op = "create"
      BY <2>1 DEF Rivaling
    <3>2. <<q[1], q[2]>> \in all
      BY <2>1 DEF all
    <3>3. q \in Of(o, "create", all)
      BY <1>1, <2>1, <3>1, <3>2, OfLines
    <3> HIDE DEF o
    <3>4. Followed(ids, slot, all)
      BY DEF Seen, all
    <3>5. PICK p \in Of(id, "create", all) : WrittenBefore(chain, p, q)
      BY <3>1, <3>3, <3>4 DEF Followed
    <3>6. p \in Logs /\ Line(chain, p).op = "create" /\ Line(chain, p).id = id
      <4>1. Of(id, "create", all) = {x \in Logs : /\ <<x[1], x[2]>> \in all
                                                  /\ Line(chain, x).id = id
                                                  /\ Line(chain, x).op = "create"}
        BY <1>1, OfLines
      <4> QED
        BY <3>5, <4>1
    <3> QED
      BY <2>1, <3>5, <3>6, WrittenFirst
  <2> QED
    BY <1>2, <1>3, <1>17, <2>1, AheadCovered
<1>18. Free(rows, id)
  BY DEF AfterRow
<1>19. AheadRow(rows, id, ids, work, SaidBy(id, all))
  BY <1>4, <1>5, <1>10, <1>14, <1>15, <1>16, <1>17, <1>18 DEF AheadRow
<1> QED
  BY <1>19 DEF all

\* What is left after the first statement.
LEMMA AfterHead ==
  ASSUME NEW T, NEW s \in Seq(T), s # <<>>
  PROVE  /\ \A E, D : Covered(E, D, s) => Head(s) \notin E /\ (Head(s) \notin D => Covered(E, D, Tail(s)))
         /\ \A E, x : LastIs(E, s, x) =>
              IF \E y \in E : In(y, Tail(s)) THEN LastIs(E, Tail(s), x) ELSE x = Head(s)
<1>1. /\ Len(s) \in Nat \ {0} /\ Head(s) = s[1] /\ Len(Tail(s)) = Len(s) - 1
      /\ \A k \in 1..Len(Tail(s)) : Tail(s)[k] = s[k + 1] /\ k + 1 \in 1..Len(s)
  OBVIOUS
<1>2. ASSUME NEW E, NEW D, Covered(E, D, s) PROVE Head(s) \notin E
  <2>1. SUFFICES ASSUME s[1] \in E PROVE FALSE
    BY <1>1
  <2>2. \E l \in 1..1 - 1 : s[l] \in D
    <3>1. 1 \in 1..Len(s)
      BY <1>1
    <3> QED
      BY <1>2, <2>1, <3>1 DEF Covered
  <2> QED
    BY <2>2
<1>3. ASSUME NEW E, NEW D, Covered(E, D, s), Head(s) \notin D PROVE Covered(E, D, Tail(s))
  <2>1. SUFFICES ASSUME NEW k \in 1..Len(Tail(s)), Tail(s)[k] \in E
                 PROVE  \E l \in 1..k - 1 : Tail(s)[l] \in D
    BY DEF Covered
  <2> DEFINE m == k + 1
  <2>2. m \in 1..Len(s) /\ s[m] \in E /\ m - 1 = k /\ k \in Nat
    BY <1>1, <2>1
  <2> HIDE DEF m
  <2>3. PICK l \in 1..m - 1 : s[l] \in D
    BY <1>3, <2>2 DEF Covered
  <2>4. l # 1
    BY <1>1, <1>3, <2>3
  <2>5. l - 1 \in 1..k - 1 /\ l - 1 \in 1..Len(Tail(s)) /\ l - 1 + 1 = l
    BY <1>1, <2>1, <2>2, <2>3, <2>4
  <2> QED
    BY <1>1, <2>3, <2>5
<1>4. ASSUME NEW E, NEW x, LastIs(E, s, x)
      PROVE  IF \E y \in E : In(y, Tail(s)) THEN LastIs(E, Tail(s), x) ELSE x = Head(s)
  <2>1. PICK k \in 1..Len(s) : s[k] = x /\ x \in E /\ \A l \in k + 1..Len(s) : s[l] \notin E
    BY <1>4 DEF LastIs
  <2>2. CASE k = 1
    <3>1. ASSUME NEW j \in 1..Len(Tail(s)) PROVE Tail(s)[j] \notin E
      <4>1. j + 1 \in k + 1..Len(s)
        BY <1>1, <2>2
      <4> QED
        BY <1>1, <2>1, <4>1
    <3>2. ~ \E y \in E : In(y, Tail(s))
      BY <3>1 DEF In
    <3> QED
      BY <1>1, <2>1, <2>2, <3>2
  <2>3. CASE k # 1
    <3> DEFINE j == k - 1
    <3>1. j \in 1..Len(Tail(s)) /\ j + 1 = k
      BY <1>1, <2>3
    <3>2. Tail(s)[j] = x
      BY <1>1, <2>1, <3>1
    <3>3. ASSUME NEW l \in j + 1..Len(Tail(s)) PROVE Tail(s)[l] \notin E
      <4>1. l \in 1..Len(Tail(s)) /\ l + 1 \in k + 1..Len(s)
        BY <1>1, <3>1
      <4> QED
        BY <1>1, <2>1, <4>1
    <3> HIDE DEF j
    <3>4. LastIs(E, Tail(s), x)
      BY <2>1, <3>1, <3>2, <3>3 DEF LastIs
    <3>5. \E y \in E : In(y, Tail(s))
      BY <2>1, <3>1, <3>2 DEF In
    <3> QED
      BY <3>4, <3>5
  <2> QED
    BY <2>2, <2>3
<1> QED
  BY <1>2, <1>3, <1>4

\* What an event does to a row.
LEMMA AppliedTo ==
  ASSUME NEW r \in [Ids -> Row], NEW e \in Event, NEW id \in Ids
  PROVE  /\ e.id # id => ApplyEvent(r, e)[id] = r[id]
         /\ e \in Creates(id) /\ r[id] # Absent => ApplyEvent(r, e)[id] = r[id]
         /\ e \in Creates(id) => ApplyEvent(r, e)[id] \in {r[id], e.status}
         /\ e \in Creates(id) /\ r[id] = Absent /\ (\A p \in e.needs : r[p] # Absent)
            /\ Free(r, id) => ApplyEvent(r, e)[id] = e.status
         /\ e \in Changes(id) /\ r[id] # Absent => ApplyEvent(r, e)[id] = e.status
         /\ e.id = id => e \in Creates(id) \/ e \in Changes(id)
         /\ ~ (e \in Creates(id) /\ e \in Changes(id))
         /\ e.status # Absent
<1>1. e.id \in Ids /\ e.op \in {"create", "status"} /\ e.status # Absent
  BY DEF Event, Statuses, Absent
<1>2. CASE e.op = "create"
  BY <1>1, <1>2 DEF ApplyEvent, Upsert, References, Unique, Free, Creates, Changes
<1>3. CASE e.op = "status"
  BY <1>1, <1>3 DEF ApplyEvent, Update, Creates, Changes
<1> QED
  BY <1>1, <1>2, <1>3

\* A creation that is ahead of a row makes it.
LEMMA AheadMade ==
  ASSUME NEW r \in [Ids -> Row], NEW ids \in SUBSET Ids, NEW id \in ids, NEW st,
         NEW T, NEW work \in Seq(T), work # <<>>, NEW e \in Creates(id), Head(work) = Apply(e),
         e.needs \subseteq ids, AheadRow(r, id, ids, work, st)
  PROVE  r[id] = Absent => ApplyEvent(r, e)[id] = e.status /\ e.status # Absent
<1>1. ASSUME NEW p \in e.needs PROVE r[p] # Absent
  <2> DEFINE E == {d \in Creates(id) : p \in d.needs}
  <2>1. e \in E
    BY <1>1
  <2>2. p \in ids
    BY <1>1
  <2>3. r[p] = Absent => Covered(Applying(E), Applying(Creates(p)), work)
    BY <2>2 DEF AheadRow
  <2> HIDE DEF E
  <2>4. Head(work) \in Applying(E)
    BY <2>1, ApplyOne
  <2> QED
    BY <2>3, <2>4, AfterHead
<1>2. e \in Event /\ Free(r, id)
  BY DEF Creates, AheadRow
<1> QED
  BY <1>1, <1>2, AppliedTo

\* A statement leaves the rest ahead of the row.
LEMMA AheadStep ==
  ASSUME NEW r \in [Ids -> Row], NEW next \in [Ids -> Row],
         NEW ids \in SUBSET Ids, NEW id \in ids, NEW said,
         NEW T, NEW work \in Seq(T), work # <<>>,
         \A p \in ids : AheadRow(r, p, ids, work, said[p]),
         \/ Head(work).kind # "event" /\ next = r
         \/ \E e \in Event : /\ Head(work) = Apply(e) /\ next = ApplyEvent(r, e)
                             /\ e.op = "create" /\ e.id \in ids => e.needs \subseteq ids
  PROVE  AheadRow(next, id, ids, Tail(work), said[id])
<1> DEFINE s == Head(work)
           rest == Tail(work)
           st == said[id]
<1>1. rest \in Seq(T) /\ \A x : In(x, work) <=> x = s \/ In(x, rest)
  BY InTail
<1>2. /\ \A E, D : Covered(E, D, work) => s \notin E /\ (s \notin D => Covered(E, D, rest))
      /\ \A E, x : LastIs(E, work, x) =>
           IF \E y \in E : In(y, rest) THEN LastIs(E, rest, x) ELSE x = s
  BY AfterHead
<1>3. AheadRow(r, id, ids, work, st)
  OBVIOUS
<1> HIDE DEF s, rest, st
<1>4. \A E, y : y \in Applying(E) <=> \E e \in E : y = Apply(e)
  BY DEF Applying
<1>5. /\ r[id] = Absent => /\ Covered(Applying(Changes(id)), Applying(Creates(id)), work)
                            /\ Covered(Applying(Rivaling(id)), Applying(Creates(id)), work)
      /\ Free(r, id)
      /\ \A p \in ids : r[p] = Absent =>
           Covered(Applying({e \in Creates(id) : p \in e.needs}), Applying(Creates(p)), work)
  BY <1>3 DEF AheadRow
<1>6. CASE s.kind # "event" /\ next = r
  <2>1. \A e : s # Apply(e)
    BY <1>6, ApplyOne
  <2>2. \A E : s \notin Applying(E)
    BY <1>4, <2>1
  <2>3. \A e : In(Apply(e), work) <=> In(Apply(e), rest)
    BY <1>1, <2>1
  <2>4. \A e \in Changes(id) :
          In(Apply(e), rest) /\ LastIs(Applying(Changes(id)), work, Apply(e))
            => LastIs(Applying(Changes(id)), rest, Apply(e))
    BY <1>2, <1>4
  <2>5. (\E e \in Changes(id) : In(Apply(e), work)) =>
           \E e \in Changes(id) : e.status = st /\ LastIs(Applying(Changes(id)), rest, Apply(e))
    <3>1. SUFFICES ASSUME \E e \in Changes(id) : In(Apply(e), work)
                   PROVE \E e \in Changes(id) :
                           e.status = st /\ LastIs(Applying(Changes(id)), rest, Apply(e))
      OBVIOUS
    <3>2. PICK e \in Changes(id) : e.status = st /\ LastIs(Applying(Changes(id)), work, Apply(e))
      BY <1>3, <3>1 DEF AheadRow
    <3>3. \E y \in Applying(Changes(id)) : In(y, rest)
      BY <1>4, <2>3, <3>1
    <3> QED
      BY <1>2, <3>2, <3>3
  <2>6. /\ r[id] = Absent => /\ Covered(Applying(Changes(id)), Applying(Creates(id)), rest)
                              /\ Covered(Applying(Rivaling(id)), Applying(Creates(id)), rest)
        /\ \A p \in ids : r[p] = Absent =>
             Covered(Applying({e \in Creates(id) : p \in e.needs}), Applying(Creates(p)), rest)
    BY <1>2, <1>5, <2>2
  <2>7. IF \E e \in Changes(id) : In(Apply(e), rest)
          THEN \E e \in Changes(id) : e.status = st /\ LastIs(Applying(Changes(id)), rest, Apply(e))
        ELSE IF r[id] = Absent /\ \E e \in Creates(id) : In(Apply(e), rest)
          THEN \A e \in Creates(id) : In(Apply(e), rest) => e.status = st
        ELSE r[id] = st
    BY <1>3, <2>3, <2>5 DEF AheadRow
  <2>8. AheadRow(r, id, ids, rest, st)
    BY <1>5, <2>6, <2>7 DEF AheadRow
  <2> QED
    BY <1>6, <2>8 DEF rest, st
<1>7. ASSUME NEW e \in Event, s = Apply(e), next = ApplyEvent(r, e),
             e.op = "create" /\ e.id \in ids => e.needs \subseteq ids
      PROVE  AheadRow(next, id, ids, rest, st)
  <2>1. \A E : s \in Applying(E) <=> e \in E
    BY <1>7, ApplyOne
  <2>2. \A d : In(Apply(d), work) <=> d = e \/ In(Apply(d), rest)
    BY <1>1, <1>7, ApplyOne
  <2>3. ASSUME NEW p \in ids, next[p] = Absent
        PROVE  r[p] = Absent /\ e \notin Creates(p)
    <3>1. r[p] = Absent
      BY <1>7, <2>3, Applied
    <3>2. ASSUME e \in Creates(p) PROVE FALSE
      <4>1. e.needs \subseteq ids
        BY <1>7, <3>2 DEF Creates
      <4>2. ApplyEvent(r, e)[p] = e.status /\ e.status # Absent
        BY <1>7, <3>1, <3>2, <4>1, AheadMade DEF s
      <4> QED
        BY <1>7, <2>3, <4>2
    <3> QED
      BY <3>1, <3>2
  <2> DEFINE Kept == /\ Free(next, id)
                     /\ next[id] = Absent =>
                          /\ Covered(Applying(Changes(id)), Applying(Creates(id)), rest)
                          /\ Covered(Applying(Rivaling(id)), Applying(Creates(id)), rest)
  <2>4. Kept
    <3>1. ASSUME next[id] = Absent, NEW o \in Rivals(id) PROVE next[o] = Absent
      <4>1. r[id] = Absent /\ r[o] = Absent /\ o \in Ids
        BY <1>5, <2>3, <3>1 DEF Free, Rivals
      <4>2. e \notin Rivaling(id)
        BY <1>2, <1>5, <2>1, <4>1
      <4> QED
        BY <1>7, <3>1, <4>1, <4>2, Applied DEF Rivaling
    <3>2. next[id] = Absent =>
            /\ Covered(Applying(Changes(id)), Applying(Creates(id)), rest)
            /\ Covered(Applying(Rivaling(id)), Applying(Creates(id)), rest)
      BY <1>2, <1>5, <2>1, <2>3
    <3> QED
      BY <3>1, <3>2 DEF Free
  <2>5. \A p \in ids : next[p] = Absent =>
          Covered(Applying({d \in Creates(id) : p \in d.needs}), Applying(Creates(p)), rest)
    BY <1>2, <1>5, <2>1, <2>3
  <2>6. /\ e.id # id => next[id] = r[id]
        /\ e \in Creates(id) /\ r[id] # Absent => next[id] = r[id]
        /\ e \in Changes(id) /\ r[id] # Absent => next[id] = e.status
        /\ e.id = id => e \in Creates(id) \/ e \in Changes(id)
        /\ ~ (e \in Creates(id) /\ e \in Changes(id))
        /\ e.status # Absent
    <3>1. id \in Ids
      OBVIOUS
    <3> QED
      BY <1>7, <3>1, AppliedTo
  <2>7. e \in Creates(id) /\ r[id] = Absent => next[id] = e.status
    <3>1. SUFFICES ASSUME e \in Creates(id), r[id] = Absent PROVE next[id] = e.status
      OBVIOUS
    <3>2. e.needs \subseteq ids
      BY <1>7, <3>1 DEF Creates
    <3> QED
      BY <1>3, <1>7, <3>1, <3>2, AheadMade DEF s
  <2>8. CASE \E d \in Changes(id) : In(Apply(d), work)
    <3>1. PICK d \in Changes(id) : d.status = st /\ LastIs(Applying(Changes(id)), work, Apply(d))
      BY <1>3, <2>8 DEF AheadRow
    <3>2. CASE \E y \in Applying(Changes(id)) : In(y, rest)
      <4>1. LastIs(Applying(Changes(id)), rest, Apply(d))
        BY <1>2, <3>1, <3>2
      <4>2. \E x \in Changes(id) : In(Apply(x), rest)
        BY <1>4, <3>2
      <4> QED
        BY <2>4, <2>5, <3>1, <4>1, <4>2 DEF AheadRow
    <3>3. CASE ~ \E y \in Applying(Changes(id)) : In(y, rest)
      <4>1. Apply(d) = s
        BY <1>2, <3>1, <3>3
      <4>2. d = e /\ e \in Changes(id)
        BY <1>7, <3>1, <4>1, ApplyOne
      <4>3. r[id] # Absent
        BY <1>2, <1>5, <2>1, <4>2
      <4>4. next[id] = st /\ next[id] # Absent
        BY <2>6, <3>1, <4>2, <4>3
      <4>5. ~ \E x \in Changes(id) : In(Apply(x), rest)
        BY <1>4, <3>3
      <4> QED
        BY <2>4, <2>5, <4>4, <4>5 DEF AheadRow
    <3> QED
      BY <3>2, <3>3
  <2>9. CASE ~ \E d \in Changes(id) : In(Apply(d), work)
    <3>1. (~ \E d \in Changes(id) : In(Apply(d), rest)) /\ e \notin Changes(id)
      BY <2>2, <2>9
    <3>2. CASE r[id] = Absent /\ \E d \in Creates(id) : In(Apply(d), work)
      <4>1. \A d \in Creates(id) : In(Apply(d), work) => d.status = st
        BY <1>3, <2>9, <3>2 DEF AheadRow
      <4>2. CASE e \in Creates(id)
        <5>1. next[id] = st /\ next[id] # Absent
          BY <2>2, <2>6, <2>7, <3>2, <4>1, <4>2
        <5> QED
          BY <2>4, <2>5, <3>1, <5>1 DEF AheadRow
      <4>3. CASE e \notin Creates(id)
        <5>1. next[id] = Absent
          BY <2>6, <3>1, <3>2, <4>3
        <5>2. (\E d \in Creates(id) : In(Apply(d), rest))
              /\ \A d \in Creates(id) : In(Apply(d), rest) => d.status = st
          BY <2>2, <3>2, <4>1, <4>3
        <5> QED
          BY <2>4, <2>5, <3>1, <5>1, <5>2 DEF AheadRow
      <4> QED
        BY <4>2, <4>3
    <3>3. CASE ~ (r[id] = Absent /\ \E d \in Creates(id) : In(Apply(d), work))
      <4>1. r[id] = st
        BY <1>3, <2>9, <3>3 DEF AheadRow
      <4>2. e \in Creates(id) => r[id] # Absent
        BY <2>2, <3>3
      <4>3. next[id] = r[id]
        BY <2>6, <3>1, <4>2
      <4>4. ~ (next[id] = Absent /\ \E d \in Creates(id) : In(Apply(d), rest))
        BY <2>2, <3>3, <4>3
      <4> QED
        BY <2>4, <2>5, <3>1, <4>1, <4>3, <4>4 DEF AheadRow
    <3> QED
      BY <3>2, <3>3
  <2> QED
    BY <2>8, <2>9
<1> QED
  BY <1>6, <1>7 DEF s, rest, st

\* When no event is left, the row has its status.
LEMMA AheadEnd ==
  ASSUME NEW table, NEW id, NEW ids, NEW work, NEW st, AheadRow(table, id, ids, work, st),
         \A e : ~ In(Apply(e), work)
  PROVE  table[id] = st /\ Free(table, id)
BY DEF AheadRow

\* Work ahead of what transactions say of the rows followed up to a slot.
AheadOf(table, slot, txs, work) ==
  \A ids \in SUBSET Ids : Followed(ids, slot, txs) =>
    \A id \in ids : AheadRow(table, id, ids, work, SaidBy(id, txs))

\* With no event left the rows are what the transactions say, and only then.
LEMMA AheadOfNone ==
  ASSUME NEW table, NEW slot, NEW txs, NEW work, \A e : ~ In(Apply(e), work)
  PROVE  AheadOf(table, slot, txs, work) <=>
           \A ids \in SUBSET Ids : Followed(ids, slot, txs) =>
             \A id \in ids : table[id] = SaidBy(id, txs) /\ Free(table, id)
<1>1. \A id, ids, st : AheadRow(table, id, ids, work, st) => table[id] = st /\ Free(table, id)
  BY AheadEnd
<1>2. \A E, D : Covered(Applying(E), D, work)
  BY DEF Covered, Applying, In
<1>3. \A id, ids, st : table[id] = st /\ Free(table, id) => AheadRow(table, id, ids, work, st)
  <2>1. SUFFICES ASSUME NEW id, NEW ids, NEW st, table[id] = st, Free(table, id)
                 PROVE  AheadRow(table, id, ids, work, st)
    OBVIOUS
  <2>2. ~ (\E e \in Changes(id) : In(Apply(e), work)) /\ ~ (\E e \in Creates(id) : In(Apply(e), work))
    OBVIOUS
  <2> QED
    BY <1>2, <2>1, <2>2 DEF AheadRow
<1> QED
  BY <1>1, <1>3 DEF AheadOf

\* What transactions say does not change while the chain does not.
LEMMA SameChain ==
  ASSUME UNCHANGED chain
  PROVE  /\ \A id, op, txs : Of(id, op, txs)' = Of(id, op, txs)
         /\ \A id, txs : SaidBy(id, txs)' = SaidBy(id, txs)
         /\ \A ids, slot, txs : Followed(ids, slot, txs)' <=> Followed(ids, slot, txs)
<1>1. \A id, op, txs : Of(id, op, txs)' = Of(id, op, txs)
  BY DEF Of
<1>2. \A id, txs : SaidBy(id, txs)' = SaidBy(id, txs)
  <2>1. SUFFICES ASSUME NEW id, NEW txs PROVE SaidBy(id, txs)' = SaidBy(id, txs)
    OBVIOUS
  <2> DEFINE created == Of(id, "create", txs)
             changed == Of(id, "status", txs)
  <2>2. created' = created /\ changed' = changed
    BY <1>1
  <2> HIDE DEF created, changed
  <2>3. /\ SaidBy(id, txs) =
             LET last == CHOOSE p \in changed : \A q \in changed : q = p \/ Later(p, q)
             IN  IF created = {} THEN Absent
                 ELSE IF changed = {} THEN Line(chain, CHOOSE p \in created : TRUE).status
                 ELSE Line(chain, last).status
        /\ SaidBy(id, txs)' =
             LET last == CHOOSE p \in changed' : \A q \in changed' : q = p \/ Later(p, q)
             IN  IF created' = {} THEN Absent
                 ELSE IF changed' = {} THEN Line(chain', CHOOSE p \in created' : TRUE).status
                 ELSE Line(chain', last).status
    BY DEF SaidBy, created, changed
  <2> QED
    BY <2>2, <2>3
<1>3. \A ids, slot, txs : Followed(ids, slot, txs)' <=> Followed(ids, slot, txs)
  BY <1>1 DEF Followed
<1> QED
  BY <1>1, <1>2, <1>3

\* Nor does the work ahead.
LEMMA SameAhead ==
  ASSUME UNCHANGED chain
  PROVE  \A table, slot, txs, work :
           AheadOf(table, slot, txs, work)' <=> AheadOf(table, slot, txs, work)
BY SameChain DEF AheadOf

\* An event of a transaction seen now keeps the tables between before and now.
LEMMA AfterStep ==
  ASSUME chain \in Chains, NEW before, NEW now \in SUBSET Transactions(chain, Slots),
         NEW r \in [Ids -> Row], NEW id \in Ids, AfterRow(r, id, before, now),
         NEW p \in Lines(chain, now), Free(ApplyEvent(r, Line(chain, p)), id)
  PROVE  AfterRow(ApplyEvent(r, Line(chain, p)), id, before, now)
<1> DEFINE e == Line(chain, p)
           next == ApplyEvent(r, e)
<1>1. e \in Event
  BY InLines, LogsOf
<1> HIDE DEF e
<1>2. /\ next \in [Ids -> Row]
      /\ r[id] # Absent => next[id] # Absent
      /\ r[id] = Absent /\ next[id] # Absent =>
           id = e.id /\ e.op = "create" /\ \A q \in e.needs : r[q] # Absent
  BY <1>1, Applied
<1>3. /\ e.id # id => next[id] = r[id]
      /\ e \in Creates(id) /\ r[id] # Absent => next[id] = r[id]
      /\ Free(next, id)
      /\ e \in Creates(id) => next[id] \in {r[id], e.status}
      /\ e.id = id => e \in Creates(id) \/ e \in Changes(id)
  BY <1>1, AppliedTo DEF e
<1> HIDE DEF next
<1>4. Of(id, "create", before) # {} => next[id] # Absent
  BY <1>2 DEF AfterRow
<1>5. ASSUME Of(id, "status", now) = {}
      PROVE  \/ next[id] = SaidBy(id, before)
             \/ /\ Of(id, "create", before) = {}
                /\ \E q \in Of(id, "create", now) : next[id] = Line(chain, q).status
  <2>1. \/ r[id] = SaidBy(id, before)
        \/ /\ Of(id, "create", before) = {}
           /\ \E q \in Of(id, "create", now) : r[id] = Line(chain, q).status
    BY <1>5 DEF AfterRow
  <2>2. e \notin Changes(id)
    BY <1>5 DEF Changes, Of, e
  <2>3. CASE next[id] = r[id]
    BY <2>1, <2>3
  <2>4. CASE next[id] # r[id]
    <3>1. e \in Creates(id) /\ r[id] = Absent
      BY <1>3, <2>2, <2>4
    <3>2. next[id] = e.status
      BY <1>3, <2>4, <3>1
    <3>3. p \in Of(id, "create", now)
      BY <3>1 DEF Of, Creates, e
    <3>4. Of(id, "create", before) = {}
      BY <3>1 DEF AfterRow
    <3> QED
      BY <3>2, <3>3, <3>4 DEF e
  <2> QED
    BY <2>3, <2>4
<1> QED
  BY <1>3, <1>4, <1>5 DEF AfterRow, next, e

-----------------------------------------------------------------------------
(* The polling stream                                                      *)

\* The tables are what was taken up to a slot, or are on the way to the next one.
Settled(table, c) ==
  c < MaxSlot =>
    \A ids \in SUBSET Ids : Followed(ids, c + 1, Taken(c + 1)) =>
      \A id \in ids : AfterRow(table, id, Taken(c), SlotTxs(c + 1))

\* The statements left of a slot come from it and will bring the tables there.
Writes(slot, work) ==
  \A e : In(Apply(e), work) => \E p \in Lines(chain, SlotTxs(slot)) : Line(chain, p) = e

\* They are ahead of what was taken up to the slot.
AheadSlot(table, slot, work) == AheadOf(table, slot, Taken(slot), work)

\* Where a single instance is: its position and the checkpoint go together, and what it
\* has left to write brings the tables to its slot.
ConvergingAt(i) ==
  /\ proc[i].pc = "poll" => proc[i].last = ckpt["polling"]
  /\ proc[i].pc \in {"scan", "write"} => proc[i].slot = ckpt["polling"] + 1
  /\ proc[i].pc = "write" => /\ Writes(proc[i].slot, proc[i].work)
                            /\ AheadSlot(rows, proc[i].slot, proc[i].work)

\* The invariant once indexing has begun.
ConvergingInv ==
  /\ ckpt["logs"] <= ckpt["polling"]
  /\ Settled(rows, ckpt["polling"])
  /\ \A i \in Instances : ConvergingAt(i)

\* The invariant; before indexing has begun the tables are empty.
ConvergedInv ==
  faults = 0 => IF Truthy(ckpt["logs"]) THEN ConvergingInv ELSE rows = NoRows

\* What was taken does not change while the chain and the logs checkpoint do not.
LEMMA SameLog ==
  ASSUME UNCHANGED chain, ckpt'["logs"] = ckpt["logs"]
  PROVE  /\ \A table, c : Settled(table, c)' <=> Settled(table, c)
         /\ \A slot, work : Writes(slot, work)' <=> Writes(slot, work)
         /\ \A table, slot, work : AheadSlot(table, slot, work)' <=> AheadSlot(table, slot, work)
<1>1. \A slot : Taken(slot)' = Taken(slot) /\ SlotTxs(slot)' = SlotTxs(slot)
  BY DEF Taken, Indexed, SlotTxs
<1>2. \A id, op, txs : Of(id, op, txs)' = Of(id, op, txs)
  BY SameChain
<1>3. \A id, txs : SaidBy(id, txs)' = SaidBy(id, txs)
  BY SameChain
<1>4. \A ids, slot, txs : Followed(ids, slot, txs)' <=> Followed(ids, slot, txs)
  BY SameChain
<1>5. \A table, id, before, now :
        AfterRow(table, id, before, now)' <=> AfterRow(table, id, before, now)
  BY <1>2, <1>3 DEF AfterRow
<1>6. \A table, c : Settled(table, c)' <=> Settled(table, c)
  BY <1>1, <1>4, <1>5 DEF Settled
<1>7. \A slot, work : Writes(slot, work)' <=> Writes(slot, work)
  BY <1>1 DEF Writes
<1>8. \A table, slot, work : AheadSlot(table, slot, work)' <=> AheadSlot(table, slot, work)
  BY <1>1, SameAhead DEF AheadSlot
<1> QED
  BY <1>6, <1>7, <1>8

\* What is taken up to the next slot is what was taken before and what the slot has.
LEMMA TakenNext ==
  ASSUME chain \in Chains, ckpt["logs"] \in Slots, NEW c \in Slots, c < MaxSlot,
         ckpt["logs"] <= c
  PROVE  /\ c + 1 \in Slots /\ Taken(c) \in SUBSET Transactions(chain, Slots)
         /\ SlotTxs(c + 1) \in SUBSET Transactions(chain, Slots)
         /\ Taken(c + 1) = Taken(c) \cup SlotTxs(c + 1)
         /\ \A t \in Taken(c) : t[1] <= c
         /\ \A t \in SlotTxs(c + 1) : t[1] = c + 1
<1>1. c + 1 \in Slots /\ c \in Nat /\ MaxSlot \in Nat /\ Slots \subseteq Nat
  BY IndexerAssumption DEF Slots
<1>2. Indexed(c) \in SUBSET Slots /\ {c + 1} \in SUBSET Slots
      /\ Indexed(c + 1) = Indexed(c) \cup {c + 1} /\ \A s \in Indexed(c) : s <= c
  <2>1. \A s \in Slots : ckpt["logs"] < s /\ s <= c + 1 <=> (ckpt["logs"] < s /\ s <= c) \/ s = c + 1
    <3>1. \A l, s \in Nat : l <= c => (l < s /\ s <= c + 1 <=> (l < s /\ s <= c) \/ s = c + 1)
      BY <1>1
    <3> QED
      BY <1>1, <3>1
  <2> QED
    BY <1>1, <2>1 DEF Indexed
<1>3. Transactions(chain, Indexed(c + 1)) =
        Transactions(chain, Indexed(c)) \cup Transactions(chain, {c + 1})
  BY <1>2 DEF Transactions
<1>4. Taken(c + 1) = Taken(c) \cup SlotTxs(c + 1)
  BY <1>3 DEF Taken, SlotTxs
<1>5. \A S \in SUBSET Slots : Transactions(chain, S) \subseteq Transactions(chain, Slots)
  BY DEF Transactions
<1>6. /\ \A t \in Transactions(chain, Indexed(c)) : t[1] \in Indexed(c)
      /\ \A t \in Transactions(chain, {c + 1}) : t[1] \in {c + 1}
  BY <1>2, TransactionsOf
<1>7. Taken(c) \in SUBSET Transactions(chain, Slots) /\ \A t \in Taken(c) : t[1] <= c
  BY <1>2, <1>5, <1>6 DEF Taken
<1>8. SlotTxs(c + 1) \in SUBSET Transactions(chain, Slots) /\ \A t \in SlotTxs(c + 1) : t[1] = c + 1
  BY <1>2, <1>5, <1>6 DEF SlotTxs
<1> QED
  BY <1>1, <1>4, <1>7, <1>8

\* A slot of which nothing is told changes nothing.
LEMMA FollowedBefore ==
  ASSUME NEW ids, NEW slot \in Nat, NEW txs, Followed(ids, slot + 1, txs)
  PROVE  Followed(ids, slot, txs)
<1>1. 0..slot \subseteq 0..slot + 1
  OBVIOUS
<1>2. Transactions(chain, 0..slot) \subseteq Transactions(chain, 0..slot + 1)
  BY <1>1 DEF Transactions
<1>3. Lines(chain, Transactions(chain, 0..slot)) \subseteq Lines(chain, Transactions(chain, 0..slot + 1))
  BY <1>2, LinesGrow
<1> QED
  BY <1>3 DEF Followed

\* Rows followed to the next slot were followed to this one, in what was seen of it.
LEMMA FollowedEarlier ==
  ASSUME chain \in Chains, NEW ids, NEW slot \in Nat, slot + 1 \in Slots,
         NEW before \in SUBSET Transactions(chain, Slots),
         NEW now \in SUBSET Transactions(chain, Slots),
         \A t \in before : t[1] <= slot, \A t \in now : t[1] > slot,
         Followed(ids, slot + 1, before \cup now)
  PROVE  Followed(ids, slot, before)
<1> DEFINE all == before \cup now
<1>1. Followed(ids, slot, all) /\ all \in SUBSET Transactions(chain, Slots)
  BY FollowedBefore
<1>2. ASSUME NEW p \in Logs, <<p[1], p[2]>> \in all, p[1] <= slot PROVE <<p[1], p[2]>> \in before
  <2>1. <<p[1], p[2]>>[1] = p[1] /\ p[1] \in Nat
    BY LogsOf DEF Slots
  <2>2. ASSUME <<p[1], p[2]>> \in now PROVE FALSE
    <3>1. <<p[1], p[2]>>[1] > slot
      BY <2>2
    <3> QED
      BY <1>2, <2>1, <3>1
  <2> QED
    BY <1>2, <2>2
<1> HIDE DEF all
<1>3. ASSUME NEW p \in Lines(chain, Transactions(chain, 0..slot)), Line(chain, p).id \in ids
      PROVE  /\ <<p[1], p[2]>> \in before
             /\ Line(chain, p).op = "create" => Line(chain, p).needs \subseteq ids
  <2>1. 0..slot \in SUBSET Slots
    BY IndexerAssumption DEF Slots
  <2>2. Transactions(chain, 0..slot) \in SUBSET Transactions(chain, Slots)
    BY <2>1 DEF Transactions
  <2>3. p \in Logs /\ <<p[1], p[2]>> \in Transactions(chain, 0..slot)
    BY <2>2, InLines
  <2>4. <<p[1], p[2]>>[1] \in 0..slot
    BY <2>1, <2>3, TransactionsOf
  <2>5. p[1] <= slot
    BY <2>4
  <2> QED
    BY <1>1, <1>2, <1>3, <2>3, <2>5 DEF Followed
<1>4. ASSUME NEW id \in ids, NEW o \in Rivals(id), NEW q \in Of(o, "create", before)
      PROVE  \E p \in Of(id, "create", before) : WrittenBefore(chain, p, q)
  <2>1. /\ q \in Logs /\ <<q[1], q[2]>> \in before
        /\ Line(chain, q).id = o /\ Line(chain, q).op = "create"
    BY OfLines
  <2>2. q \in Of(o, "create", all)
    BY <1>1, <2>1, OfLines DEF all
  <2>3. PICK p \in Of(id, "create", all) : WrittenBefore(chain, p, q)
    BY <1>1, <2>2 DEF Followed
  <2>4. /\ p \in Logs /\ <<p[1], p[2]>> \in all
        /\ Line(chain, p).id = id /\ Line(chain, p).op = "create"
    BY <1>1, OfLines
  <2>5. p[1] <= q[1] /\ p[1] \in Nat /\ q[1] \in Nat
    BY <2>1, <2>3, <2>4, WrittenFirst, LogsOf DEF Slots
  <2>6. q[1] <= slot
    <3>1. <<q[1], q[2]>>[1] = q[1]
      OBVIOUS
    <3> QED
      BY <2>1, <3>1
  <2>7. p \in Of(id, "create", before)
    BY <1>2, <2>4, <2>5, <2>6, OfLines
  <2> QED
    BY <2>3, <2>7
<1> QED
  BY <1>3, <1>4 DEF Followed

\* The same of what is taken.
LEMMA SeenNext ==
  ASSUME chain \in Chains, ckpt["logs"] \in Slots, NEW c \in Slots, c < MaxSlot,
         ckpt["logs"] <= c, NEW ids, Followed(ids, c + 1, Taken(c + 1))
  PROVE  /\ Seen(ids, c + 1, Taken(c), SlotTxs(c + 1))
         /\ Followed(ids, c, Taken(c))
<1>1. /\ c + 1 \in Slots /\ Taken(c) \in SUBSET Transactions(chain, Slots)
      /\ SlotTxs(c + 1) \in SUBSET Transactions(chain, Slots)
      /\ Taken(c + 1) = Taken(c) \cup SlotTxs(c + 1)
      /\ \A t \in Taken(c) : t[1] <= c
      /\ \A t \in SlotTxs(c + 1) : t[1] = c + 1
  BY TakenNext
<1>2. c \in Nat /\ \A t \in Taken(c) : t[1] \in Nat
  <2>1. \A t \in Transactions(chain, Slots) : t[1] \in Slots
    BY TransactionsOf
  <2> QED
    BY <1>1, <2>1 DEF Slots
<1>3. \A t \in Taken(c) : t[1] < c + 1 /\ t[1] <= c + 1
  BY <1>1, <1>2
<1>4. Seen(ids, c + 1, Taken(c), SlotTxs(c + 1))
  <2>1. \A t \in Taken(c) : \A u \in SlotTxs(c + 1) : t[1] < u[1]
    BY <1>1, <1>3
  <2>2. \A t \in Taken(c) \cup SlotTxs(c + 1) : t[1] <= c + 1
    BY <1>1, <1>2, <1>3
  <2>3. Followed(ids, c + 1, Taken(c) \cup SlotTxs(c + 1))
    BY <1>1
  <2> QED
    BY <1>1, <2>1, <2>2, <2>3 DEF Seen
<1>5. \A t \in SlotTxs(c + 1) : t[1] > c
  BY <1>1, <1>2
<1>6. Followed(ids, c, Taken(c))
  BY <1>1, <1>2, <1>5, FollowedEarlier
<1> QED
  BY <1>4, <1>6

\* When the tables are what was taken, they are where the next slot starts from.
LEMMA SettledNow ==
  ASSUME chain \in Chains, ckpt["logs"] \in Slots, NEW c \in Slots, ckpt["logs"] <= c,
         NEW table,
         \A ids \in SUBSET Ids : Followed(ids, c, Taken(c)) =>
           \A id \in ids : table[id] = SaidBy(id, Taken(c)) /\ Free(table, id)
  PROVE  Settled(table, c)
<1>1. SUFFICES ASSUME c < MaxSlot, NEW ids \in SUBSET Ids, Followed(ids, c + 1, Taken(c + 1)),
                      NEW id \in ids
               PROVE  AfterRow(table, id, Taken(c), SlotTxs(c + 1))
  BY DEF Settled
<1>2. table[id] = SaidBy(id, Taken(c)) /\ Free(table, id)
  BY <1>1, SeenNext
<1>3. Taken(c) \in SUBSET Transactions(chain, Slots)
  BY <1>1, TakenNext
<1>4. Of(id, "create", Taken(c)) # {} => SaidBy(id, Taken(c)) # Absent
  BY <1>3, Said
<1> QED
  BY <1>2, <1>4 DEF AfterRow

\* Where indexing begins nothing is taken and the tables are empty, now or next.
LEMMA SettledFirst ==
  /\ rows = NoRows /\ ckpt["logs"] \in Slots => Settled(rows, ckpt["logs"])
  /\ rows' = NoRows /\ ckpt'["logs"] \in Slots => Settled(rows, ckpt["logs"])'
<1>1. ASSUME NEW c \in Slots PROVE ~ \E s \in Slots : c < s /\ s <= c
  BY IndexerAssumption DEF Slots
<1>2. \A id \in Ids : NoRows[id] = Absent /\ Free(NoRows, id)
  BY DEF NoRows, Free, Rivals
<1>3. ASSUME rows = NoRows, ckpt["logs"] \in Slots PROVE Settled(rows, ckpt["logs"])
  <2> DEFINE c == ckpt["logs"]
  <2>1. Taken(c) = {}
    BY <1>1, <1>3 DEF Taken, Indexed, Transactions
  <2>2. \A id : Of(id, "create", {}) = {}
    BY DEF Of, Lines
  <2>3. \A id : SaidBy(id, {}) = Absent
    BY <2>2 DEF SaidBy
  <2> QED
    BY <1>2, <1>3, <2>1, <2>2, <2>3 DEF Settled, AfterRow
<1>4. ASSUME rows' = NoRows, ckpt'["logs"] \in Slots PROVE Settled(rows, ckpt["logs"])'
  <2> DEFINE c == ckpt["logs"]
  <2>1. Taken(c)' = {}
    BY <1>1, <1>4 DEF Taken, Indexed, Transactions
  <2>2. \A id : Of(id, "create", {})' = {}
    BY DEF Of, Lines
  <2>3. \A id : SaidBy(id, {})' = Absent
    BY <2>2 DEF SaidBy
  <2> QED
    BY <1>2, <1>4, <2>1, <2>2, <2>3 DEF Settled, AfterRow
<1> QED
  BY <1>3, <1>4

\* No two instances overlap.
OneInstance == \A i, j \in Instances : i = j

\* Everything of a slot is fetched, and what is put to work brings the tables there.
LEMMA ConvergingScan ==
  ASSUME IndexerInv, InOrder(chain), ckpt["logs"] \in Slots, NEW c \in Slots,
         ckpt["logs"] <= c, c < MaxSlot, Settled(rows, c)
  PROVE  LET work == Statements(c + 1, DOMAIN chain[c + 1])
         IN  Writes(c + 1, work) /\ AheadSlot(rows, c + 1, work)
<1> DEFINE work == Statements(c + 1, DOMAIN chain[c + 1])
<1>1. chain \in Chains
  BY DEF IndexerInv, TypeOK
<1>2. c + 1 \in Slots /\ Taken(c + 1) = Taken(c) \cup SlotTxs(c + 1)
  BY <1>1, TakenNext
<1>3. WorkFor(work, SlotTxs(c + 1))
  <2>1. 1..Len(chain[c + 1]) \subseteq DOMAIN chain[c + 1]
    BY <1>1, <1>2, ChainType
  <2> QED
    BY <1>1, <1>2, <2>1, StatementsWork
<1> HIDE DEF work
<1>4. Writes(c + 1, work)
  BY <1>3 DEF WorkFor, Writes
<1>5. ASSUME NEW ids \in SUBSET Ids, Followed(ids, c + 1, Taken(c + 1)), NEW id \in ids
      PROVE  AheadRow(rows, id, ids, work, SaidBy(id, Taken(c + 1)))
  <2>1. \A p \in ids : AfterRow(rows, p, Taken(c), SlotTxs(c + 1))
    BY <1>5 DEF Settled
  <2>2. Seen(ids, c + 1, Taken(c), SlotTxs(c + 1))
    BY <1>1, <1>5, SeenNext
  <2>3. AheadRow(rows, id, ids, work, SaidBy(id, Taken(c) \cup SlotTxs(c + 1)))
    BY <1>1, <1>2, <1>3, <2>1, <2>2, AheadStart
  <2> QED
    BY <1>2, <2>3
<1> QED
  BY <1>4, <1>5 DEF AheadSlot, AheadOf, work

\* A statement of a slot brings the tables nearer to it.
LEMMA ConvergingStatement ==
  ASSUME chain \in Chains, ckpt["logs"] \in Slots, NEW c \in Slots, ckpt["logs"] <= c, c < MaxSlot,
         NEW r \in [Ids -> Row], NEW next \in [Ids -> Row],
         Settled(r, c), NEW work \in Seq(Statement), work # <<>>,
         Writes(c + 1, work), AheadSlot(r, c + 1, work),
         \/ Head(work).kind # "event" /\ next = r
         \/ Head(work).kind = "event" /\ next = ApplyEvent(r, Head(work).event)
  PROVE  /\ Settled(next, c) /\ Writes(c + 1, Tail(work))
         /\ AheadSlot(next, c + 1, Tail(work))
<1> DEFINE s == Head(work)
           txs == SlotTxs(c + 1)
<1>1. /\ c + 1 \in Slots /\ txs \in SUBSET Transactions(chain, Slots)
      /\ \A t \in txs : t[1] = c + 1
  BY TakenNext
<1>2. s \in Statement /\ \A x : In(x, work) <=> x = s \/ In(x, Tail(work))
  BY InTail
<1> HIDE DEF s, txs
<1>3. Writes(c + 1, Tail(work))
  BY <1>2 DEF Writes
<1>4. s.kind = "event" =>
        /\ s = Apply(s.event) /\ s.event \in Event
        /\ \E p \in Lines(chain, txs) : Line(chain, p) = s.event
  <2>1. s.kind = "event" => s = Apply(s.event) /\ s.event \in Event
    BY <1>2, ApplyOne
  <2> QED
    BY <1>2, <2>1 DEF Writes, txs
<1>5. ASSUME NEW ids \in SUBSET Ids, Followed(ids, c + 1, Taken(c + 1)), NEW id \in ids
      PROVE  AheadRow(next, id, ids, Tail(work), SaidBy(id, Taken(c + 1)))
  <2> DEFINE said == [p \in ids |-> SaidBy(p, Taken(c + 1))]
  <2>1. \A p \in ids : AheadRow(r, p, ids, work, said[p])
    BY <1>5 DEF AheadSlot, AheadOf
  <2>2. \/ s.kind # "event" /\ next = r
        \/ \E e \in Event : /\ s = Apply(e) /\ next = ApplyEvent(r, e)
                            /\ e.op = "create" /\ e.id \in ids => e.needs \subseteq ids
    <3>1. CASE s.kind # "event"
      BY <3>1 DEF s
    <3>2. CASE s.kind = "event"
      <4>1. PICK p \in Lines(chain, txs) : Line(chain, p) = s.event
        BY <1>4, <3>2
      <4>2. p \in Logs /\ <<p[1], p[2]>> \in txs
        BY <1>1, InLines
      <4>3. p[1] = c + 1
        <5>1. <<p[1], p[2]>>[1] = p[1]
          OBVIOUS
        <5> QED
          BY <1>1, <4>2, <5>1
      <4>4. p[1] <= c + 1
        BY <1>1, <4>3 DEF Slots
      <4>5. Line(chain, p).id \in ids /\ Line(chain, p).op = "create" =>
              Line(chain, p).needs \subseteq ids
        BY <1>1, <1>5, <4>2, <4>4, FollowedLines
      <4>6. next = ApplyEvent(r, s.event)
        BY <3>2 DEF s
      <4> QED
        BY <1>4, <3>2, <4>1, <4>5, <4>6
    <3> QED
      BY <3>1, <3>2
  <2>3. said[id] = SaidBy(id, Taken(c + 1))
    OBVIOUS
  <2> HIDE DEF said
  <2>4. AheadRow(next, id, ids, Tail(work), said[id])
    BY <2>1, <2>2, AheadStep DEF s
  <2> QED
    BY <2>3, <2>4
<1>6. Settled(next, c)
  <2>1. SUFFICES ASSUME NEW ids \in SUBSET Ids, Followed(ids, c + 1, Taken(c + 1)), NEW id \in ids
                 PROVE  AfterRow(next, id, Taken(c), txs)
    BY DEF Settled, txs
  <2>2. AfterRow(r, id, Taken(c), txs) /\ id \in Ids /\ Free(next, id)
    BY <1>5, <2>1 DEF Settled, txs, AheadRow
  <2>3. CASE s.kind # "event"
    BY <2>2, <2>3 DEF s
  <2>4. CASE s.kind = "event"
    <3>1. PICK p \in Lines(chain, txs) : Line(chain, p) = s.event
      BY <1>4, <2>4
    <3>2. next = ApplyEvent(r, Line(chain, p))
      BY <2>4, <3>1 DEF s
    <3>3. AfterRow(ApplyEvent(r, Line(chain, p)), id, Taken(c), txs)
      BY <1>1, <2>2, <3>1, <3>2, AfterStep
    <3> QED
      BY <3>2, <3>3
  <2> QED
    BY <2>3, <2>4
<1> QED
  BY <1>3, <1>5, <1>6 DEF AheadSlot, AheadOf

\* When no statement is left, the tables are there.
LEMMA ConvergingDone ==
  ASSUME NEW slot, NEW table, AheadSlot(table, slot, <<>>)
  PROVE  \A ids \in SUBSET Ids : Followed(ids, slot, Taken(slot)) =>
           \A id \in ids : table[id] = SaidBy(id, Taken(slot)) /\ Free(table, id)
<1>1. \A e : ~ In(Apply(e), <<>>)
  BY DEF In
<1> QED
  BY <1>1, AheadOfNone DEF AheadSlot

\* Indexing has begun: an instance moves.
LEMMA ConvergingStep ==
  ASSUME IndexerInv, BegunInv, Truthy(ckpt["logs"]), ConvergingInv, InOrder(chain), OneInstance,
         NEW i \in Instances, Start(i) \/ Crash(i) \/ Step(i), ~ Fault
  PROVE  ConvergingInv'
<1> USE DEF Pcs
<1>1. /\ proc[i].pc \in Pcs /\ proc[i].current \in Slots /\ proc[i].last \in Slot
      /\ proc[i].slot \in 0..MaxSlot + 1 /\ proc[i].work \in Seq(Statement)
  BY ProcessType
<1>2. /\ chain \in Chains /\ rows \in [Ids -> Row] /\ head \in Slots
      /\ ckpt \in [{"polling", "logs"} -> Slot]
      /\ proc[i].pc \in {"scan", "write"} =>
           proc[i].slot <= proc[i].current /\ proc[i].current <= head
  BY DEF IndexerInv, TypeOK
<1>3. /\ Truthy(ckpt["polling"]) /\ BegunAt(i) /\ ckpt["logs"] <= ckpt["polling"]
      /\ Settled(rows, ckpt["polling"]) /\ ConvergingAt(i)
      /\ ckpt["polling"] \in Slots /\ ckpt["logs"] \in Slots
  BY <1>2 DEF BegunInv, ConvergingInv, Truthy, Slot
<1>4. \A j \in Instances : j = i
  BY DEF OneInstance
<1>5. UNCHANGED chain
  BY DEF Start, Crash, Step, Backfill, BackfillSlot, BackfillRead, BackfillSeed,
         BackfillReadLogs, BackfillLogs, Resume, Poll, Scan, Write, Save
<1>6. ASSUME UNCHANGED <<rows, ckpt>>, ConvergingAt(i)' PROVE ConvergingInv'
  <2>1. Settled(rows, ckpt["polling"])'
    BY <1>3, <1>5, <1>6, SameLog
  <2> QED
    BY <1>3, <1>4, <1>6, <2>1 DEF ConvergingInv
<1>7. CASE Start(i) \/ Crash(i) \/ Backfill(i)
  <2>1. UNCHANGED ckpt
    BY <1>7, BegunBoot
  <2>2. UNCHANGED rows
    BY <1>7 DEF Start, Crash, Backfill, BackfillSlot, BackfillRead, BackfillSeed, BackfillReadLogs, BackfillLogs
  <2>3. proc'[i].pc \notin {"poll", "scan", "write"}
    BY <1>7, BootLeaves
  <2> QED
    BY <1>6, <2>1, <2>2, <2>3 DEF ConvergingAt
<1>8. CASE Resume(i)
  <2>1. PICK last \in Slot :
          /\ ReadCheckpoint("polling", last)
          /\ proc' = [proc EXCEPT ![i].last = last, ![i].pc = "poll"]
    BY <1>8 DEF Resume
  <2>2. last = ckpt["polling"] /\ UNCHANGED <<rows, ckpt>>
    BY <1>8, <2>1 DEF ReadCheckpoint, Resume
  <2>3. Becomes(i, "poll", proc[i].current, last, proc[i].slot, proc[i].work)
    BY <2>1, Moves
  <2>4. proc'[i].pc = "poll" /\ proc'[i].last = last
    BY <1>1, <2>3, BecomesType
  <2>5. ConvergingAt(i)'
    BY <2>2, <2>4 DEF ConvergingAt
  <2> QED
    BY <1>6, <2>2, <2>5
<1>9. CASE Poll(i)
  <2> DEFINE from == PollFrom(proc[i].last, head)
  <2>1. Becomes(i, "scan", head, proc[i].last, from, proc[i].work)
    BY <1>9, Moves
  <2>2. from \in 0..MaxSlot + 1
    BY <1>1, <1>2, PollStart
  <2>3. proc[i].last = ckpt["polling"] /\ UNCHANGED <<rows, ckpt>>
    BY <1>3, <1>9 DEF Poll, ConvergingAt
  <2>4. from = ckpt["polling"] + 1
    BY <1>3, <2>3 DEF PollFrom
  <2> HIDE DEF from
  <2>5. proc'[i].pc = "scan" /\ proc'[i].slot = from
    BY <1>1, <1>2, <2>1, <2>2, BecomesType
  <2>6. ConvergingAt(i)'
    BY <2>3, <2>4, <2>5 DEF ConvergingAt
  <2> QED
    BY <1>6, <2>3, <2>6
<1>10. ASSUME proc[i].pc \in {"scan", "write"}
       PROVE  proc[i].slot = ckpt["polling"] + 1 /\ ckpt["polling"] < MaxSlot /\ proc[i].slot \in Slots
  <2>1. proc[i].slot = ckpt["polling"] + 1
    BY <1>3, <1>10 DEF ConvergingAt
  <2> QED
    BY <1>1, <1>2, <1>3, <1>10, <2>1, IndexerAssumption DEF Slots
<1>11. CASE Scan(i)
  <2>1. PICK lost \in SUBSET DOMAIN chain[proc[i].slot] :
          /\ IF lost = {} THEN NoFault ELSE Fault
          /\ proc' = [proc EXCEPT
               ![i].pc = "write",
               ![i].work = Statements(proc[i].slot, DOMAIN chain[proc[i].slot] \ lost)]
    BY <1>11 DEF Scan
  <2>2. lost = {} /\ proc[i].pc = "scan" /\ UNCHANGED <<rows, ckpt>>
    BY <1>11, <2>1 DEF Scan
  <2>3. proc[i].slot = ckpt["polling"] + 1 /\ ckpt["polling"] < MaxSlot /\ proc[i].slot \in Slots
    BY <1>10, <2>2
  <2> DEFINE work == Statements(proc[i].slot, DOMAIN chain[proc[i].slot])
  <2>4. work \in Seq(Statement)
    BY <1>2, <2>3, InStatements
  <2>5. DOMAIN chain[proc[i].slot] \ lost = DOMAIN chain[proc[i].slot]
    BY <2>2
  <2>6. Becomes(i, "write", proc[i].current, proc[i].last, proc[i].slot, work)
    BY <2>1, <2>5, Moves
  <2>7. Writes(proc[i].slot, work) /\ AheadSlot(rows, proc[i].slot, work)
    BY <1>3, <2>3, ConvergingScan
  <2> HIDE DEF work
  <2>8. proc'[i].pc = "write" /\ proc'[i].slot = proc[i].slot /\ proc'[i].work = work
    BY <1>1, <2>4, <2>6, BecomesType
  <2>9. Writes(proc[i].slot, proc[i].work)' /\ AheadSlot(rows, proc[i].slot, proc[i].work)'
    BY <1>5, <2>2, <2>7, <2>8, SameLog
  <2>10. ConvergingAt(i)'
    BY <2>2, <2>3, <2>8, <2>9 DEF ConvergingAt
  <2> QED
    BY <1>6, <2>2, <2>10
<1>12. CASE Write(i)
  <2> DEFINE s == Head(proc[i].work)
             rest == Tail(proc[i].work)
             c == ckpt["polling"]
  <2>1. rest \in Seq(Statement)
    BY <1>12, Written
  <2>2. Becomes(i, proc[i].pc, proc[i].current, proc[i].last, proc[i].slot, rest)
    BY <1>12, Moves
  <2>3. /\ UNCHANGED ckpt /\ proc[i].pc = "write" /\ proc[i].work # <<>>
        /\ \/ s.kind = "log" /\ rows' = rows
           \/ s.kind = "event" /\ rows' = ApplyEvent(rows, s.event)
    BY <1>12 DEF Write
  <2>4. /\ proc[i].slot = c + 1 /\ c < MaxSlot /\ c \in Slots
        /\ Writes(proc[i].slot, proc[i].work) /\ AheadSlot(rows, proc[i].slot, proc[i].work)
    BY <1>3, <1>10, <2>3 DEF ConvergingAt
  <2>6. rows' \in [Ids -> Row]
    <3>1. s.kind = "event" => s.event \in Logged(chain)
      BY <1>12, Written
    <3> QED
      BY <1>2, <2>3, <3>1, LoggedType, Applied
  <2>7. \/ s.kind # "event" /\ rows' = rows
        \/ s.kind = "event" /\ rows' = ApplyEvent(rows, s.event)
    BY <2>3
  <2>8. /\ Settled(rows', c) /\ Writes(c + 1, rest) /\ AheadSlot(rows', c + 1, rest)
    <3> DEFINE work == proc[i].work
    <3>1. /\ work \in Seq(Statement) /\ work # <<>> /\ Writes(c + 1, work)
          /\ AheadSlot(rows, c + 1, work) /\ Settled(rows, c)
          /\ \/ Head(work).kind # "event" /\ rows' = rows
             \/ Head(work).kind = "event" /\ rows' = ApplyEvent(rows, Head(work).event)
      BY <1>1, <1>3, <2>3, <2>4, <2>7
    <3> HIDE DEF work
    <3>2. Settled(rows', c) /\ Writes(c + 1, Tail(work)) /\ AheadSlot(rows', c + 1, Tail(work))
      BY <1>2, <1>3, <2>4, <2>6, <3>1, ConvergingStatement
    <3> QED
      BY <3>2 DEF work
  <2> HIDE DEF s, rest
  <2>9. proc'[i].pc = "write" /\ proc'[i].slot = c + 1 /\ proc'[i].work = rest
    BY <1>1, <2>1, <2>2, <2>3, <2>4, BecomesType
  <2> HIDE DEF c
  <2>10. /\ Settled(rows, ckpt["polling"])' /\ Writes(proc[i].slot, proc[i].work)'
         /\ AheadSlot(rows, proc[i].slot, proc[i].work)'
    BY <1>5, <2>3, <2>8, <2>9, SameLog DEF c
  <2>11. ConvergingAt(i)'
    BY <2>3, <2>9, <2>10 DEF ConvergingAt, c
  <2> QED
    BY <1>3, <1>4, <2>3, <2>10, <2>11 DEF ConvergingInv
<1>13. CASE Save(i)
  <2> DEFINE pc == IF proc[i].slot < proc[i].current THEN "scan" ELSE "poll"
             slot == proc[i].slot
             next == slot + 1
  <2>1. Becomes(i, pc, proc[i].current, slot, next, proc[i].work)
    BY <1>13, Moves
  <2>2. /\ UNCHANGED rows /\ proc[i].work = <<>> /\ proc[i].pc = "write"
        /\ ckpt' = [ckpt EXCEPT !["polling"] = slot]
    BY <1>13 DEF Save, SaveCheckpoint
  <2>3. slot = ckpt["polling"] + 1 /\ slot \in Slots /\ AheadSlot(rows, slot, <<>>)
    BY <1>3, <1>10, <2>2 DEF ConvergingAt
  <2>4. pc \in {"scan", "poll"} /\ slot \in Slot /\ next \in 0..MaxSlot + 1
    BY <2>3, IndexerAssumption DEF Slots, Slot
  <2> HIDE DEF pc, next
  <2>5. proc'[i].pc = pc /\ proc'[i].slot = next /\ proc'[i].last = slot
    BY <1>1, <2>1, <2>4, BecomesType
  <2>6. ckpt'["polling"] = slot /\ ckpt'["logs"] = ckpt["logs"]
    BY <1>2, <2>2
  <2>7. ckpt["logs"] <= slot
    BY <1>3, <2>3 DEF Slots
  <2> HIDE DEF slot
  <2>8. Settled(rows, slot)
    BY <1>2, <1>3, <2>3, <2>7, ConvergingDone, SettledNow
  <2>9. Settled(rows, ckpt["polling"])'
    BY <1>5, <2>2, <2>6, <2>8, SameLog
  <2>10. ConvergingAt(i)'
    BY <2>4, <2>5, <2>6 DEF ConvergingAt, next
  <2> QED
    BY <1>4, <2>6, <2>7, <2>9, <2>10 DEF ConvergingInv
<1> QED
  BY <1>7, <1>8, <1>9, <1>11, <1>12, <1>13 DEF Step

\* Before indexing has begun the tables are empty; it begins with the checkpoints
\* at the same slot.
LEMMA ConvergingFirst ==
  ASSUME IndexerInv, FirstBootInv, rows = NoRows, OneInstance, NEW i \in Instances,
         Start(i) \/ Crash(i) \/ Step(i), ~ Fault
  PROVE  IF Truthy(ckpt'["logs"]) THEN ConvergingInv' ELSE rows' = NoRows
<1>1. /\ FirstBootAt(i) /\ ckpt["logs"] = None /\ \A j \in Instances : j = i
      /\ ckpt \in [{"polling", "logs"} -> Slot]
  BY DEF FirstBootInv, OneInstance, IndexerInv, TypeOK
<1>2. Start(i) \/ Crash(i) \/ Backfill(i)
  BY <1>1 DEF FirstBootAt, Step, Resume, Poll, Scan, Write, Save
<1>3. UNCHANGED rows
  BY <1>2 DEF Start, Crash, Backfill, BackfillSlot, BackfillRead, BackfillSeed, BackfillReadLogs, BackfillLogs
<1>4. CASE ~ Truthy(ckpt'["logs"])
  BY <1>3, <1>4
<1>5. CASE Truthy(ckpt'["logs"])
  <2>1. BackfillLogs(i)
    <3>1. ~ Truthy(None)
      BY DEF Truthy
    <3>2. Start(i) \/ Crash(i) \/ BackfillSlot(i) \/ BackfillRead(i) \/ BackfillSeed(i)
          \/ BackfillReadLogs(i) => ckpt'["logs"] = None
      BY <1>1 DEF Start, Crash, BackfillSlot, BackfillRead, BackfillSeed, BackfillReadLogs,
                  SaveCheckpoint
    <3> QED
      BY <1>2, <1>5, <3>1, <3>2 DEF Backfill
  <2> DEFINE start == BackfillStart(proc[i].last, proc[i].current)
  <2>2. proc[i].pc = "logseed" /\ ckpt' = [ckpt EXCEPT !["logs"] = start]
    BY <1>1, <2>1 DEF BackfillLogs, SaveCheckpoint, Truthy
  <2>3. start = ckpt["polling"] /\ start \in Slots
    BY <1>1, <2>2, ProcessType, StartOfBackfill DEF FirstBootAt
  <2> HIDE DEF start
  <2>4. ckpt'["logs"] = start /\ ckpt'["polling"] = start /\ start <= start
    BY <1>1, <2>2, <2>3 DEF Slots
  <2>5. Settled(rows, ckpt["logs"])'
    BY <1>3, <2>3, <2>4, SettledFirst
  <2>6. Settled(rows, ckpt["polling"])'
    BY <2>4, <2>5
  <2>7. proc'[i].pc \notin {"poll", "scan", "write"}
    BY <1>2, BootLeaves
  <2>8. ConvergingAt(i)'
    BY <2>7 DEF ConvergingAt
  <2> QED
    BY <1>1, <1>5, <2>4, <2>6, <2>8 DEF ConvergingInv
<1> QED
  BY <1>4, <1>5

\* Every step keeps the invariant.
LEMMA ConvergedStep ==
  ASSUME IndexerInv, NothingLostInv, ConvergedInv, ProgramOrder, OneInstance, [Next]_vars
  PROVE  ConvergedInv'
<1>1. SUFFICES ASSUME faults' = 0
               PROVE  IF Truthy(ckpt'["logs"]) THEN ConvergingInv' ELSE rows' = NoRows
  BY DEF ConvergedInv
<1>2. InOrder(chain) /\ faults \in 0..MaxFaults /\ MaxFaults \in Nat
  BY IndexerAssumption DEF ProgramOrder, IndexerInv, TypeOK
<1>3. ASSUME faults = 0, UNCHANGED <<chain, rows, ckpt, proc>>
      PROVE  IF Truthy(ckpt'["logs"]) THEN ConvergingInv' ELSE rows' = NoRows
  <2>1. CASE Truthy(ckpt["logs"])
    <3>1. ConvergingInv
      BY <1>3, <2>1 DEF ConvergedInv
    <3>2. Settled(rows, ckpt["polling"])'
      BY <1>3, <3>1, SameLog DEF ConvergingInv
    <3>3. ASSUME NEW i \in Instances PROVE ConvergingAt(i)'
      <4>1. ConvergingAt(i)
        BY <3>1 DEF ConvergingInv
      <4>2. /\ Writes(proc[i].slot, proc[i].work)' <=> Writes(proc[i].slot, proc[i].work)
            /\ AheadSlot(rows, proc[i].slot, proc[i].work)' <=>
                 AheadSlot(rows, proc[i].slot, proc[i].work)
        BY <1>3, SameLog
      <4> QED
        BY <1>3, <4>1, <4>2 DEF ConvergingAt
    <3> QED
      BY <1>3, <2>1, <3>1, <3>2, <3>3 DEF ConvergingInv
  <2>2. CASE ~ Truthy(ckpt["logs"])
    BY <1>3, <2>2 DEF ConvergedInv
  <2> QED
    BY <2>1, <2>2
<1>4. CASE UNCHANGED vars
  BY <1>1, <1>3, <1>4 DEF vars
<1>5. CASE Confirm
  BY <1>1, <1>3, <1>5 DEF Confirm
<1>6. ASSUME NEW i \in Instances, Start(i) \/ Crash(i) \/ Step(i)
      PROVE  IF Truthy(ckpt'["logs"]) THEN ConvergingInv' ELSE rows' = NoRows
  <2>1. Fault \/ NoFault
    BY <1>6 DEF Start, Crash, Step, Backfill, BackfillSlot, BackfillRead, BackfillSeed,
                BackfillReadLogs, BackfillLogs, Resume, Poll, Scan, Write, Save, ReadCheckpoint,
                SaveCheckpoint, NoFault
  <2>2. faults = 0 /\ ~ Fault
    BY <1>1, <2>1, Calls
  <2>3. CASE Truthy(ckpt["logs"])
    <3>1. BegunInv /\ ConvergingInv
      BY <2>2, <2>3 DEF NothingLostInv, ConvergedInv
    <3>2. ConvergingInv'
      BY <1>2, <1>6, <2>2, <2>3, <3>1, ConvergingStep
    <3>3. ckpt'["logs"] = ckpt["logs"]
      BY <1>6, <2>2, <2>3, <3>1, BegunBoot, BegunPoll, BegunWrite DEF Step
    <3> QED
      BY <2>3, <3>2, <3>3
  <2>4. CASE ~ Truthy(ckpt["logs"])
    <3>1. FirstBootInv /\ rows = NoRows
      BY <2>2, <2>4 DEF NothingLostInv, ConvergedInv
    <3> QED
      BY <1>6, <2>2, <3>1, ConvergingFirst
  <2> QED
    BY <2>3, <2>4
<1> QED
  BY <1>4, <1>5, <1>6 DEF Next

\* The first instance finds the tables empty, one that resumes finds both checkpoints
\* at the slot where indexing begins.
LEMMA ConvergedInit ==
  ASSUME PastTheWindow, Init
  PROVE  ConvergedInv
<1>1. rows = NoRows /\ head \in Slots /\ \A i \in Instances : proc[i].pc = "down"
  BY IndexerAssumption DEF Init, Slots, Down
<1>2. ASSUME Truthy(ckpt["logs"]) PROVE ConvergingInv
  <2>1. Resumed
    BY <1>2 DEF Init, Truthy
  <2>2. ckpt["logs"] = ckpt["polling"] /\ ckpt["logs"] \in Slots
    BY <1>1, <2>1, IndexerAssumption DEF Init, Minus, Slots
  <2>3. Settled(rows, ckpt["polling"])
    BY <1>1, <2>2, SettledFirst
  <2>4. ckpt["logs"] <= ckpt["polling"]
    BY <2>2 DEF Slots
  <2> QED
    BY <1>1, <2>3, <2>4 DEF ConvergingInv, ConvergingAt
<1> QED
  BY <1>1, <1>2 DEF ConvergedInv

\* While no call fails, a single instance that has written a slot leaves the tables as the
\* chain says of the rows it could follow, the first of their name and version, for any
\* chain the program can log, and wherever crashes made it write part of a slot and start
\* the slot again (persistEvents and saveLatest in startPollingStream).
THEOREM ConvergedCorrect ==
  ASSUME PastTheWindow, OneInstance, ProgramOrder
  PROVE  Spec => []Converged
<1>1. Init => NothingLostInv /\ ConvergedInv
  BY NothingLostInit, ConvergedInit DEF OneBegins, OneInstance
<1>2. IndexerInv /\ NothingLostInv /\ ConvergedInv /\ [Next]_vars =>
        (NothingLostInv /\ ConvergedInv)'
  BY NothingLostStep, ConvergedStep
<1>3. ConvergedInv => Converged
  BY ConvergingDone DEF ConvergedInv, ConvergingInv, ConvergingAt, Converged, Begun
<1> QED
  BY <1>1, <1>2, <1>3, IndexerInvariant, PTL DEF Spec

-----------------------------------------------------------------------------
(* The websocket                                                           *)

\* The transactions whose callback has ended or is in progress.
Told == heard \cup {<<c[2], c[3]>> : c \in DOMAIN calls}

\* The callback in progress is of a later slot than those that ended, applies lines of
\* its transaction and saves last.
CalmAt(c) ==
  /\ \A t \in heard : t[1] < c[2]
  /\ calls[c][Len(calls[c])].kind = "save"
  /\ \A e : In(Apply(e), calls[c]) =>
       \E p \in Lines(chain, {<<c[2], c[3]>>}) : Line(chain, p) = e
  /\ AheadOf(rows, head, Told, calls[c])

\* While nothing overlapped, failed, was lost or crashed there is one callback at most;
\* the tables are what was heard, or what it has left to write brings them there.
CalmInv ==
  calm =>
    /\ Told \in SUBSET Transactions(chain, Slots)
    /\ \A t \in Told : t[1] <= head /\ t[1] # 0
    /\ \A c, d \in DOMAIN calls : c = d
    /\ \A c \in DOMAIN calls : CalmAt(c)
    /\ DOMAIN calls = {} => AheadOf(rows, head, heard, <<>>)
    /\ \A t \in heard : ckpt["logs"] # None /\ ckpt["logs"] >= t[1]

\* At most one callback in progress is at most one.
LEMMA AtMostOne ==
  ASSUME NEW S, IsFiniteSet(S), Cardinality(S) <= 1, NEW a \in S, NEW b \in S
  PROVE  a = b
<1>1. SUFFICES ASSUME a # b PROVE FALSE
  OBVIOUS
<1>2. Cardinality(S) \in Nat
  BY FS_CardinalityType
<1>3. IsFiniteSet(S \ {a}) /\ Cardinality(S \ {a}) = Cardinality(S) - 1
  BY FS_RemoveElement
<1>4. Cardinality(S \ {a}) = 0
  <2>1. Cardinality(S \ {a}) \in Nat
    BY <1>3, FS_CardinalityType
  <2> QED
    BY <1>2, <1>3, <2>1
<1>5. S \ {a} = {}
  BY <1>3, <1>4, FS_EmptySet
<1> QED
  BY <1>1, <1>5

\* The callbacks of a slot are finitely many.
LEMMA FinitelyTold ==
  ASSUME NEW s, NEW m \in Nat, NEW told,
         \A t \in told : \E i \in Instances, n \in 1..m : t = <<i, s, n>>
  PROVE  IsFiniteSet(told)
<1> DEFINE T == {<<i, s, n>> : i \in Instances, n \in 1..m}
           P == Instances \X (1..m)
           f == [p \in P |-> <<p[1], s, p[2]>>]
<1>1. IsFiniteSet(P)
  <2>1. IsFiniteSet(Instances) /\ IsFiniteSet(1..m)
    BY IndexerAssumption, FS_Interval
  <2> QED
    BY <2>1, FS_Product
<1>2. ASSUME NEW t \in T PROVE \E p \in P : f[p] = t
  <2>1. PICK i \in Instances, n \in 1..m : t = <<i, s, n>>
    OBVIOUS
  <2>2. <<i, n>> \in P /\ f[<<i, n>>] = <<i, s, n>>
    OBVIOUS
  <2> QED
    BY <2>1, <2>2
<1>3. f \in [P -> T]
  OBVIOUS
<1>4. told \in SUBSET T
  OBVIOUS
<1> HIDE DEF f, P, T
<1>5. f \in Surjection(P, T)
  BY <1>2, <1>3 DEF Surjection
<1>6. IsFiniteSet(T)
  BY <1>1, <1>5, FS_Surjection
<1> QED
  BY <1>4, <1>6, FS_Subset

\* A slot with nothing to tell leaves the rows what was heard of them.
LEMMA CalmEmpty ==
  ASSUME WsInv, CalmInv, calm, head < MaxSlot, head' = head + 1,
         UNCHANGED <<chain, rows, ckpt, heard>>,
         DOMAIN calls' = DOMAIN calls, \A c \in DOMAIN calls : calls'[c] = calls[c]
  PROVE  CalmInv'
<1>1. chain \in Chains /\ head \in Nat /\ head' \in Nat
  BY DEF WsInv, IndexerInv, TypeOK, Slots
<1>2. /\ Told \in SUBSET Transactions(chain, Slots)
      /\ \A t \in Told : t[1] <= head /\ t[1] # 0
      /\ \A c, d \in DOMAIN calls : c = d
      /\ \A c \in DOMAIN calls : CalmAt(c)
      /\ DOMAIN calls = {} => AheadOf(rows, head, heard, <<>>)
      /\ \A t \in heard : ckpt["logs"] # None /\ ckpt["logs"] >= t[1]
  BY DEF CalmInv
<1>3. Told' = Told
  BY DEF Told
<1>4. ASSUME NEW txs, NEW work, AheadOf(rows, head, txs, work)
      PROVE  AheadOf(rows, head + 1, txs, work)
  BY <1>1, <1>4, FollowedBefore DEF AheadOf
<1>5. \A txs, work : AheadOf(rows, head, txs, work) => AheadOf(rows', head', txs, work)
  BY <1>4
<1>6. ASSUME NEW c \in DOMAIN calls PROVE CalmAt(c)'
  <2>1. CalmAt(c)
    BY <1>2
  <2>2. AheadOf(rows', head', Told', calls'[c])
    BY <1>3, <1>5, <2>1 DEF CalmAt
  <2>3. AheadOf(rows, head, Told, calls[c])'
    BY <2>2, SameAhead
  <2> QED
    BY <2>1, <2>3 DEF CalmAt
<1>7. \A t \in Told : t[1] <= head' /\ t[1] # 0
  <2>1. \A t \in Transactions(chain, Slots) : t[1] \in Slots
    BY <1>1, TransactionsOf
  <2>2. \A t \in Told : t[1] \in Nat
    BY <1>2, <2>1 DEF Slots
  <2> QED
    BY <1>1, <1>2, <2>2
<1>8. DOMAIN calls' = {} => AheadOf(rows, head, heard, <<>>)'
  <2>1. DOMAIN calls' = {} => AheadOf(rows', head', heard', <<>>)
    BY <1>2, <1>5
  <2> QED
    BY <2>1, SameAhead
<1>9. Told' \in SUBSET Transactions(chain, Slots)'
  BY <1>2, <1>3
<1>10. \A c \in DOMAIN calls' : CalmAt(c)'
  BY <1>6
<1> QED
  BY <1>2, <1>3, <1>7, <1>8, <1>9, <1>10 DEF CalmInv

\* The rows are what was heard, and what a transaction of the next slot says comes next.
LEMMA CalmAhead ==
  ASSUME chain \in Chains, InOrder(chain), NEW slot \in Nat, slot + 1 \in Slots,
         NEW n \in 1..Len(chain[slot + 1]),
         NEW before \in SUBSET Transactions(chain, Slots), \A t \in before : t[1] <= slot,
         AheadOf(rows, slot, before, <<>>)
  PROVE  AheadOf(rows, slot + 1, before \cup {<<slot + 1, n>>}, CallbackWork(slot + 1, n))
<1> DEFINE now == {<<slot + 1, n>>}
           work == CallbackWork(slot + 1, n)
<1>1. now \in SUBSET Transactions(chain, Slots) /\ WorkFor(work, now)
  BY TransactionsOf, CallbackWorkFor
<1>2. \A t \in now : t[1] = slot + 1
  OBVIOUS
<1> HIDE DEF now, work
<1>3. \A t \in before : t[1] \in Nat
  <2>1. \A t \in Transactions(chain, Slots) : t[1] \in Slots
    BY TransactionsOf
  <2> QED
    BY <2>1 DEF Slots
<1>4. SUFFICES ASSUME NEW ids \in SUBSET Ids, Followed(ids, slot + 1, before \cup now), NEW id \in ids
               PROVE  AheadRow(rows, id, ids, work, SaidBy(id, before \cup now))
  BY DEF AheadOf, now, work
<1>5. Seen(ids, slot + 1, before, now)
  <2>1. \A t \in before : \A u \in now : t[1] < u[1]
    BY <1>2, <1>3
  <2>2. \A t \in before \cup now : t[1] <= slot + 1
    BY <1>2, <1>3
  <2> QED
    BY <1>1, <1>4, <2>1, <2>2 DEF Seen
<1>6. Followed(ids, slot, before)
  <2>1. \A t \in now : t[1] > slot
    BY <1>2
  <2> QED
    BY <1>1, <1>4, <2>1, FollowedEarlier
<1>7. ASSUME NEW p \in ids PROVE AfterRow(rows, p, before, now)
  <2>1. \A e : ~ In(Apply(e), <<>>)
    BY DEF In
  <2>2. rows[p] = SaidBy(p, before) /\ Free(rows, p)
    BY <1>4, <1>6, <1>7, <2>1, AheadOfNone
  <2>3. Of(p, "create", before) # {} => SaidBy(p, before) # Absent
    BY Said
  <2> QED
    BY <2>2, <2>3 DEF AfterRow
<1> QED
  BY <1>1, <1>4, <1>5, <1>7, AheadStart

\* A callback begins when none is in progress.
LEMMA CalmBegins ==
  ASSUME WsInv, CalmInv, calm, InOrder(chain), head < MaxSlot, head' = head + 1,
         UNCHANGED <<chain, rows, ckpt, heard>>, DOMAIN calls = {},
         NEW c, c[2] = head', c[3] \in DOMAIN chain[head'],
         DOMAIN calls' = {c}, calls'[c] = CallbackWork(c[2], c[3])
  PROVE  CalmInv'
<1> DEFINE n == c[3]
           now == {<<head + 1, n>>}
<1>1. chain \in Chains /\ head \in Nat /\ head + 1 \in Slots
  BY IndexerAssumption DEF WsInv, IndexerInv, TypeOK, Slots
<1>2. /\ Told \in SUBSET Transactions(chain, Slots)
      /\ \A t \in Told : t[1] <= head /\ t[1] # 0
      /\ AheadOf(rows, head, heard, <<>>)
      /\ \A t \in heard : ckpt["logs"] # None /\ ckpt["logs"] >= t[1]
  BY DEF CalmInv
<1>3. Told = heard /\ Told' = heard \cup now
  BY DEF Told
<1>4. n \in 1..Len(chain[head + 1]) /\ n \in DOMAIN chain[head + 1]
  BY <1>1, ChainType
<1> HIDE DEF n
<1>5. now \in SUBSET Transactions(chain, Slots)
  BY <1>1, <1>4, TransactionsOf
<1>6. \A t \in heard : t[1] \in Nat
  <2>1. \A t \in Transactions(chain, Slots) : t[1] \in Slots
    BY <1>1, TransactionsOf
  <2> QED
    BY <1>2, <1>3, <2>1 DEF Slots
<1>7. AheadOf(rows, head + 1, heard \cup now, CallbackWork(head + 1, n))
  BY <1>1, <1>2, <1>3, <1>4, CalmAhead
<1>8. \A t \in now : t[1] = head + 1
  OBVIOUS
<1> HIDE DEF now
<1>9. CalmAt(c)'
  <2> DEFINE work == CallbackWork(head + 1, n)
  <2>1. /\ c[2] = head + 1 /\ c[3] = n /\ calls'[c] = work
    BY DEF n
  <2>2. \A t \in heard' : t[1] < c[2]
    BY <1>1, <1>2, <1>3, <1>6, <2>1
  <2>3. work \in Seq(WsStatement) /\ Len(work) > 1
    BY <1>1, <1>4, InCallback
  <2>4. work[Len(work)].kind = "save"
    <3>1. \A p \in Seq(WsStatement) : LET s == p \o Saving IN s[Len(s)].kind = "save"
      BY DEF Saving
    <3>2. Persisting(head + 1, n) \in Seq(WsStatement)
      <4> DEFINE order == WriteOrder(chain[head + 1][n])
      <4>1. order \in Seq(Event)
        BY <1>1, <1>4, ChainType, InWriteOrder
      <4>2. DOMAIN order = 1..Len(order)
        BY <4>1
      <4>3. Persisting(head + 1, n) = Stored(head + 1, n)
        BY <4>2 DEF Persisting, Stored, LogOf, Apply
      <4>4. Stored(head + 1, n) \in Seq(Statement)
        BY <1>1, <1>4, StoredWork
      <4> QED
        BY <4>3, <4>4 DEF WsStatement
    <3> QED
      BY <3>1, <3>2 DEF CallbackWork
  <2>5. \A e : In(Apply(e), work) => \E p \in Lines(chain, now) : Line(chain, p) = e
    <3>1. WorkFor(work, now)
      BY <1>1, <1>4, CallbackWorkFor DEF now
    <3> QED
      BY <3>1 DEF WorkFor
  <2> HIDE DEF work
  <2>6. AheadOf(rows, head, Told, calls[c])'
    <3>1. AheadOf(rows', head', Told', calls'[c])
      BY <1>3, <1>7, <2>1 DEF work
    <3> QED
      BY <3>1, SameAhead
  <2>7. \A e : In(Apply(e), calls'[c]) => \E p \in Lines(chain', {<<c[2], c[3]>>}) : Line(chain', p) = e
    BY <2>1, <2>5 DEF now
  <2>8. calls'[c][Len(calls'[c])].kind = "save"
    BY <2>1, <2>4
  <2> QED
    BY <2>2, <2>6, <2>7, <2>8 DEF CalmAt
<1>10. \A t \in Told' : t[1] <= head' /\ t[1] # 0
  BY <1>1, <1>2, <1>3, <1>6, <1>8
<1>11. Told' \in SUBSET Transactions(chain, Slots)'
  BY <1>2, <1>3, <1>5
<1>12. \A d, e \in DOMAIN calls' : d = e
  OBVIOUS
<1> QED
  BY <1>2, <1>9, <1>10, <1>11, <1>12 DEF CalmInv

\* A slot that is confirmed while all is calm tells nothing, or one callback begins.
LEMMA CalmConfirm ==
  ASSUME WsInv, CalmInv, InOrder(chain), WsConfirm, calm'
  PROVE  CalmInv'
<1> DEFINE told == CallbacksOf(head')
<1>1. PICK lost \in SUBSET told :
        /\ calls' = [c \in DOMAIN calls \cup (told \ lost) |->
                       IF c \in told THEN CallbackWork(c[2], c[3]) ELSE calls[c]]
        /\ calm' = (calm /\ lost = {} /\ Cardinality(DOMAIN calls') <= 1
                      /\ (chain[head'] = <<>> \/ told # {}))
  BY Zenon DEF WsConfirm
<1>2. head < MaxSlot /\ head' = head + 1 /\ UNCHANGED <<chain, rows, ckpt, heard>>
  BY DEF WsConfirm
<1>3. calm /\ lost = {} /\ Cardinality(DOMAIN calls') <= 1
  BY <1>1, Zenon
<1>4. DOMAIN calls' = DOMAIN calls \cup told
  BY <1>1, <1>3
<1>5. chain \in Chains /\ head \in Nat /\ head' \in Slots
  BY <1>2, IndexerAssumption DEF WsInv, IndexerInv, TypeOK, Slots
<1>6. CASE told = {}
  <2>1. DOMAIN calls' = DOMAIN calls /\ \A c \in DOMAIN calls : calls'[c] = calls[c]
    <3> HIDE DEF told
    <3> QED
      BY <1>1, <1>6
  <2> QED
    BY <1>2, <1>3, <2>1, CalmEmpty
<1>7. CASE told # {}
  <2>1. IsFiniteSet(told)
    <3>1. DOMAIN chain[head'] = 1..Len(chain[head']) /\ Len(chain[head']) \in Nat
      BY <1>5, ChainType
    <3> DEFINE m == Len(chain[head'])
    <3>2. m \in Nat /\ \A t \in told : \E i \in Instances, n \in 1..m : t = <<i, head', n>>
      BY <3>1 DEF CallbacksOf
    <3> HIDE DEF told, m
    <3> QED
      BY <3>2, FinitelyTold
  <2>2. PICK c \in told : TRUE
    BY <1>7
  <2>3. c[2] = head' /\ c[3] \in DOMAIN chain[head']
    BY <2>2 DEF CallbacksOf
  <2>4. calls'[c] = CallbackWork(c[2], c[3])
    BY <1>1, <1>4, <2>2
  <2> HIDE DEF told
  <2>5. IsFiniteSet(DOMAIN calls)
    <3>1. \A a, b \in DOMAIN calls : a = b
      BY <1>3 DEF CalmInv
    <3>2. DOMAIN calls = {} \/ \E a : DOMAIN calls = {a}
      BY <3>1
    <3> QED
      BY <3>2, FS_EmptySet, FS_Singleton
  <2>6. IsFiniteSet(DOMAIN calls')
    BY <1>4, <2>1, <2>5, FS_Union
  <2>7. \A a, b \in DOMAIN calls' : a = b
    BY <1>3, <2>6, AtMostOne
  <2>8. DOMAIN calls' = {c}
    BY <1>4, <2>2, <2>7
  <2>9. DOMAIN calls = {}
    <3>1. SUFFICES ASSUME c \in DOMAIN calls PROVE FALSE
      BY <1>4, <2>8
    <3>2. <<c[2], c[3]>> \in Told
      BY <3>1 DEF Told
    <3>3. \A t \in Told : t[1] <= head
      BY <1>3 DEF CalmInv
    <3>4. <<c[2], c[3]>>[1] = c[2]
      OBVIOUS
    <3> QED
      BY <1>2, <1>5, <2>3, <3>2, <3>3, <3>4
  <2> QED
    BY <1>2, <1>3, <2>3, <2>4, <2>8, <2>9, CalmBegins
<1> QED
  BY <1>6, <1>7

\* A statement of the only callback in progress.
LEMMA CalmCallback ==
  ASSUME WsInv, CalmInv, NEW c \in DOMAIN calls, Callback(c), calm'
  PROVE  CalmInv'
<1> DEFINE s == Head(calls[c])
           rest == Tail(calls[c])
           work == calls[c]
           t == <<c[2], c[3]>>
<1>1. calm /\ faults' = faults
  BY DEF Callback
<1>2. /\ Told \in SUBSET Transactions(chain, Slots)
      /\ \A u \in Told : u[1] <= head /\ u[1] # 0
      /\ \A d \in DOMAIN calls : d = c
      /\ CalmAt(c)
      /\ \A u \in heard : ckpt["logs"] # None /\ ckpt["logs"] >= u[1]
  BY <1>1 DEF CalmInv
<1>3. /\ chain \in Chains /\ rows \in [Ids -> Row] /\ head \in Slots /\ faults \in Nat
      /\ ckpt \in [{"polling", "logs"} -> Slot]
  BY DEF WsInv, IndexerInv, TypeOK
<1>4. /\ work \in Seq(WsStatement) /\ work # <<>> /\ s \in WsStatement /\ rest \in Seq(WsStatement)
      /\ s.kind = "event" => s.event \in Logged(chain)
      /\ c[2] \in Slots /\ c[3] \in DOMAIN chain[c[2]]
  BY Called DEF WsInv, CallAt
<1>5. /\ \/ s.kind = "log" /\ rows' = rows /\ ckpt' = ckpt
         \/ s.kind = "event" /\ rows' = ApplyEvent(rows, s.event) /\ ckpt' = ckpt
         \/ s.kind = "save" /\ rows' = rows /\ ckpt' = [ckpt EXCEPT !["logs"] = c[2]]
      /\ UNCHANGED <<chain, head>>
  BY <1>1, <1>3 DEF Callback, Fault
<1>6. t \in Told /\ heard \subseteq Told
  BY DEF Told
<1>7. t[1] = c[2] /\ c[2] \in Nat /\ \A u \in heard : u[1] < c[2]
  BY <1>2, <1>4 DEF CalmAt, Slots
<1>8. \A u \in Told : u[1] \in Nat
  <2>1. \A u \in Transactions(chain, Slots) : u[1] \in Slots
    BY <1>3, TransactionsOf
  <2> QED
    BY <1>2, <2>1 DEF Slots
<1>9. Told = heard \cup {t}
  BY <1>2 DEF Told
<1>10. rows' \in [Ids -> Row]
  BY <1>3, <1>4, <1>5, LoggedType, Applied
<1> HIDE DEF t
<1>11. CASE Len(work) = 1
  <2>1. DOMAIN calls' = {} /\ heard' = heard \cup {t}
    BY <1>2, <1>11 DEF Callback, t
  <2>2. s.kind = "save"
    <3>1. work[Len(work)].kind = "save"
      BY <1>2 DEF CalmAt
    <3> QED
      BY <1>4, <1>11, <3>1
  <2>3. rows' = rows /\ ckpt'["logs"] = c[2]
    BY <1>3, <1>5, <2>2
  <2>4. \A e : ~ In(Apply(e), work)
    <3>1. \A x : In(x, work) => x = s
      BY <1>4, <1>11 DEF In
    <3> QED
      BY <2>2, <3>1, ApplyOne
  <2>5. AheadOf(rows, head, heard, <<>>)'
    <3>1. AheadOf(rows, head, Told, work)
      BY <1>2 DEF CalmAt
    <3>2. \A e : ~ In(Apply(e), <<>>)
      BY DEF In
    <3> DEFINE all == heard \cup {t}
    <3>3. AheadOf(rows, head, all, work)
      BY <1>9, <3>1
    <3> HIDE DEF all, work
    <3>4. AheadOf(rows, head, all, <<>>)
      BY <2>4, <3>2, <3>3, AheadOfNone
    <3>5. AheadOf(rows', head', heard', <<>>)
      BY <1>5, <2>1, <2>3, <3>4 DEF all
    <3> QED
      BY <1>5, <3>5, SameAhead
  <2>6. Told' = Told
    BY <1>9, <2>1 DEF Told
  <2>7. \A u \in heard' : ckpt'["logs"] # None /\ ckpt'["logs"] >= u[1]
    <3>1. c[2] # None
      BY <1>7, IndexerAssumption
    <3>2. \A u \in heard' : u[1] <= c[2] /\ u[1] \in Nat
      BY <1>6, <1>7, <1>8, <2>1
    <3> QED
      BY <1>7, <2>3, <3>1, <3>2
  <2>8. Told' \in SUBSET Transactions(chain, Slots)' /\ \A u \in Told' : u[1] <= head' /\ u[1] # 0
    BY <1>2, <1>5, <2>6
  <2> QED
    BY <2>1, <2>5, <2>7, <2>8 DEF CalmInv
<1>12. CASE Len(work) # 1
  <2>0. s = Head(work) /\ rest = Tail(work)
    OBVIOUS
  <2>1. DOMAIN calls' = {c} /\ calls'[c] = rest /\ heard' = heard
    BY <1>2, <1>12 DEF Callback
  <2>2. Told' = Told
    BY <1>9, <2>1 DEF Told, t
  <2>3. \A x : In(x, work) <=> x = s \/ In(x, rest)
    BY <1>4, InTail
  <2>4. \A e : In(Apply(e), work) => \E p \in Lines(chain, {t}) : Line(chain, p) = e
    BY <1>2 DEF CalmAt, t
  <2>5. s.kind = "event" =>
          /\ s = Apply(s.event) /\ s.event \in Event
          /\ \E p \in Lines(chain, {t}) : Line(chain, p) = s.event
    <3>1. s.kind = "event" => s = Apply(s.event) /\ s.event \in Event
      BY <1>4, ApplyOne DEF WsStatement
    <3> QED
      BY <2>3, <2>4, <3>1
  <2>6. rest[Len(rest)].kind = "save"
    <3>1. work[Len(work)].kind = "save"
      BY <1>2 DEF CalmAt
    <3> HIDE DEF rest, work, s
    <3>2. work \in Seq(WsStatement) /\ work # <<>> /\ Len(work) # 1 /\ rest = Tail(work)
      BY <1>4, <1>12, <2>0
    <3>3. /\ Len(work) \in Nat \ {0} /\ Len(rest) = Len(work) - 1
          /\ \A k \in 1..Len(rest) : rest[k] = work[k + 1]
      BY <3>2
    <3> DEFINE m == Len(work)
    <3>4. m \in Nat \ {0} /\ m # 1
      BY <3>2, <3>3
    <3> HIDE DEF m
    <3>5. m - 1 \in 1..m - 1 /\ m - 1 + 1 = m
      BY <3>4
    <3>6. Len(rest) = m - 1 /\ rest[m - 1] = work[m]
      BY <3>3, <3>5 DEF m
    <3> QED
      BY <3>1, <3>6 DEF m
  <2> HIDE DEF s, rest, work
  <2>7. ASSUME NEW ids \in SUBSET Ids, Followed(ids, head, Told), NEW id \in ids
        PROVE  AheadRow(rows', id, ids, rest, SaidBy(id, Told))
    <3> DEFINE said == [p \in ids |-> SaidBy(p, Told)]
    <3>1. \A p \in ids : AheadRow(rows, p, ids, work, said[p])
      BY <1>2, <2>7 DEF CalmAt, AheadOf, work
    <3>2. \/ s.kind # "event" /\ rows' = rows
          \/ \E e \in Event : /\ s = Apply(e) /\ rows' = ApplyEvent(rows, e)
                              /\ e.op = "create" /\ e.id \in ids => e.needs \subseteq ids
      <4>1. CASE s.kind # "event"
        BY <1>5, <4>1
      <4>2. CASE s.kind = "event"
        <5>1. PICK p \in Lines(chain, {t}) : Line(chain, p) = s.event
          BY <2>5, <4>2
        <5>2. {t} \in SUBSET Transactions(chain, Slots)
          BY <1>2, <1>6
        <5>3. p \in Logs /\ <<p[1], p[2]>> = t
          BY <1>3, <5>1, <5>2, InLines
        <5>4. p[1] = t[1]
          BY <5>3
        <5>5. p[1] <= head
          BY <1>2, <1>6, <5>4
        <5>6. Line(chain, p).id \in ids /\ Line(chain, p).op = "create" =>
                Line(chain, p).needs \subseteq ids
          BY <1>3, <2>7, <5>3, <5>5, FollowedLines
        <5> QED
          BY <1>5, <2>5, <4>2, <5>1, <5>6
      <4> QED
        BY <4>1, <4>2
    <3>3. said[id] = SaidBy(id, Told)
      OBVIOUS
    <3> HIDE DEF said
    <3>4. AheadRow(rows', id, ids, Tail(work), said[id])
      BY <1>3, <1>4, <1>10, <2>0, <3>1, <3>2, AheadStep
    <3> QED
      BY <2>0, <3>3, <3>4
  <2>8. AheadOf(rows', head, Told, rest)
    BY <2>7 DEF AheadOf
  <2>9. CalmAt(c)'
    <3>1. AheadOf(rows', head', Told', calls'[c])
      BY <1>5, <2>1, <2>2, <2>8
    <3>2. AheadOf(rows, head, Told, calls[c])'
      BY <1>5, <3>1, SameAhead
    <3>3. \A e : In(Apply(e), calls'[c]) => \E p \in Lines(chain', {t}) : Line(chain', p) = e
      BY <1>5, <2>1, <2>3, <2>4
    <3>4. calls'[c][Len(calls'[c])].kind = "save"
      BY <2>1, <2>6
    <3>5. \A u \in heard' : u[1] < c[2]
      BY <1>7, <2>1
    <3> QED
      BY <3>2, <3>3, <3>4, <3>5 DEF CalmAt, t
  <2>10. \A u \in heard' : ckpt'["logs"] # None /\ ckpt'["logs"] >= u[1]
    <3>1. ckpt'["logs"] = ckpt["logs"] \/ ckpt'["logs"] = c[2]
      BY <1>3, <1>5
    <3>2. c[2] # None
      BY <1>7, IndexerAssumption
    <3>3. \A u \in heard : c[2] >= u[1]
      BY <1>6, <1>7, <1>8
    <3> QED
      BY <1>2, <2>1, <3>1, <3>2, <3>3
  <2>11. Told' \in SUBSET Transactions(chain, Slots)' /\ \A u \in Told' : u[1] <= head' /\ u[1] # 0
    BY <1>2, <1>5, <2>2
  <2>12. \A d, e \in DOMAIN calls' : d = e
    BY <2>1
  <2> QED
    BY <2>1, <2>9, <2>10, <2>11, <2>12 DEF CalmInv
<1> QED
  BY <1>11, <1>12

\* A step that leaves the tables, the callbacks and what was heard alone.
LEMMA CalmAside ==
  ASSUME CalmInv, calm, UNCHANGED <<chain, head, rows, calls, heard>>,
         \A t \in heard : ckpt'["logs"] # None /\ ckpt'["logs"] >= t[1]
  PROVE  CalmInv'
<1>1. /\ Told \in SUBSET Transactions(chain, Slots)
      /\ \A t \in Told : t[1] <= head /\ t[1] # 0
      /\ \A c, d \in DOMAIN calls : c = d
      /\ \A c \in DOMAIN calls : CalmAt(c)
      /\ DOMAIN calls = {} => AheadOf(rows, head, heard, <<>>)
  BY DEF CalmInv
<1>2. Told' = Told
  BY DEF Told
<1>3. ASSUME NEW c \in DOMAIN calls PROVE CalmAt(c)'
  <2>1. CalmAt(c)
    BY <1>1
  <2>2. AheadOf(rows', head', Told', calls'[c])
    BY <1>2, <2>1 DEF CalmAt
  <2>3. AheadOf(rows, head, Told, calls[c])'
    BY <2>2, SameAhead
  <2> QED
    BY <2>1, <2>3 DEF CalmAt
<1>4. DOMAIN calls' = {} => AheadOf(rows, head, heard, <<>>)'
  <2>1. DOMAIN calls' = {} => AheadOf(rows', head', heard', <<>>)
    BY <1>1
  <2> QED
    BY <2>1, SameAhead
<1>5. \A c \in DOMAIN calls' : CalmAt(c)'
  BY <1>3
<1>6. Told' \in SUBSET Transactions(chain, Slots)'
  BY <1>1, <1>2
<1> QED
  BY <1>1, <1>2, <1>4, <1>5, <1>6 DEF CalmInv

\* Every step keeps the invariant; what a boot saves over a callback is not calm.
LEMMA CalmStep ==
  ASSUME WsInv, CalmInv, ProgramOrder, [WsNext]_wsVars
  PROVE  CalmInv'
<1>1. SUFFICES ASSUME calm' PROVE CalmInv'
  BY DEF CalmInv
<1>2. InOrder(chain) /\ faults \in Nat /\ chain \in Chains /\ ckpt \in [{"polling", "logs"} -> Slot]
  BY DEF ProgramOrder, WsInv, IndexerInv, TypeOK
<1>3. CASE WsConfirm
  BY <1>1, <1>2, <1>3, CalmConfirm
<1>4. ASSUME NEW c \in DOMAIN calls, Callback(c) PROVE CalmInv'
  BY <1>1, <1>4, CalmCallback
<1>5. ASSUME UNCHANGED <<chain, head, rows, calls, heard, ckpt, calm>> PROVE CalmInv'
  <2>1. calm
    BY <1>1, <1>5
  <2>2. \A t \in heard : ckpt'["logs"] # None /\ ckpt'["logs"] >= t[1]
    BY <1>5, <2>1 DEF CalmInv
  <2> QED
    BY <1>5, <2>1, <2>2, CalmAside
<1>6. ASSUME NEW i \in Instances, WsStart(i) \/ Subscribe(i) PROVE CalmInv'
  BY <1>5, <1>6 DEF WsStart, Start, Subscribe
<1>7. ASSUME NEW i \in Instances, WsCrash(i) PROVE CalmInv'
  BY <1>1, <1>7 DEF WsCrash
<1>8. ASSUME NEW i \in Instances, WsBoot(i) PROVE CalmInv'
  <2>1. calm /\ faults' = faults
    BY <1>1, <1>8 DEF WsBoot
  <2>2. Backfill(i) /\ UNCHANGED <<chain, head, rows, calls, heard>>
    BY <1>8 DEF WsBoot, Backfill, BackfillSlot, BackfillRead, BackfillSeed, BackfillReadLogs, BackfillLogs
  <2>3. heard = {} \/ UNCHANGED ckpt
    BY <1>1, <1>8 DEF WsBoot
  <2>4. \A t \in heard : ckpt'["logs"] # None /\ ckpt'["logs"] >= t[1]
    BY <2>1, <2>3 DEF CalmInv
  <2> QED
    BY <2>1, <2>2, <2>4, CalmAside
<1>9. CASE UNCHANGED wsVars
  BY <1>5, <1>9 DEF wsVars, vars
<1> QED
  BY <1>3, <1>4, <1>6, <1>7, <1>8, <1>9 DEF WsNext

\* At first nothing was heard and the tables are empty.
LEMMA CalmInit ==
  ASSUME WsInit
  PROVE  CalmInv
<1>1. rows = NoRows /\ DOMAIN calls = {} /\ heard = {}
  BY DEF WsInit, Init, NoCalls
<1>2. Told = {}
  BY <1>1 DEF Told
<1>3. \A id : Of(id, "create", {}) = {}
  BY DEF Of, Lines
<1>4. \A id : SaidBy(id, {}) = Absent
  BY <1>3 DEF SaidBy
<1>5. \A id \in Ids : rows[id] = SaidBy(id, {}) /\ Free(rows, id)
  BY <1>1, <1>4 DEF NoRows, Free, Rivals
<1>6. \A e : ~ In(Apply(e), <<>>)
  BY DEF In
<1>7. AheadOf(rows, head, {}, <<>>)
  BY <1>5, <1>6, AheadOfNone
<1> QED
  BY <1>1, <1>2, <1>7 DEF CalmInv

\* Callbacks that do not overlap leave in the tables what the chain says of the rows they
\* were told everything of, the first of their name and version, and in the checkpoint the
\* last slot they were told of, for any chain the program can log and any number of
\* instances.
THEOREM ConvergedCalmly ==
  ASSUME ProgramOrder
  PROVE  WsSpec => []ConvergedWhenCalm
<1>1. WsInit => CalmInv
  BY CalmInit
<1>2. WsInv /\ CalmInv /\ [WsNext]_wsVars => CalmInv'
  BY CalmStep
<1>3. CalmInv => ConvergedWhenCalm
  <2>1. SUFFICES ASSUME CalmInv, calm, calls = NoCalls
                 PROVE  /\ \A ids \in SUBSET Ids : Followed(ids, head, heard) =>
                             \A id \in ids : rows[id] = SaidBy(id, heard)
                        /\ \A c \in heard : ckpt["logs"] >= c[1]
    BY DEF ConvergedWhenCalm
  <2>2. DOMAIN calls = {}
    BY <2>1 DEF NoCalls
  <2>3. AheadOf(rows, head, heard, <<>>) /\ \A c \in heard : ckpt["logs"] >= c[1]
    BY <2>1, <2>2 DEF CalmInv
  <2>4. \A e : ~ In(Apply(e), <<>>)
    BY DEF In
  <2> QED
    BY <2>3, <2>4, AheadOfNone
<1> QED
  BY <1>1, <1>2, <1>3, WsInvariant, PTL DEF WsSpec
=============================================================================
