--------------------------- MODULE IndexerProofs ----------------------------
(***************************************************************************)
(* Proofs about the indexer, polling and over the websocket, for any       *)
(* chain, windows, instances, faults and crashes.  The statements of a     *)
(* slot are built by flattening sequences of sequences, a recursive        *)
(* definition; what it yields is proved first, by induction on the number  *)
(* of sequences.  What the tables become is in ConvergenceProofs.          *)
(***************************************************************************)
EXTENDS IndexerWs, WellFoundedInduction, TLAPS

-----------------------------------------------------------------------------
(* Sequences                                                               *)

\* Induction without a predicate: a set of numbers that has 0 and successors.
LEMMA SetInduction ==
  ASSUME NEW S \in SUBSET Nat, 0 \in S, \A n \in S : n + 1 \in S
  PROVE  S = Nat
<1> DEFINE R == OpToRel(<, Nat)
           T == Nat \ S
<1>1. IsWellFoundedOn(R, Nat)
  BY NatLessThanWellFounded DEF OpToRel
<1>2. SUFFICES ASSUME T # {} PROVE FALSE
  OBVIOUS
<1> HIDE DEF R
<1>3. PICK x \in T : \A y \in T : <<y, x>> \notin R
  BY <1>1, <1>2, WFMin
<1>4. x # 0 /\ x - 1 \in Nat /\ x - 1 < x /\ x \in Nat
  BY <1>3
<1>5. <<x - 1, x>> \in R
  BY <1>4 DEF R, OpToRel
<1>6. x - 1 \in S
  BY <1>3, <1>4, <1>5
<1>7. x - 1 + 1 \in S
  BY <1>6
<1> QED
  BY <1>4, <1>7, <1>3

\* x is an element of the sequence.
In(x, s) == \E k \in 1..Len(s) : s[k] = x

\* Sequences put together have the elements of both.
LEMMA InConcat ==
  ASSUME NEW T, NEW s \in Seq(T), NEW t \in Seq(T)
  PROVE  /\ s \o t \in Seq(T) /\ Len(s \o t) = Len(s) + Len(t)
         /\ \A x : In(x, s \o t) <=> In(x, s) \/ In(x, t)
<1>1. s \o t \in Seq(T) /\ Len(s \o t) = Len(s) + Len(t)
  OBVIOUS
<1>2. ASSUME NEW x, In(x, s \o t) PROVE In(x, s) \/ In(x, t)
  <2>1. PICK k \in 1..Len(s) + Len(t) : (s \o t)[k] = x
    BY <1>1, <1>2 DEF In
  <2>2. CASE k <= Len(s)
    BY <2>1, <2>2 DEF In
  <2>3. CASE k > Len(s)
    <3>1. k - Len(s) \in 1..Len(t) /\ t[k - Len(s)] = x
      BY <2>1, <2>3
    <3> QED
      BY <3>1 DEF In
  <2> QED
    BY <2>2, <2>3
<1>3. ASSUME NEW x, In(x, s) PROVE In(x, s \o t)
  <2>1. PICK k \in 1..Len(s) : s[k] = x
    BY <1>3 DEF In
  <2>2. k \in 1..Len(s \o t) /\ (s \o t)[k] = x
    BY <1>1, <2>1
  <2> QED
    BY <2>2 DEF In
<1>4. ASSUME NEW x, In(x, t) PROVE In(x, s \o t)
  <2>1. PICK k \in 1..Len(t) : t[k] = x
    BY <1>4 DEF In
  <2>2. Len(s) + k \in 1..Len(s \o t) /\ (s \o t)[Len(s) + k] = x
    BY <1>1, <2>1
  <2> QED
    BY <2>2 DEF In
<1> QED
  BY <1>1, <1>2, <1>3, <1>4

\* What is put behind a sequence does not change its head.
LEMMA HeadOfConcat ==
  ASSUME NEW T, NEW s \in Seq(T), NEW t \in Seq(T), Len(s) # 0
  PROVE  Len(s \o t) # 0 /\ Head(s \o t) = s[1]
<1>1. Len(s) \in Nat \ {0} /\ Len(t) \in Nat /\ Len(s \o t) = Len(s) + Len(t)
  OBVIOUS
<1>2. (s \o t)[1] = s[1]
  BY <1>1
<1>3. s \o t \in Seq(T) /\ s \o t # <<>>
  BY <1>1
<1> QED
  BY <1>1, <1>2, <1>3

\* A sequence has its head and the elements of its tail.
LEMMA InTail ==
  ASSUME NEW T, NEW s \in Seq(T), s # <<>>
  PROVE  /\ Tail(s) \in Seq(T) /\ Head(s) \in T /\ In(Head(s), s)
         /\ \A x : In(x, s) <=> x = Head(s) \/ In(x, Tail(s))
<1>1. Tail(s) \in Seq(T) /\ Head(s) \in T /\ Len(s) \in Nat \ {0} /\ Len(Tail(s)) = Len(s) - 1
      /\ Head(s) = s[1]
  OBVIOUS
<1>2. \A k \in 1..Len(Tail(s)) : Tail(s)[k] = s[k + 1] /\ k + 1 \in 1..Len(s)
  BY <1>1
<1>3. ASSUME NEW x, In(x, s) PROVE x = Head(s) \/ In(x, Tail(s))
  <2>1. PICK k \in 1..Len(s) : s[k] = x
    BY <1>3 DEF In
  <2>2. CASE k = 1
    BY <1>1, <2>1, <2>2
  <2>3. CASE k # 1
    <3>1. k - 1 \in 1..Len(Tail(s)) /\ Tail(s)[k - 1] = s[k]
      BY <1>1, <1>2, <2>1, <2>3
    <3> QED
      BY <2>1, <3>1 DEF In
  <2> QED
    BY <2>2, <2>3
<1>4. In(Head(s), s)
  BY <1>1 DEF In
<1>5. ASSUME NEW x, In(x, Tail(s)) PROVE In(x, s)
  BY <1>2, <1>5 DEF In
<1> QED
  BY <1>1, <1>3, <1>4, <1>5

\* The recursive function in FlattenSeq exists: the one for n + 1 sequences
\* extends the one for n.
LEMMA FlattenDefined ==
  ASSUME NEW seqs, NEW n \in Nat
  PROVE  \E f : f = [i \in 1..n |-> IF i = 1 THEN seqs[i] ELSE f[i - 1] \o seqs[i]]
<1> DEFINE Defines(f, k) == f = [i \in 1..k |-> IF i = 1 THEN seqs[i] ELSE f[i - 1] \o seqs[i]]
           S == {k \in Nat : \E f : Defines(f, k)}
<1>1. 0 \in S
  <2>1. Defines([i \in 1..0 |-> <<>>], 0)
    OBVIOUS
  <2> QED
    BY <2>1
<1>2. ASSUME NEW k \in S PROVE k + 1 \in S
  <2>1. PICK f : Defines(f, k)
    OBVIOUS
  <2> DEFINE g == [i \in 1..k + 1 |-> IF i = 1 THEN seqs[i] ELSE f[i - 1] \o seqs[i]]
  <2>2. \A i \in 1..k : f[i] = IF i = 1 THEN seqs[i] ELSE f[i - 1] \o seqs[i]
    BY <2>1
  <2>3. k \in Nat /\ k + 1 \in Nat
    OBVIOUS
  <2>4. \A i \in 1..k + 1 : i # 1 => g[i - 1] = f[i - 1]
    <3>1. \A i \in 1..k : i \in 1..k + 1
      BY <2>3
    <3>2. \A i \in 1..k : g[i] = f[i]
      BY <2>2, <3>1
    <3>3. \A i \in 1..k + 1 : i # 1 => i - 1 \in 1..k
      BY <2>3
    <3> HIDE DEF g
    <3> QED
      BY <3>2, <3>3
  <2>5. g = [i \in 1..k + 1 |-> IF i = 1 THEN seqs[i] ELSE g[i - 1] \o seqs[i]]
    BY <2>4
  <2> HIDE DEF g
  <2>6. \E h : Defines(h, k + 1)
    BY <2>5
  <2> QED
    BY <2>3, <2>6
<1>3. S = Nat
  <2> HIDE DEF S
  <2>1. S \in SUBSET Nat
    BY DEF S
  <2> QED
    BY <1>1, <1>2, <2>1, SetInduction
<1> QED
  BY <1>3

\* What the recursive function in FlattenSeq is at each sequence.
PrefixesOf(f, seqs, T) ==
  /\ f[1] = seqs[1]
  /\ \A k \in 1..Len(seqs) : k # 1 => f[k] = f[k - 1] \o seqs[k]
  /\ \A k \in 1..Len(seqs) :
       /\ f[k] \in Seq(T)
       /\ \A x : In(x, f[k]) <=> \E i \in 1..k : In(x, seqs[i])

\* FlattenSeq puts the sequences together one by one.
LEMMA FlattenPrefixes ==
  ASSUME NEW T, NEW seqs \in Seq(Seq(T)), Len(seqs) # 0
  PROVE  \E f : FlattenSeq(seqs) = f[Len(seqs)] /\ PrefixesOf(f, seqs, T)
<1> DEFINE n == Len(seqs)
           Defines(f) == f = [i \in 1..n |-> IF i = 1 THEN seqs[i] ELSE f[i - 1] \o seqs[i]]
           f == CHOOSE f : Defines(f)
<1>1. n \in Nat \ {0} /\ \A i \in 1..n : seqs[i] \in Seq(T)
  OBVIOUS
<1>2. FlattenSeq(seqs) = f[n]
  BY DEF FlattenSeq
<1>3. Defines(f)
  <2>1. \E g : Defines(g)
    BY <1>1, FlattenDefined
  <2> QED
    BY <2>1
<1> HIDE DEF f, n
<1>4. \A i \in 1..n : f[i] = IF i = 1 THEN seqs[i] ELSE f[i - 1] \o seqs[i]
  BY <1>3
<1> DEFINE Good(k) == k \in 1..n => /\ f[k] \in Seq(T)
                                    /\ \A x : In(x, f[k]) <=> \E i \in 1..k : In(x, seqs[i])
           S == {k \in Nat : Good(k)}
<1>5. 0 \in S
  OBVIOUS
<1>6. ASSUME NEW k \in S PROVE k + 1 \in S
  <2>1. SUFFICES ASSUME k + 1 \in 1..n PROVE Good(k + 1)
    OBVIOUS
  <2>2. CASE k = 0
    <3>1. f[1] = seqs[1] /\ 1 \in 1..n
      BY <1>1, <1>4
    <3>2. \A i \in 1..1 : i = 1
      OBVIOUS
    <3>3. f[1] \in Seq(T) /\ \A x : In(x, f[1]) <=> \E i \in 1..1 : In(x, seqs[i])
      BY <1>1, <3>1, <3>2
    <3> QED
      BY <2>2, <3>3
  <2>3. CASE k # 0
    <3>1. k \in 1..n /\ k + 1 # 1 /\ k + 1 - 1 = k
      BY <1>1, <2>1, <2>3
    <3> DEFINE m == k + 1
    <3>2. m \in 1..n /\ m # 1 /\ m - 1 = k
      BY <2>1, <3>1
    <3> HIDE DEF m
    <3>3. f[m] = f[m - 1] \o seqs[m]
      BY <1>4, <3>2
    <3>4. f[k + 1] = f[k] \o seqs[k + 1]
      BY <3>2, <3>3 DEF m
    <3>5. f[k] \in Seq(T) /\ \A x : In(x, f[k]) <=> \E i \in 1..k : In(x, seqs[i])
      BY <3>1
    <3>6. seqs[k + 1] \in Seq(T)
      BY <1>1, <2>1
    <3>7. f[k + 1] \in Seq(T) /\ \A x : In(x, f[k + 1]) <=> In(x, f[k]) \/ In(x, seqs[k + 1])
      BY <3>4, <3>5, <3>6, InConcat
    <3>8. \A i : i \in 1..k + 1 <=> i \in 1..k \/ i = k + 1
      BY <3>1
    <3> QED
      BY <3>5, <3>7, <3>8
  <2> QED
    BY <2>2, <2>3
<1>7. S = Nat
  <2> HIDE DEF S
  <2>1. S \in SUBSET Nat
    BY DEF S
  <2> QED
    BY <1>5, <1>6, <2>1, SetInduction
<1>8. \A k \in 1..n : Good(k)
  <2>1. \A k \in 1..n : k \in S
    <3> HIDE DEF S
    <3> QED
      BY <1>1, <1>7
  <2> QED
    BY <2>1
<1>9. f[1] = seqs[1]
  BY <1>1, <1>4
<1>10. \A k \in 1..n : k # 1 => f[k] = f[k - 1] \o seqs[k]
  BY <1>4
<1> QED
  BY <1>2, <1>8, <1>9, <1>10 DEF n, PrefixesOf

\* A flattened sequence has the elements of its sequences and no other.
LEMMA InFlatten ==
  ASSUME NEW T, NEW seqs \in Seq(Seq(T))
  PROVE  /\ FlattenSeq(seqs) \in Seq(T)
         /\ \A x : In(x, FlattenSeq(seqs)) <=> \E i \in 1..Len(seqs) : In(x, seqs[i])
<1>1. CASE Len(seqs) = 0
  <2>1. FlattenSeq(seqs) = seqs /\ seqs = <<>>
    BY <1>1 DEF FlattenSeq
  <2> QED
    BY <1>1, <2>1 DEF In
<1>2. CASE Len(seqs) # 0
  <2>1. Len(seqs) \in 1..Len(seqs)
    BY <1>2
  <2>2. PICK f : FlattenSeq(seqs) = f[Len(seqs)] /\ PrefixesOf(f, seqs, T)
    BY <1>2, FlattenPrefixes
  <2>3. f[Len(seqs)] \in Seq(T)
    BY <2>1, <2>2 DEF PrefixesOf
  <2>4. \A x : In(x, f[Len(seqs)]) <=> \E i \in 1..Len(seqs) : In(x, seqs[i])
    BY <2>1, <2>2 DEF PrefixesOf
  <2> QED
    BY <2>2, <2>3, <2>4
<1> QED
  BY <1>1, <1>2

-----------------------------------------------------------------------------
(* What a transaction becomes                                              *)

\* What a parser makes of each line of a log.
PartOf(part, e, group) ==
  /\ part = IF e.group = group THEN <<e>> ELSE <<>>
  /\ \A d : In(d, part) <=> d = e /\ e.group = group

\* A parser's events are those parts, put together.
LEMMA ParsedParts ==
  ASSUME NEW tx \in Seq(Event), NEW group
  PROVE  \E parts \in Seq(Seq(Event)) :
           /\ Len(parts) = Len(tx) /\ Parsed(tx, group) = FlattenSeq(parts)
           /\ \A j \in 1..Len(tx) : PartOf(parts[j], tx[j], group)
<1> DEFINE part(j) == IF tx[j].group = group THEN <<tx[j]>> ELSE <<>>
           parts == [j \in DOMAIN tx |-> part(j)]
<1>1. \A j \in 1..Len(tx) : /\ part(j) \in Seq(Event)
                           /\ \A e : In(e, part(j)) <=> tx[j] = e /\ e.group = group
  <2>1. \A j \in 1..Len(tx) : tx[j] \in Event
    OBVIOUS
  <2>2. \A d : <<d>>[1] = d /\ Len(<<d>>) = 1
    OBVIOUS
  <2>3. \A d, e : In(e, <<d>>) <=> d = e
    BY <2>2 DEF In
  <2>4. \A e : ~ In(e, <<>>)
    BY DEF In
  <2> QED
    BY <2>1, <2>3, <2>4
<1>2. parts \in Seq(Seq(Event)) /\ Len(parts) = Len(tx) /\ \A j \in 1..Len(tx) : parts[j] = part(j)
  <2> HIDE DEF part
  <2>1. DOMAIN tx = 1..Len(tx) /\ Len(tx) \in Nat
    OBVIOUS
  <2> QED
    BY <1>1, <2>1
<1>3. Parsed(tx, group) = FlattenSeq(parts)
  BY DEF Parsed
<1>4. \A j \in 1..Len(tx) : PartOf(parts[j], tx[j], group)
  <2>1. \A j \in 1..Len(tx) : PartOf(part(j), tx[j], group)
    <3> HIDE DEF parts
    <3> QED
      BY <1>1 DEF PartOf
  <2> HIDE DEF parts, part
  <2> QED
    BY <1>2, <2>1
<1> HIDE DEF parts
<1> QED
  BY <1>2, <1>3, <1>4

\* The parsers share the log out among them.
LEMMA InParsed ==
  ASSUME NEW tx \in Seq(Event), NEW group
  PROVE  /\ Parsed(tx, group) \in Seq(Event)
         /\ \A e : In(e, Parsed(tx, group)) <=> In(e, tx) /\ e.group = group
<1>1. PICK parts \in Seq(Seq(Event)) :
             /\ Len(parts) = Len(tx) /\ Parsed(tx, group) = FlattenSeq(parts)
             /\ \A j \in 1..Len(tx) : PartOf(parts[j], tx[j], group)
  BY ParsedParts
<1>2. /\ FlattenSeq(parts) \in Seq(Event)
      /\ \A e : In(e, FlattenSeq(parts)) <=> \E j \in 1..Len(parts) : In(e, parts[j])
  BY InFlatten
<1>3. \A e : \A j \in 1..Len(tx) : In(e, parts[j]) <=> e = tx[j] /\ tx[j].group = group
  BY <1>1 DEF PartOf
<1>4. \A e : In(e, Parsed(tx, group)) <=> \E j \in 1..Len(tx) : In(e, parts[j])
  BY <1>1, <1>2
<1>5. \A e : In(e, tx) <=> \E j \in 1..Len(tx) : tx[j] = e
  BY DEF In
<1>6. \A e : In(e, Parsed(tx, group)) <=> In(e, tx) /\ e.group = group
  <2> SUFFICES ASSUME NEW e
               PROVE  In(e, Parsed(tx, group)) <=> In(e, tx) /\ e.group = group
    OBVIOUS
  <2>1. In(e, Parsed(tx, group)) <=> \E j \in 1..Len(tx) : e = tx[j] /\ tx[j].group = group
    BY <1>3, <1>4, Zenon
  <2> QED
    BY <1>5, <2>1, Zenon
<1> QED
  BY <1>1, <1>2, <1>6

\* persistEvents loses no event and adds none, whatever the order it writes them in.
LEMMA InWriteOrder ==
  ASSUME NEW tx \in Seq(Event)
  PROVE  WriteOrder(tx) \in Seq(Event) /\ \A e : In(e, WriteOrder(tx)) <=> In(e, tx)
<1> DEFINE M == ModuleEvents(tx)
           F == ForkEvents(tx)
           R == RunEvents(tx)
<1>1. /\ M \in Seq(Event) /\ \A e : In(e, M) <=> In(e, tx) /\ e.group = "registry"
      /\ F \in Seq(Event) /\ \A e : In(e, F) <=> In(e, tx) /\ e.group = "forks"
      /\ R \in Seq(Event) /\ \A e : In(e, R) <=> In(e, tx) /\ e.group = "runs"
  BY InParsed DEF ModuleEvents, ForkEvents, RunEvents
<1>2. WriteOrder(tx) = M \o F \o R
  BY DEF WriteOrder
<1> HIDE DEF M, F, R
<1>3. M \o F \in Seq(Event) /\ \A e : In(e, M \o F) <=> In(e, M) \/ In(e, F)
  BY <1>1, InConcat
<1>4. /\ M \o F \o R \in Seq(Event)
      /\ \A e : In(e, M \o F \o R) <=> In(e, M \o F) \/ In(e, R)
  BY <1>1, <1>3, InConcat
<1>5. \A e : In(e, tx) => e.group \in {"registry", "forks", "runs"}
  <2>1. \A k \in 1..Len(tx) : tx[k] \in Event
    OBVIOUS
  <2>2. \A e \in Event : e.group \in {"registry", "forks", "runs"}
    BY DEF Event, Groups
  <2> QED
    BY <2>1, <2>2 DEF In
<1> QED
  BY <1>1, <1>2, <1>3, <1>4, <1>5

\* A transaction becomes a statement for its raw log and one for each of its events.
Statement == [kind : {"log"}, tx : Nat] \cup [kind : {"event"}, event : Event]

LogOf(n) == [kind |-> "log", tx |-> n]

\* The chain, as the steps below use it.
LEMMA ChainType ==
  ASSUME chain \in Chains
  PROVE  /\ DOMAIN chain = Slots
         /\ \A s \in Slots : /\ chain[s] \in Seq(Seq(Event)) /\ DOMAIN chain[s] = 1..Len(chain[s])
                             /\ Len(chain[s]) \in Nat
         /\ \A s \in Slots : \A n \in 1..Len(chain[s]) : chain[s][n] \in Seq(Event)
         /\ \A s \in Slots : \A n \in 1..Len(chain[s]) :
              \A e : In(e, chain[s][n]) => e \in Event /\ e \in Logged(chain)
<1>1. chain \in [Slots -> Seq(Seq(Event))]
  BY IndexerAssumption DEF Slots
<1>2. \A s \in Slots : chain[s] \in Seq(Seq(Event))
  BY <1>1
<1>3. \A s \in Slots : \A n \in 1..Len(chain[s]) : chain[s][n] \in Seq(Event)
  BY <1>2
<1>4. ASSUME NEW s \in Slots, NEW n \in 1..Len(chain[s]), NEW e, In(e, chain[s][n])
      PROVE  e \in Event /\ e \in Logged(chain)
  <2>1. e \in Event
    BY <1>3, <1>4 DEF In
  <2>2. chain[s] \in Range(chain) /\ chain[s][n] \in Range(chain[s])
    BY <1>1, <1>2 DEF Range
  <2>3. e \in Range(chain[s][n])
    BY <1>3, <1>4 DEF In, Range
  <2>4. chain[s][n] \in UNION {Range(chain[r]) : r \in DOMAIN chain}
    BY <1>1, <2>2
  <2>5. Range(chain[s][n]) \in {Range(tx) : tx \in UNION {Range(chain[r]) : r \in DOMAIN chain}}
    BY <2>4
  <2> QED
    BY <2>1, <2>3, <2>5 DEF Logged
<1> QED
  BY <1>1, <1>2, <1>3, <1>4

\* What persistEvents does for a transaction: it stores it, then applies its events.
LEMMA InPersisted ==
  ASSUME chain \in Chains, NEW s \in Slots, NEW n \in 1..Len(chain[s])
  PROVE  LET order == WriteOrder(chain[s][n])
             work == <<LogOf(n)>> \o [j \in 1..Len(order) |-> [kind |-> "event", event |-> order[j]]]
         IN  /\ work \in Seq(Statement) /\ Len(work) # 0 /\ Head(work) = LogOf(n)
             /\ In(LogOf(n), work)
             /\ \A w : In(w, work) /\ w.kind = "event" => w.event \in Logged(chain)
<1> DEFINE order == WriteOrder(chain[s][n])
           evs == [j \in 1..Len(order) |-> [kind |-> "event", event |-> order[j]]]
           first == <<LogOf(n)>>
           work == first \o evs
<1>1. order \in Seq(Event) /\ \A e : In(e, order) => e \in Event /\ e \in Logged(chain)
  BY ChainType, InWriteOrder
<1> HIDE DEF order
<1>2. Len(order) \in Nat /\ \A j \in 1..Len(order) : In(order[j], order)
  BY <1>1 DEF In
<1>3. \A j \in 1..Len(order) : order[j] \in Event /\ order[j] \in Logged(chain)
  BY <1>1, <1>2
<1>4. /\ evs \in Seq(Statement)
      /\ \A w : In(w, evs) => w.kind = "event" /\ w.event \in Logged(chain)
  <2>1. \A j \in 1..Len(order) :
          evs[j] \in Statement /\ evs[j].kind = "event" /\ evs[j].event \in Logged(chain)
    BY <1>3 DEF Statement
  <2>2. evs \in Seq(Statement) /\ Len(evs) = Len(order)
    <3>1. \A j \in 1..Len(order) : [kind |-> "event", event |-> order[j]] \in Statement
      BY <1>3 DEF Statement
    <3> HIDE DEF Statement
    <3> QED
      BY <1>2, <3>1
  <2> HIDE DEF evs
  <2> QED
    BY <2>1, <2>2 DEF In
<1>5. n \in Nat /\ LogOf(n) \in Statement /\ LogOf(n).kind = "log"
  BY ChainType DEF LogOf, Statement
<1>6. first \in Seq(Statement) /\ Len(first) = 1 /\ first[1] = LogOf(n)
  BY <1>5
<1> HIDE DEF evs, first
<1>7. \A w : In(w, first) <=> w = LogOf(n)
  BY <1>6 DEF In
<1>8. work \in Seq(Statement) /\ \A w : In(w, work) <=> In(w, first) \/ In(w, evs)
  BY <1>4, <1>6, InConcat
<1>9. Len(work) # 0 /\ Head(work) = LogOf(n)
  <2>1. evs \in Seq(Statement) /\ first \in Seq(Statement) /\ Len(first) # 0
    BY <1>4, <1>6
  <2> HIDE DEF work
  <2>2. Len(first \o evs) # 0 /\ Head(first \o evs) = first[1]
    BY <2>1, HeadOfConcat
  <2> QED
    BY <1>6, <2>2 DEF work
<1>10. \A w : In(w, work) /\ w.kind = "event" => w.event \in Logged(chain)
  BY <1>4, <1>5, <1>7, <1>8
<1>11. In(LogOf(n), work)
  BY <1>7, <1>8
<1> QED
  BY <1>8, <1>9, <1>10, <1>11 DEF first, evs, order

\* The transactions of a slot that must be stored.
Due(c, s) == {n \in 1..Lesser(Len(c[s]), TxCap) : c[s][n] # <<>>}

\* What a scan puts to work: all that is due, if it was all fetched, and nothing
\* that the chain does not log.
LEMMA InStatements ==
  ASSUME chain \in Chains, NEW s \in Slots, NEW fetched
  PROVE  LET work == Statements(s, fetched)
         IN  /\ work \in Seq(Statement)
             /\ \A n \in Due(chain, s) : n \in fetched => In(LogOf(n), work)
             /\ \A w : In(w, work) /\ w.kind = "event" => w.event \in Logged(chain)
<1> DEFINE txs == chain[s]
           of(i) == <<[kind |-> "log", tx |-> i]>> \o
                    [j \in 1..Len(WriteOrder(txs[i])) |->
                       [kind |-> "event", event |-> WriteOrder(txs[i])[j]]]
           m == Lesser(Len(txs), TxCap)
           part(i) == IF i \in fetched /\ txs[i] # <<>> THEN of(i) ELSE <<>>
           parts == [i \in 1..m |-> part(i)]
<1>1. m \in Nat /\ \A i \in 1..m : i \in 1..Len(txs)
  BY ChainType, IndexerAssumption DEF Lesser
<1>2. \A i \in 1..Len(txs) :
        /\ of(i) \in Seq(Statement) /\ In(LogOf(i), of(i))
        /\ \A w : In(w, of(i)) /\ w.kind = "event" => w.event \in Logged(chain)
  BY InPersisted DEF LogOf
<1>3. Statements(s, fetched) = FlattenSeq(parts)
  BY DEF Statements
<1> HIDE DEF of
<1>4. \A i \in 1..m :
        /\ part(i) \in Seq(Statement)
        /\ i \in fetched /\ txs[i] # <<>> => In(LogOf(i), part(i))
        /\ \A w : In(w, part(i)) /\ w.kind = "event" => w.event \in Logged(chain)
  <2>1. <<>> \in Seq(Statement) /\ \A w : ~ In(w, <<>>)
    BY DEF In
  <2> QED
    BY <1>1, <1>2, <2>1
<1> HIDE DEF part
<1>5. parts \in Seq(Seq(Statement)) /\ Len(parts) = m /\ \A i \in 1..m : parts[i] = part(i)
  <2> HIDE DEF m
  <2> QED
    BY <1>1, <1>4
<1> HIDE DEF parts
<1>6. /\ FlattenSeq(parts) \in Seq(Statement)
      /\ \A w : In(w, FlattenSeq(parts)) <=> \E i \in 1..Len(parts) : In(w, parts[i])
  BY <1>5, InFlatten
<1>7. \A n \in Due(chain, s) : n \in fetched => In(LogOf(n), FlattenSeq(parts))
  BY <1>4, <1>5, <1>6 DEF Due
<1>8. \A w : In(w, FlattenSeq(parts)) /\ w.kind = "event" => w.event \in Logged(chain)
  BY <1>4, <1>5, <1>6
<1> QED
  BY <1>3, <1>6, <1>7, <1>8

-----------------------------------------------------------------------------
(* What an event does to the tables                                        *)

\* What the chain logs are events.
LEMMA LoggedType ==
  ASSUME chain \in Chains, NEW e \in Logged(chain)
  PROVE  e \in Event
<1>1. chain \in [Slots -> Seq(Seq(Event))]
  BY IndexerAssumption DEF Slots
<1>2. PICK tx \in UNION {Range(chain[s]) : s \in DOMAIN chain} : e \in Range(tx)
  BY DEF Logged
<1>3. PICK s \in DOMAIN chain : tx \in Range(chain[s])
  BY <1>2
<1>4. chain[s] \in Seq(Seq(Event))
  BY <1>1
<1>5. tx \in Seq(Event)
  BY <1>3, <1>4 DEF Range
<1> QED
  BY <1>2, <1>5 DEF Range

\* A row is never removed, and a new one is a creation whose parents are there.
LEMMA Applied ==
  ASSUME NEW r \in [Ids -> Row], NEW e \in Event
  PROVE  /\ ApplyEvent(r, e) \in [Ids -> Row]
         /\ \A p \in Ids : r[p] # Absent => ApplyEvent(r, e)[p] # Absent
         /\ \A p \in Ids : r[p] = Absent /\ ApplyEvent(r, e)[p] # Absent =>
              p = e.id /\ e.op = "create" /\ \A q \in e.needs : r[q] # Absent
<1>1. e.id \in Ids /\ e.status \in Statuses /\ e.needs \subseteq Ids
  BY DEF Event
<1>2. \A st \in Statuses : st # Absent /\ st \in Row
  BY DEF Statuses, Absent, Row
<1>3. [r EXCEPT ![e.id] = e.status] \in [Ids -> Row]
  BY <1>1, <1>2
<1>4. CASE e.op = "create"
  BY <1>1, <1>2, <1>3, <1>4 DEF ApplyEvent, Upsert, References
<1>5. CASE e.op # "create"
  BY <1>1, <1>2, <1>3, <1>5 DEF ApplyEvent, Update
<1> QED
  BY <1>4, <1>5

\* What is put to work was logged.
FromLog(work) == \A w : In(w, work) /\ w.kind = "event" => w.event \in Logged(chain)

-----------------------------------------------------------------------------
(* Types                                                                   *)

\* Instances are in the states of Process, and what they have to write the chain logs.
IndexerInv ==
  /\ TypeOK
  /\ proc \in [Instances -> Process]
  /\ \A i \in Instances : FromLog(proc[i].work)

\* The program counters and the state of an instance, spelled out.
Pcs == {"down", "boot", "read", "seed", "logs", "logseed", "resume", "poll", "scan", "write",
        "subscribed"}

At(pc, current, last, slot, work) ==
  [pc |-> pc, current |-> current, last |-> last, slot |-> slot, work |-> work]

\* An instance is where its step leaves it, and the others where they were.
Becomes(i, pc, current, last, slot, work) ==
  proc' = [proc EXCEPT ![i] = At(pc, current, last, slot, work)]

\* The parts of an instance's state.
LEMMA ProcessType ==
  ASSUME IndexerInv, NEW i \in Instances
  PROVE  /\ proc[i].pc \in Pcs /\ proc[i].current \in Slots /\ proc[i].last \in Slot
         /\ proc[i].slot \in 0..MaxSlot + 1 /\ proc[i].work \in Seq(Statement)
         /\ proc[i] = At(proc[i].pc, proc[i].current, proc[i].last, proc[i].slot,
                         proc[i].work)
<1>1. proc[i] \in Process
  BY DEF IndexerInv
<1> QED
  BY <1>1 DEF Process, Pcs, Statement, At

\* An instance that becomes a well-typed state, the others staying where they are.
LEMMA BecomesType ==
  ASSUME IndexerInv, NEW i \in Instances,
         NEW pc \in Pcs, NEW current \in Slots, NEW last \in Slot,
         NEW slot \in 0..MaxSlot + 1, NEW work \in Seq(Statement),
         Becomes(i, pc, current, last, slot, work)
  PROVE  /\ proc' \in [Instances -> Process]
         /\ proc'[i].pc = pc /\ proc'[i].current = current /\ proc'[i].last = last
         /\ proc'[i].slot = slot /\ proc'[i].work = work
         /\ \A j \in Instances : j # i => proc'[j] = proc[j]
<1> DEFINE q == At(pc, current, last, slot, work)
<1>1. q \in Process
  BY DEF Process, Pcs, Statement, At
<1>2. q.pc = pc /\ q.current = current /\ q.last = last /\ q.slot = slot /\ q.work = work
  BY DEF At
<1>3. proc' = [proc EXCEPT ![i] = q]
  BY DEF Becomes
<1> HIDE DEF q
<1>4. proc \in [Instances -> Process]
  BY DEF IndexerInv
<1>5. proc' \in [Instances -> Process] /\ proc'[i] = q
      /\ \A j \in Instances : j # i => proc'[j] = proc[j]
  BY <1>1, <1>3, <1>4
<1> QED
  BY <1>2, <1>5

\* A step of an instance keeps the types when what it writes has them.
LEMMA StepType ==
  ASSUME IndexerInv, NEW i \in Instances,
         NEW pc \in Pcs, NEW current \in Slots, NEW last \in Slot,
         NEW slot \in 0..MaxSlot + 1, NEW work \in Seq(Statement),
         Becomes(i, pc, current, last, slot, work),
         pc \in {"scan", "write"} => slot <= current /\ current <= head,
         FromLog(work),
         UNCHANGED <<chain, head>>,
         rows' \in [Ids -> Row], events' \subseteq Slots \X Nat,
         ckpt' \in [{"polling", "logs"} -> Slot],
         faults' \in 0..MaxFaults, crashes' \in 0..MaxCrashes
  PROVE  IndexerInv'
<1>1. /\ proc' \in [Instances -> Process]
      /\ proc'[i].pc = pc /\ proc'[i].current = current /\ proc'[i].last = last
      /\ proc'[i].slot = slot /\ proc'[i].work = work
      /\ \A j \in Instances : j # i => proc'[j] = proc[j]
  BY BecomesType
<1>2. \A j \in Instances : proc'[j] \in Process
  BY <1>1
<1>3. ASSUME NEW j \in Instances
      PROVE  /\ proc'[j].pc \in {"scan", "write"} =>
                  proc'[j].slot <= proc'[j].current /\ proc'[j].current <= head'
             /\ FromLog(proc[j].work)'
  <2>1. CASE j = i
    BY <1>1, <2>1 DEF FromLog
  <2>2. CASE j # i
    BY <1>1, <2>2 DEF IndexerInv, TypeOK, FromLog
  <2> QED
    BY <2>1, <2>2
<1>4. TypeOK'
  BY <1>2, <1>3 DEF IndexerInv, TypeOK
<1> QED
  BY <1>1, <1>3, <1>4 DEF IndexerInv

\* Where each step leaves its instance.
Stays(i, pc) ==
  Becomes(i, pc, proc[i].current, proc[i].last, proc[i].slot, proc[i].work)

\* Every move of the model is a Becomes.
LEMMA Moves ==
  ASSUME IndexerInv, NEW i \in Instances
  PROVE  /\ \A pc \in Pcs : Goto(i, pc) => Stays(i, pc)
         /\ Crash(i) => Becomes(i, "down", 0, None, 0, <<>>)
         /\ BackfillSlot(i) =>
              Becomes(i, "read", head, proc[i].last, proc[i].slot, proc[i].work)
         /\ \A last, pc :
              proc' = [proc EXCEPT ![i].last = last, ![i].pc = pc] =>
                Becomes(i, pc, proc[i].current, last, proc[i].slot, proc[i].work)
         /\ Poll(i) => Becomes(i, "scan", head, proc[i].last, PollFrom(proc[i].last, head),
                               proc[i].work)
         /\ \A work :
              proc' = [proc EXCEPT ![i].pc = "write", ![i].work = work] =>
                Becomes(i, "write", proc[i].current, proc[i].last, proc[i].slot, work)
         /\ Write(i) => Becomes(i, proc[i].pc, proc[i].current, proc[i].last, proc[i].slot,
                                Tail(proc[i].work))
         /\ Save(i) =>
              Becomes(i, IF proc[i].slot < proc[i].current THEN "scan" ELSE "poll",
                      proc[i].current, proc[i].slot, proc[i].slot + 1, proc[i].work)
<1> DEFINE p == proc[i]
<1>1. p = At(p.pc, p.current, p.last, p.slot, p.work)
  BY ProcessType
<1>2. ASSUME NEW pc PROVE [p EXCEPT !.pc = pc] = At(pc, p.current, p.last, p.slot, p.work)
  <2>1. [At(p.pc, p.current, p.last, p.slot, p.work) EXCEPT !.pc = pc] =
          At(pc, p.current, p.last, p.slot, p.work)
    BY DEF At
  <2> QED
    BY <1>1, <2>1
<1>3. ASSUME NEW last
      PROVE  [p EXCEPT !.last = last] = At(p.pc, p.current, last, p.slot, p.work)
  <2>1. [At(p.pc, p.current, p.last, p.slot, p.work) EXCEPT !.last = last] =
          At(p.pc, p.current, last, p.slot, p.work)
    BY DEF At
  <2> QED
    BY <1>1, <2>1
<1>4. ASSUME NEW pc \in Pcs, Goto(i, pc) PROVE Stays(i, pc)
  <2>1. proc' = [proc EXCEPT ![i] = [p EXCEPT !.pc = pc]]
    BY <1>4 DEF Goto
  <2> QED
    BY <1>2, <2>1 DEF Stays, Becomes
<1>5. ASSUME Crash(i) PROVE Becomes(i, "down", 0, None, 0, <<>>)
  BY <1>5 DEF Crash, Down, Becomes, At
<1>6. ASSUME BackfillSlot(i)
      PROVE  Becomes(i, "read", head, proc[i].last, proc[i].slot, proc[i].work)
  <2>1. [p EXCEPT !.pc = "read", !.current = head] =
          [At("read", p.current, p.last, p.slot, p.work) EXCEPT !.current = head]
    BY <1>2
  <2>2. [At("read", p.current, p.last, p.slot, p.work) EXCEPT !.current = head] =
          At("read", head, p.last, p.slot, p.work)
    BY DEF At
  <2>3. proc' = [proc EXCEPT ![i] = [p EXCEPT !.pc = "read", !.current = head]]
    BY <1>6 DEF BackfillSlot
  <2> QED
    BY <2>1, <2>2, <2>3 DEF Becomes
<1>7. ASSUME NEW last, NEW pc, proc' = [proc EXCEPT ![i].last = last, ![i].pc = pc]
      PROVE  Becomes(i, pc, proc[i].current, last, proc[i].slot, proc[i].work)
  <2>1. [p EXCEPT !.last = last, !.pc = pc] =
          [At(p.pc, p.current, last, p.slot, p.work) EXCEPT !.pc = pc]
    BY <1>3
  <2>2. [At(p.pc, p.current, last, p.slot, p.work) EXCEPT !.pc = pc] =
          At(pc, p.current, last, p.slot, p.work)
    BY DEF At
  <2>3. proc' = [proc EXCEPT ![i] = [p EXCEPT !.last = last, !.pc = pc]]
    BY <1>7
  <2> QED
    BY <2>1, <2>2, <2>3 DEF Becomes
<1>8. ASSUME Poll(i)
      PROVE  Becomes(i, "scan", head, proc[i].last, PollFrom(proc[i].last, head),
                     proc[i].work)
  <2> DEFINE from == PollFrom(p.last, head)
             q == At("scan", p.current, p.last, p.slot, p.work)
  <2>1. proc' = [proc EXCEPT ![i] =
                   [p EXCEPT !.pc = "scan", !.current = head, !.slot = from]]
    BY <1>8 DEF Poll
  <2> HIDE DEF from
  <2>2. [p EXCEPT !.pc = "scan", !.current = head, !.slot = from] =
          [[q EXCEPT !.current = head] EXCEPT !.slot = from]
    BY <1>2
  <2>3. [q EXCEPT !.current = head] = At("scan", head, p.last, p.slot, p.work)
    BY DEF At
  <2>4. [At("scan", head, p.last, p.slot, p.work) EXCEPT !.slot = from] =
          At("scan", head, p.last, from, p.work)
    BY DEF At
  <2> QED
    BY <2>1, <2>2, <2>3, <2>4 DEF Becomes, from
<1>9. ASSUME NEW work, proc' = [proc EXCEPT ![i].pc = "write", ![i].work = work]
      PROVE  Becomes(i, "write", proc[i].current, proc[i].last, proc[i].slot, work)
  <2>1. [p EXCEPT !.pc = "write", !.work = work] =
          [At("write", p.current, p.last, p.slot, p.work) EXCEPT !.work = work]
    BY <1>2
  <2>2. [At("write", p.current, p.last, p.slot, p.work) EXCEPT !.work = work] =
          At("write", p.current, p.last, p.slot, work)
    BY DEF At
  <2>3. proc' = [proc EXCEPT ![i] = [p EXCEPT !.pc = "write", !.work = work]]
    BY <1>9
  <2> QED
    BY <2>1, <2>2, <2>3 DEF Becomes
<1>10. ASSUME Write(i)
       PROVE  Becomes(i, proc[i].pc, proc[i].current, proc[i].last, proc[i].slot,
                      Tail(proc[i].work))
  <2> DEFINE rest == Tail(p.work)
  <2>1. proc' = [proc EXCEPT ![i] = [p EXCEPT !.work = rest]]
    BY <1>10 DEF Write
  <2> HIDE DEF rest
  <2>2. [At(p.pc, p.current, p.last, p.slot, p.work) EXCEPT !.work = rest] =
          At(p.pc, p.current, p.last, p.slot, rest)
    BY DEF At
  <2> QED
    BY <1>1, <2>1, <2>2 DEF Becomes, rest
<1>11. ASSUME Save(i)
       PROVE  Becomes(i, IF proc[i].slot < proc[i].current THEN "scan" ELSE "poll",
                      proc[i].current, proc[i].slot, proc[i].slot + 1, proc[i].work)
  <2> DEFINE pc == IF p.slot < p.current THEN "scan" ELSE "poll"
             next == p.slot + 1
             last == p.slot
             q == At(p.pc, p.current, last, p.slot, p.work)
  <2>1. proc' = [proc EXCEPT ![i] = [p EXCEPT !.last = last, !.slot = next, !.pc = pc]]
    BY <1>11 DEF Save
  <2> HIDE DEF pc, next, last
  <2>2. [p EXCEPT !.last = last, !.slot = next, !.pc = pc] =
          [[q EXCEPT !.slot = next] EXCEPT !.pc = pc]
    BY <1>3
  <2>3. [q EXCEPT !.slot = next] = At(p.pc, p.current, last, next, p.work)
    BY DEF At
  <2>4. [At(p.pc, p.current, last, next, p.work) EXCEPT !.pc = pc] =
          At(pc, p.current, last, next, p.work)
    BY DEF At
  <2> QED
    BY <2>1, <2>2, <2>3, <2>4 DEF Becomes, pc, next, last
<1> QED
  BY <1>4, <1>5, <1>6, <1>7, <1>8, <1>9, <1>10, <1>11

\* Calls and their failures.
LEMMA Calls ==
  ASSUME IndexerInv, Fault \/ NoFault
  PROVE  faults' \in 0..MaxFaults /\ (faults' = 0 => faults = 0 /\ ~ Fault)
BY IndexerAssumption DEF IndexerInv, TypeOK, Fault, NoFault

\* Saving a slot of the chain keeps the checkpoints well typed.
LEMMA CheckpointType ==
  ASSUME IndexerInv, NEW stream \in {"polling", "logs"}, NEW slot \in Slots
  PROVE  [ckpt EXCEPT ![stream] = slot] \in [{"polling", "logs"} -> Slot]
BY DEF IndexerInv, TypeOK, Slot

\* A backfill starts at a slot of the chain, not after the one it goes up to.
LEMMA StartOfBackfill ==
  ASSUME NEW last \in Slot, NEW current \in Slots
  PROVE  BackfillStart(last, current) \in Slots /\ BackfillStart(last, current) <= current
BY IndexerAssumption DEF BackfillStart, Truthy, Lesser, Minus, Slot, Slots

\* A start, a crash and a step of a backfill keep the types.
LEMMA BootType ==
  ASSUME IndexerInv, NEW i \in Instances, Start(i) \/ Crash(i) \/ Backfill(i)
  PROVE  IndexerInv'
<1> USE DEF Pcs
<1>1. /\ proc[i].pc \in Pcs /\ proc[i].current \in Slots /\ proc[i].last \in Slot
      /\ proc[i].slot \in 0..MaxSlot + 1 /\ proc[i].work \in Seq(Statement)
  BY ProcessType
<1>2. FromLog(proc[i].work) /\ FromLog(<<>>) /\ <<>> \in Seq(Statement)
  BY DEF IndexerInv, FromLog, In
<1>3. /\ rows \in [Ids -> Row] /\ events \subseteq Slots \X Nat /\ head \in Slots
      /\ ckpt \in [{"polling", "logs"} -> Slot]
      /\ faults \in 0..MaxFaults /\ crashes \in 0..MaxCrashes
  BY DEF IndexerInv, TypeOK
<1>4. CASE Start(i)
  <2>1. Stays(i, "boot")
    BY <1>4, Moves DEF Start
  <2> QED
    BY <1>1, <1>2, <1>3, <1>4, <2>1, StepType DEF Stays, Start
<1>5. CASE Crash(i)
  <2>1. Becomes(i, "down", 0, None, 0, <<>>)
    BY <1>5, Moves
  <2>2. crashes' \in 0..MaxCrashes
    BY <1>3, <1>5, IndexerAssumption DEF Crash
  <2>3. 0 \in Slots /\ None \in Slot /\ 0 \in 0..MaxSlot + 1
    BY IndexerAssumption DEF Slots, Slot
  <2> QED
    BY <1>1, <1>2, <1>3, <1>5, <2>1, <2>2, <2>3, StepType DEF Crash
<1>6. CASE BackfillSlot(i)
  <2>1. Becomes(i, "read", head, proc[i].last, proc[i].slot, proc[i].work)
    BY <1>6, Moves
  <2> QED
    BY <1>1, <1>2, <1>3, <1>6, <2>1, StepType DEF BackfillSlot
<1>7. CASE BackfillRead(i)
  <2>1. PICK last \in Slot :
          /\ ReadCheckpoint("polling", last)
          /\ proc' = [proc EXCEPT ![i].last = last,
                                  ![i].pc = IF Truthy(last) THEN "logs" ELSE "seed"]
    BY <1>7 DEF BackfillRead
  <2> DEFINE pc == IF Truthy(last) THEN "logs" ELSE "seed"
  <2>2. Becomes(i, pc, proc[i].current, last, proc[i].slot, proc[i].work)
    BY <2>1, Moves
  <2>3. faults' \in 0..MaxFaults
    BY <2>1, Calls DEF ReadCheckpoint
  <2>4. pc \in Pcs /\ pc \notin {"scan", "write"}
    OBVIOUS
  <2> HIDE DEF pc
  <2> QED
    BY <1>1, <1>2, <1>3, <1>7, <2>2, <2>3, <2>4, StepType DEF BackfillRead
<1>8. CASE BackfillSeed(i)
  <2>1. Stays(i, "logs")
    BY <1>8, Moves DEF BackfillSeed
  <2>2. faults' \in 0..MaxFaults
    BY <1>8, Calls DEF BackfillSeed, SaveCheckpoint
  <2>3. ckpt' \in [{"polling", "logs"} -> Slot]
    BY <1>1, <1>3, <1>8, StartOfBackfill, CheckpointType DEF BackfillSeed, SaveCheckpoint
  <2> QED
    BY <1>1, <1>2, <1>3, <1>8, <2>1, <2>2, <2>3, StepType DEF Stays, BackfillSeed
<1>9. CASE BackfillLogs(i)
  <2>1. Stays(i, "resume")
    BY <1>9, Moves DEF BackfillLogs
  <2>2. faults' \in 0..MaxFaults
    BY <1>3, <1>9, Calls DEF BackfillLogs, SaveCheckpoint, NoFault
  <2>3. ckpt' \in [{"polling", "logs"} -> Slot]
    BY <1>1, <1>3, <1>9, StartOfBackfill, CheckpointType DEF BackfillLogs, SaveCheckpoint
  <2> QED
    BY <1>1, <1>2, <1>3, <1>9, <2>1, <2>2, <2>3, StepType DEF Stays, BackfillLogs
<1>10. CASE BackfillReadLogs(i)
  <2>1. PICK last \in Slot :
          ReadCheckpoint("logs", last) /\ Goto(i, IF Truthy(last) THEN "resume" ELSE "logseed")
    BY <1>10 DEF BackfillReadLogs
  <2> DEFINE pc == IF Truthy(last) THEN "resume" ELSE "logseed"
  <2>2. pc \in Pcs /\ pc \notin {"scan", "write"} /\ Goto(i, pc)
    BY <2>1
  <2>3. faults' \in 0..MaxFaults
    BY <2>1, Calls DEF ReadCheckpoint
  <2> HIDE DEF pc
  <2>4. Stays(i, pc)
    BY <2>2, Moves
  <2> QED
    BY <1>1, <1>2, <1>3, <1>10, <2>2, <2>3, <2>4, StepType DEF Stays, BackfillReadLogs
<1> QED
  BY <1>4, <1>5, <1>6, <1>7, <1>8, <1>9, <1>10 DEF Backfill

\* The first slot to poll is at most one past the chain.
LEMMA PollStart ==
  ASSUME NEW last \in Slot, NEW current \in Slots
  PROVE  PollFrom(last, current) \in 0..MaxSlot + 1
BY IndexerAssumption DEF PollFrom, Truthy, Minus, Slot, Slots

\* What a write does to the tables.
LEMMA Written ==
  ASSUME IndexerInv, NEW i \in Instances, Write(i)
  PROVE  /\ Head(proc[i].work) \in Statement /\ Tail(proc[i].work) \in Seq(Statement)
         /\ Head(proc[i].work).kind = "event" => Head(proc[i].work).event \in Logged(chain)
         /\ FromLog(Tail(proc[i].work))
<1> DEFINE work == proc[i].work
<1>1. work \in Seq(Statement) /\ work # <<>> /\ FromLog(work)
  BY ProcessType DEF IndexerInv, Write
<1> HIDE DEF work
<1>2. /\ Tail(work) \in Seq(Statement) /\ Head(work) \in Statement /\ In(Head(work), work)
      /\ \A w : In(w, work) <=> w = Head(work) \/ In(w, Tail(work))
  BY <1>1, InTail
<1>3. /\ Head(work).kind = "event" => Head(work).event \in Logged(chain)
      /\ FromLog(Tail(work))
  BY <1>1, <1>2 DEF FromLog
<1> QED
  BY <1>2, <1>3 DEF work

\* The chain's next slot keeps the types.
LEMMA ConfirmType ==
  ASSUME IndexerInv, head < MaxSlot, head' = head + 1, faults' \in 0..MaxFaults,
         UNCHANGED <<chain, rows, events, ckpt, proc, crashes>>
  PROVE  IndexerInv'
<1>1. head \in Slots
  BY DEF IndexerInv, TypeOK
<1>2. head' \in Slots /\ head <= head'
  BY <1>1, IndexerAssumption DEF Slots
<1>3. \A i \in Instances :
        /\ proc[i] \in Process
        /\ proc[i].pc \in {"scan", "write"} =>
             proc[i].slot <= proc[i].current /\ proc[i].current <= head'
  <2>1. SUFFICES ASSUME NEW i \in Instances, proc[i].pc \in {"scan", "write"}
                 PROVE  proc[i].current <= head'
    BY DEF IndexerInv, TypeOK
  <2>2. proc[i].current \in Slots /\ proc[i].current <= head
    BY <2>1, ProcessType DEF IndexerInv, TypeOK
  <2> QED
    BY <1>1, <1>2, <2>2 DEF Slots
<1>4. TypeOK'
  BY <1>2, <1>3 DEF IndexerInv, TypeOK
<1> QED
  BY <1>4 DEF IndexerInv, FromLog

\* Every step keeps the types.
LEMMA TypeStep ==
  ASSUME IndexerInv, [Next]_vars
  PROVE  IndexerInv'
<1> USE DEF Pcs
<1>1. /\ rows \in [Ids -> Row] /\ events \subseteq Slots \X Nat /\ head \in Slots
      /\ ckpt \in [{"polling", "logs"} -> Slot]
      /\ faults \in 0..MaxFaults /\ crashes \in 0..MaxCrashes /\ chain \in Chains
  BY DEF IndexerInv, TypeOK
<1>2. CASE Confirm
  BY <1>1, <1>2, ConfirmType DEF Confirm
<1>3. ASSUME NEW i \in Instances, Start(i) \/ Crash(i) \/ Step(i) PROVE IndexerInv'
  <2>1. /\ proc[i].pc \in Pcs /\ proc[i].current \in Slots /\ proc[i].last \in Slot
        /\ proc[i].slot \in 0..MaxSlot + 1 /\ proc[i].work \in Seq(Statement)
    BY ProcessType
  <2>2. FromLog(proc[i].work)
    BY DEF IndexerInv
  <2>3. proc[i].pc \in {"scan", "write"} =>
          proc[i].slot <= proc[i].current /\ proc[i].current <= head /\ proc[i].slot \in Slots
    <3>1. proc[i].pc \in {"scan", "write"} =>
            proc[i].slot <= proc[i].current /\ proc[i].current <= head
      BY DEF IndexerInv, TypeOK
    <3>2. proc[i].slot <= proc[i].current => proc[i].slot \in Slots
      BY <2>1, IndexerAssumption DEF Slots
    <3> QED
      BY <3>1, <3>2
  <2>4. CASE Start(i) \/ Crash(i) \/ Backfill(i)
    BY <2>4, BootType
  <2>5. CASE Resume(i)
    <3>1. PICK last \in Slot :
            /\ ReadCheckpoint("polling", last)
            /\ proc' = [proc EXCEPT ![i].last = last, ![i].pc = "poll"]
      BY <2>5 DEF Resume
    <3>2. Becomes(i, "poll", proc[i].current, last, proc[i].slot, proc[i].work)
      BY <3>1, Moves
    <3>3. faults' \in 0..MaxFaults
      BY <3>1, Calls DEF ReadCheckpoint
    <3> QED
      BY <1>1, <2>1, <2>2, <2>5, <3>2, <3>3, StepType DEF Resume
  <2>6. CASE Poll(i)
    <3> DEFINE from == PollFrom(proc[i].last, head)
    <3>1. from \in 0..MaxSlot + 1 /\ from <= head
      BY <1>1, <2>1, <2>6, PollStart DEF Poll
    <3>2. Becomes(i, "scan", head, proc[i].last, from, proc[i].work)
      BY <2>6, Moves
    <3> HIDE DEF from
    <3>3. head <= head
      BY <1>1 DEF Slots
    <3> QED
      BY <1>1, <2>1, <2>2, <2>6, <3>1, <3>2, <3>3, StepType DEF Poll
  <2>7. CASE Scan(i)
    <3>1. PICK lost \in SUBSET DOMAIN chain[proc[i].slot] :
            /\ IF lost = {} THEN NoFault ELSE Fault
            /\ proc' = [proc EXCEPT
                 ![i].pc = "write",
                 ![i].work = Statements(proc[i].slot, DOMAIN chain[proc[i].slot] \ lost)]
      BY <2>7 DEF Scan
    <3> DEFINE work == Statements(proc[i].slot, DOMAIN chain[proc[i].slot] \ lost)
    <3>2. proc[i].pc = "scan"
      BY <2>7 DEF Scan
    <3>3. work \in Seq(Statement) /\ FromLog(work)
      BY <1>1, <2>3, <3>2, InStatements DEF FromLog
    <3>4. Becomes(i, "write", proc[i].current, proc[i].last, proc[i].slot, work)
      BY <3>1, Moves
    <3> HIDE DEF work
    <3>5. faults' \in 0..MaxFaults
      BY <3>1, Calls
    <3> QED
      BY <1>1, <2>1, <2>3, <2>7, <3>2, <3>3, <3>4, <3>5, StepType DEF Scan
  <2>8. CASE Write(i)
    <3> DEFINE s == Head(proc[i].work)
               rest == Tail(proc[i].work)
    <3>1. /\ s \in Statement /\ rest \in Seq(Statement) /\ FromLog(rest)
          /\ s.kind = "event" => s.event \in Logged(chain)
      BY <2>8, Written
    <3>2. Becomes(i, proc[i].pc, proc[i].current, proc[i].last, proc[i].slot, rest)
      BY <2>8, Moves
    <3>3. \/ NoFault /\ s.kind = "log" /\ events' = events \cup {<<proc[i].slot, s.tx>>}
             /\ UNCHANGED rows
          \/ NoFault /\ s.kind = "event" /\ rows' = ApplyEvent(rows, s.event)
             /\ UNCHANGED events
          \/ Fault /\ UNCHANGED <<rows, events>>
      BY <2>8 DEF Write
    <3>4. proc[i].pc = "write" /\ UNCHANGED <<chain, head, ckpt, crashes>>
      BY <2>8 DEF Write
    <3> HIDE DEF s, rest
    <3>5. faults' \in 0..MaxFaults
      BY <3>3, Calls
    <3>6. rows' \in [Ids -> Row]
      BY <1>1, <3>1, <3>3, LoggedType, Applied
    <3>7. s.kind = "log" => s.tx \in Nat
      BY <3>1 DEF Statement
    <3>8. events' \subseteq Slots \X Nat
      BY <1>1, <2>3, <3>3, <3>4, <3>7
    <3> QED
      BY <1>1, <2>1, <2>3, <3>1, <3>2, <3>4, <3>5, <3>6, <3>8, StepType
  <2>9. CASE Save(i)
    <3> DEFINE pc == IF proc[i].slot < proc[i].current THEN "scan" ELSE "poll"
    <3>1. Becomes(i, pc, proc[i].current, proc[i].slot, proc[i].slot + 1, proc[i].work)
      BY <2>9, Moves
    <3>2. /\ proc[i].pc = "write" /\ SaveCheckpoint("polling", proc[i].slot)
          /\ UNCHANGED <<chain, head, rows, events, crashes>>
      BY <2>9 DEF Save
    <3>3. /\ proc[i].slot \in Slot /\ proc[i].slot + 1 \in 0..MaxSlot + 1
          /\ pc \in Pcs /\ (pc = "scan" => proc[i].slot + 1 <= proc[i].current)
          /\ pc # "write"
      <4>1. proc[i].slot \in Slots
        BY <2>3, <3>2
      <4>2. proc[i].slot \in Slot
        BY <4>1 DEF Slot
      <4>3. proc[i].slot + 1 \in 0..MaxSlot + 1
        BY <4>1, IndexerAssumption DEF Slots
      <4>4. proc[i].slot < proc[i].current => proc[i].slot + 1 <= proc[i].current
        BY <2>1, <4>1 DEF Slots
      <4> QED
        BY <4>2, <4>3, <4>4
    <3> HIDE DEF pc
    <3>4. faults' \in 0..MaxFaults
      BY <3>2, Calls DEF SaveCheckpoint
    <3>5. ckpt' \in [{"polling", "logs"} -> Slot]
      BY <1>1, <2>3, <3>2, CheckpointType DEF SaveCheckpoint
    <3> QED
      BY <1>1, <2>1, <2>2, <2>3, <3>1, <3>2, <3>3, <3>4, <3>5, StepType
  <2> QED
    BY <1>3, <2>4, <2>5, <2>6, <2>7, <2>8, <2>9 DEF Step
<1>4. CASE UNCHANGED vars
  BY <1>4 DEF vars, IndexerInv, TypeOK, FromLog
<1> QED
  BY <1>2, <1>3, <1>4 DEF Next

\* They hold at first.
LEMMA TypeInit ==
  ASSUME Init
  PROVE  IndexerInv
<1>1. head \in Slots /\ Minus(head, BackWindow) \in Slots
  BY IndexerAssumption DEF Init, Slots, Minus
<1>2. Down \in Process /\ Down.pc = "down" /\ FromLog(Down.work)
  BY IndexerAssumption DEF Down, Process, Slots, Slot, FromLog, In
<1>3. NoRows \in [Ids -> Row]
  BY DEF NoRows, Row
<1>4. ckpt \in [{"polling", "logs"} -> Slot]
  BY <1>1 DEF Init, Slot
<1>5. \A i \in Instances : proc[i] = Down
  BY DEF Init
<1>6. proc \in [Instances -> Process]
  BY <1>2 DEF Init
<1>7. TypeOK
  BY <1>1, <1>2, <1>3, <1>4, <1>5, IndexerAssumption DEF Init, TypeOK
<1> QED
  BY <1>2, <1>5, <1>6, <1>7 DEF IndexerInv

\* The state stays well typed, what an instance writes was logged, and it scans
\* confirmed slots only, whatever fails and crashes.
THEOREM IndexerInvariant == Spec => []IndexerInv
<1>1. Init => IndexerInv
  BY TypeInit
<1>2. IndexerInv /\ [Next]_vars => IndexerInv'
  BY TypeStep
<1> QED
  BY <1>1, <1>2, PTL DEF Spec

\* The tables, checkpoints and counters keep their types for any chain and instances.
THEOREM TypeCorrect == Spec => []TypeOK
<1>1. IndexerInv => TypeOK
  BY DEF IndexerInv
<1> QED
  BY <1>1, IndexerInvariant, PTL

-----------------------------------------------------------------------------
(* References                                                              *)

\* A row that the chain creates is in the tables with its parents only.
ReferencesInv ==
  \A e \in Logged(chain) :
    e.op = "create" /\ rows[e.id] # Absent => \A p \in e.needs : rows[p] # Absent

\* Applying a logged event keeps references whole: an upsert creates what it refers to.
LEMMA ReferencesApply ==
  ASSUME IndexerInv, ReferencesInv, NEW d \in Logged(chain),
         rows' = ApplyEvent(rows, d), UNCHANGED chain
  PROVE  ReferencesInv'
<1>1. chain \in Chains /\ rows \in [Ids -> Row]
  BY DEF IndexerInv, TypeOK
<1>2. d \in Event
  BY <1>1, LoggedType
<1>3. /\ \A p \in Ids : rows[p] # Absent => rows'[p] # Absent
      /\ \A p \in Ids : rows[p] = Absent /\ rows'[p] # Absent =>
           p = d.id /\ d.op = "create" /\ \A q \in d.needs : rows[q] # Absent
  BY <1>1, <1>2, Applied
<1>4. SUFFICES ASSUME NEW e \in Logged(chain), e.op = "create", rows'[e.id] # Absent,
                      NEW p \in e.needs
               PROVE  rows'[p] # Absent
  BY DEF ReferencesInv
<1>5. e.id \in Ids /\ p \in Ids
  <2>1. e \in Event
    BY <1>1, LoggedType
  <2> QED
    BY <2>1 DEF Event
<1>6. CASE rows[e.id] # Absent
  BY <1>3, <1>4, <1>5, <1>6 DEF ReferencesInv
<1>7. CASE rows[e.id] = Absent
  <2>1. e.id = d.id /\ d.op = "create" /\ \A q \in d.needs : rows[q] # Absent
    BY <1>3, <1>4, <1>5, <1>7
  <2>2. d.needs = e.needs
    BY <1>1, <1>4, <2>1, CreationsAssumption
  <2> QED
    BY <1>3, <1>5, <2>1, <2>2
<1> QED
  BY <1>6, <1>7

\* For events named by slot, transaction and position.
LEMMA ReferencesNow ==
  ASSUME IndexerInv, ReferencesInv
  PROVE  ReferencesIntact
<1>1. chain \in Chains
  BY DEF IndexerInv, TypeOK
<1>2. ASSUME NEW s \in Slots, NEW n \in DOMAIN chain[s], NEW j \in DOMAIN chain[s][n]
      PROVE  chain[s][n][j] \in Logged(chain)
  <2>1. n \in 1..Len(chain[s])
    BY <1>1, ChainType
  <2>2. chain[s][n] \in Seq(Event)
    BY <1>1, <2>1, ChainType
  <2>3. In(chain[s][n][j], chain[s][n])
    BY <2>2 DEF In
  <2> QED
    BY <1>1, <2>1, <2>3, ChainType
<1> QED
  BY <1>2 DEF ReferencesInv, ReferencesIntact

\* The empty tables refer to nothing.
LEMMA ReferencesInit ==
  ASSUME Init
  PROVE  ReferencesInv
<1>1. chain \in Chains /\ rows = NoRows
  BY DEF Init
<1>2. \A e \in Logged(chain) : rows[e.id] = Absent
  <2>1. SUFFICES ASSUME NEW e \in Logged(chain) PROVE rows[e.id] = Absent
    OBVIOUS
  <2>2. e \in Event
    BY <1>1, <2>1, LoggedType
  <2> QED
    BY <1>1, <2>2 DEF NoRows, Event
<1> QED
  BY <1>2 DEF ReferencesInv

\* A fork or a run is stored with the rows it refers to or not at all, whatever
\* failed, crashed, was written twice or by two instances at once.
THEOREM ReferencesCorrect == Spec => []ReferencesIntact
<1>1. Init => ReferencesInv
  BY ReferencesInit
<1>2. IndexerInv /\ ReferencesInv /\ [Next]_vars => ReferencesInv'
  <2>1. SUFFICES ASSUME IndexerInv, ReferencesInv, [Next]_vars PROVE ReferencesInv'
    OBVIOUS
  <2>2. CASE UNCHANGED <<chain, rows>>
    BY <2>1, <2>2 DEF ReferencesInv
  <2>3. ASSUME NEW i \in Instances, Write(i) PROVE ReferencesInv'
    <3>1. Head(proc[i].work).kind = "event" => Head(proc[i].work).event \in Logged(chain)
      BY <2>1, <2>3, Written
    <3>2. \/ UNCHANGED <<chain, rows>>
          \/ /\ Head(proc[i].work).kind = "event"
             /\ rows' = ApplyEvent(rows, Head(proc[i].work).event) /\ UNCHANGED chain
      BY <2>3 DEF Write
    <3> QED
      BY <2>1, <2>2, <3>1, <3>2, ReferencesApply
  <2>4. ASSUME NEW i \in Instances, Start(i) \/ Crash(i) \/ Step(i)
        PROVE  Write(i) \/ UNCHANGED <<chain, rows>>
    BY <2>4 DEF Start, Crash, Step, Backfill, BackfillSlot, BackfillRead, BackfillSeed,
                BackfillReadLogs, BackfillLogs, Resume, Poll, Scan, Save
  <2> QED
    BY <2>1, <2>2, <2>3, <2>4 DEF Next, Confirm, vars
<1>3. IndexerInv /\ ReferencesInv => ReferencesIntact
  BY ReferencesNow
<1> QED
  BY <1>1, <1>2, <1>3, IndexerInvariant, PTL DEF Spec

-----------------------------------------------------------------------------
(* Nothing lost                                                            *)

\* Where indexing starts: past the first BackWindow slots of the cluster, whose
\* checkpoints are falsy (MCIndexerSlotZero), and on a fresh database with one
\* instance, for two that seed it at once may start from different slots.
PastTheWindow == \A slot \in StartHeads : slot > BackWindow

OneBegins == Resumed \/ \A i, j \in Instances : i = j

\* Every slot after logs up to a slot is in an event table.
StoredTo(c, logs, table, slot) ==
  \A s \in Slots : logs < s /\ s <= slot => \A n \in Due(c, s) : <<s, n>> \in table

\* After the logs checkpoint is saved: every slot an instance or the checkpoint
\* claims to have behind it is stored, and a slot being written is stored or still
\* in work.
BegunAt(i) ==
  /\ proc[i].pc \notin {"seed", "logseed"}
  /\ proc[i].pc = "poll" =>
       Truthy(proc[i].last) /\ StoredTo(chain, ckpt["logs"], events, proc[i].last)
  /\ proc[i].pc \in {"scan", "write"} =>
       proc[i].slot # 0 /\ StoredTo(chain, ckpt["logs"], events, proc[i].slot - 1)
  /\ proc[i].pc = "write" =>
       \A n \in Due(chain, proc[i].slot) :
         <<proc[i].slot, n>> \in events \/ In(LogOf(n), proc[i].work)

BegunInv ==
  /\ Truthy(ckpt["polling"])
  /\ StoredTo(chain, ckpt["logs"], events, ckpt["polling"])
  /\ \A i \in Instances : BegunAt(i)

\* Before: the only instance is still in backfill, and both checkpoints will start
\* at the same slot, which is not slot 0.
FirstBootAt(i) ==
  /\ proc[i].pc \in {"down", "boot", "read", "seed", "logs", "logseed"}
  /\ proc[i].pc \in {"read", "seed", "logs", "logseed"} =>
       BackWindow < proc[i].current /\ proc[i].current <= head
  /\ proc[i].pc = "read" /\ ckpt["polling"] # None => ckpt["polling"] <= proc[i].current
  /\ proc[i].pc = "seed" => proc[i].last = None /\ ckpt["polling"] = None
  /\ proc[i].pc \in {"logs", "logseed"} =>
       ckpt["polling"] = BackfillStart(proc[i].last, proc[i].current)

FirstBootInv ==
  /\ \A i, j \in Instances : i = j
  /\ ckpt["logs"] = None /\ ckpt["polling"] # 0
  /\ ckpt["polling"] # None => ckpt["polling"] <= head
  /\ \A i \in Instances : FirstBootAt(i)

\* The invariant, before and after the logs checkpoint is saved.
NothingLostInv ==
  faults = 0 =>
    /\ head > BackWindow
    /\ Truthy(ckpt["logs"]) => BegunInv
    /\ ~ Truthy(ckpt["logs"]) => FirstBootInv

\* Rows that are added keep what was stored stored.
LEMMA StoredGrows ==
  ASSUME NEW c, NEW logs, NEW table, NEW larger, NEW slot, table \subseteq larger,
         StoredTo(c, logs, table, slot)
  PROVE  StoredTo(c, logs, larger, slot)
BY DEF StoredTo

\* With the next slot stored, everything up to it is.
LEMMA StoredNext ==
  ASSUME NEW c, NEW logs \in Slots, NEW table, NEW slot \in Slots, slot # 0,
         StoredTo(c, logs, table, slot - 1),
         \A n \in Due(c, slot) : <<slot, n>> \in table
  PROVE  StoredTo(c, logs, table, slot)
<1>1. SUFFICES ASSUME NEW s \in Slots, logs < s, s <= slot, NEW n \in Due(c, s)
               PROVE  <<s, n>> \in table
  BY DEF StoredTo
<1>2. s = slot \/ s <= slot - 1
  BY <1>1, IndexerAssumption DEF Slots
<1> QED
  BY <1>1, <1>2 DEF StoredTo

\* A step that leaves its instance and the polling checkpoint in order leaves the
\* others in order.
LEMMA BegunStep ==
  ASSUME BegunInv, NEW i \in Instances, UNCHANGED chain, ckpt'["logs"] = ckpt["logs"],
         events \subseteq events', \A j \in Instances : j # i => proc'[j] = proc[j],
         Truthy(ckpt'["polling"]),
         StoredTo(chain, ckpt["logs"], events', ckpt'["polling"]),
         BegunAt(i)'
  PROVE  BegunInv'
<1>1. ASSUME NEW j \in Instances PROVE BegunAt(j)'
  <2>1. CASE j = i
    BY <2>1
  <2>2. CASE j # i
    <3>1. proc'[j] = proc[j] /\ BegunAt(j)
      BY <2>2 DEF BegunInv
    <3> QED
      BY <3>1, StoredGrows DEF BegunAt
  <2> QED
    BY <2>1, <2>2
<1> QED
  BY <1>1 DEF BegunInv

\* A booting instance does not scan, and seeds a checkpoint that it does not find.
LEMMA BootLeaves ==
  ASSUME IndexerInv, NEW i \in Instances, Start(i) \/ Crash(i) \/ Backfill(i)
  PROVE  /\ proc'[i].pc \notin {"poll", "scan", "write"}
         /\ proc'[i].pc = "seed" => ~ Truthy(ckpt["polling"]) \/ Fault
         /\ proc'[i].pc = "logseed" => ~ Truthy(ckpt["logs"]) \/ Fault
         /\ \A j \in Instances : j # i => proc'[j] = proc[j]
<1> USE DEF Pcs
<1>1. /\ proc[i].pc \in Pcs /\ proc[i].current \in Slots /\ proc[i].last \in Slot
      /\ proc[i].slot \in 0..MaxSlot + 1 /\ proc[i].work \in Seq(Statement) /\ head \in Slots
  BY ProcessType DEF IndexerInv, TypeOK
<1>2. \E pc \in Pcs, current \in Slots, last \in Slot, slot \in 0..MaxSlot + 1,
         work \in Seq(Statement) :
        /\ pc \notin {"poll", "scan", "write"}
        /\ pc = "seed" => ~ Truthy(ckpt["polling"]) \/ Fault
        /\ pc = "logseed" => ~ Truthy(ckpt["logs"]) \/ Fault
        /\ Becomes(i, pc, current, last, slot, work)
  <2>1. CASE Start(i)
    <3>1. Becomes(i, "boot", proc[i].current, proc[i].last, proc[i].slot, proc[i].work)
      BY <2>1, Moves DEF Start, Stays
    <3> QED
      BY <1>1, <3>1
  <2>2. CASE Crash(i)
    <3>1. Becomes(i, "down", 0, None, 0, <<>>)
      BY <2>2, Moves
    <3>2. 0 \in Slots /\ None \in Slot /\ 0 \in 0..MaxSlot + 1 /\ <<>> \in Seq(Statement)
      BY IndexerAssumption DEF Slots, Slot
    <3> QED
      BY <3>1, <3>2
  <2>3. CASE BackfillSlot(i)
    <3>1. Becomes(i, "read", head, proc[i].last, proc[i].slot, proc[i].work)
      BY <2>3, Moves
    <3> QED
      BY <1>1, <3>1
  <2>4. CASE BackfillRead(i)
    <3>1. PICK last \in Slot :
            /\ ReadCheckpoint("polling", last)
            /\ proc' = [proc EXCEPT ![i].last = last,
                                    ![i].pc = IF Truthy(last) THEN "logs" ELSE "seed"]
      BY <2>4 DEF BackfillRead
    <3> DEFINE pc == IF Truthy(last) THEN "logs" ELSE "seed"
    <3>2. Becomes(i, pc, proc[i].current, last, proc[i].slot, proc[i].work)
      BY <3>1, Moves
    <3>3. pc \in {"logs", "seed"} /\ (pc = "seed" => ~ Truthy(ckpt["polling"]) \/ Fault)
      BY <3>1 DEF ReadCheckpoint
    <3> HIDE DEF pc
    <3> QED
      BY <1>1, <3>2, <3>3
  <2>5. CASE BackfillSeed(i)
    <3>1. Becomes(i, "logs", proc[i].current, proc[i].last, proc[i].slot, proc[i].work)
      BY <2>5, Moves DEF BackfillSeed, Stays
    <3> QED
      BY <1>1, <3>1
  <2>6. CASE BackfillLogs(i)
    <3>1. Becomes(i, "resume", proc[i].current, proc[i].last, proc[i].slot, proc[i].work)
      BY <2>6, Moves DEF BackfillLogs, Stays
    <3> QED
      BY <1>1, <3>1
  <2>7. CASE BackfillReadLogs(i)
    <3>1. PICK last \in Slot :
            ReadCheckpoint("logs", last) /\ Goto(i, IF Truthy(last) THEN "resume" ELSE "logseed")
      BY <2>7 DEF BackfillReadLogs
    <3> DEFINE pc == IF Truthy(last) THEN "resume" ELSE "logseed"
    <3>2. /\ pc \in {"resume", "logseed"} /\ Goto(i, pc)
          /\ pc = "logseed" => ~ Truthy(ckpt["logs"]) \/ Fault
      BY <3>1 DEF ReadCheckpoint
    <3> HIDE DEF pc
    <3>3. Becomes(i, pc, proc[i].current, proc[i].last, proc[i].slot, proc[i].work)
      BY <3>2, Moves DEF Stays
    <3> QED
      BY <1>1, <3>2, <3>3
  <2> QED
    BY <2>1, <2>2, <2>3, <2>4, <2>5, <2>6, <2>7 DEF Backfill
<1>3. PICK pc \in Pcs, current \in Slots, last \in Slot, slot \in 0..MaxSlot + 1,
           work \in Seq(Statement) :
             /\ pc \notin {"poll", "scan", "write"}
             /\ pc = "seed" => ~ Truthy(ckpt["polling"]) \/ Fault
             /\ pc = "logseed" => ~ Truthy(ckpt["logs"]) \/ Fault
             /\ Becomes(i, pc, current, last, slot, work)
  BY <1>2
<1>4. proc'[i].pc = pc /\ \A j \in Instances : j # i => proc'[j] = proc[j]
  BY <1>3, BecomesType
<1> QED
  BY <1>3, <1>4

\* Indexing has begun, and an instance boots.
LEMMA BegunBoot ==
  ASSUME IndexerInv, BegunInv, Truthy(ckpt["logs"]), NEW i \in Instances,
         Start(i) \/ Crash(i) \/ Backfill(i), ~ Fault
  PROVE  BegunInv' /\ UNCHANGED ckpt
<1>1. Truthy(ckpt["polling"]) /\ StoredTo(chain, ckpt["logs"], events, ckpt["polling"])
      /\ proc[i].pc \notin {"seed", "logseed"}
  BY DEF BegunInv, BegunAt
<1>2. UNCHANGED <<chain, events, ckpt>>
  BY <1>1, Zenon DEF Start, Crash, Backfill, BackfillSlot, BackfillRead, BackfillSeed,
                     BackfillReadLogs, BackfillLogs
<1>3. /\ proc'[i].pc \notin {"seed", "logseed", "poll", "scan", "write"}
      /\ \A j \in Instances : j # i => proc'[j] = proc[j]
  BY <1>1, BootLeaves
<1>4. BegunAt(i)'
  BY <1>3 DEF BegunAt
<1> QED
  BY <1>1, <1>2, <1>3, <1>4, BegunStep

\* The same, and it polls.
LEMMA BegunPoll ==
  ASSUME IndexerInv, BegunInv, Truthy(ckpt["logs"]), NEW i \in Instances,
         Resume(i) \/ Poll(i) \/ Scan(i), ~ Fault
  PROVE  BegunInv' /\ ckpt'["logs"] = ckpt["logs"]
<1> USE DEF Pcs
<1>1. /\ proc[i].pc \in Pcs /\ proc[i].current \in Slots /\ proc[i].last \in Slot
      /\ proc[i].slot \in 0..MaxSlot + 1 /\ proc[i].work \in Seq(Statement)
  BY ProcessType
<1>2. /\ Truthy(ckpt["polling"]) /\ StoredTo(chain, ckpt["logs"], events, ckpt["polling"])
      /\ BegunAt(i) /\ head \in Slots /\ chain \in Chains
      /\ proc[i].pc \in {"scan", "write"} =>
           proc[i].slot <= proc[i].current /\ proc[i].current <= head
  BY DEF BegunInv, IndexerInv, TypeOK
<1>3. UNCHANGED <<chain, events, ckpt>>
  BY DEF Resume, Poll, Scan
<1>4. CASE Resume(i)
  <2>1. PICK last \in Slot :
          /\ ReadCheckpoint("polling", last)
          /\ proc' = [proc EXCEPT ![i].last = last, ![i].pc = "poll"]
    BY <1>4 DEF Resume
  <2>2. last = ckpt["polling"]
    BY <2>1 DEF ReadCheckpoint
  <2>3. Becomes(i, "poll", proc[i].current, last, proc[i].slot, proc[i].work)
    BY <2>1, Moves
  <2>4. /\ proc'[i].pc = "poll" /\ proc'[i].last = last
        /\ \A j \in Instances : j # i => proc'[j] = proc[j]
    BY <1>1, <2>3, BecomesType
  <2>5. BegunAt(i)'
    BY <1>2, <1>3, <2>2, <2>4 DEF BegunAt
  <2> QED
    BY <1>2, <1>3, <2>4, <2>5, BegunStep
<1>5. CASE Poll(i)
  <2> DEFINE from == PollFrom(proc[i].last, head)
  <2>1. Becomes(i, "scan", head, proc[i].last, from, proc[i].work)
    BY <1>5, Moves
  <2>2. from \in 0..MaxSlot + 1
    BY <1>1, <1>2, PollStart
  <2>3. Truthy(proc[i].last) /\ StoredTo(chain, ckpt["logs"], events, proc[i].last)
    BY <1>2, <1>5 DEF Poll, BegunAt
  <2>4. from # 0 /\ from - 1 = proc[i].last
    BY <1>1, <2>3, IndexerAssumption DEF PollFrom, Truthy, Slot, Slots
  <2> HIDE DEF from
  <2>5. /\ proc'[i].pc = "scan" /\ proc'[i].slot = from
        /\ \A j \in Instances : j # i => proc'[j] = proc[j]
    BY <1>1, <1>2, <2>1, <2>2, BecomesType
  <2>6. BegunAt(i)'
    BY <1>3, <2>3, <2>4, <2>5 DEF BegunAt
  <2> QED
    BY <1>2, <1>3, <2>5, <2>6, BegunStep
<1>6. CASE Scan(i)
  <2>1. PICK lost \in SUBSET DOMAIN chain[proc[i].slot] :
          /\ IF lost = {} THEN NoFault ELSE Fault
          /\ proc' = [proc EXCEPT
               ![i].pc = "write",
               ![i].work = Statements(proc[i].slot, DOMAIN chain[proc[i].slot] \ lost)]
    BY <1>6 DEF Scan
  <2>2. lost = {} /\ proc[i].pc = "scan"
    BY <1>6, <2>1 DEF Scan
  <2> DEFINE work == Statements(proc[i].slot, DOMAIN chain[proc[i].slot] \ lost)
  <2>3. proc[i].slot \in Slots
    BY <1>1, <1>2, <2>2, IndexerAssumption DEF Slots
  <2>4. /\ work \in Seq(Statement)
        /\ \A n \in Due(chain, proc[i].slot) :
             n \in DOMAIN chain[proc[i].slot] \ lost => In(LogOf(n), work)
    BY <1>2, <2>3, InStatements
  <2>5. \A n \in Due(chain, proc[i].slot) : n \in DOMAIN chain[proc[i].slot]
    BY <1>2, <2>3, ChainType, IndexerAssumption DEF Due, Lesser
  <2>6. Becomes(i, "write", proc[i].current, proc[i].last, proc[i].slot, work)
    BY <2>1, Moves
  <2> HIDE DEF work
  <2>7. /\ proc'[i].pc = "write" /\ proc'[i].slot = proc[i].slot /\ proc'[i].work = work
        /\ \A j \in Instances : j # i => proc'[j] = proc[j]
    BY <1>1, <2>4, <2>6, BecomesType
  <2>8. \A n \in Due(chain, proc[i].slot) : In(LogOf(n), work)
    BY <2>2, <2>4, <2>5
  <2>9. BegunAt(i)'
    BY <1>2, <1>3, <2>2, <2>7, <2>8 DEF BegunAt
  <2> QED
    BY <1>2, <1>3, <2>7, <2>9, BegunStep
<1> QED
  BY <1>3, <1>4, <1>5, <1>6

\* The same, and it writes a slot or saves that it did.
LEMMA BegunWrite ==
  ASSUME IndexerInv, BegunInv, Truthy(ckpt["logs"]), NEW i \in Instances,
         Write(i) \/ Save(i), ~ Fault
  PROVE  BegunInv' /\ ckpt'["logs"] = ckpt["logs"]
<1> USE DEF Pcs
<1>1. /\ proc[i].pc \in Pcs /\ proc[i].current \in Slots /\ proc[i].last \in Slot
      /\ proc[i].slot \in 0..MaxSlot + 1 /\ proc[i].work \in Seq(Statement)
  BY ProcessType
<1>2. /\ Truthy(ckpt["polling"]) /\ StoredTo(chain, ckpt["logs"], events, ckpt["polling"])
      /\ BegunAt(i) /\ head \in Slots /\ chain \in Chains
      /\ ckpt \in [{"polling", "logs"} -> Slot] /\ proc[i].pc = "write"
  BY DEF BegunInv, IndexerInv, TypeOK, Write, Save
<1>3. proc[i].slot \in Slots /\ proc[i].slot # 0
      /\ StoredTo(chain, ckpt["logs"], events, proc[i].slot - 1)
  <2>1. proc[i].slot <= proc[i].current /\ proc[i].slot # 0
        /\ StoredTo(chain, ckpt["logs"], events, proc[i].slot - 1)
    BY <1>2 DEF IndexerInv, TypeOK, BegunAt
  <2> QED
    BY <1>1, <2>1, IndexerAssumption DEF Slots
<1>4. \A n \in Due(chain, proc[i].slot) :
        <<proc[i].slot, n>> \in events \/ In(LogOf(n), proc[i].work)
  BY <1>2 DEF BegunAt
<1>5. CASE Write(i)
  <2> DEFINE s == Head(proc[i].work)
             rest == Tail(proc[i].work)
  <2>1. s \in Statement /\ rest \in Seq(Statement)
    BY <1>5, Written
  <2>2. Becomes(i, proc[i].pc, proc[i].current, proc[i].last, proc[i].slot, rest)
    BY <1>5, Moves
  <2>3. /\ UNCHANGED <<chain, ckpt>>
        /\ \/ s.kind = "log" /\ events' = events \cup {<<proc[i].slot, s.tx>>}
           \/ s.kind = "event" /\ UNCHANGED events
    BY <1>5 DEF Write
  <2>4. \A w : In(w, proc[i].work) => w = s \/ In(w, rest)
    BY <1>1, <1>5, InTail DEF Write
  <2> HIDE DEF s, rest
  <2>5. /\ proc'[i].pc = "write" /\ proc'[i].slot = proc[i].slot /\ proc'[i].work = rest
        /\ \A j \in Instances : j # i => proc'[j] = proc[j]
    BY <1>1, <1>2, <2>1, <2>2, BecomesType
  <2>6. events \subseteq events'
    BY <2>3
  <2>7. \A n \in Due(chain, proc[i].slot) : <<proc[i].slot, n>> \in events' \/ In(LogOf(n), rest)
    <3>1. SUFFICES ASSUME NEW n \in Due(chain, proc[i].slot), In(LogOf(n), proc[i].work)
                   PROVE  <<proc[i].slot, n>> \in events' \/ In(LogOf(n), rest)
      BY <1>4, <2>6
    <3>2. LogOf(n) = s => s.kind = "log" /\ s.tx = n
      BY DEF LogOf
    <3> QED
      BY <2>3, <2>4, <3>1, <3>2
  <2>8. StoredTo(chain, ckpt["logs"], events', proc[i].slot - 1)
        /\ StoredTo(chain, ckpt["logs"], events', ckpt["polling"])
    BY <1>2, <1>3, <2>6, StoredGrows
  <2>9. BegunAt(i)'
    BY <1>3, <2>3, <2>5, <2>7, <2>8 DEF BegunAt
  <2> QED
    BY <1>2, <2>3, <2>5, <2>6, <2>8, <2>9, BegunStep
<1>6. CASE Save(i)
  <2> DEFINE pc == IF proc[i].slot < proc[i].current THEN "scan" ELSE "poll"
             next == proc[i].slot + 1
  <2>1. Becomes(i, pc, proc[i].current, proc[i].slot, next, proc[i].work)
    BY <1>6, Moves
  <2>2. /\ UNCHANGED <<chain, events>> /\ proc[i].work = <<>>
        /\ ckpt' = [ckpt EXCEPT !["polling"] = proc[i].slot]
    BY <1>6 DEF Save, SaveCheckpoint
  <2>3. /\ next \in 0..MaxSlot + 1 /\ proc[i].slot \in Slot /\ next - 1 = proc[i].slot
        /\ next # 0 /\ Truthy(proc[i].slot)
    BY <1>3, IndexerAssumption DEF Slots, Slot, Truthy
  <2>4. pc \in {"scan", "poll"}
    OBVIOUS
  <2> HIDE DEF pc, next
  <2>5. /\ proc'[i].pc = pc /\ proc'[i].slot = next /\ proc'[i].last = proc[i].slot
        /\ \A j \in Instances : j # i => proc'[j] = proc[j]
    BY <1>1, <2>1, <2>3, <2>4, BecomesType
  <2>6. StoredTo(chain, ckpt["logs"], events, proc[i].slot)
    <3>1. \A w : ~ In(w, proc[i].work)
      BY <2>2 DEF In
    <3>2. ckpt["logs"] \in Slots
      BY <1>2 DEF Truthy, Slot
    <3> QED
      BY <1>3, <1>4, <3>1, <3>2, StoredNext
  <2>7. ckpt'["polling"] = proc[i].slot /\ ckpt'["logs"] = ckpt["logs"]
    BY <1>2, <2>2
  <2>8. BegunAt(i)'
    BY <2>2, <2>3, <2>4, <2>5, <2>6, <2>7 DEF BegunAt
  <2> QED
    BY <2>2, <2>3, <2>5, <2>6, <2>7, <2>8, BegunStep
<1> QED
  BY <1>5, <1>6

\* The only instance is still in backfill, or has just come out of it.
LEMMA FirstBoot ==
  ASSUME IndexerInv, FirstBootInv, head > BackWindow, NEW i \in Instances,
         Start(i) \/ Crash(i) \/ Step(i), ~ Fault
  PROVE  /\ Truthy(ckpt'["logs"]) => BegunInv'
         /\ ~ Truthy(ckpt'["logs"]) => FirstBootInv'
<1> USE DEF Pcs
<1>1. /\ proc[i].pc \in Pcs /\ proc[i].current \in Slots /\ proc[i].last \in Slot
      /\ proc[i].slot \in 0..MaxSlot + 1 /\ proc[i].work \in Seq(Statement)
  BY ProcessType
<1>2. /\ FirstBootAt(i) /\ \A j \in Instances : j = i
      /\ ckpt["logs"] = None /\ ckpt["polling"] # 0
      /\ ckpt["polling"] # None => ckpt["polling"] <= head
      /\ head \in Slots /\ ckpt \in [{"polling", "logs"} -> Slot]
  BY DEF FirstBootInv, IndexerInv, TypeOK
<1>3. ~ Truthy(ckpt["logs"]) /\ ckpt["polling"] \in Slot /\ ~ Truthy(None)
      /\ (ckpt["polling"] # None => Truthy(ckpt["polling"]) /\ ckpt["polling"] \in Slots)
  BY <1>2 DEF Truthy, Slot
<1>4. ASSUME FirstBootAt(i)', UNCHANGED head, ckpt'["logs"] = None, ckpt'["polling"] # 0,
             ckpt'["polling"] # None => ckpt'["polling"] <= head
      PROVE  FirstBootInv' /\ ~ Truthy(ckpt'["logs"])
  <2>1. \A j \in Instances : FirstBootAt(j)'
    BY <1>2, <1>4
  <2>2. \A j, k \in Instances : j = k
    BY DEF FirstBootInv
  <2> QED
    BY <1>4, <2>1, <2>2 DEF FirstBootInv, Truthy
<1>5. CASE Start(i)
  <2>1. Becomes(i, "boot", proc[i].current, proc[i].last, proc[i].slot, proc[i].work)
    BY <1>5, Moves DEF Start, Stays
  <2>2. proc'[i].pc = "boot"
    BY <1>1, <2>1, BecomesType
  <2>3. FirstBootAt(i)' /\ UNCHANGED <<head, ckpt>>
    BY <1>5, <2>2 DEF FirstBootAt, Start
  <2> QED
    BY <1>2, <1>4, <2>3
<1>6. CASE Crash(i)
  <2>1. Becomes(i, "down", 0, None, 0, <<>>)
    BY <1>6, Moves
  <2>2. 0 \in Slots /\ None \in Slot /\ 0 \in 0..MaxSlot + 1 /\ <<>> \in Seq(Statement)
    BY IndexerAssumption DEF Slots, Slot
  <2>3. proc'[i].pc = "down"
    BY <2>1, <2>2, BecomesType
  <2>4. FirstBootAt(i)' /\ UNCHANGED <<head, ckpt>>
    BY <1>6, <2>3 DEF FirstBootAt, Crash
  <2> QED
    BY <1>2, <1>4, <2>4
<1>7. CASE BackfillSlot(i)
  <2>1. Becomes(i, "read", head, proc[i].last, proc[i].slot, proc[i].work)
    BY <1>7, Moves
  <2>2. proc'[i].pc = "read" /\ proc'[i].current = head
    BY <1>1, <1>2, <2>1, BecomesType
  <2>3. UNCHANGED <<head, ckpt>> /\ head <= head
    BY <1>2, <1>7 DEF BackfillSlot, Slots
  <2>4. FirstBootAt(i)'
    BY <1>2, <2>2, <2>3 DEF FirstBootAt
  <2> QED
    BY <1>2, <1>4, <2>3, <2>4
<1>8. CASE BackfillRead(i)
  <2>1. PICK last \in Slot :
          /\ ReadCheckpoint("polling", last)
          /\ proc' = [proc EXCEPT ![i].last = last,
                                  ![i].pc = IF Truthy(last) THEN "logs" ELSE "seed"]
    BY <1>8 DEF BackfillRead
  <2> DEFINE pc == IF Truthy(last) THEN "logs" ELSE "seed"
  <2>2. last = ckpt["polling"] /\ UNCHANGED <<head, ckpt>>
    BY <1>8, <2>1 DEF ReadCheckpoint, BackfillRead
  <2>3. Becomes(i, pc, proc[i].current, last, proc[i].slot, proc[i].work)
    BY <2>1, Moves
  <2>4. pc \in {"logs", "seed"}
    OBVIOUS
  <2>5. /\ proc'[i].pc = pc /\ proc'[i].current = proc[i].current /\ proc'[i].last = last
    BY <1>1, <2>3, <2>4, BecomesType
  <2>6. /\ BackWindow < proc[i].current /\ proc[i].current <= head
        /\ ckpt["polling"] # None => ckpt["polling"] <= proc[i].current
    BY <1>2, <1>8 DEF FirstBootAt, BackfillRead
  <2>7. pc = "seed" => ckpt["polling"] = None
    BY <1>3, <2>2
  <2>8. pc = "logs" => ckpt["polling"] = BackfillStart(last, proc[i].current)
    <3>1. pc = "logs" => Truthy(ckpt["polling"]) /\ ckpt["polling"] <= proc[i].current
      BY <1>3, <2>2, <2>6 DEF Truthy
    <3> QED
      BY <2>2, <3>1 DEF BackfillStart, Lesser
  <2> HIDE DEF pc
  <2>9. FirstBootAt(i)'
    BY <2>2, <2>4, <2>5, <2>6, <2>7, <2>8 DEF FirstBootAt
  <2> QED
    BY <1>2, <1>4, <2>2, <2>9
<1>9. CASE BackfillSeed(i)
  <2> DEFINE start == BackfillStart(proc[i].last, proc[i].current)
  <2>1. /\ proc[i].pc = "seed" /\ UNCHANGED head /\ Stays(i, "logs")
        /\ ckpt' = [ckpt EXCEPT !["polling"] = start]
    BY <1>9, Moves DEF BackfillSeed, SaveCheckpoint
  <2>2. proc[i].last = None /\ BackWindow < proc[i].current /\ proc[i].current <= head
    BY <1>2, <2>1 DEF FirstBootAt
  <2>3. start = proc[i].current - BackWindow
    BY <1>1, <1>3, <2>2, IndexerAssumption DEF BackfillStart, Minus, Slots
  <2>4. start # 0 /\ start <= head
    BY <1>1, <1>2, <2>2, <2>3, IndexerAssumption DEF Slots
  <2>5. /\ proc'[i].pc = "logs" /\ proc'[i].current = proc[i].current
        /\ proc'[i].last = proc[i].last
    BY <1>1, <2>1, BecomesType DEF Stays
  <2>6. ckpt'["polling"] = start /\ ckpt'["logs"] = None
    BY <1>2, <2>1
  <2>7. FirstBootAt(i)'
    BY <2>1, <2>2, <2>5, <2>6 DEF FirstBootAt
  <2> HIDE DEF start
  <2> QED
    BY <1>4, <2>1, <2>4, <2>6, <2>7
<1>10. CASE BackfillLogs(i)
  <2> DEFINE start == BackfillStart(proc[i].last, proc[i].current)
  <2>1. /\ proc[i].pc = "logseed" /\ UNCHANGED <<chain, events>> /\ Stays(i, "resume")
        /\ ckpt' = [ckpt EXCEPT !["logs"] = start]
    BY <1>3, <1>10, Moves DEF BackfillLogs, SaveCheckpoint
  <2>2. start = ckpt["polling"] /\ start \in Slots
    BY <1>1, <1>2, <2>1, StartOfBackfill DEF FirstBootAt
  <2>3. Truthy(ckpt["polling"])
    BY <1>2, <2>2, IndexerAssumption DEF Truthy, Slots
  <2> HIDE DEF start
  <2>4. ckpt'["logs"] = ckpt["polling"] /\ ckpt'["polling"] = ckpt["polling"]
    BY <1>2, <2>1, <2>2
  <2>5. StoredTo(chain, ckpt["polling"], events, ckpt["polling"])
    BY <2>2 DEF StoredTo, Slots
  <2>6. proc'[i].pc = "resume"
    BY <1>1, <2>1, BecomesType DEF Stays
  <2>7. BegunAt(i)'
    BY <2>6 DEF BegunAt
  <2>8. \A j \in Instances : BegunAt(j)'
    BY <1>2, <2>7
  <2>9. BegunInv'
    BY <2>1, <2>3, <2>4, <2>5, <2>8 DEF BegunInv
  <2> QED
    BY <2>3, <2>4, <2>9
<1>11. CASE BackfillReadLogs(i)
  <2>1. PICK last \in Slot :
          ReadCheckpoint("logs", last) /\ Goto(i, IF Truthy(last) THEN "resume" ELSE "logseed")
    BY <1>11 DEF BackfillReadLogs
  <2>2. last = None /\ UNCHANGED <<head, ckpt>> /\ proc[i].pc = "logs"
    BY <1>2, <1>11, <2>1 DEF ReadCheckpoint, BackfillReadLogs
  <2>3. Stays(i, "logseed")
    BY <1>3, <2>1, <2>2, Moves
  <2>4. /\ proc'[i].pc = "logseed" /\ proc'[i].current = proc[i].current
        /\ proc'[i].last = proc[i].last
    BY <1>1, <2>3, BecomesType DEF Stays
  <2>5. FirstBootAt(i)'
    BY <1>2, <2>2, <2>4 DEF FirstBootAt
  <2> QED
    BY <1>2, <1>4, <2>2, <2>5
<1>12. ~ (Resume(i) \/ Poll(i) \/ Scan(i) \/ Write(i) \/ Save(i))
  BY <1>2 DEF FirstBootAt, Resume, Poll, Scan, Write, Save
<1> QED
  BY <1>5, <1>6, <1>7, <1>8, <1>9, <1>10, <1>11, <1>12 DEF Step, Backfill

\* Every step keeps the invariant.
LEMMA NothingLostStep ==
  ASSUME IndexerInv, NothingLostInv, [Next]_vars
  PROVE  NothingLostInv'
<1>1. SUFFICES ASSUME faults' = 0
               PROVE  /\ head' > BackWindow
                      /\ Truthy(ckpt'["logs"]) => BegunInv'
                      /\ ~ Truthy(ckpt'["logs"]) => FirstBootInv'
  BY DEF NothingLostInv
<1>2. faults \in 0..MaxFaults /\ MaxFaults \in Nat /\ head \in Slots
  BY IndexerAssumption DEF IndexerInv, TypeOK
<1>3. ASSUME faults = 0
      PROVE  /\ head > BackWindow
             /\ Truthy(ckpt["logs"]) => BegunInv
             /\ ~ Truthy(ckpt["logs"]) => FirstBootInv
  BY <1>3 DEF NothingLostInv
<1>4. CASE UNCHANGED vars
  BY <1>1, <1>3, <1>4 DEF vars, BegunInv, FirstBootInv, BegunAt, FirstBootAt
<1>5. CASE Confirm
  <2>1. /\ head' = head + 1 /\ UNCHANGED <<chain, events, ckpt, proc>> /\ faults = 0
    BY <1>1, <1>5 DEF Confirm
  <2>2. head' > BackWindow
    BY <1>2, <1>3, <2>1, IndexerAssumption DEF Slots
  <2>3. Truthy(ckpt["logs"]) => BegunInv'
    BY <1>3, <2>1 DEF BegunInv, BegunAt
  <2>4. ASSUME FirstBootInv PROVE FirstBootInv'
    <3>1. ckpt["polling"] # None => ckpt["polling"] <= head'
      BY <1>2, <2>1, <2>4 DEF FirstBootInv, IndexerInv, TypeOK, Slot, Slots
    <3>2. ASSUME NEW i \in Instances PROVE FirstBootAt(i)'
      <4>1. FirstBootAt(i) /\ proc[i].current \in Slots
        BY <2>4, ProcessType DEF FirstBootInv
      <4>2. proc[i].current <= head => proc[i].current <= head'
        BY <1>2, <2>1, <4>1 DEF Slots
      <4> QED
        BY <2>1, <4>1, <4>2 DEF FirstBootAt
    <3> QED
      BY <2>1, <2>4, <3>1, <3>2 DEF FirstBootInv
  <2> QED
    BY <1>3, <2>1, <2>2, <2>3, <2>4
<1>6. ASSUME NEW i \in Instances, Start(i) \/ Crash(i) \/ Step(i)
      PROVE  /\ head' > BackWindow
             /\ Truthy(ckpt'["logs"]) => BegunInv'
             /\ ~ Truthy(ckpt'["logs"]) => FirstBootInv'
  <2>1. UNCHANGED head
    BY <1>6 DEF Start, Crash, Step, Backfill, BackfillSlot, BackfillRead, BackfillSeed,
                BackfillReadLogs, BackfillLogs, Resume, Poll, Scan, Write, Save
  <2>2. Fault \/ NoFault
    BY <1>6 DEF Start, Crash, Step, Backfill, BackfillSlot, BackfillRead, BackfillSeed,
                BackfillReadLogs, BackfillLogs, Resume, Poll, Scan, Write, Save, ReadCheckpoint,
                SaveCheckpoint, NoFault
  <2>3. faults = 0 /\ ~ Fault
    BY <1>1, <2>2, Calls
  <2>4. CASE Truthy(ckpt["logs"])
    <3>1. BegunInv
      BY <1>3, <2>3, <2>4
    <3>2. BegunInv' /\ ckpt'["logs"] = ckpt["logs"]
      BY <1>6, <2>3, <2>4, <3>1, BegunBoot, BegunPoll, BegunWrite DEF Step
    <3> QED
      BY <1>3, <2>1, <2>3, <2>4, <3>2
  <2>5. CASE ~ Truthy(ckpt["logs"])
    <3>1. FirstBootInv /\ head > BackWindow
      BY <1>3, <2>3, <2>5
    <3> QED
      BY <1>6, <2>1, <2>3, <3>1, FirstBoot
  <2> QED
    BY <2>4, <2>5
<1> QED
  BY <1>4, <1>5, <1>6 DEF Next

\* Past the window, a single first instance or resumed ones begin with it.
LEMMA NothingLostInit ==
  ASSUME PastTheWindow, OneBegins, Init
  PROVE  NothingLostInv
<1>1. head \in Slots /\ head > BackWindow /\ \A i \in Instances : proc[i].pc = "down"
  BY IndexerAssumption DEF Init, PastTheWindow, Slots, Down
<1>2. CASE Resumed
  <2> DEFINE start == head - BackWindow
  <2>1. start \in Slots /\ start # 0 /\ Minus(head, BackWindow) = start
    BY <1>1, IndexerAssumption DEF Slots, Minus
  <2>2. ckpt["polling"] = start /\ ckpt["logs"] = start
    BY <1>2, <2>1 DEF Init
  <2> HIDE DEF start
  <2>3. Truthy(start)
    BY <2>1, IndexerAssumption DEF Truthy, Slots
  <2>4. StoredTo(chain, start, events, start)
    BY <2>1 DEF StoredTo, Slots
  <2>5. BegunInv
    BY <1>1, <2>2, <2>3, <2>4 DEF BegunInv, BegunAt
  <2> QED
    BY <1>1, <2>2, <2>3, <2>5 DEF NothingLostInv
<1>3. CASE ~ Resumed
  <2>1. ckpt["polling"] = None /\ ckpt["logs"] = None /\ None # 0
    BY <1>3, IndexerAssumption DEF Init
  <2>2. FirstBootInv
    BY <1>1, <1>3, <2>1 DEF FirstBootInv, FirstBootAt, OneBegins
  <2> QED
    BY <1>1, <2>1, <2>2 DEF NothingLostInv, Truthy
<1> QED
  BY <1>2, <1>3

\* While no call fails, no logging transaction of a slot that the checkpoint has
\* behind it is missing from the event table: for any windows and chain, any number
\* of crashes at any await, and any number of instances on a database that has its
\* checkpoints.
THEOREM NoTransactionLost ==
  ASSUME PastTheWindow, OneBegins
  PROVE  Spec => []NoLostTransaction
<1>1. Init => NothingLostInv
  BY NothingLostInit
<1>2. IndexerInv /\ NothingLostInv /\ [Next]_vars => NothingLostInv'
  BY NothingLostStep
<1>3. NothingLostInv => NoLostTransaction
  BY DEF NothingLostInv, BegunInv, StoredTo, NoLostTransaction, Begun, Indexed, Due
<1> QED
  BY <1>1, <1>2, <1>3, IndexerInvariant, PTL DEF Spec

-----------------------------------------------------------------------------
(* Websockets                                                              *)

\* A callback also saves the logs checkpoint.
WsStatement == Statement \cup [kind : {"save"}]

\* A callback of transaction n of slot s starts by storing the transaction, saves the
\* checkpoint after it, and writes nothing the chain does not log.
LEMMA InCallback ==
  ASSUME chain \in Chains, NEW s \in Slots, NEW n \in DOMAIN chain[s]
  PROVE  /\ CallbackWork(s, n) \in Seq(WsStatement)
         /\ Len(CallbackWork(s, n)) > 1 /\ Head(CallbackWork(s, n)) = LogOf(n)
         /\ FromLog(CallbackWork(s, n))
<1> DEFINE order == WriteOrder(chain[s][n])
           work == Persisting(s, n)
<1>1. n \in 1..Len(chain[s]) /\ chain[s][n] \in Seq(Event)
  BY ChainType
<1>2. order \in Seq(Event)
  BY <1>1, InWriteOrder
<1>3. DOMAIN order = 1..Len(order)
  BY <1>2
<1>4. work = <<LogOf(n)>> \o [j \in 1..Len(order) |-> [kind |-> "event", event |-> order[j]]]
  BY <1>3 DEF Persisting, LogOf
<1>5. work \in Seq(Statement) /\ Len(work) # 0 /\ Head(work) = LogOf(n) /\ FromLog(work)
  BY <1>1, <1>4, InPersisted DEF FromLog
<1>6. Saving \in Seq(WsStatement) /\ Len(Saving) = 1
  BY DEF Saving, WsStatement
<1>7. \A w : In(w, Saving) => w.kind = "save"
  BY DEF Saving, In
<1>8. CallbackWork(s, n) = work \o Saving
  BY DEF CallbackWork
<1> HIDE DEF work, order
<1>9. work \in Seq(WsStatement) /\ Head(work) = work[1] /\ Len(work) \in Nat
  BY <1>5 DEF WsStatement
<1>10. /\ work \o Saving \in Seq(WsStatement) /\ Len(work \o Saving) = Len(work) + Len(Saving)
       /\ \A w : In(w, work \o Saving) <=> In(w, work) \/ In(w, Saving)
  BY <1>6, <1>9, InConcat
<1>11. Head(work \o Saving) = LogOf(n)
  BY <1>5, <1>6, <1>9, HeadOfConcat
<1>12. FromLog(work \o Saving)
  BY <1>5, <1>7, <1>10 DEF FromLog
<1> QED
  BY <1>5, <1>6, <1>8, <1>9, <1>10, <1>11, <1>12

\* A callback belongs to a transaction of a confirmed slot and has statements left.
CallAt(c) ==
  /\ c[2] \in Slots /\ c[3] \in DOMAIN chain[c[2]]
  /\ calls[c] \in Seq(WsStatement) /\ calls[c] # <<>> /\ FromLog(calls[c])

\* The types, those of the callbacks in progress included.
WsInv == IndexerInv /\ \A c \in DOMAIN calls : CallAt(c)

\* The next statement of a callback, and what it leaves.
LEMMA Called ==
  ASSUME WsInv, NEW c \in DOMAIN calls
  PROVE  LET s == Head(calls[c])
             rest == Tail(calls[c])
         IN  /\ s \in WsStatement /\ rest \in Seq(WsStatement) /\ FromLog(rest)
             /\ Len(calls[c]) \in Nat \ {0} /\ (Len(calls[c]) # 1 => rest # <<>>)
             /\ s.kind = "event" => s.event \in Logged(chain)
             /\ s.kind = "log" => s.tx \in Nat
             /\ c[2] \in Slots /\ c[3] \in DOMAIN chain[c[2]]
<1> DEFINE work == calls[c]
<1>1. /\ work \in Seq(WsStatement) /\ work # <<>> /\ FromLog(work)
      /\ c[2] \in Slots /\ c[3] \in DOMAIN chain[c[2]]
  BY DEF WsInv, CallAt
<1> HIDE DEF work
<1>2. /\ Tail(work) \in Seq(WsStatement) /\ Head(work) \in WsStatement /\ In(Head(work), work)
      /\ \A w : In(w, work) <=> w = Head(work) \/ In(w, Tail(work))
  BY <1>1, InTail
<1>3. /\ Head(work).kind = "event" => Head(work).event \in Logged(chain)
      /\ FromLog(Tail(work))
  BY <1>1, <1>2 DEF FromLog
<1>4. Head(work).kind = "log" => Head(work).tx \in Nat
  BY <1>2 DEF WsStatement, Statement
<1>5. Len(work) \in Nat \ {0} /\ (Len(work) # 1 => Tail(work) # <<>>)
  <2>1. Len(work) \in Nat \ {0} /\ Len(Tail(work)) = Len(work) - 1
    BY <1>1
  <2>2. Len(<<>>) = 0
    OBVIOUS
  <2> QED
    BY <2>1, <2>2
<1> QED
  BY <1>1, <1>2, <1>3, <1>4, <1>5 DEF work

\* The callbacks after a step of one.
LEMMA CallsLeft ==
  ASSUME WsInv, NEW c \in DOMAIN calls, Callback(c)
  PROVE  /\ DOMAIN calls' \subseteq DOMAIN calls
         /\ \A d \in DOMAIN calls' : d # c => calls'[d] = calls[d]
         /\ c \in DOMAIN calls' => calls'[c] = Tail(calls[c]) /\ Len(calls[c]) # 1
         /\ c \notin DOMAIN calls' => Len(calls[c]) = 1 /\ heard' = heard \cup {<<c[2], c[3]>>}
         /\ c \in DOMAIN calls' => heard' = heard
<1>1. CASE Len(calls[c]) = 1
  BY <1>1 DEF Callback
<1>2. CASE Len(calls[c]) # 1
  BY <1>2 DEF Callback
<1> QED
  BY <1>1, <1>2

\* The steps of an instance leave the tables alone, and end callbacks at most.
LEMMA Aside ==
  ASSUME NEW i \in Instances, WsStart(i) \/ WsCrash(i) \/ WsBoot(i) \/ Subscribe(i)
  PROVE  /\ UNCHANGED <<chain, rows, events, heard>>
         /\ \A c \in DOMAIN calls' : c \in DOMAIN calls /\ calls'[c] = calls[c]
BY DEF WsStart, WsCrash, WsBoot, Subscribe, Start, Crash, Backfill, BackfillSlot,
       BackfillRead, BackfillSeed, BackfillReadLogs, BackfillLogs

\* Every step keeps them.
LEMMA WsTypeStep ==
  ASSUME WsInv, [WsNext]_wsVars
  PROVE  WsInv'
<1> USE DEF Pcs
<1>1. /\ IndexerInv /\ chain \in Chains /\ head \in Slots /\ rows \in [Ids -> Row]
      /\ events \subseteq Slots \X Nat /\ ckpt \in [{"polling", "logs"} -> Slot]
      /\ faults \in 0..MaxFaults /\ crashes \in 0..MaxCrashes
  BY DEF WsInv, IndexerInv, TypeOK
<1>2. ASSUME UNCHANGED chain, NEW c \in DOMAIN calls, c \in DOMAIN calls', calls'[c] = calls[c]
      PROVE  CallAt(c)'
  BY <1>2 DEF WsInv, CallAt, FromLog
<1>3. CASE WsConfirm
  <2> DEFINE told == CallbacksOf(head')
  <2>1. PICK lost \in SUBSET told :
          /\ IF lost = {} THEN NoFault ELSE Fault
          /\ calls' = [c \in DOMAIN calls \cup (told \ lost) |->
                         IF c \in told THEN CallbackWork(c[2], c[3]) ELSE calls[c]]
    BY <1>3 DEF WsConfirm
  <2>2. /\ head < MaxSlot /\ head' = head + 1
        /\ UNCHANGED <<chain, rows, events, ckpt, proc, crashes>>
    BY <1>3 DEF WsConfirm
  <2>3. faults' \in 0..MaxFaults
    BY <1>1, <2>1, Calls
  <2>4. IndexerInv'
    BY <1>1, <2>2, <2>3, ConfirmType
  <2>5. head' \in Slots
    BY <1>1, <2>2, IndexerAssumption DEF Slots
  <2>6. ASSUME NEW c \in DOMAIN calls' PROVE CallAt(c)'
    <3>1. CASE c \in told
      <4>1. c[2] = head' /\ c[3] \in DOMAIN chain[head'] /\ calls'[c] = CallbackWork(c[2], c[3])
        BY <2>1, <2>6, <3>1 DEF CallbacksOf
      <4>2. /\ calls'[c] \in Seq(WsStatement) /\ FromLog(calls'[c])
            /\ Len(calls'[c]) > 1
        BY <1>1, <2>5, <4>1, InCallback
      <4>3. calls'[c] # <<>>
        BY <4>2
      <4> QED
        BY <2>2, <2>5, <4>1, <4>2, <4>3 DEF CallAt, FromLog
    <3>2. CASE c \notin told
      <4>1. c \in DOMAIN calls /\ calls'[c] = calls[c]
        BY <2>1, <2>6, <3>2
      <4> QED
        BY <1>2, <2>2, <2>6, <4>1
    <3> QED
      BY <3>1, <3>2
  <2> QED
    BY <2>4, <2>6 DEF WsInv
<1>4. ASSUME NEW i \in Instances, WsStart(i) \/ WsCrash(i) \/ WsBoot(i) \/ Subscribe(i)
      PROVE  WsInv'
  <2>1. IndexerInv'
    <3>1. CASE Subscribe(i)
      <4>1. /\ proc[i].pc \in Pcs /\ proc[i].current \in Slots /\ proc[i].last \in Slot
            /\ proc[i].slot \in 0..MaxSlot + 1 /\ proc[i].work \in Seq(Statement)
        BY <1>1, ProcessType
      <4>2. FromLog(proc[i].work)
        BY <1>1 DEF IndexerInv
      <4>3. Stays(i, "subscribed")
        BY <1>1, <3>1, Moves DEF Subscribe
      <4> QED
        BY <1>1, <3>1, <4>1, <4>2, <4>3, StepType DEF Stays, Subscribe
    <3>2. CASE WsStart(i) \/ WsCrash(i) \/ WsBoot(i)
      BY <1>1, <3>2, BootType DEF WsStart, WsCrash, WsBoot
    <3> QED
      BY <1>4, <3>1, <3>2
  <2>2. \A c \in DOMAIN calls' : CallAt(c)'
    BY <1>2, <1>4, Aside
  <2> QED
    BY <2>1, <2>2 DEF WsInv
<1>5. ASSUME NEW c \in DOMAIN calls, Callback(c) PROVE WsInv'
  <2> DEFINE s == Head(calls[c])
             rest == Tail(calls[c])
  <2>1. /\ s \in WsStatement /\ rest \in Seq(WsStatement) /\ FromLog(rest)
        /\ (Len(calls[c]) # 1 => rest # <<>>)
        /\ s.kind = "event" => s.event \in Logged(chain)
        /\ s.kind = "log" => s.tx \in Nat
        /\ c[2] \in Slots /\ c[3] \in DOMAIN chain[c[2]]
    BY Called
  <2>2. \/ /\ NoFault /\ s.kind = "log" /\ events' = events \cup {<<c[2], c[3]>>}
           /\ UNCHANGED <<rows, ckpt>>
        \/ /\ NoFault /\ s.kind = "event" /\ rows' = ApplyEvent(rows, s.event)
           /\ UNCHANGED <<events, ckpt>>
        \/ /\ NoFault /\ s.kind = "save" /\ ckpt' = [ckpt EXCEPT !["logs"] = c[2]]
           /\ UNCHANGED <<rows, events>>
        \/ Fault /\ UNCHANGED <<rows, events, ckpt>>
    BY <1>5 DEF Callback
  <2>3. UNCHANGED <<chain, head, proc, crashes>>
    BY <1>5 DEF Callback
  <2> HIDE DEF s, rest
  <2>4. faults' \in 0..MaxFaults
    BY <1>1, <2>2, Calls
  <2>5. rows' \in [Ids -> Row]
    BY <1>1, <2>1, <2>2, LoggedType, Applied
  <2>6. events' \subseteq Slots \X Nat
    <3>1. c[3] \in Nat
      BY <1>1, <2>1, ChainType
    <3> QED
      BY <1>1, <2>1, <2>2, <3>1
  <2>7. ckpt' \in [{"polling", "logs"} -> Slot]
    BY <1>1, <2>1, <2>2, CheckpointType
  <2>8. TypeOK'
    BY <1>1, <2>3, <2>4, <2>5, <2>6, <2>7 DEF IndexerInv, TypeOK
  <2>9. IndexerInv'
    BY <1>1, <2>3, <2>8 DEF IndexerInv, FromLog
  <2>10. ASSUME NEW d \in DOMAIN calls' PROVE CallAt(d)'
    <3>1. CASE d = c
      <4>1. calls'[c] = rest /\ Len(calls[c]) # 1
        BY <1>5, <2>10, <3>1, CallsLeft DEF rest
      <4> QED
        BY <2>1, <2>3, <3>1, <4>1 DEF CallAt, FromLog
    <3>2. CASE d # c
      <4>1. d \in DOMAIN calls /\ calls'[d] = calls[d]
        BY <1>5, <2>10, <3>2, CallsLeft
      <4> QED
        BY <1>2, <2>3, <2>10, <4>1
    <3> QED
      BY <3>1, <3>2
  <2> QED
    BY <2>9, <2>10 DEF WsInv
<1>6. CASE UNCHANGED wsVars
  BY <1>6 DEF wsVars, vars, WsInv, IndexerInv, TypeOK, FromLog, CallAt
<1> QED
  BY <1>3, <1>4, <1>5, <1>6 DEF WsNext

\* The state of the websocket indexer stays well typed, and a callback writes what the
\* chain logs of a confirmed slot.
THEOREM WsInvariant == WsSpec => []WsInv
<1>1. WsInit => WsInv
  <2>1. SUFFICES ASSUME WsInit PROVE WsInv
    OBVIOUS
  <2>2. IndexerInv /\ calls = NoCalls
    BY <2>1, TypeInit DEF WsInit
  <2> QED
    BY <2>2 DEF WsInv, NoCalls
<1>2. WsInv /\ [WsNext]_wsVars => WsInv'
  BY WsTypeStep
<1> QED
  BY <1>1, <1>2, PTL DEF WsSpec

\* While nothing failed, a callback has stored its transaction or not begun.
HeardInv ==
  faults = 0 =>
    /\ heard \subseteq events
    /\ \A c \in DOMAIN calls :
         calls[c] = CallbackWork(c[2], c[3]) \/ <<c[2], c[3]>> \in events

\* Every step keeps that what was heard is stored.
LEMMA HeardStep ==
  ASSUME WsInv, HeardInv, [WsNext]_wsVars
  PROVE  HeardInv'
<1>1. IndexerInv /\ chain \in Chains /\ faults \in 0..MaxFaults
  BY DEF WsInv, IndexerInv, TypeOK
<1>2. SUFFICES ASSUME faults' = 0
               PROVE  /\ heard' \subseteq events'
                      /\ \A c \in DOMAIN calls' :
                           calls'[c] = CallbackWork(c[2], c[3])' \/ <<c[2], c[3]>> \in events'
  BY DEF HeardInv
<1>3. UNCHANGED chain
  <2>1. WsConfirm => UNCHANGED chain
    BY DEF WsConfirm
  <2>2. \A c \in DOMAIN calls : Callback(c) => UNCHANGED chain
    BY DEF Callback
  <2>3. UNCHANGED wsVars => UNCHANGED chain
    BY DEF wsVars, vars
  <2> QED
    BY <2>1, <2>2, <2>3, Aside DEF WsNext
<1>4. \A s, n : CallbackWork(s, n)' = CallbackWork(s, n)
  BY <1>3 DEF CallbackWork, Persisting, Saving
<1>5. faults = 0 /\ ~ Fault
  <2>1. Fault \/ NoFault
    <3>1. ASSUME WsConfirm PROVE Fault \/ NoFault
      BY <3>1 DEF WsConfirm
    <3>2. ASSUME NEW c \in DOMAIN calls, Callback(c) PROVE Fault \/ NoFault
      BY <3>2 DEF Callback
    <3>3. ASSUME NEW i \in Instances, WsStart(i) \/ WsCrash(i) \/ WsBoot(i) \/ Subscribe(i)
          PROVE  Fault \/ NoFault
      BY <3>3 DEF WsStart, WsCrash, WsBoot, Subscribe, Start, Crash, Backfill, BackfillSlot,
                  BackfillRead, BackfillSeed, BackfillReadLogs, BackfillLogs,
                  ReadCheckpoint, SaveCheckpoint, NoFault
    <3> QED
      BY <3>1, <3>2, <3>3 DEF WsNext, wsVars, vars, NoFault
  <2> QED
    BY <1>1, <1>2, <2>1, Calls
<1>6. /\ heard \subseteq events
      /\ \A c \in DOMAIN calls :
           calls[c] = CallbackWork(c[2], c[3]) \/ <<c[2], c[3]>> \in events
  BY <1>5 DEF HeardInv
<1>7. CASE WsConfirm
  <2> DEFINE told == CallbacksOf(head')
  <2>1. PICK lost \in SUBSET told :
          calls' = [c \in DOMAIN calls \cup (told \ lost) |->
                      IF c \in told THEN CallbackWork(c[2], c[3]) ELSE calls[c]]
    BY <1>7 DEF WsConfirm
  <2> HIDE DEF told
  <2>2. \A c \in DOMAIN calls' :
          calls'[c] = CallbackWork(c[2], c[3]) \/ (c \in DOMAIN calls /\ calls'[c] = calls[c])
    BY <2>1
  <2>3. UNCHANGED <<heard, events>>
    BY <1>7 DEF WsConfirm
  <2> QED
    BY <1>4, <1>6, <2>2, <2>3
<1>8. ASSUME NEW i \in Instances, WsStart(i) \/ WsCrash(i) \/ WsBoot(i) \/ Subscribe(i)
      PROVE  /\ UNCHANGED <<heard, events>>
             /\ \A c \in DOMAIN calls' : c \in DOMAIN calls /\ calls'[c] = calls[c]
  BY <1>8, Aside
<1>9. ASSUME NEW c \in DOMAIN calls, Callback(c)
      PROVE  /\ heard' \subseteq events'
             /\ \A d \in DOMAIN calls' :
                  calls'[d] = CallbackWork(d[2], d[3])' \/ <<d[2], d[3]>> \in events'
  <2> DEFINE s == Head(calls[c])
  <2>1. /\ events \subseteq events'
        /\ s.kind = "log" => <<c[2], c[3]>> \in events'
    BY <1>5, <1>9 DEF Callback
  <2>2. calls[c] = CallbackWork(c[2], c[3]) => s.kind = "log" /\ Len(calls[c]) # 1
    <3>1. c[2] \in Slots /\ c[3] \in DOMAIN chain[c[2]]
      BY Called
    <3>2. Len(CallbackWork(c[2], c[3])) > 1 /\ Head(CallbackWork(c[2], c[3])) = LogOf(c[3])
      BY <1>1, <3>1, InCallback
    <3>3. LogOf(c[3]).kind = "log"
      BY DEF LogOf
    <3>4. Len(calls[c]) \in Nat
      BY Called
    <3>5. SUFFICES ASSUME calls[c] = CallbackWork(c[2], c[3])
                   PROVE  s.kind = "log" /\ Len(calls[c]) # 1
      OBVIOUS
    <3>6. s = LogOf(c[3]) /\ Len(calls[c]) > 1
      BY <3>2, <3>5
    <3>7. s.kind = "log"
      BY <3>3, <3>6
    <3>8. Len(calls[c]) # 1
      <4> DEFINE m == Len(calls[c])
      <4>1. m \in Nat /\ m > 1
        BY <3>4, <3>6
      <4> HIDE DEF m
      <4>2. m # 1
        BY <4>1
      <4> QED
        BY <4>2 DEF m
    <3> QED
      BY <3>7, <3>8
  <2>3. <<c[2], c[3]>> \in events'
    BY <1>6, <2>1, <2>2
  <2>4. \A d \in DOMAIN calls' : d # c => d \in DOMAIN calls /\ calls'[d] = calls[d]
    BY <1>9, CallsLeft
  <2>5. heard' = heard \/ heard' = heard \cup {<<c[2], c[3]>>}
    BY <1>9, CallsLeft
  <2>6. ASSUME NEW d \in DOMAIN calls'
        PROVE  calls'[d] = CallbackWork(d[2], d[3])' \/ <<d[2], d[3]>> \in events'
    BY <1>4, <1>6, <2>1, <2>3, <2>4
  <2> QED
    BY <1>6, <2>1, <2>3, <2>5, <2>6
<1>10. CASE UNCHANGED wsVars
  BY <1>4, <1>6, <1>10 DEF wsVars, vars
<1> QED
  BY <1>4, <1>6, <1>7, <1>8, <1>9, <1>10 DEF WsNext

\* Nothing was heard at first.
LEMMA HeardInit ==
  ASSUME WsInit
  PROVE  HeardInv
BY DEF WsInit, HeardInv, NoCalls

\* While no call fails, every transaction whose callback went through is stored, however
\* many callbacks mixed and crashed.
THEOREM HeardCorrect == WsSpec => []HeardIsStored
<1>1. WsInit => HeardInv
  BY HeardInit
<1>2. WsInv /\ HeardInv /\ [WsNext]_wsVars => HeardInv'
  BY HeardStep
<1>3. HeardInv => HeardIsStored
  BY DEF HeardInv, HeardIsStored
<1> QED
  BY <1>1, <1>2, <1>3, WsInvariant, PTL DEF WsSpec

\* The references stay intact over the websocket too, in whatever order the callbacks
\* write.
THEOREM WsReferencesCorrect == WsSpec => []ReferencesIntact
<1>1. WsInit => ReferencesInv
  BY ReferencesInit DEF WsInit
<1>2. WsInv /\ ReferencesInv /\ [WsNext]_wsVars => ReferencesInv'
  <2>1. SUFFICES ASSUME WsInv, ReferencesInv, [WsNext]_wsVars PROVE ReferencesInv'
    OBVIOUS
  <2>2. CASE UNCHANGED <<chain, rows>>
    BY <2>1, <2>2 DEF ReferencesInv
  <2>3. ASSUME NEW c \in DOMAIN calls, Callback(c) PROVE ReferencesInv'
    <3>1. Head(calls[c]).kind = "event" => Head(calls[c]).event \in Logged(chain)
      BY <2>1, Called
    <3>2. \/ UNCHANGED <<chain, rows>>
          \/ /\ Head(calls[c]).kind = "event"
             /\ rows' = ApplyEvent(rows, Head(calls[c]).event) /\ UNCHANGED chain
      BY <2>3 DEF Callback
    <3> QED
      BY <2>1, <2>2, <3>1, <3>2, ReferencesApply DEF WsInv
  <2>4. ASSUME NEW i \in Instances, WsStart(i) \/ WsCrash(i) \/ WsBoot(i) \/ Subscribe(i)
        PROVE  UNCHANGED <<chain, rows>>
    BY <2>4, Aside
  <2> QED
    BY <2>1, <2>2, <2>3, <2>4 DEF WsNext, WsConfirm, wsVars, vars
<1>3. WsInv /\ ReferencesInv => ReferencesIntact
  BY ReferencesNow DEF WsInv
<1> QED
  BY <1>1, <1>2, <1>3, WsInvariant, PTL DEF WsSpec

\* The boot's checkpoints start BackWindow slots behind the head or further back, so that
\* one that is closer is a callback's.
Backed(logs) == \E n \in DOMAIN chain[logs] : <<logs, n>> \in events

\* What an instance read of the head or of the checkpoint is behind the head by now.
BehindAt(i) ==
  /\ proc[i].current <= head
  /\ proc[i].last # None => proc[i].last <= Minus(head, BackWindow)

BehindInv ==
  /\ \A i \in Instances : BehindAt(i)
  /\ ckpt["polling"] # None => ckpt["polling"] <= Minus(head, BackWindow)

\* Together with the property it is inductive.
LogsInv == BehindInv /\ LogsCheckpointBacked

\* Minus is monotonic.
LEMMA MinusGrows ==
  ASSUME NEW a \in Slots, NEW b \in Slots, a <= b
  PROVE  Minus(a, BackWindow) <= Minus(b, BackWindow) /\ Minus(a, BackWindow) \in Slots
         /\ Minus(b, BackWindow) \in Slots
BY IndexerAssumption DEF Minus, Slots

\* So a backfill starts behind the window.
LEMMA StartIsBehind ==
  ASSUME IndexerInv, BehindInv, NEW i \in Instances
  PROVE  LET start == BackfillStart(proc[i].last, proc[i].current)
         IN  start \in Slots /\ start <= Minus(head, BackWindow)
<1>1. /\ proc[i].current \in Slots /\ proc[i].last \in Slot /\ head \in Slots
  BY ProcessType DEF IndexerInv, TypeOK
<1>2. BehindAt(i)
  BY DEF BehindInv
<1>3. /\ Minus(proc[i].current, BackWindow) <= Minus(head, BackWindow)
      /\ Minus(head, BackWindow) \in Slots
  BY <1>1, <1>2, MinusGrows DEF BehindAt
<1>4. CASE Truthy(proc[i].last)
  <2>1. proc[i].last \in Slots /\ proc[i].last <= Minus(head, BackWindow)
    BY <1>1, <1>2, <1>4 DEF BehindAt, Truthy, Slot
  <2>2. Lesser(proc[i].last, proc[i].current) <= proc[i].last
    BY <1>1, <2>1, IndexerAssumption DEF Lesser, Slots
  <2>3. Lesser(proc[i].last, proc[i].current) \in Slots
    BY <1>1, <2>1 DEF Lesser
  <2>4. Lesser(proc[i].last, proc[i].current) <= Minus(head, BackWindow)
    BY <1>3, <2>1, <2>2, <2>3, IndexerAssumption DEF Slots
  <2> QED
    BY <1>4, <2>3, <2>4 DEF BackfillStart
<1>5. CASE ~ Truthy(proc[i].last)
  BY <1>1, <1>3, <1>5, StartOfBackfill DEF BackfillStart
<1> QED
  BY <1>4, <1>5

\* A step that leaves its instance behind leaves them all behind.
LEMMA BehindStep ==
  ASSUME BehindInv, NEW i \in Instances, UNCHANGED head,
         \A j \in Instances : j # i => proc'[j] = proc[j], BehindAt(i)',
         ckpt'["polling"] # None => ckpt'["polling"] <= Minus(head, BackWindow)
  PROVE  BehindInv'
<1>1. ASSUME NEW j \in Instances PROVE BehindAt(j)'
  <2>1. CASE j = i
    BY <2>1
  <2>2. CASE j # i
    BY <2>2 DEF BehindInv, BehindAt
  <2> QED
    BY <2>1, <2>2
<1> QED
  BY <1>1 DEF BehindInv

\* A boot saves no checkpoint that is closer to the head.
LEMMA BehindBoot ==
  ASSUME IndexerInv, BehindInv, NEW i \in Instances,
         \/ Start(i) \/ Crash(i) \/ Backfill(i)
         \/ Goto(i, "subscribed") /\ UNCHANGED <<head, ckpt>>
  PROVE  /\ BehindInv'
         /\ ckpt'["logs"] = ckpt["logs"] \/ ckpt'["logs"] <= Minus(head, BackWindow)
<1> USE DEF Pcs
<1>1. /\ proc[i].pc \in Pcs /\ proc[i].current \in Slots /\ proc[i].last \in Slot
      /\ proc[i].slot \in 0..MaxSlot + 1 /\ proc[i].work \in Seq(Statement)
  BY ProcessType
<1>2. /\ BehindAt(i) /\ head \in Slots /\ ckpt \in [{"polling", "logs"} -> Slot]
      /\ ckpt["polling"] # None => ckpt["polling"] <= Minus(head, BackWindow)
  BY DEF BehindInv, IndexerInv, TypeOK
<1> DEFINE start == BackfillStart(proc[i].last, proc[i].current)
<1>3. start \in Slots /\ start <= Minus(head, BackWindow)
  BY StartIsBehind
<1>4. ASSUME NEW pc \in Pcs, Stays(i, pc), UNCHANGED head,
             ckpt'["polling"] # None => ckpt'["polling"] <= Minus(head, BackWindow)
      PROVE  BehindInv'
  <2>1. /\ proc'[i].current = proc[i].current /\ proc'[i].last = proc[i].last
        /\ \A j \in Instances : j # i => proc'[j] = proc[j]
    BY <1>1, <1>4, BecomesType DEF Stays
  <2>2. BehindAt(i)'
    BY <1>2, <1>4, <2>1 DEF BehindAt
  <2> QED
    BY <1>4, <2>1, <2>2, BehindStep
<1>5. CASE Start(i)
  BY <1>2, <1>4, <1>5, Moves DEF Start
<1>6. CASE Crash(i)
  <2>1. Becomes(i, "down", 0, None, 0, <<>>)
    BY <1>6, Moves
  <2>2. 0 \in Slots /\ None \in Slot /\ 0 \in 0..MaxSlot + 1 /\ <<>> \in Seq(Statement)
    BY IndexerAssumption DEF Slots, Slot
  <2> DEFINE zero == 0
             empty == <<>>
  <2>3. /\ zero \in Slots /\ zero \in 0..MaxSlot + 1 /\ empty \in Seq(Statement)
        /\ Becomes(i, "down", zero, None, zero, empty)
    BY <2>1, <2>2
  <2> HIDE DEF zero, empty
  <2>4. /\ proc'[i].current = zero /\ proc'[i].last = None
        /\ \A j \in Instances : j # i => proc'[j] = proc[j]
    BY <2>2, <2>3, BecomesType
  <2>5. BehindAt(i)' /\ UNCHANGED <<head, ckpt>>
    BY <1>2, <1>6, <2>4 DEF BehindAt, Crash, Slots, zero
  <2> QED
    BY <1>2, <2>4, <2>5, BehindStep
<1>7. CASE BackfillSlot(i)
  <2>1. Becomes(i, "read", head, proc[i].last, proc[i].slot, proc[i].work)
    BY <1>7, Moves
  <2>2. /\ proc'[i].current = head /\ proc'[i].last = proc[i].last
        /\ \A j \in Instances : j # i => proc'[j] = proc[j]
    BY <1>1, <1>2, <2>1, BecomesType
  <2>3. BehindAt(i)' /\ UNCHANGED <<head, ckpt>>
    BY <1>2, <1>7, <2>2 DEF BehindAt, BackfillSlot, Slots
  <2> QED
    BY <1>2, <2>2, <2>3, BehindStep
<1>8. CASE BackfillRead(i)
  <2>1. PICK last \in Slot :
          /\ ReadCheckpoint("polling", last)
          /\ proc' = [proc EXCEPT ![i].last = last,
                                  ![i].pc = IF Truthy(last) THEN "logs" ELSE "seed"]
    BY <1>8 DEF BackfillRead
  <2> DEFINE pc == IF Truthy(last) THEN "logs" ELSE "seed"
  <2>2. Becomes(i, pc, proc[i].current, last, proc[i].slot, proc[i].work)
    BY <2>1, Moves
  <2>3. pc \in Pcs
    OBVIOUS
  <2> HIDE DEF pc
  <2>4. /\ proc'[i].current = proc[i].current /\ proc'[i].last = last
        /\ \A j \in Instances : j # i => proc'[j] = proc[j]
    BY <1>1, <2>2, <2>3, BecomesType
  <2>5. last = None \/ last = ckpt["polling"]
    BY <2>1 DEF ReadCheckpoint
  <2>6. BehindAt(i)' /\ UNCHANGED <<head, ckpt>>
    BY <1>2, <1>8, <2>4, <2>5 DEF BehindAt, BackfillRead
  <2> QED
    BY <1>2, <2>4, <2>6, BehindStep
<1>9. CASE BackfillSeed(i)
  <2>1. Stays(i, "logs") /\ UNCHANGED head
    BY <1>9, Moves DEF BackfillSeed
  <2>2. ckpt' = ckpt \/ ckpt' = [ckpt EXCEPT !["polling"] = start]
    BY <1>9 DEF BackfillSeed, SaveCheckpoint
  <2> HIDE DEF start
  <2>3. /\ ckpt'["polling"] = ckpt["polling"] \/ ckpt'["polling"] = start
        /\ ckpt'["logs"] = ckpt["logs"]
    BY <1>2, <2>2
  <2> QED
    BY <1>2, <1>3, <1>4, <2>1, <2>3
<1>10. CASE BackfillLogs(i)
  <2>1. Stays(i, "resume") /\ UNCHANGED head
    BY <1>10, Moves DEF BackfillLogs
  <2>2. ckpt' = ckpt \/ ckpt' = [ckpt EXCEPT !["logs"] = start]
    BY <1>10 DEF BackfillLogs, SaveCheckpoint
  <2> HIDE DEF start
  <2>3. /\ ckpt'["logs"] = ckpt["logs"] \/ ckpt'["logs"] = start
        /\ ckpt'["polling"] = ckpt["polling"]
    BY <1>2, <2>2
  <2> QED
    BY <1>2, <1>3, <1>4, <2>1, <2>3
<1>11. CASE Goto(i, "subscribed") /\ UNCHANGED <<head, ckpt>>
  BY <1>2, <1>4, <1>11, Moves
<1>12. CASE BackfillReadLogs(i)
  <2>1. PICK pc \in {"resume", "logseed"} : Goto(i, pc)
    BY <1>12 DEF BackfillReadLogs
  <2>2. Stays(i, pc) /\ pc \in Pcs /\ UNCHANGED <<head, ckpt>>
    BY <1>12, <2>1, Moves DEF BackfillReadLogs
  <2> QED
    BY <1>2, <1>4, <2>2
<1> QED
  BY <1>5, <1>6, <1>7, <1>8, <1>9, <1>10, <1>11, <1>12 DEF Backfill

\* Every step keeps the invariant.
LEMMA LogsStep ==
  ASSUME WsInv, HeardInv, LogsInv, [WsNext]_wsVars
  PROVE  LogsInv'
<1>1. /\ IndexerInv /\ BehindInv /\ LogsCheckpointBacked
      /\ chain \in Chains /\ head \in Slots /\ ckpt \in [{"polling", "logs"} -> Slot]
      /\ faults \in 0..MaxFaults
  BY DEF WsInv, IndexerInv, TypeOK, LogsInv
<1>2. LogsCheckpointBacked =>
        (faults = 0 /\ ckpt["logs"] # None /\ ckpt["logs"] > Minus(head, BackWindow) =>
           Backed(ckpt["logs"]))
  BY DEF LogsCheckpointBacked, Backed
<1>3. (faults' = 0 /\ ckpt'["logs"] # None /\ ckpt'["logs"] > Minus(head', BackWindow) =>
         \E n \in DOMAIN chain'[ckpt'["logs"]] : <<ckpt'["logs"], n>> \in events')
      => LogsCheckpointBacked'
  BY DEF LogsCheckpointBacked
<1>4. ASSUME WsConfirm PROVE LogsInv'
  <2>1. /\ head' = head + 1 /\ head < MaxSlot /\ UNCHANGED <<chain, events, ckpt, proc>>
        /\ (NoFault \/ Fault)
    BY <1>4 DEF WsConfirm
  <2>2. head' \in Slots /\ head <= head'
    BY <1>1, <2>1, IndexerAssumption DEF Slots
  <2>3. /\ Minus(head, BackWindow) <= Minus(head', BackWindow)
        /\ Minus(head, BackWindow) \in Slots /\ Minus(head', BackWindow) \in Slots
    BY <1>1, <2>2, MinusGrows
  <2>4. \A slot \in Slots : slot <= Minus(head, BackWindow) => slot <= Minus(head', BackWindow)
    BY <2>3, IndexerAssumption DEF Slots
  <2>5. ASSUME NEW i \in Instances PROVE BehindAt(i)'
    <3>1. BehindAt(i) /\ proc[i].current \in Slots /\ proc[i].last \in Slot
      BY <1>1, ProcessType DEF BehindInv
    <3>2. proc[i].current <= head'
      BY <1>1, <2>2, <3>1, IndexerAssumption DEF BehindAt, Slots
    <3>3. proc[i].last # None => proc[i].last <= Minus(head', BackWindow)
      BY <2>4, <3>1 DEF BehindAt, Slot
    <3> QED
      BY <2>1, <3>2, <3>3 DEF BehindAt
  <2>6. ckpt["polling"] # None => ckpt["polling"] <= Minus(head', BackWindow)
    BY <1>1, <2>4 DEF BehindInv, Slot
  <2>7. BehindInv'
    BY <2>1, <2>5, <2>6 DEF BehindInv
  <2>8. faults' = 0 => faults = 0
    BY <1>1, <2>1, Calls
  <2>9. ckpt["logs"] # None /\ ckpt["logs"] > Minus(head', BackWindow) =>
          ckpt["logs"] > Minus(head, BackWindow)
    <3>1. ckpt["logs"] # None => ckpt["logs"] \in Slots
      BY <1>1 DEF Slot
    <3> QED
      BY <2>3, <3>1, IndexerAssumption DEF Slots
  <2>10. LogsCheckpointBacked'
    BY <1>1, <1>2, <1>3, <2>1, <2>8, <2>9 DEF Backed
  <2> QED
    BY <2>7, <2>10 DEF LogsInv
<1>5. ASSUME NEW i \in Instances, WsStart(i) \/ WsCrash(i) \/ WsBoot(i) \/ Subscribe(i)
      PROVE  LogsInv'
  <2>1. \/ Start(i) \/ Crash(i) \/ Backfill(i)
        \/ Goto(i, "subscribed") /\ UNCHANGED <<head, ckpt>>
    <3>1. WsStart(i) => Start(i)
      BY DEF WsStart
    <3>2. WsCrash(i) => Crash(i)
      BY DEF WsCrash
    <3>3. WsBoot(i) => Backfill(i)
      BY DEF WsBoot
    <3>4. Subscribe(i) => Goto(i, "subscribed") /\ UNCHANGED <<head, ckpt>>
      BY DEF Subscribe
    <3> QED
      BY <1>5, <3>1, <3>2, <3>3, <3>4
  <2>2. /\ BehindInv'
        /\ ckpt'["logs"] = ckpt["logs"] \/ ckpt'["logs"] <= Minus(head, BackWindow)
    BY <1>1, <2>1, BehindBoot
  <2>3. UNCHANGED <<chain, events>>
    BY <1>5, Aside
  <2>4. UNCHANGED head /\ (Fault \/ NoFault)
    BY <1>5 DEF WsStart, WsCrash, WsBoot, Subscribe, Start, Crash, Backfill, BackfillSlot,
                BackfillRead, BackfillSeed, BackfillReadLogs, BackfillLogs,
                ReadCheckpoint, SaveCheckpoint, NoFault
  <2>5. faults' = 0 => faults = 0
    BY <1>1, <2>4, Calls
  <2>6. ckpt' \in [{"polling", "logs"} -> Slot]
    <3>1. WsInv'
      BY WsTypeStep
    <3> QED
      BY <3>1 DEF WsInv, IndexerInv, TypeOK
  <2>7. ckpt'["logs"] # None /\ ckpt'["logs"] > Minus(head, BackWindow) =>
          ckpt'["logs"] = ckpt["logs"]
    <3>1. ckpt'["logs"] # None => ckpt'["logs"] \in Slots
      BY <2>6 DEF Slot
    <3>2. Minus(head, BackWindow) \in Slots
      BY <1>1, IndexerAssumption DEF Minus, Slots
    <3> QED
      BY <2>2, <3>1, <3>2, IndexerAssumption DEF Slots
  <2>8. LogsCheckpointBacked'
    BY <1>1, <1>2, <1>3, <2>3, <2>4, <2>5, <2>7 DEF Backed
  <2> QED
    BY <2>2, <2>8 DEF LogsInv
<1>6. ASSUME NEW c \in DOMAIN calls, Callback(c) PROVE LogsInv'
  <2> DEFINE s == Head(calls[c])
  <2>1. /\ UNCHANGED <<chain, head, proc>> /\ events \subseteq events' /\ (Fault \/ NoFault)
        /\ ckpt' = ckpt \/ (s.kind = "save" /\ ckpt' = [ckpt EXCEPT !["logs"] = c[2]])
    <3>1. UNCHANGED <<chain, head, proc>>
      BY <1>6 DEF Callback
    <3>2. events \subseteq events'
      BY <1>6 DEF Callback
    <3>3. Fault \/ NoFault
      BY <1>6 DEF Callback
    <3>4. ckpt' = ckpt \/ (s.kind = "save" /\ ckpt' = [ckpt EXCEPT !["logs"] = c[2]])
      BY <1>6 DEF Callback
    <3> QED
      BY <3>1, <3>2, <3>3, <3>4
  <2> HIDE DEF s
  <2>2. ckpt'["polling"] = ckpt["polling"]
    BY <1>1, <2>1
  <2>3. BehindInv'
    BY <1>1, <2>1, <2>2 DEF BehindInv, BehindAt
  <2>4. ckpt'["logs"] = ckpt["logs"] \/ (s.kind = "save" /\ ckpt'["logs"] = c[2])
    BY <1>1, <2>1
  <2>5. faults' = 0 => faults = 0
    BY <1>1, <2>1, Calls
  <2>6. ASSUME faults = 0, s.kind = "save"
        PROVE  c[3] \in DOMAIN chain[c[2]] /\ <<c[2], c[3]>> \in events
    <3>1. c[2] \in Slots /\ c[3] \in DOMAIN chain[c[2]]
      BY Called
    <3>2. Head(CallbackWork(c[2], c[3])) = LogOf(c[3]) /\ LogOf(c[3]).kind = "log"
      BY <1>1, <3>1, InCallback DEF LogOf
    <3>3. calls[c] # CallbackWork(c[2], c[3])
      BY <2>6, <3>2 DEF s
    <3> QED
      BY <2>6, <3>1, <3>3 DEF HeardInv
  <2>7. LogsCheckpointBacked'
    BY <1>1, <1>2, <1>3, <2>1, <2>4, <2>5, <2>6 DEF Backed
  <2> QED
    BY <2>3, <2>7 DEF LogsInv
<1>7. CASE UNCHANGED wsVars
  <2>1. BehindInv'
    BY <1>1, <1>7 DEF wsVars, vars, BehindInv, BehindAt
  <2>2. LogsCheckpointBacked'
    BY <1>1, <1>7 DEF wsVars, vars, LogsCheckpointBacked
  <2> QED
    BY <2>1, <2>2 DEF LogsInv
<1> QED
  BY <1>4, <1>5, <1>6, <1>7 DEF WsNext

\* No checkpoint is saved at first, or one behind the window.
LEMMA LogsInit ==
  ASSUME WsInit
  PROVE  LogsInv
<1>1. head \in Slots /\ \A i \in Instances : proc[i] = Down
  BY IndexerAssumption DEF WsInit, Init, Slots
<1>2. \A i \in Instances : BehindAt(i)
  BY <1>1 DEF BehindAt, Down, Slots
<1>3. Minus(head, BackWindow) <= Minus(head, BackWindow) /\ Minus(head, BackWindow) \in Slots
  BY <1>1, MinusGrows DEF Slots
<1>4. /\ ckpt["polling"] = None \/ ckpt["polling"] = Minus(head, BackWindow)
      /\ ckpt["logs"] = None \/ ckpt["logs"] = Minus(head, BackWindow)
  BY DEF WsInit, Init
<1>5. BehindInv
  BY <1>2, <1>3, <1>4 DEF BehindInv
<1>6. LogsCheckpointBacked
  BY <1>3, <1>4, IndexerAssumption DEF LogsCheckpointBacked, Slots
<1> QED
  BY <1>5, <1>6 DEF LogsInv

\* While no call fails, a logs checkpoint closer to the head than backfill looks back names
\* a slot with a stored transaction: a callback saves it after the insert, and the boot
\* never sets it that close.
THEOREM LogsCheckpointCorrect == WsSpec => []LogsCheckpointBacked
<1>1. WsInit => HeardInv /\ LogsInv
  BY HeardInit, LogsInit
<1>2. WsInv /\ HeardInv /\ LogsInv /\ [WsNext]_wsVars => HeardInv' /\ LogsInv'
  BY HeardStep, LogsStep
<1>3. LogsInv => LogsCheckpointBacked
  BY DEF LogsInv
<1> QED
  BY <1>1, <1>2, <1>3, WsInvariant, PTL DEF WsSpec

=============================================================================
