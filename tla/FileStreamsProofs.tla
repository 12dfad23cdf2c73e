------------------------- MODULE FileStreamsProofs --------------------------
(***************************************************************************)
(* Proofs about FileStreams, for any processes, names and sizes, however   *)
(* the packs are cut: no call is lost, doubled or moved on its way to the  *)
(* file, each line bears the name of its first call, and whatever fails or *)
(* is started the file is an Archive.                                      *)
(***************************************************************************)
EXTENDS FileStreams, FlattenTheorems, FiniteSetTheorems

Records == [pid : Pids, name : Names]

-----------------------------------------------------------------------------
(* The calls of a process in a pack *)

(* CallsOf flattens this.                                                  *)
Marked(p, pack, n) ==
    [i \in 1..Len(pack) |-> IF pack[i].pid = p THEN <<n + i>> ELSE <<>>]

LEMMA CallsOfMarked ==
    ASSUME NEW p, NEW pack, NEW n
    PROVE  CallsOf(p, pack, n) = FlattenSeq(Marked(p, pack, n))
BY DEF CallsOf, Marked

LEMMA MarkedType ==
    ASSUME NEW p, NEW pack \in Seq(Records), NEW n \in Nat,
           NEW V, \A i \in 1..Len(pack) : n + i \in V
    PROVE  Marked(p, pack, n) \in Seq(Seq(V)) /\ Len(Marked(p, pack, n)) = Len(pack)
<1> DEFINE mark(i) == IF pack[i].pid = p THEN <<n + i>> ELSE <<>>
<1>1. Len(pack) \in Nat
  OBVIOUS
<1>2. ASSUME NEW i \in 1..Len(pack) PROVE mark(i) \in Seq(V)
  <2>1. <<n + i>> \in Seq(V) /\ <<>> \in Seq(V)
    BY EmptySeq
  <2> QED BY <2>1
<1>3. Marked(p, pack, n) = [i \in 1..Len(pack) |-> mark(i)]
  BY DEF Marked
<1> HIDE DEF mark
<1>4. Marked(p, pack, n) \in Seq(Seq(V))
  BY <1>1, <1>2, <1>3
<1>5. Len(Marked(p, pack, n)) = Len(pack)
  BY <1>1, <1>3
<1> QED BY <1>4, <1>5

(* They are numbered after n.                                              *)
LEMMA CallsType ==
    ASSUME NEW p, NEW pack \in Seq(Records), NEW n \in Nat
    PROVE  CallsOf(p, pack, n) \in Seq((n + 1)..(n + Len(pack)))
<1> DEFINE V == (n + 1)..(n + Len(pack))
<1>1. Len(pack) \in Nat /\ \A i \in 1..Len(pack) : n + i \in V
  OBVIOUS
<1> HIDE DEF V
<1>2. Marked(p, pack, n) \in Seq(Seq(V))
  BY <1>1, MarkedType
<1>3. CallsOf(p, pack, n) \in Seq(V)
  BY <1>2, FlattenType, CallsOfMarked
<1> QED BY <1>3 DEF V

LEMMA NoCalls ==
    ASSUME NEW p, NEW pack \in Seq(Records), p \notin PidsOf(pack), NEW n \in Nat
    PROVE  CallsOf(p, pack, n) = <<>>
<1>1. \A i \in 1..Len(pack) : pack[i].pid # p
  BY DEF PidsOf
<1>2. Marked(p, pack, n) \in Seq({<<>>})
  <2>1. Marked(p, pack, n) = [i \in 1..Len(pack) |-> <<>>]
    BY <1>1 DEF Marked
  <2>2. Len(pack) \in Nat
    OBVIOUS
  <2> QED BY <2>1, <2>2
<1> QED BY <1>2, FlattenNothing, CallsOfMarked

(* The first of them is that of the first record of the process.           *)
LEMMA CallsBegin ==
    ASSUME NEW pack \in Seq(Records), NEW p \in PidsOf(pack)
    PROVE  \E k \in 1..Len(pack) :
               /\ pack[k].pid = p
               /\ \A n \in Nat : /\ CallsOf(p, pack, n) # <<>>
                                 /\ Head(CallsOf(p, pack, n)) = n + k
<1> DEFINE S == { i \in 1..Len(pack) : pack[i].pid = p }
<1>1. S # {} /\ S \in SUBSET Nat
  BY DEF PidsOf
<1>2. PICK k \in S : \A i \in S : k <= i
  <2> HIDE DEF S
  <2> QED BY <1>1, LeastElement
<1>3. k \in 1..Len(pack) /\ pack[k].pid = p
  OBVIOUS
<1>4. ASSUME NEW n \in Nat
      PROVE  CallsOf(p, pack, n) # <<>> /\ Head(CallsOf(p, pack, n)) = n + k
  <2> DEFINE V == (n + 1)..(n + Len(pack))
             seqs == Marked(p, pack, n)
             rest == FlattenSeq(SubSeq(seqs, k + 1, Len(seqs)))
  <2>1. /\ seqs \in Seq(Seq(V)) /\ k \in 1..Len(seqs) /\ seqs[k] = <<n + k>>
        /\ Len(seqs) = Len(pack)
    <3>1. seqs[k] = <<n + k>>
      BY <1>3 DEF Marked
    <3>2. \A i \in 1..Len(pack) : n + i \in V
      OBVIOUS
    <3>3. seqs \in Seq(Seq(V)) /\ Len(seqs) = Len(pack)
      <4> HIDE DEF V
      <4> QED BY <3>2, MarkedType
    <3> QED BY <1>3, <3>1, <3>3
  <2>2. \A i \in 1..(k - 1) : seqs[i] = <<>>
    <3>1. \A i \in 1..(k - 1) : i \in 1..Len(pack) /\ pack[i].pid # p
      BY <1>2, <1>3
    <3> QED BY <3>1 DEF Marked
  <2> HIDE DEF seqs, V
  <2>3. FlattenSeq(seqs) = seqs[k] \o rest
    BY <2>1, <2>2, FlattenAfterEmpty
  <2>4. SubSeq(seqs, k + 1, Len(seqs)) \in Seq(Seq(V))
    BY <2>1
  <2>5. rest \in Seq(V)
    BY <2>4, FlattenType
  <2> HIDE DEF rest
  <2>6. <<n + k>> \o rest # <<>> /\ Head(<<n + k>> \o rest) = n + k
    BY <2>5
  <2> QED BY <2>1, <2>3, <2>6, CallsOfMarked DEF seqs
<1> QED BY <1>3, <1>4

(* Those of a pack follow those of the records before it.                  *)
LEMMA CallsConcat ==
    ASSUME NEW p, NEW recs \in Seq(Records), NEW pack \in Seq(Records)
    PROVE  CallsOf(p, recs \o pack, 0)
               = CallsOf(p, recs, 0) \o CallsOf(p, pack, Len(recs))
<1> DEFINE a == Marked(p, recs, 0)
           b == Marked(p, pack, Len(recs))
           c == Marked(p, recs \o pack, 0)
<1>1. /\ recs \o pack \in Seq(Records) /\ Len(recs \o pack) = Len(recs) + Len(pack)
      /\ Len(recs) \in Nat /\ Len(pack) \in Nat
  OBVIOUS
<1> DEFINE Small(n, seq) == \A i \in 1..Len(seq) : n + i \in Nat
<1>2. Small(0, recs) /\ Small(Len(recs), pack) /\ Small(0, recs \o pack)
  BY <1>1
<1>3. /\ a \in Seq(Seq(Nat)) /\ Len(a) = Len(recs)
      /\ b \in Seq(Seq(Nat)) /\ Len(b) = Len(pack)
  BY <1>1, <1>2, MarkedType
<1>4. c \in Seq(Seq(Nat)) /\ Len(c) = Len(recs) + Len(pack)
  <2>1. Len(c) = Len(recs \o pack) /\ c \in Seq(Seq(Nat))
    BY <1>1, <1>2, MarkedType
  <2> QED BY <1>1, <2>1
<1>5. ASSUME NEW i \in 1..(Len(recs) + Len(pack))
      PROVE  c[i] = IF i <= Len(recs) THEN a[i] ELSE b[i - Len(recs)]
  <2>1. c[i] = IF (recs \o pack)[i].pid = p THEN <<0 + i>> ELSE <<>>
    <3>1. i \in 1..Len(recs \o pack)
      BY <1>1
    <3> QED BY <3>1 DEF Marked
  <2>2. CASE i <= Len(recs)
    <3>1. i \in 1..Len(recs) /\ (recs \o pack)[i] = recs[i]
      BY <1>1, <2>2
    <3>2. a[i] = IF recs[i].pid = p THEN <<0 + i>> ELSE <<>>
      BY <3>1 DEF Marked
    <3> HIDE DEF a, b, c
    <3> QED BY <2>1, <2>2, <3>1, <3>2
  <2>3. CASE ~ (i <= Len(recs))
    <3> DEFINE j == i - Len(recs)
    <3>1. j \in 1..Len(pack) /\ (recs \o pack)[i] = pack[j]
      BY <1>1, <2>3
    <3>2. b[j] = IF pack[j].pid = p THEN <<Len(recs) + j>> ELSE <<>>
      <4> HIDE DEF j
      <4> QED BY <3>1 DEF Marked
    <3>3. Len(recs) + j = 0 + i
      BY <1>1
    <3> HIDE DEF a, b, c
    <3> QED BY <2>1, <2>3, <3>1, <3>2, <3>3
  <2> QED BY <2>2, <2>3
<1>6. c = a \o b
  <2> DEFINE W == Seq(Nat)
  <2> HIDE DEF a, b, c, W
  <2>1. a \in Seq(W) /\ b \in Seq(W)
    BY <1>3 DEF W
  <2>2. c \in Seq(W)
    BY <1>4 DEF W
  <2>3. /\ a \o b \in Seq(W) /\ Len(a \o b) = Len(a) + Len(b)
        /\ \A i \in 1..(Len(a) + Len(b)) :
               (a \o b)[i] = IF i <= Len(a) THEN a[i] ELSE b[i - Len(a)]
    BY <2>1, ConcatProperties
  <2>4. Len(c) = Len(a \o b) /\ \A i \in 1..Len(c) : c[i] = (a \o b)[i]
    BY <1>3, <1>4, <1>5, <2>3
  <2> QED BY <2>2, <2>3, <2>4, SeqEqual
<1> HIDE DEF a, b, c
<1>7. FlattenSeq(c) = FlattenSeq(a) \o FlattenSeq(b)
  BY <1>3, <1>6, FlattenConcat
<1> QED BY <1>7, CallsOfMarked DEF a, b, c

-----------------------------------------------------------------------------
(* The calls of a process in the lines of the file *)

Numbers == 1..MaxRecords

(* CallsIn flattens this.                                                  *)
Chosen(p, lines) ==
    [i \in 1..Len(lines) |-> IF lines[i].pid = p THEN lines[i].calls ELSE <<>>]

LEMMA ChosenType ==
    ASSUME NEW p, NEW lines \in Seq(Lines)
    PROVE  /\ Chosen(p, lines) \in Seq(Seq(Numbers))
           /\ Len(Chosen(p, lines)) = Len(lines)
           /\ CallsIn(p, lines) = FlattenSeq(Chosen(p, lines))
<1> DEFINE choice(i) == IF lines[i].pid = p THEN lines[i].calls ELSE <<>>
<1>1. Len(lines) \in Nat
  OBVIOUS
<1>2. ASSUME NEW i \in 1..Len(lines) PROVE choice(i) \in Seq(Numbers)
  <2>1. lines[i] \in Lines
    OBVIOUS
  <2>2. lines[i].calls \in Seq(Numbers)
    BY <2>1 DEF Lines, Numbers
  <2>3. <<>> \in Seq(Numbers)
    BY EmptySeq
  <2> QED BY <2>2, <2>3
<1>3. Chosen(p, lines) = [i \in 1..Len(lines) |-> choice(i)]
  BY DEF Chosen
<1> HIDE DEF choice
<1>4. Chosen(p, lines) \in Seq(Seq(Numbers))
  BY <1>1, <1>2, <1>3
<1>5. Len(Chosen(p, lines)) = Len(lines)
  BY <1>1, <1>3
<1>6. CallsIn(p, lines) = FlattenSeq(Chosen(p, lines))
  BY DEF CallsIn, Chosen
<1> QED BY <1>4, <1>5, <1>6

LEMMA CallsInType ==
    ASSUME NEW p, NEW lines \in Seq(Lines)
    PROVE  CallsIn(p, lines) \in Seq(Numbers)
BY ChosenType, FlattenType

LEMMA CallsInNothing ==
    ASSUME NEW p
    PROVE  CallsIn(p, <<>>) = <<>>
<1>1. <<>> \in Seq(Lines) /\ Len(<<>>) = 0
  BY EmptySeq
<1>2. /\ Chosen(p, <<>>) \in Seq(Seq(Numbers)) /\ Len(Chosen(p, <<>>)) = 0
      /\ CallsIn(p, <<>>) = FlattenSeq(Chosen(p, <<>>))
  BY <1>1, ChosenType
<1>3. Chosen(p, <<>>) = <<>>
  BY <1>2
<1> QED BY <1>2, <1>3, FlattenEmpty

LEMMA CallsInConcat ==
    ASSUME NEW p, NEW first \in Seq(Lines), NEW second \in Seq(Lines)
    PROVE  CallsIn(p, first \o second) = CallsIn(p, first) \o CallsIn(p, second)
<1> DEFINE a == Chosen(p, first)
           b == Chosen(p, second)
           c == Chosen(p, first \o second)
<1>1. /\ first \o second \in Seq(Lines) /\ Len(first \o second) = Len(first) + Len(second)
      /\ Len(first) \in Nat /\ Len(second) \in Nat
  BY ConcatProperties
<1>2. /\ a \in Seq(Seq(Numbers)) /\ Len(a) = Len(first)
      /\ b \in Seq(Seq(Numbers)) /\ Len(b) = Len(second)
  BY ChosenType
<1>3. c \in Seq(Seq(Numbers)) /\ Len(c) = Len(first) + Len(second)
  <2>1. c \in Seq(Seq(Numbers)) /\ Len(c) = Len(first \o second)
    BY <1>1, ChosenType
  <2> QED BY <1>1, <2>1
<1>4. ASSUME NEW i \in 1..(Len(first) + Len(second))
      PROVE  c[i] = IF i <= Len(first) THEN a[i] ELSE b[i - Len(first)]
  <2>1. c[i] = IF (first \o second)[i].pid = p THEN (first \o second)[i].calls ELSE <<>>
    BY <1>1 DEF Chosen
  <2>2. CASE i <= Len(first)
    <3>1. i \in 1..Len(first) /\ (first \o second)[i] = first[i]
      BY <1>1, <2>2, ConcatProperties
    <3>2. a[i] = IF first[i].pid = p THEN first[i].calls ELSE <<>>
      BY <3>1 DEF Chosen
    <3> HIDE DEF a, b, c
    <3> QED BY <2>1, <2>2, <3>1, <3>2
  <2>3. CASE ~ (i <= Len(first))
    <3> DEFINE j == i - Len(first)
    <3>1. j \in 1..Len(second) /\ (first \o second)[i] = second[j]
      BY <1>1, <2>3, ConcatProperties
    <3>2. b[j] = IF second[j].pid = p THEN second[j].calls ELSE <<>>
      <4> HIDE DEF j
      <4> QED BY <3>1 DEF Chosen
    <3> HIDE DEF a, b, c
    <3> QED BY <2>1, <2>3, <3>1, <3>2
  <2> QED BY <2>2, <2>3
<1>5. c = a \o b
  <2> DEFINE W == Seq(Numbers)
  <2> HIDE DEF a, b, c, W
  <2>1. a \in Seq(W) /\ b \in Seq(W)
    BY <1>2 DEF W
  <2>2. c \in Seq(W)
    BY <1>3 DEF W
  <2>3. /\ a \o b \in Seq(W) /\ Len(a \o b) = Len(a) + Len(b)
        /\ \A i \in 1..(Len(a) + Len(b)) :
               (a \o b)[i] = IF i <= Len(a) THEN a[i] ELSE b[i - Len(a)]
    BY <2>1, ConcatProperties
  <2>4. Len(c) = Len(a \o b) /\ \A i \in 1..Len(c) : c[i] = (a \o b)[i]
    BY <1>2, <1>3, <1>4, <2>3
  <2> QED BY <2>2, <2>3, <2>4, SeqEqual
<1> HIDE DEF a, b, c
<1>6. FlattenSeq(c) = FlattenSeq(a) \o FlattenSeq(b)
  BY <1>2, <1>5, FlattenConcat
<1> QED BY <1>1, <1>6, ChosenType DEF a, b, c

(* file_stream.h:18-21: the lines of a pack hold its calls, one each.      *)
LEMMA CallsOfRecordLines ==
    ASSUME NEW pack \in Seq(Records), records \in Seq(Records),
           Len(records) + Len(pack) <= MaxRecords
    PROVE  /\ RecordLines(pack) \in Seq(Lines)
           /\ \A p : CallsIn(p, RecordLines(pack)) = CallsOf(p, pack, Len(records))
<1> DEFINE line(i) == [pid |-> pack[i].pid, name |-> pack[i].name, calls |-> <<Len(records) + i>>]
<1>1. Len(pack) \in Nat /\ Len(records) \in Nat /\ MaxRecords \in Nat
  BY FileStreamsAssumption
<1>2. ASSUME NEW i \in 1..Len(pack) PROVE line(i) \in Lines
  <2>1. Len(records) + i \in 1..MaxRecords
    BY <1>1
  <2>2. <<Len(records) + i>> \in Seq(1..MaxRecords)
    BY <2>1
  <2>3. pack[i].pid \in Pids /\ pack[i].name \in Names
    <3>1. pack[i] \in Records
      BY ElementOfSeq
    <3> QED BY <3>1 DEF Records
  <2> QED BY <2>2, <2>3 DEF Lines
<1>3. RecordLines(pack) = [i \in 1..Len(pack) |-> line(i)]
  BY DEF RecordLines
<1>4. RecordLines(pack) \in Seq(Lines) /\ Len(RecordLines(pack)) = Len(pack)
  <2> HIDE DEF line
  <2> QED BY <1>1, <1>2, <1>3
<1>5. ASSUME NEW p PROVE CallsIn(p, RecordLines(pack)) = CallsOf(p, pack, Len(records))
  <2>1. \A i \in 1..Len(pack) : /\ RecordLines(pack)[i].pid = pack[i].pid
                                /\ RecordLines(pack)[i].calls = <<Len(records) + i>>
    BY <1>3
  <2>2. Chosen(p, RecordLines(pack)) = Marked(p, pack, Len(records))
    BY <1>4, <2>1 DEF Chosen, Marked
  <2> QED BY <1>4, <2>2, ChosenType, CallsOfMarked
<1> QED BY <1>4, <1>5

(* file_aggr_stream.h:46-55: the lines of the groups hold each of them     *)
(* once, whatever the order of the hash map.                               *)
LEMMA CallsOfGroupLines ==
    ASSUME NEW groups, NEW names, IsFiniteSet(DOMAIN groups),
           NEW order \in SetToSeqs(DOMAIN groups), NEW S \in SUBSET Lines,
           \A q \in DOMAIN groups : [pid |-> q, name |-> names[q], calls |-> groups[q]] \in S
    PROVE  /\ GroupLines(order, groups, names) \in Seq(S)
           /\ \A p : CallsIn(p, GroupLines(order, groups, names))
                       = IF p \in DOMAIN groups THEN groups[p] ELSE <<>>
<1> DEFINE D == DOMAIN groups
           N == Cardinality(D)
           lines == GroupLines(order, groups, names)
           line(q) == [pid |-> q, name |-> names[q], calls |-> groups[q]]
<1>1. /\ N \in Nat /\ order \in [1..N -> D]
      /\ \A i, j \in 1..N : i # j => order[i] # order[j]
  BY FS_CardinalityType DEF SetToSeqs
<1>2. order \in Seq(D) /\ Len(order) = N
  <2> HIDE DEF N, D
  <2> QED BY <1>1
<1>3. \A q \in D : line(q) \in S
  OBVIOUS
<1>4. /\ lines \in Seq(S) /\ Len(lines) = N
      /\ \A i \in 1..N : lines[i] = line(order[i]) /\ order[i] \in D
  <2>1. lines = [i \in 1..N |-> line(order[i])]
    BY <1>2 DEF GroupLines
  <2> HIDE DEF lines, line, N, D
  <2> QED BY <1>1, <1>3, <2>1
<1>5. lines \in Seq(Lines)
  <2> HIDE DEF lines
  <2> QED BY <1>4, SeqMonotonic
<1>6. \A q \in D : \E k \in 1..N : order[k] = q
  <2>1. order \in Injection(1..N, D)
    BY <1>1 DEF Injection, IsInjective
  <2>2. Cardinality(1..N) = N
    <3> HIDE DEF N
    <3> QED BY <1>1, FS_Interval
  <2>3. order \in Surjection(1..N, D)
    <3> HIDE DEF N, D
    <3>1. IsFiniteSet(D) /\ Cardinality(1..N) = Cardinality(D)
      BY <2>2 DEF N, D
    <3> QED BY <2>1, <3>1, FS_Injection
  <2> HIDE DEF N, D
  <2> QED BY <2>3 DEF Surjection
<1>7. ASSUME NEW p PROVE CallsIn(p, lines) = IF p \in D THEN groups[p] ELSE <<>>
  <2> DEFINE seqs == Chosen(p, lines)
  <2>1. seqs \in Seq(Seq(Numbers)) /\ Len(seqs) = N /\ CallsIn(p, lines) = FlattenSeq(seqs)
    BY <1>4, <1>5, ChosenType
  <2>2. ASSUME NEW i \in 1..N
        PROVE  seqs[i] = IF order[i] = p THEN groups[p] ELSE <<>>
    <3>1. lines[i].pid = order[i] /\ lines[i].calls = groups[order[i]]
      BY <1>4
    <3>2. seqs[i] = IF lines[i].pid = p THEN lines[i].calls ELSE <<>>
      BY <1>4 DEF Chosen
    <3> HIDE DEF seqs, lines
    <3> QED BY <3>1, <3>2
  <2> HIDE DEF seqs, lines, N
  <2>3. CASE p \in D
    <3>1. PICK k \in 1..N : order[k] = p
      BY <1>6, <2>3
    <3>2. \A i \in 1..N : i # k => seqs[i] = <<>>
      BY <1>1, <2>2, <3>1
    <3>3. FlattenSeq(seqs) = seqs[k]
      BY <2>1, <3>2, FlattenAmongEmpty
    <3> QED BY <2>1, <2>2, <2>3, <3>1, <3>3
  <2>4. CASE p \notin D
    <3>1. \A i \in 1..N : seqs[i] = <<>>
      BY <1>1, <2>2, <2>4
    <3>2. seqs \in [1..N -> Seq(Numbers)]
      BY <2>1, LenProperties
    <3>3. seqs \in Seq({<<>>})
      <4>1. seqs \in [1..N -> {<<>>}]
        BY <3>1, <3>2
      <4> QED BY <1>1, <4>1
    <3> QED BY <2>1, <2>4, <3>3, FlattenNothing
  <2> QED BY <2>3, <2>4
<1> QED BY <1>4, <1>7

-----------------------------------------------------------------------------
(* The inductive invariant *)

WellNamed(calls, name, recs) ==
    /\ calls # <<>> /\ Head(calls) \in 1..Len(recs)
    /\ name = recs[Head(calls)].name

NamedLines(recs) == { line \in Lines : WellNamed(line.calls, line.name, recs) }

Types ==
    /\ stream \in {"file_stream", "file_aggr_stream"}
    /\ running \in BOOLEAN /\ headless \in BOOLEAN /\ bad \in BOOLEAN
    /\ records \in Seq(Records) /\ Len(records) <= MaxRecords
    /\ starts \in 0..MaxStarts

(* The processes with a group have made calls; a group begins with the     *)
(* call that brought its name.                                             *)
GroupsOf(groups, names, recs) ==
    /\ IsFiniteSet(DOMAIN groups) /\ DOMAIN groups \subseteq PidsOf(recs)
    /\ DOMAIN names = DOMAIN groups
    /\ \A p \in DOMAIN groups : /\ groups[p] \in Seq(Numbers)
                                /\ WellNamed(groups[p], names[p], recs)

Groups ==
    /\ GroupsOf(traces, pnames, records)
    /\ Cardinality(DOMAIN traces) < Size
    /\ stream = "file_stream" => DOMAIN traces = {}

File ==
    /\ buffered \in Seq(NamedLines(records)) /\ disk \in Seq(NamedLines(records))
    /\ stream = "file_aggr_stream" /\ Cardinality(PidsOf(records)) < Size
           => buffered = <<>> /\ disk = <<>>

GroupOf(p, groups) == IF p \in DOMAIN groups THEN groups[p] ELSE <<>>

(* The calls of p are those a start has cut off, those on the disk and the *)
(* rest. The rest is with zlib and in the group as long as the sensor runs *)
(* and no write has failed, and is never written otherwise.                *)
KeptBy(p, lost, rest) ==
    /\ lost \o (CallsIn(p, disk) \o rest) = CallsOf(p, records, 0)
    /\ running /\ ~bad => rest = CallsIn(p, buffered) \o GroupOf(p, traces)
    /\ running /\ ~bad /\ ~headless => lost = <<>>

Flow == \A p \in Pids : \E lost, rest \in Seq(Numbers) : KeptBy(p, lost, rest)

IInv == Types /\ Groups /\ File /\ Flow

-----------------------------------------------------------------------------
(* Facts about the records *)

LEMMA SizesAreNumbers ==
    /\ Size \in Nat \ {0} /\ MaxRecords \in Nat /\ MaxStarts \in Nat
BY FileStreamsAssumption

LEMMA PackIsSeq ==
    ASSUME NEW pack \in Packs
    PROVE  pack \in Seq(Records) /\ Len(pack) \in Nat
<1>1. PICK n \in 1..MaxPack : pack \in [1..n -> Records]
  BY DEF Packs, Records
<1>2. n \in Nat
  BY FileStreamsAssumption
<1> QED BY <1>1, <1>2

LEMMA PidsAreFinite ==
    ASSUME NEW recs \in Seq(Records)
    PROVE  /\ IsFiniteSet(PidsOf(recs)) /\ Cardinality(PidsOf(recs)) \in Nat
           /\ PidsOf(recs) \subseteq Pids
<1> DEFINE f == [i \in 1..Len(recs) |-> recs[i].pid]
<1>1. Len(recs) \in Nat /\ IsFiniteSet(1..Len(recs))
  BY FS_Interval
<1>2. f \in Surjection(1..Len(recs), PidsOf(recs))
  BY DEF PidsOf, Surjection
<1>3. IsFiniteSet(PidsOf(recs))
  <2> HIDE DEF f
  <2> QED BY <1>1, <1>2, FS_Surjection
<1>4. \A i \in 1..Len(recs) : recs[i].pid \in Pids
  <2>1. \A i \in 1..Len(recs) : recs[i] \in Records
    BY ElementOfSeq
  <2> QED BY <2>1 DEF Records
<1> QED BY <1>3, <1>4, FS_CardinalityType DEF PidsOf

LEMMA RecordsGrow ==
    ASSUME NEW recs \in Seq(Records), NEW pack \in Seq(Records)
    PROVE  /\ recs \o pack \in Seq(Records)
           /\ Len(recs \o pack) = Len(recs) + Len(pack)
           /\ Len(recs) \in Nat /\ Len(pack) \in Nat
           /\ \A i \in 1..Len(recs) : (recs \o pack)[i] = recs[i]
           /\ \A i \in 1..Len(pack) : (recs \o pack)[Len(recs) + i] = pack[i]
           /\ PidsOf(recs \o pack) = PidsOf(recs) \cup PidsOf(pack)
           /\ Cardinality(PidsOf(recs)) <= Cardinality(PidsOf(recs \o pack))
<1>1. /\ recs \o pack \in Seq(Records)
      /\ Len(recs \o pack) = Len(recs) + Len(pack)
      /\ Len(recs) \in Nat /\ Len(pack) \in Nat
  OBVIOUS
<1>2. \A i \in 1..Len(recs) : (recs \o pack)[i] = recs[i]
  OBVIOUS
<1>3. \A i \in 1..Len(pack) : (recs \o pack)[Len(recs) + i] = pack[i]
  OBVIOUS
<1>4. PidsOf(recs \o pack) = PidsOf(recs) \cup PidsOf(pack)
  <2>1. ASSUME NEW p \in PidsOf(recs \o pack) PROVE p \in PidsOf(recs) \cup PidsOf(pack)
    <3>1. PICK i \in 1..(Len(recs) + Len(pack)) : p = (recs \o pack)[i].pid
      BY <1>1 DEF PidsOf
    <3>2. CASE i <= Len(recs)
      BY <1>1, <1>2, <3>1, <3>2 DEF PidsOf
    <3>3. CASE ~ (i <= Len(recs))
      <4> DEFINE j == i - Len(recs)
      <4>1. j \in 1..Len(pack) /\ Len(recs) + j = i
        BY <1>1, <3>3
      <4> HIDE DEF j
      <4>2. p = pack[j].pid
        BY <1>3, <3>1, <4>1
      <4> QED BY <4>1, <4>2 DEF PidsOf
    <3> QED BY <3>2, <3>3
  <2>2. ASSUME NEW p \in PidsOf(recs) PROVE p \in PidsOf(recs \o pack)
    <3>1. PICK i \in 1..Len(recs) : p = recs[i].pid
      BY DEF PidsOf
    <3>2. i \in 1..Len(recs \o pack) /\ p = (recs \o pack)[i].pid
      BY <1>1, <1>2, <3>1
    <3> QED BY <3>2 DEF PidsOf
  <2>3. ASSUME NEW p \in PidsOf(pack) PROVE p \in PidsOf(recs \o pack)
    <3>1. PICK i \in 1..Len(pack) : p = pack[i].pid
      BY DEF PidsOf
    <3>2. Len(recs) + i \in 1..Len(recs \o pack) /\ p = (recs \o pack)[Len(recs) + i].pid
      BY <1>1, <1>3, <3>1
    <3> QED BY <3>2 DEF PidsOf
  <2> QED BY <2>1, <2>2, <2>3
<1>5. Cardinality(PidsOf(recs)) <= Cardinality(PidsOf(recs \o pack))
  BY <1>1, <1>4, PidsAreFinite, FS_Subset
<1> QED BY <1>1, <1>2, <1>3, <1>4, <1>5

(* A name that was right stays right.                                      *)
LEMMA WellNamedStays ==
    ASSUME NEW recs \in Seq(Records), NEW pack \in Seq(Records)
    PROVE  /\ \A calls, name : WellNamed(calls, name, recs)
                               => WellNamed(calls, name, recs \o pack)
           /\ NamedLines(recs) \subseteq NamedLines(recs \o pack)
<1>1. ASSUME NEW calls, NEW name, WellNamed(calls, name, recs)
      PROVE  WellNamed(calls, name, recs \o pack)
  <2>1. calls # <<>> /\ Head(calls) \in 1..Len(recs) /\ name = recs[Head(calls)].name
    BY <1>1 DEF WellNamed
  <2>2. (recs \o pack)[Head(calls)] = recs[Head(calls)]
    BY <2>1, RecordsGrow
  <2>3. Head(calls) \in 1..Len(recs \o pack)
    BY <2>1, RecordsGrow
  <2> QED BY <2>1, <2>2, <2>3 DEF WellNamed
<1> QED BY <1>1 DEF NamedLines

-----------------------------------------------------------------------------
(* Facts about the groups and the file *)

(* file_aggr_stream.h:20-40: the groups with a pack added.                 *)
LEMMA GroupsGrow ==
    ASSUME Types, GroupsOf(traces, pnames, records),
           NEW pack \in Seq(Records), Len(records) + Len(pack) <= MaxRecords
    PROVE  /\ GroupsOf(Grouped(pack), Named(pack), records \o pack)
           /\ \A p : GroupOf(p, Grouped(pack))
                      = GroupOf(p, traces) \o CallsOf(p, pack, Len(records))
           /\ \A p : GroupOf(p, traces) \in Seq(Numbers)
           /\ \A p : CallsOf(p, pack, Len(records)) \in Seq(Numbers)
<1> DEFINE groups == Grouped(pack)
           names == Named(pack)
           recs == records \o pack
           new(p) == CallsOf(p, pack, Len(records))
<1>1. records \in Seq(Records)
  BY DEF Types
<1>2. Len(records) \in Nat /\ Len(pack) \in Nat /\ MaxRecords \in Nat
  BY <1>1, SizesAreNumbers
<1>3. \A p : new(p) \in Seq(Numbers)
  <2>1. ASSUME NEW p PROVE new(p) \in Seq(Numbers)
    <3> DEFINE V == (Len(records) + 1)..(Len(records) + Len(pack))
    <3>1. V \subseteq Numbers
      BY <1>2 DEF Numbers
    <3>2. new(p) \in Seq(V)
      BY <1>2, CallsType
    <3> HIDE DEF V
    <3> QED BY <3>1, <3>2, SeqMonotonic
  <2> QED BY <2>1
<1>4. \A p : GroupOf(p, traces) \in Seq(Numbers)
  BY EmptySeq DEF GroupOf, GroupsOf
<1>5. /\ DOMAIN groups = DOMAIN traces \cup PidsOf(pack)
      /\ DOMAIN names = DOMAIN groups
  BY DEF Grouped, Named, GroupsOf
<1>6. IsFiniteSet(DOMAIN groups) /\ DOMAIN groups \subseteq PidsOf(recs)
  <2>1. IsFiniteSet(PidsOf(pack)) /\ IsFiniteSet(DOMAIN traces)
    BY PidsAreFinite DEF GroupsOf
  <2>2. PidsOf(recs) = PidsOf(records) \cup PidsOf(pack)
    BY <1>1, RecordsGrow
  <2>3. IsFiniteSet(DOMAIN traces \cup PidsOf(pack))
    BY ONLY <2>1, FS_Union
  <2>4. DOMAIN traces \subseteq PidsOf(records)
    BY DEF GroupsOf
  <2>5. IsFiniteSet(DOMAIN groups)
    BY ONLY <1>5, <2>3
  <2>6. DOMAIN groups \subseteq PidsOf(recs)
    BY ONLY <1>5, <2>2, <2>4
  <2> QED BY ONLY <2>5, <2>6
<1>7. \A p \in DOMAIN groups : groups[p] = GroupOf(p, traces) \o new(p)
  BY <1>5 DEF Grouped, GroupOf
<1>8. \A p : GroupOf(p, groups) = GroupOf(p, traces) \o new(p)
  <2>1. ASSUME NEW p, p \notin DOMAIN groups PROVE GroupOf(p, traces) \o new(p) = <<>>
    <3>1. new(p) = <<>>
      BY <1>2, <1>5, <2>1, NoCalls
    <3>2. GroupOf(p, traces) = <<>>
      BY <1>5, <2>1 DEF GroupOf
    <3>3. <<>> \o <<>> = <<>>
      OBVIOUS
    <3> QED BY <3>1, <3>2, <3>3
  <2> HIDE DEF groups, new
  <2> QED BY <1>7, <2>1 DEF GroupOf
<1>9. ASSUME NEW p \in DOMAIN groups PROVE groups[p] \in Seq(Numbers)
  <2>1. /\ groups[p] = GroupOf(p, traces) \o new(p)
        /\ GroupOf(p, traces) \in Seq(Numbers) /\ new(p) \in Seq(Numbers)
    BY <1>3, <1>4, <1>7
  <2> HIDE DEF groups, new
  <2> QED BY <2>1, ConcatProperties
<1>10. ASSUME NEW p \in DOMAIN groups PROVE WellNamed(groups[p], names[p], recs)
  <2>1. CASE p \in DOMAIN traces
    <3>1. traces[p] \in Seq(Numbers) /\ WellNamed(traces[p], pnames[p], records)
      BY <2>1 DEF GroupsOf
    <3>2. WellNamed(traces[p], pnames[p], recs)
      BY <1>1, <3>1, WellNamedStays
    <3>3. groups[p] = traces[p] \o new(p) /\ names[p] = pnames[p]
      BY <1>5, <1>7, <2>1 DEF GroupOf, GroupsOf, Named
    <3>4. new(p) \in Seq(Numbers)
      BY <1>3
    <3> HIDE DEF groups, names, new, recs
    <3>5. traces[p] # <<>>
      BY <3>2 DEF WellNamed
    <3>6. groups[p] # <<>> /\ Head(groups[p]) = Head(traces[p])
      BY <3>1, <3>3, <3>4, <3>5
    <3> QED BY <3>2, <3>3, <3>6 DEF WellNamed
  <2>2. CASE p \notin DOMAIN traces
    <3>1. p \in PidsOf(pack)
      BY <1>5, <2>2
    <3>2. PICK k \in 1..Len(pack) :
              /\ pack[k].pid = p
              /\ \A n \in Nat : /\ CallsOf(p, pack, n) # <<>>
                                /\ Head(CallsOf(p, pack, n)) = n + k
      BY <3>1, CallsBegin
    <3>3. new(p) # <<>> /\ Head(new(p)) = Len(records) + k
      BY <1>2, <3>2
    <3>4. groups[p] = new(p)
      <4>1. groups[p] = <<>> \o new(p)
        BY <1>7, <2>2 DEF GroupOf
      <4>2. new(p) \in Seq(Numbers)
        BY <1>3
      <4> HIDE DEF groups, new
      <4> QED BY <4>1, <4>2, ConcatEmptySeq
    <3>5. names[p] = pack[k].name
      <4>1. names[p] = pack[Head(CallsOf(p, pack, 0))].name
        BY <1>5, <2>2 DEF Named, GroupsOf
      <4>2. 0 \in Nat /\ \A n \in Nat : Head(CallsOf(p, pack, n)) = n + k
        BY <3>2
      <4>3. Head(CallsOf(p, pack, 0)) = 0 + k
        BY <4>2
      <4>4. Head(CallsOf(p, pack, 0)) = k
        BY <4>3
      <4> QED BY <4>1, <4>4
    <3>6. recs[Len(records) + k] = pack[k] /\ Len(records) + k \in 1..Len(recs)
      BY <1>1, <1>2, RecordsGrow
    <3> HIDE DEF groups, names, new, recs
    <3> QED BY <3>3, <3>4, <3>5, <3>6 DEF WellNamed
  <2> QED BY <2>1, <2>2
<1> QED
  <2>1. GroupsOf(groups, names, recs)
    <3> HIDE DEF groups, names, recs
    <3> QED BY <1>5, <1>6, <1>9, <1>10 DEF GroupsOf
  <2> QED BY <1>3, <1>4, <1>8, <2>1

(* gzstream.C:64-117: a part of what is given to the file reaches the      *)
(* disk, and the rest is kept by zlib or lost for good.                    *)
LEMMA WriteSplits ==
    ASSUME NEW S, buffered \in Seq(S), disk \in Seq(S), NEW lines \in Seq(S),
           Write(lines), ~bad
    PROVE  \E first, second \in Seq(S) :
               /\ first \o second = buffered \o lines
               /\ disk' = disk \o first
               /\ \/ buffered' = second /\ bad' = FALSE
                  \/ buffered' = <<>> /\ bad' = TRUE
<1> DEFINE all == buffered \o lines
<1>1. all \in Seq(S)
  OBVIOUS
<1>2. PICK n \in 0..Len(all) :
          /\ disk' = disk \o SubSeq(all, 1, n)
          /\ \/ buffered' = SubSeq(all, n + 1, Len(all)) /\ bad' = FALSE
             \/ buffered' = <<>> /\ bad' = TRUE
  BY DEF Write
<1> HIDE DEF all
<1>3. SubSeq(all, 1, n) \in Seq(S) /\ SubSeq(all, n + 1, Len(all)) \in Seq(S)
  BY <1>1
<1>4. SubSeq(all, 1, n) \o SubSeq(all, n + 1, Len(all)) = all
  <2>1. /\ Len(all) \in Nat /\ 1 \in 1..(Len(all) + 1)
        /\ n \in (1 - 1)..Len(all) /\ Len(all) \in n..Len(all)
    BY <1>1
  <2>2. SubSeq(all, 1, n) \o SubSeq(all, n + 1, Len(all)) = SubSeq(all, 1, Len(all))
    BY <1>1, <2>1, ConcatAdjacentSubSeq
  <2> QED BY <1>1, <2>2, SubSeqFull
<1> QED BY <1>2, <1>3, <1>4 DEF all

-----------------------------------------------------------------------------
(* What a dispatch does to the calls *)

(* first is written of what was buffered and of l, second is not; g and c  *)
(* become l and h.                                                         *)
Written(lost, d, b, g, c, l, h, first, second) ==
    /\ lost \in Seq(Numbers) /\ d \in Seq(Numbers) /\ b \in Seq(Numbers)
    /\ g \in Seq(Numbers) /\ c \in Seq(Numbers) /\ l \in Seq(Numbers)
    /\ h \in Seq(Numbers) /\ first \in Seq(Numbers) /\ second \in Seq(Numbers)
    /\ first \o second = b \o l /\ l \o h = g \o c

Follows(lost, d, b, g, c, h, first, second) ==
    lost \o ((d \o first) \o (second \o h)) = (lost \o (d \o (b \o g))) \o c

LEMMA RegroupWritten ==
    ASSUME NEW lost, NEW d, NEW b, NEW g, NEW c, NEW l, NEW h,
           NEW first, NEW second, Written(lost, d, b, g, c, l, h, first, second)
    PROVE  Follows(lost, d, b, g, c, h, first, second)
<1> DEFINE rest == second \o h
           kept == b \o g
<1>1. /\ lost \in Seq(Numbers) /\ d \in Seq(Numbers) /\ b \in Seq(Numbers)
      /\ g \in Seq(Numbers) /\ c \in Seq(Numbers) /\ l \in Seq(Numbers)
      /\ h \in Seq(Numbers) /\ first \in Seq(Numbers) /\ second \in Seq(Numbers)
      /\ first \o second = b \o l /\ l \o h = g \o c
  BY Zenon DEF Written
<1>2. rest \in Seq(Numbers) /\ kept \in Seq(Numbers)
  BY ONLY <1>1, ConcatProperties
<1>3. Assoc(first, second, h) /\ Assoc(b, l, h) /\ Assoc(b, g, c)
  BY ONLY <1>1, Associates
<1>4. first \o rest = kept \o c
  BY ONLY <1>1, <1>3 DEF Assoc
<1> HIDE DEF rest, kept
<1>5. Assoc(d, first, rest) /\ Assoc(d, kept, c)
  BY ONLY <1>1, <1>2, Associates
<1>6. d \o kept \in Seq(Numbers)
  BY ONLY <1>1, <1>2, ConcatProperties
<1>7. Assoc(lost, d \o kept, c)
  BY ONLY <1>1, <1>2, <1>6, Associates
<1>8. lost \o ((d \o first) \o rest) = (lost \o (d \o kept)) \o c
  BY ONLY <1>4, <1>5, <1>7, Zenon DEF Assoc
<1> QED BY ONLY <1>8 DEF Follows, rest, kept

LEMMA CallsGrow ==
    ASSUME Types, NEW pack \in Seq(Records), Len(records) + Len(pack) <= MaxRecords,
           NEW p
    PROVE  /\ CallsOf(p, records \o pack, 0)
                  = CallsOf(p, records, 0) \o CallsOf(p, pack, Len(records))
           /\ CallsOf(p, records, 0) \in Seq(Numbers)
<1>1. records \in Seq(Records) /\ Len(records) \in Nat /\ MaxRecords \in Nat
  BY SizesAreNumbers DEF Types
<1> DEFINE V == (0 + 1)..(0 + Len(records))
<1>2. V \subseteq Numbers
  BY <1>1 DEF Numbers, Types
<1>3. CallsOf(p, records, 0) \in Seq(V)
  BY <1>1, CallsType
<1> HIDE DEF V
<1> QED BY <1>1, <1>2, <1>3, SeqMonotonic, CallsConcat

LEMMA LinesAreLines ==
    ASSUME Types, File
    PROVE  /\ buffered \in Seq(Lines) /\ disk \in Seq(Lines)
           /\ \A p : CallsIn(p, buffered) \in Seq(Numbers) /\ CallsIn(p, disk) \in Seq(Numbers)
<1>1. NamedLines(records) \subseteq Lines
  BY DEF NamedLines
<1>2. buffered \in Seq(Lines) /\ disk \in Seq(Lines)
  BY <1>1, SeqMonotonic DEF File
<1> QED BY <1>2, CallsInType

(* Nothing is written, or nothing can be.                                  *)
LEMMA FlowWithoutWriting ==
    ASSUME IInv, NEW pack \in Seq(Records), Len(records) + Len(pack) <= MaxRecords,
           records' = records \o pack, UNCHANGED <<fileVars, running, headless>>,
           \/ bad
           \/ \A p : GroupOf(p, traces')
                      = GroupOf(p, traces) \o CallsOf(p, pack, Len(records))
    PROVE  Flow'
<1> SUFFICES ASSUME NEW p \in Pids
             PROVE  \E lost, rest \in Seq(Numbers) : KeptBy(p, lost, rest)'
  BY DEF Flow
<1>1. PICK lost \in Seq(Numbers), rest \in Seq(Numbers) : KeptBy(p, lost, rest)
  BY DEF IInv, Flow
<1> DEFINE d == CallsIn(p, disk)
           b == CallsIn(p, buffered)
           g == GroupOf(p, traces)
           c == CallsOf(p, pack, Len(records))
<1>2. /\ d \in Seq(Numbers) /\ b \in Seq(Numbers)
      /\ g \in Seq(Numbers) /\ c \in Seq(Numbers)
  BY LinesAreLines, GroupsGrow DEF IInv, Groups
<1>3. CallsOf(p, records, 0)' = CallsOf(p, records, 0) \o c
  BY CallsGrow DEF IInv
<1>4. rest \o c \in Seq(Numbers)
  <2> HIDE DEF c
  <2> QED BY <1>2, ConcatProperties
<1>5. lost \o (d \o (rest \o c)) = CallsOf(p, records, 0) \o c
  <2>1. lost \o (d \o rest) = CallsOf(p, records, 0)
    BY <1>1 DEF KeptBy
  <2>2. lost \in Seq(Numbers) /\ d \in Seq(Numbers) /\ rest \in Seq(Numbers) /\ c \in Seq(Numbers)
    BY <1>2
  <2> HIDE DEF c, d
  <2> DEFINE v == d \o rest
  <2>3. v \in Seq(Numbers)
    BY ONLY <2>2, ConcatProperties
  <2>4. Assoc(d, rest, c)
    BY ONLY <2>2, Associates
  <2> HIDE DEF v
  <2>5. Assoc(lost, v, c)
    BY ONLY <2>2, <2>3, Associates
  <2>6. (lost \o (d \o rest)) \o c = lost \o (d \o (rest \o c))
    BY ONLY <2>4, <2>5, Zenon DEF Assoc, v
  <2> QED BY <2>1, <2>6
<1>6. CallsIn(p, disk)' = d /\ CallsIn(p, buffered)' = b
  BY DEF fileVars
<1>7. running /\ ~bad => rest \o c = b \o GroupOf(p, traces')
  <2> SUFFICES ASSUME running, ~bad PROVE rest \o c = b \o GroupOf(p, traces')
    OBVIOUS
  <2>1. rest = b \o g
    BY <1>1 DEF KeptBy
  <2>2. GroupOf(p, traces') = g \o c
    OBVIOUS
  <2>3. b \in Seq(Numbers) /\ g \in Seq(Numbers) /\ c \in Seq(Numbers)
    BY <1>2
  <2> HIDE DEF b, c, g
  <2>4. Assoc(b, g, c)
    BY ONLY <2>3, Associates
  <2> QED BY ONLY <2>1, <2>2, <2>4 DEF Assoc
<1>8. ASSUME NEW more, more = rest \o c
      PROVE  KeptBy(p, lost, more)'
  <2>1. running' = running /\ bad' = bad /\ headless' = headless
    BY DEF fileVars
  <2>2. lost \o (CallsIn(p, disk)' \o more) = CallsOf(p, records, 0)'
    BY <1>3, <1>5, <1>6, <1>8
  <2>3. running' /\ ~bad' => more = CallsIn(p, buffered)' \o GroupOf(p, traces)'
    <3>1. GroupOf(p, traces)' = GroupOf(p, traces')
      BY DEF GroupOf
    <3> QED BY <1>6, <1>7, <1>8, <2>1, <3>1
  <2>4. running' /\ ~bad' /\ ~headless' => lost = <<>>
    BY <1>1, <2>1 DEF KeptBy
  <2> QED BY <2>2, <2>3, <2>4 DEF KeptBy
<1>9. \E more \in Seq(Numbers) : more = rest \o c
  BY <1>4
<1> QED BY <1>8, <1>9

(* The lines hold what leaves the groups and what of the pack goes to none. *)
Moves(lines, pack) ==
    \A p : /\ CallsIn(p, lines) \o GroupOf(p, traces')
                  = GroupOf(p, traces) \o CallsOf(p, pack, Len(records))
           /\ GroupOf(p, traces') \in Seq(Numbers)

(* Nothing on the disk is changed by what comes after it.                  *)
DiskGrows == \E first \in Seq(Lines) : disk' = disk \o first

(* Such lines are written.                                                 *)
LEMMA FlowWriting ==
    ASSUME IInv, NEW pack \in Seq(Records), Len(records) + Len(pack) <= MaxRecords,
           running, records' = records \o pack, UNCHANGED <<running, headless>>,
           NEW lines \in Seq(NamedLines(records \o pack)), Write(lines),
           Moves(lines, pack)
    PROVE  /\ Flow'
           /\ bad' \in BOOLEAN
           /\ buffered' \in Seq(NamedLines(records \o pack))
           /\ disk' \in Seq(NamedLines(records \o pack))
           /\ DiskGrows
<1> DEFINE L == NamedLines(records \o pack)
<1>1. records \in Seq(Records)
  BY DEF IInv, Types
<1>2. buffered \in Seq(L) /\ disk \in Seq(L)
  <2>1. NamedLines(records) \subseteq L
    BY <1>1, WellNamedStays
  <2> HIDE DEF L
  <2> QED BY <2>1, SeqMonotonic DEF IInv, File
<1>3. CASE bad
  <2>1. UNCHANGED fileVars
    BY <1>3 DEF Write
  <2>2. Flow'
    BY <1>3, <2>1, FlowWithoutWriting
  <2>3. bad' \in BOOLEAN
    BY <2>1 DEF IInv, Types, fileVars
  <2>4. DiskGrows
    <3>1. disk \in Seq(Lines) /\ disk' = disk
      BY <2>1, LinesAreLines DEF IInv, fileVars
    <3>2. disk \o <<>> = disk
      BY <3>1, ConcatEmptySeq
    <3> QED BY <3>1, <3>2, EmptySeq DEF DiskGrows
  <2> QED BY <1>2, <2>1, <2>2, <2>3, <2>4 DEF fileVars
<1>4. CASE ~bad
  <2>1. PICK first \in Seq(L), second \in Seq(L) :
               /\ first \o second = buffered \o lines
               /\ disk' = disk \o first
               /\ \/ buffered' = second /\ bad' = FALSE
                  \/ buffered' = <<>> /\ bad' = TRUE
    BY <1>2, <1>4, WriteSplits
  <2>2. disk' \in Seq(L) /\ buffered' \in Seq(L)
    <3> HIDE DEF L
    <3> QED BY <1>2, <2>1, ConcatProperties, EmptySeq
  <2>3. /\ first \in Seq(Lines) /\ second \in Seq(Lines) /\ lines \in Seq(Lines)
        /\ buffered \in Seq(Lines) /\ disk \in Seq(Lines)
    <3>1. L \subseteq Lines
      BY DEF NamedLines
    <3> HIDE DEF L
    <3> QED BY <1>2, <3>1, SeqMonotonic DEF L
  <2>4. ASSUME NEW p \in Pids
        PROVE  \E lost, rest \in Seq(Numbers) : KeptBy(p, lost, rest)'
    <3>1. PICK lost \in Seq(Numbers), rest \in Seq(Numbers) : KeptBy(p, lost, rest)
      BY DEF IInv, Flow
    <3> DEFINE d == CallsIn(p, disk)
               b == CallsIn(p, buffered)
               g == GroupOf(p, traces)
               h == GroupOf(p, traces')
               c == CallsOf(p, pack, Len(records))
               l == CallsIn(p, lines)
               f == CallsIn(p, first)
               s == CallsIn(p, second)
    <3>2. /\ d \in Seq(Numbers) /\ b \in Seq(Numbers) /\ l \in Seq(Numbers)
          /\ f \in Seq(Numbers) /\ s \in Seq(Numbers)
      BY <2>3, CallsInType
    <3>3. g \in Seq(Numbers) /\ c \in Seq(Numbers) /\ h \in Seq(Numbers)
      BY GroupsGrow DEF IInv, Groups, Moves
    <3>4. CallsOf(p, records, 0)' = CallsOf(p, records, 0) \o c
      BY CallsGrow DEF IInv
    <3>5. f \o s = b \o l /\ CallsIn(p, disk)' = d \o f
      <4>1. f \o s = CallsIn(p, first \o second)
        BY <2>3, CallsInConcat
      <4>2. b \o l = CallsIn(p, buffered \o lines)
        BY <2>3, CallsInConcat
      <4>3. CallsIn(p, disk \o first) = d \o f
        BY <2>3, CallsInConcat
      <4>4. CallsIn(p, disk)' = CallsIn(p, disk \o first)
        BY <2>1 DEF CallsIn
      <4> QED BY <2>1, <4>1, <4>2, <4>3, <4>4
    <3>6. l \o h = g \o c
      BY DEF Moves
    <3>7. lost \o (d \o rest) = CallsOf(p, records, 0)
      BY <3>1 DEF KeptBy
    <3>8. rest = b \o g
      BY <1>4, <3>1 DEF KeptBy
    <3>9. lost \o ((d \o f) \o (s \o h)) = (lost \o (d \o (b \o g))) \o c
      <4>1. Written(lost, d, b, g, c, l, h, f, s)
        BY <3>2, <3>3, <3>5, <3>6 DEF Written
      <4> HIDE DEF d, b, g, h, c, l, f, s
      <4>2. Follows(lost, d, b, g, c, h, f, s)
        BY ONLY <4>1, RegroupWritten
      <4> QED BY ONLY <4>2 DEF Follows
    <3>10. s \o h \in Seq(Numbers)
      <4> HIDE DEF s, h
      <4> QED BY <3>2, <3>3, ConcatProperties
    <3>11. lost \o (CallsIn(p, disk)' \o (s \o h)) = CallsOf(p, records, 0)'
      <4> HIDE DEF d, b, g, h, c, l, f, s
      <4> QED BY <3>4, <3>5, <3>7, <3>8, <3>9
    <3>12. running' /\ ~bad' => s \o h = CallsIn(p, buffered)' \o GroupOf(p, traces)'
      <4>1. GroupOf(p, traces)' = h
        BY DEF GroupOf
      <4>2. ~bad' => CallsIn(p, buffered)' = s
        BY <2>1
      <4> HIDE DEF s, h
      <4> QED BY <4>1, <4>2
    <3>13. running' /\ ~bad' /\ ~headless' => lost = <<>>
      BY <1>4, <3>1 DEF KeptBy
    <3>14. ASSUME NEW more, more = s \o h
           PROVE  KeptBy(p, lost, more)'
      <4>1. lost \o (CallsIn(p, disk)' \o more) = CallsOf(p, records, 0)'
        BY <3>11, <3>14
      <4>2. running' /\ ~bad' => more = CallsIn(p, buffered)' \o GroupOf(p, traces)'
        BY <3>12, <3>14
      <4> QED BY <3>13, <4>1, <4>2 DEF KeptBy
    <3>15. \E more \in Seq(Numbers) : more = s \o h
      BY <3>10
    <3> QED BY <3>14, <3>15
  <2>5. Flow'
    BY <2>4 DEF Flow
  <2>6. DiskGrows
    BY <2>1, <2>3 DEF DiskGrows
  <2> QED BY <2>1, <2>2, <2>5, <2>6
<1> QED BY <1>3, <1>4 DEF IInv, Types

-----------------------------------------------------------------------------
(* The invariant is kept *)

(* A file just opened, and no record yet.                                  *)
Fresh ==
    /\ stream \in {"file_stream", "file_aggr_stream"}
    /\ running \in BOOLEAN /\ headless \in BOOLEAN /\ bad \in BOOLEAN
    /\ starts \in 0..MaxStarts
    /\ records = <<>> /\ traces = NoGroups /\ pnames = NoGroups
    /\ buffered = <<>> /\ disk = <<>>

LEMMA NoGroupsAreGroups ==
    /\ DOMAIN NoGroups = {} /\ Cardinality(DOMAIN NoGroups) = 0 /\ 0 < Size
    /\ \A recs : GroupsOf(NoGroups, NoGroups, recs)
    /\ \A p : GroupOf(p, NoGroups) = <<>>
<1>1. DOMAIN NoGroups = {}
  BY DEF NoGroups
<1>2. Cardinality({}) = 0 /\ IsFiniteSet({})
  BY FS_EmptySet
<1>3. \A recs : GroupsOf(NoGroups, NoGroups, recs)
  BY <1>1, <1>2 DEF GroupsOf
<1>4. \A p : GroupOf(p, NoGroups) = <<>>
  BY <1>1 DEF GroupOf
<1> QED BY <1>1, <1>2, <1>3, <1>4, SizesAreNumbers

LEMMA NoRecords ==
    /\ PidsOf(<<>>) = {} /\ Len(<<>>) = 0
    /\ \A p : CallsOf(p, <<>>, 0) = <<>>
<1>1. <<>> \in Seq(Records) /\ Len(<<>>) = 0
  BY EmptySeq
<1>2. PidsOf(<<>>) = {}
  BY <1>1 DEF PidsOf
<1> QED BY <1>1, <1>2, NoCalls

LEMMA FreshIInv == Fresh => IInv
<1> SUFFICES ASSUME Fresh PROVE IInv
  OBVIOUS
<1> USE DEF Fresh
<1>1. Types
  BY NoRecords, SizesAreNumbers, EmptySeq DEF Types
<1>2. Groups
  BY NoGroupsAreGroups DEF Groups
<1>3. File
  BY EmptySeq DEF File
<1>4. Flow
  <2> SUFFICES ASSUME NEW p \in Pids PROVE KeptBy(p, <<>>, <<>>)
    BY EmptySeq DEF Flow
  <2>1. CallsIn(p, <<>>) = <<>> /\ CallsOf(p, <<>>, 0) = <<>> /\ GroupOf(p, NoGroups) = <<>>
    BY CallsInNothing, NoRecords, NoGroupsAreGroups
  <2>2. <<>> \o <<>> = <<>>
    OBVIOUS
  <2> QED BY <2>1, <2>2 DEF KeptBy
<1> QED BY <1>1, <1>2, <1>3, <1>4 DEF IInv

LEMMA InitIInv == Init => IInv
<1>1. ASSUME Init PROVE Fresh
  <2>1. 0 \in 0..MaxStarts /\ TRUE \in BOOLEAN /\ FALSE \in BOOLEAN
    BY SizesAreNumbers
  <2> QED BY <1>1, <2>1, Zenon DEF Init, Fresh
<1> QED BY <1>1, FreshIInv

LEMMA StartAgainIInv == IInv /\ StartAgain => IInv'
<1>1. ASSUME IInv, StartAgain PROVE Fresh'
  <2>1. starts' \in 0..MaxStarts
    BY <1>1, SizesAreNumbers DEF IInv, Types, StartAgain
  <2>2. TRUE \in BOOLEAN /\ FALSE \in BOOLEAN
    OBVIOUS
  <2>3. stream' \in {"file_stream", "file_aggr_stream"}
    BY <1>1 DEF IInv, Types, StartAgain
  <2>4. /\ running' \in BOOLEAN /\ headless' \in BOOLEAN /\ bad' \in BOOLEAN
        /\ records' = <<>> /\ traces' = NoGroups /\ pnames' = NoGroups
        /\ buffered' = <<>> /\ disk' = <<>>
    BY <1>1, <2>2, Zenon DEF StartAgain, Opened
  <2>5. NoGroups' = NoGroups
    BY DEF NoGroups
  <2> QED BY <2>1, <2>3, <2>4, <2>5, Zenon DEF Fresh
<1> QED BY <1>1, FreshIInv, PTL

(* What all dispatches do to the records.                                  *)
LEMMA DispatchTypes ==
    ASSUME IInv, NEW pack \in Packs, Dispatch(pack), bad' \in BOOLEAN
    PROVE  Types'
<1>1. pack \in Seq(Records) /\ Len(pack) \in Nat
  BY PackIsSeq
<1>2. records' \in Seq(Records) /\ Len(records') = Len(records) + Len(pack)
  BY <1>1, RecordsGrow DEF IInv, Types, Dispatch
<1> QED BY <1>2 DEF IInv, Types, Dispatch

(* file_stream.h:15-24.                                                    *)
LEMMA DispatchFileIInv ==
    ASSUME IInv, NEW pack \in Packs, Dispatch(pack), DispatchFile(pack)
    PROVE  IInv' /\ DiskGrows
<1> DEFINE recs == records \o pack
           lines == RecordLines(pack)
<1>1. /\ pack \in Seq(Records) /\ Len(pack) \in Nat /\ records \in Seq(Records)
      /\ running /\ Len(records) + Len(pack) <= MaxRecords
      /\ records' = recs /\ UNCHANGED <<stream, running, headless>>
      /\ stream = "file_stream" /\ Write(lines) /\ UNCHANGED <<traces, pnames>>
  BY PackIsSeq DEF IInv, Types, Dispatch, DispatchFile, groupVars
<1>2. /\ lines \in Seq(Lines)
      /\ \A p : CallsIn(p, lines) = CallsOf(p, pack, Len(records))
  BY <1>1, CallsOfRecordLines
<1>3. lines \in Seq(NamedLines(recs))
  <2>1. ASSUME NEW i \in 1..Len(pack) PROVE lines[i] \in NamedLines(recs)
    <3>1. /\ lines[i].name = pack[i].name /\ lines[i].calls = <<Len(records) + i>>
          /\ Len(lines) = Len(pack)
      BY <1>1 DEF RecordLines
    <3>2. lines[i] \in Lines
      BY <1>2, <3>1, ElementOfSeq
    <3>3. Len(records) + i \in 1..Len(recs) /\ recs[Len(records) + i] = pack[i]
      BY <1>1, RecordsGrow
    <3> HIDE DEF lines, recs
    <3>4. /\ <<Len(records) + i>> # <<>>
          /\ Head(<<Len(records) + i>>) = Len(records) + i
      OBVIOUS
    <3>5. WellNamed(lines[i].calls, lines[i].name, recs)
      BY <3>1, <3>3, <3>4 DEF WellNamed
    <3> QED BY <3>2, <3>5 DEF NamedLines
  <2>2. Len(lines) = Len(pack) /\ lines = [i \in 1..Len(pack) |-> lines[i]]
    BY <1>1 DEF RecordLines
  <2> HIDE DEF lines, recs
  <2> QED BY <1>1, <2>1, <2>2
<1>4. \A p : GroupOf(p, traces) = <<>> /\ GroupOf(p, traces') = <<>>
  BY <1>1 DEF IInv, Groups, GroupOf
<1>5. Moves(lines, pack)
  <2> SUFFICES ASSUME NEW p
               PROVE  /\ CallsIn(p, lines) \o GroupOf(p, traces')
                             = GroupOf(p, traces) \o CallsOf(p, pack, Len(records))
                      /\ GroupOf(p, traces') \in Seq(Numbers)
    BY DEF Moves
  <2> DEFINE c == CallsOf(p, pack, Len(records))
  <2>1. c \in Seq(Numbers) /\ CallsIn(p, lines) = c
    BY <1>1, <1>2, GroupsGrow DEF IInv, Groups
  <2> HIDE DEF c
  <2>2. c \o <<>> = <<>> \o c
    BY <2>1, ConcatEmptySeq
  <2> QED BY <1>4, <2>1, <2>2, EmptySeq DEF c
<1>6. /\ Flow' /\ bad' \in BOOLEAN /\ DiskGrows
      /\ buffered' \in Seq(NamedLines(recs)) /\ disk' \in Seq(NamedLines(recs))
  BY <1>1, <1>3, <1>5, FlowWriting
<1>7. Types'
  BY <1>6, DispatchTypes
<1>8. Groups'
  <2>1. PidsOf(records) \subseteq PidsOf(recs)
    BY <1>1, RecordsGrow
  <2>2. DOMAIN traces = {}
    BY <1>1 DEF IInv, Groups
  <2>3. GroupsOf(traces', pnames', recs)
    BY <1>1, <2>1, <2>2 DEF IInv, Groups, GroupsOf
  <2> QED BY <1>1, <2>3 DEF IInv, Groups, GroupsOf
<1>9. File'
  BY <1>1, <1>6 DEF File
<1> QED BY <1>6, <1>7, <1>8, <1>9 DEF IInv

(* file_aggr_stream.h:20-57.                                               *)
LEMMA DispatchAggrIInv ==
    ASSUME IInv, NEW pack \in Packs, Dispatch(pack), DispatchAggr(pack)
    PROVE  IInv' /\ DiskGrows
<1> DEFINE recs == records \o pack
           groups == Grouped(pack)
           names == Named(pack)
<1>1. /\ pack \in Seq(Records) /\ Len(pack) \in Nat /\ records \in Seq(Records)
      /\ running /\ Len(records) + Len(pack) <= MaxRecords
      /\ records' = recs /\ UNCHANGED <<stream, running, headless>>
      /\ stream = "file_aggr_stream"
  BY PackIsSeq DEF IInv, Types, Dispatch, DispatchAggr
<1>2. /\ GroupsOf(groups, names, recs)
      /\ \A p : GroupOf(p, groups)
                  = GroupOf(p, traces) \o CallsOf(p, pack, Len(records))
      /\ \A p : GroupOf(p, traces) \in Seq(Numbers)
      /\ \A p : CallsOf(p, pack, Len(records)) \in Seq(Numbers)
  BY <1>1, GroupsGrow DEF IInv, Groups
<1>3. recs \in Seq(Records)
  BY <1>1, RecordsGrow
<1>4. IsFiniteSet(DOMAIN groups) /\ Cardinality(DOMAIN groups) \in Nat
  <2> HIDE DEF groups
  <2> QED BY <1>2, FS_CardinalityType DEF GroupsOf
<1>5. CASE Full(groups)
  <2>1. PICK order \in SetToSeqs(DOMAIN groups) : Write(GroupLines(order, groups, names))
    BY <1>1, <1>5 DEF Dispatch, DispatchAggr, DispatchFile, PrintAll
  <2>2. traces' = NoGroups /\ pnames' = NoGroups
    BY <1>1, <1>5 DEF Dispatch, DispatchAggr, DispatchFile, PrintAll
  <2> DEFINE lines == GroupLines(order, groups, names)
  <2>3. \A q \in DOMAIN groups :
            [pid |-> q, name |-> names[q], calls |-> groups[q]] \in NamedLines(recs)
    <3> SUFFICES ASSUME NEW q \in DOMAIN groups
                 PROVE  [pid |-> q, name |-> names[q], calls |-> groups[q]] \in NamedLines(recs)
      OBVIOUS
    <3> HIDE DEF groups, names, recs
    <3>1. q \in Pids
      BY <1>2, <1>3, PidsAreFinite DEF GroupsOf
    <3>2. groups[q] \in Seq(Numbers) /\ WellNamed(groups[q], names[q], recs)
      BY <1>2 DEF GroupsOf
    <3>3. names[q] \in Names
      <4>1. Head(groups[q]) \in 1..Len(recs) /\ names[q] = recs[Head(groups[q])].name
        BY <3>2 DEF WellNamed
      <4>2. recs[Head(groups[q])] \in Records
        BY <1>3, <4>1, ElementOfSeq
      <4> QED BY <4>1, <4>2 DEF Records
    <3> QED BY <3>1, <3>2, <3>3 DEF NamedLines, Lines, Numbers
  <2>4. NamedLines(recs) \in SUBSET Lines
    BY DEF NamedLines
  <2>5. /\ lines \in Seq(NamedLines(recs))
        /\ \A p : CallsIn(p, lines) = GroupOf(p, groups)
    <3> HIDE DEF groups, names, recs
    <3> QED BY <1>4, <2>3, <2>4, CallsOfGroupLines DEF GroupOf
  <2>6. Moves(lines, pack)
    <3> SUFFICES ASSUME NEW p
                 PROVE  /\ CallsIn(p, lines) \o GroupOf(p, traces')
                               = GroupOf(p, traces) \o CallsOf(p, pack, Len(records))
                        /\ GroupOf(p, traces') \in Seq(Numbers)
      BY DEF Moves
    <3>1. GroupOf(p, traces') = <<>>
      BY <2>2, NoGroupsAreGroups
    <3> DEFINE all == GroupOf(p, groups)
    <3>2. all \in Seq(Numbers)
      <4> HIDE DEF groups
      <4> QED BY <1>2, EmptySeq DEF GroupOf, GroupsOf
    <3> HIDE DEF all, lines
    <3>3. all \o <<>> = all
      BY <3>2, ConcatEmptySeq
    <3> QED BY <1>2, <2>5, <3>1, <3>3, EmptySeq DEF all
  <2>7. /\ Flow' /\ bad' \in BOOLEAN /\ DiskGrows
        /\ buffered' \in Seq(NamedLines(recs)) /\ disk' \in Seq(NamedLines(recs))
    <3> HIDE DEF groups, names, lines
    <3> QED BY <1>1, <2>1, <2>5, <2>6, FlowWriting DEF lines
  <2>8. Types'
    BY <2>7, DispatchTypes
  <2>9. Groups'
    BY <1>1, <2>2, NoGroupsAreGroups DEF Groups
  <2>10. ~ (Cardinality(PidsOf(recs)) < Size)
    <3> HIDE DEF groups, recs
    <3>1. Cardinality(DOMAIN groups) >= Size
      BY <1>5 DEF Full
    <3>2. DOMAIN groups \in SUBSET PidsOf(recs)
      BY <1>2 DEF GroupsOf
    <3>3. /\ Cardinality(DOMAIN groups) <= Cardinality(PidsOf(recs))
          /\ Cardinality(PidsOf(recs)) \in Nat
      BY <1>3, <3>2, PidsAreFinite, FS_Subset
    <3> QED BY <1>4, <3>1, <3>3, SizesAreNumbers
  <2>11. File'
    BY <1>1, <2>7, <2>10 DEF File
  <2> QED BY <2>7, <2>8, <2>9, <2>11 DEF IInv
<1>6. CASE ~Full(groups)
  <2>1. traces' = groups /\ pnames' = names /\ UNCHANGED <<buffered, disk, bad>>
    BY <1>1, <1>6 DEF Dispatch, DispatchAggr, DispatchFile, fileVars
  <2>2. Flow'
    <3>1. \A p : GroupOf(p, traces')
                 = GroupOf(p, traces) \o CallsOf(p, pack, Len(records))
      BY <1>2, <2>1
    <3> QED BY <1>1, <2>1, <3>1, FlowWithoutWriting DEF fileVars
  <2>3. Types'
    <3>1. bad' \in BOOLEAN
      BY <2>1 DEF IInv, Types
    <3> QED BY <3>1, DispatchTypes
  <2>4. Groups'
    <3>1. Cardinality(DOMAIN groups) < Size
      <4> HIDE DEF groups
      <4> QED BY <1>4, <1>6, SizesAreNumbers DEF Full
    <3> HIDE DEF groups, names, recs
    <3> QED BY <1>1, <1>2, <2>1, <3>1 DEF Groups
  <2>5. File'
    <3>1. NamedLines(records) \subseteq NamedLines(recs)
      BY <1>1, WellNamedStays
    <3>2. buffered' \in Seq(NamedLines(recs)) /\ disk' \in Seq(NamedLines(recs))
      <4> HIDE DEF recs
      <4> QED BY <2>1, <3>1, SeqMonotonic DEF IInv, File
    <3>3. /\ Cardinality(PidsOf(records)) <= Cardinality(PidsOf(recs))
          /\ Cardinality(PidsOf(records)) \in Nat /\ Cardinality(PidsOf(recs)) \in Nat
      BY <1>1, <1>3, RecordsGrow, PidsAreFinite
    <3>4. Cardinality(PidsOf(recs)) < Size => Cardinality(PidsOf(records)) < Size
      BY <3>3, SizesAreNumbers
    <3> QED BY <1>1, <2>1, <3>2, <3>4 DEF IInv, File
  <2>6. DiskGrows
    <3>1. disk \in Seq(Lines)
      BY LinesAreLines DEF IInv
    <3>2. disk \o <<>> = disk
      BY <3>1, ConcatEmptySeq
    <3> QED BY <2>1, <3>2, EmptySeq DEF DiskGrows
  <2> QED BY <2>2, <2>3, <2>4, <2>5, <2>6 DEF IInv
<1> QED BY <1>5, <1>6

(* base_sensor.h:47: what was still to come never comes.                   *)
LEMMA EndsIInv == IInv /\ Ends => IInv'
<1> SUFFICES ASSUME IInv, Ends PROVE IInv'
  OBVIOUS
<1>1. Types'
  BY DEF IInv, Types, Ends
<1>2. Groups'
  BY NoGroupsAreGroups DEF Ends, Groups
<1>3. File'
  BY EmptySeq DEF IInv, File, Ends
<1>4. Flow'
  <2> SUFFICES ASSUME NEW p \in Pids
               PROVE  \E lost, rest \in Seq(Numbers) : KeptBy(p, lost, rest)'
    BY DEF Flow
  <2>1. PICK lost \in Seq(Numbers), rest \in Seq(Numbers) : KeptBy(p, lost, rest)
    BY DEF IInv, Flow
  <2>2. KeptBy(p, lost, rest)'
    BY <2>1 DEF KeptBy, Ends
  <2> QED BY <2>2
<1> QED BY <1>1, <1>2, <1>3, <1>4 DEF IInv

(* main.cpp:107-110: what is on the disk is cut off.                       *)
LEMMA StartRefusedIInv == IInv /\ StartRefused => IInv'
<1> SUFFICES ASSUME IInv, StartRefused PROVE IInv'
  OBVIOUS
<1>1. Types'
  <2>1. starts' \in 0..MaxStarts
    BY SizesAreNumbers DEF IInv, Types, StartRefused
  <2>2. headless' \in BOOLEAN
    BY DEF StartRefused
  <2> QED BY <2>1, <2>2, Zenon DEF IInv, Types, StartRefused
<1>2. Groups'
  BY DEF IInv, Groups, StartRefused, groupVars
<1>3. File'
  BY EmptySeq DEF IInv, File, StartRefused
<1>4. Flow'
  <2> SUFFICES ASSUME NEW p \in Pids
               PROVE  \E lost, rest \in Seq(Numbers) : KeptBy(p, lost, rest)'
    BY DEF Flow
  <2>1. PICK lost \in Seq(Numbers), rest \in Seq(Numbers) : KeptBy(p, lost, rest)
    BY DEF IInv, Flow
  <2> DEFINE d == CallsIn(p, disk)
  <2>2. d \in Seq(Numbers)
    BY LinesAreLines DEF IInv
  <2>3. lost \o d \in Seq(Numbers)
    <3> HIDE DEF d
    <3> QED BY <2>2, ConcatProperties
  <2>4. ASSUME NEW cut, cut = lost \o d
        PROVE  KeptBy(p, cut, rest)'
    <3>1. UNCHANGED <<running, records, traces, buffered, bad>> /\ disk' = <<>>
      BY DEF StartRefused, groupVars
    <3>2. CallsIn(p, disk)' = <<>>
      BY <3>1, CallsInNothing
    <3>3. cut \o (<<>> \o rest) = CallsOf(p, records, 0)
      <4>1. lost \o (d \o rest) = CallsOf(p, records, 0)
        BY <2>1 DEF KeptBy
      <4> HIDE DEF d
      <4>2. (lost \o d) \o rest = lost \o (d \o rest)
        <5>1. lost \in Seq(Numbers) /\ d \in Seq(Numbers) /\ rest \in Seq(Numbers)
          BY <2>2
        <5>2. Assoc(lost, d, rest)
          BY ONLY <5>1, Associates
        <5> QED BY ONLY <5>2 DEF Assoc
      <4>3. <<>> \o rest = rest
        BY ConcatEmptySeq
      <4> QED BY <2>4, <4>1, <4>2, <4>3
    <3>4. running' /\ ~bad' => rest = CallsIn(p, buffered)' \o GroupOf(p, traces)'
      BY <2>1, <3>1 DEF KeptBy
    <3>5. running' /\ ~bad' /\ ~headless' => cut = <<>>
      <4> SUFFICES ASSUME running', ~bad', ~headless' PROVE cut = <<>>
        OBVIOUS
      <4>1. ~headless /\ disk = <<>>
        BY DEF StartRefused
      <4>2. lost = <<>>
        BY <2>1, <3>1, <4>1 DEF KeptBy
      <4>3. d = <<>>
        BY <4>1, CallsInNothing
      <4>4. <<>> \o <<>> = <<>>
        OBVIOUS
      <4> HIDE DEF d
      <4> QED BY <2>4, <4>2, <4>3, <4>4
    <3> QED BY <3>1, <3>2, <3>3, <3>4, <3>5 DEF KeptBy
  <2>5. \E cut \in Seq(Numbers) : cut = lost \o d
    BY <2>3
  <2> QED BY <2>4, <2>5
<1> QED BY <1>1, <1>2, <1>3, <1>4 DEF IInv

LEMMA StepIInv == IInv /\ [Next]_vars => IInv'
<1> SUFFICES ASSUME IInv, [Next]_vars PROVE IInv'
  OBVIOUS
<1>1. ASSUME NEW pack \in Packs, Dispatch(pack) PROVE IInv'
  BY <1>1, DispatchAggrIInv, DispatchFileIInv DEF Dispatch
<1>2. CASE UNCHANGED vars
  <2>1. UNCHANGED <<stream, running, records, traces, pnames, buffered, disk, headless, bad, starts>>
    BY <1>2 DEF vars, groupVars, fileVars
  <2>2. Types' /\ Groups' /\ File'
    BY <2>1 DEF IInv, Types, Groups, File
  <2>3. Flow'
    BY <2>1 DEF IInv, Flow, KeptBy
  <2> QED BY <2>2, <2>3 DEF IInv
<1> QED BY <1>1, <1>2, EndsIInv, StartAgainIInv, StartRefusedIInv DEF Next

LEMMA Invariance == Spec => []IInv
BY InitIInv, StepIInv, PTL DEF Spec
-----------------------------------------------------------------------------
(* Theorems *)

LEMMA GroupTypes ==
    ASSUME IInv, NEW p \in DOMAIN traces
    PROVE  p \in Pids /\ traces[p] \in Seq(Numbers) /\ pnames[p] \in Names
<1>1. /\ records \in Seq(Records) /\ DOMAIN traces \subseteq PidsOf(records)
      /\ traces[p] \in Seq(Numbers) /\ WellNamed(traces[p], pnames[p], records)
  BY DEF IInv, Types, Groups, GroupsOf
<1>2. records[Head(traces[p])] \in Records
  BY <1>1, ElementOfSeq DEF WellNamed
<1> QED BY <1>1, <1>2, PidsAreFinite DEF WellNamed, Records

(* file_aggr_stream.h:49-50: each group print_all writes has a name.       *)
THEOREM TypeCorrect == Spec => []TypeOK
<1>1. ASSUME IInv PROVE TypeOK
  <2>1. /\ stream \in {"file_stream", "file_aggr_stream"}
        /\ running \in BOOLEAN /\ headless \in BOOLEAN /\ bad \in BOOLEAN
        /\ starts \in 0..MaxStarts
    BY <1>1 DEF IInv, Types
  <2>2. records \in Seq([pid : Pids, name : Names])
    BY <1>1 DEF IInv, Types, Records
  <2>3. \A p \in DOMAIN traces : /\ p \in Pids /\ traces[p] \in Seq(1..MaxRecords)
                                 /\ pnames[p] \in Names
    BY <1>1, GroupTypes DEF Numbers
  <2>4. DOMAIN pnames = DOMAIN traces
    BY <1>1 DEF IInv, Groups, GroupsOf
  <2>5. buffered \in Seq(Lines) /\ disk \in Seq(Lines)
    BY <1>1, LinesAreLines DEF IInv
  <2> QED BY <2>1, <2>2, <2>3, <2>4, <2>5, Zenon DEF TypeOK
<1> QED BY <1>1, Invariance, PTL

(* file_aggr_stream.h:37-39, 55-56: a name is kept for a group and thrown  *)
(* away with it, so that no line bears the name of another.                *)
THEOREM LinesAreNamed == Spec => []NamedByItsFirstCall
<1>1. ASSUME IInv PROVE NamedByItsFirstCall
  <2> SUFFICES ASSUME NEW queue \in {buffered, disk}, NEW i \in 1..Len(queue)
               PROVE  /\ queue[i].calls # <<>>
                      /\ queue[i].name = records[Head(queue[i].calls)].name
    BY DEF NamedByItsFirstCall
  <2>1. queue \in Seq(NamedLines(records))
    BY <1>1 DEF IInv, File
  <2>2. queue[i] \in NamedLines(records)
    BY <2>1, ElementOfSeq
  <2> QED BY <2>2 DEF NamedLines, WellNamed
<1> QED BY <1>1, Invariance, PTL

(* file_aggr_stream.h:41-42: fewer than _size processes are held back, and *)
(* as long as no more than these have made calls nothing is written.       *)
THEOREM HeldBackBounded == Spec => []HeldBack
<1>1. ASSUME IInv PROVE HeldBack
  <2>1. <<>> \o <<>> = <<>>
    OBVIOUS
  <2> QED BY <1>1, <2>1, Zenon DEF IInv, Groups, File, HeldBack
<1> QED BY <1>1, Invariance, PTL

(* file_aggr_stream.h:20-57, file_stream.h:15-24: each call is on the      *)
(* disk, with zlib or in its group, once and in order.                     *)
THEOREM NothingLost == Spec => []EveryCallIsSomewhere
<1>1. ASSUME IInv PROVE EveryCallIsSomewhere
  <2> SUFFICES ASSUME running, ~bad, ~headless, NEW p \in Pids
               PROVE  CallsIn(p, disk) \o CallsIn(p, buffered) \o GroupOf(p, traces)
                      = CallsOf(p, records, 0)
    BY Zenon DEF EveryCallIsSomewhere, GroupOf
  <2> DEFINE d == CallsIn(p, disk)
             b == CallsIn(p, buffered)
             g == GroupOf(p, traces)
  <2>1. PICK lost \in Seq(Numbers), rest \in Seq(Numbers) : KeptBy(p, lost, rest)
    BY <1>1 DEF IInv, Flow
  <2>2. lost = <<>> /\ rest = b \o g /\ lost \o (d \o rest) = CallsOf(p, records, 0)
    BY <2>1 DEF KeptBy
  <2>3. d \in Seq(Numbers) /\ b \in Seq(Numbers)
    BY <1>1, LinesAreLines DEF IInv
  <2>4. g \in Seq(Numbers)
    BY <1>1, GroupTypes, EmptySeq DEF GroupOf
  <2> HIDE DEF d, b, g
  <2>5. (d \o b) \o g = d \o (b \o g)
    <3>1. Assoc(d, b, g)
      BY ONLY <2>3, <2>4, Associates
    <3> QED BY ONLY <3>1 DEF Assoc
  <2>6. d \o rest \in Seq(Numbers)
    BY <2>1, <2>3, ConcatProperties
  <2>7. <<>> \o (d \o rest) = d \o rest
    BY <2>6, ConcatEmptySeq
  <2> QED BY <2>2, <2>5, <2>7 DEF d, b, g
<1> QED BY <1>1, Invariance, PTL

-----------------------------------------------------------------------------
(* The file is an Archive *)

LEMMA PrefixOfConcat ==
    ASSUME NEW V, NEW s \in Seq(V), NEW t \in Seq(V)
    PROVE  IsPrefix(s, s \o t) /\ IsPrefix(s, s)
<1>1. /\ s \o t \in Seq(V) /\ Len(s \o t) = Len(s) + Len(t)
      /\ Len(s) \in Nat /\ Len(t) \in Nat
      /\ \A i \in 1..Len(s) : (s \o t)[i] = s[i]
  BY ConcatProperties
<1>2. ASSUME NEW u \in Seq(V), Len(s) <= Len(u), \A i \in 1..Len(s) : u[i] = s[i]
      PROVE  IsPrefix(s, u)
  <2>1. SubSeq(s, 1, Len(s)) = s
    BY SubSeqFull
  <2>2. SubSeq(u, 1, Len(s)) = s
    BY <1>1, <1>2
  <2> QED BY <1>2, <2>1, <2>2 DEF IsPrefix
<1>3. IsPrefix(s, s \o t)
  <2> DEFINE u == s \o t
  <2>1. u \in Seq(V) /\ Len(s) <= Len(u) /\ \A i \in 1..Len(s) : u[i] = s[i]
    BY <1>1
  <2> HIDE DEF u
  <2>2. IsPrefix(s, u)
    BY <1>2, <2>1
  <2> QED BY <2>2 DEF u
<1>4. IsPrefix(s, s)
  BY <1>1, <1>2
<1> QED BY <1>3, <1>4

(* What is between two parts of the calls is a run of them.                *)
LEMMA MiddleIsUnbroken ==
    ASSUME NEW V, NEW lost \in Seq(V), NEW d \in Seq(V), NEW rest \in Seq(V),
           NEW calls, lost \o (d \o rest) = calls
    PROVE  Log!Unbroken(d, calls) /\ Log!Unbroken(<<>>, calls)
<1>1. /\ d \o rest \in Seq(V) /\ Len(d \o rest) = Len(d) + Len(rest)
      /\ Len(d) \in Nat /\ Len(rest) \in Nat /\ Len(lost) \in Nat
      /\ \A i \in 1..Len(d) : (d \o rest)[i] = d[i]
  BY ConcatProperties
<1>2. /\ calls \in Seq(V) /\ Len(calls) = Len(lost) + (Len(d) + Len(rest))
      /\ \A i \in 1..Len(d) : calls[Len(lost) + i] = d[i]
  <2> DEFINE end == d \o rest
  <2>1. end \in Seq(V) /\ Len(end) = Len(d) + Len(rest) /\ calls = lost \o end
    BY <1>1
  <2>2. \A i \in 1..Len(d) : end[i] = d[i]
    BY <1>1
  <2> HIDE DEF end
  <2>3. /\ lost \o end \in Seq(V) /\ Len(lost \o end) = Len(lost) + Len(end)
        /\ \A i \in 1..(Len(lost) + Len(end)) :
               (lost \o end)[i] = IF i <= Len(lost) THEN lost[i] ELSE end[i - Len(lost)]
    BY <2>1, ConcatProperties
  <2>4. ASSUME NEW i \in 1..Len(d) PROVE calls[Len(lost) + i] = d[i]
    <3>1. /\ Len(lost) + i \in 1..(Len(lost) + Len(end))
          /\ ~ (Len(lost) + i <= Len(lost)) /\ (Len(lost) + i) - Len(lost) = i
      BY <1>1, <2>1
    <3>2. calls[Len(lost) + i] = end[i]
      BY <2>1, <2>3, <3>1
    <3> QED BY <2>2, <3>2
  <2> QED BY <2>1, <2>3, <2>4
<1>3. Log!Unbroken(d, calls)
  <2> DEFINE a == Len(lost) + 1
             z == Len(lost) + Len(d)
  <2>1. a \in 1..(Len(calls) + 1) /\ z \in 0..Len(calls)
    BY <1>1, <1>2
  <2>2. d = SubSeq(calls, a, z)
    BY <1>1, <1>2
  <2> QED BY <2>1, <2>2 DEF Log!Unbroken
<1>4. Log!Unbroken(<<>>, calls)
  <2>1. 1 \in 1..(Len(calls) + 1) /\ 0 \in 0..Len(calls)
    BY <1>1, <1>2
  <2>2. <<>> = SubSeq(calls, 1, 0)
    BY <1>2
  <2> QED BY <2>1, <2>2 DEF Log!Unbroken
<1> QED BY <1>3, <1>4

AllUnbroken == \A p \in Pids : Log!Unbroken(Readable(p), CallsOf(p, records, 0))

LEMMA ReadableIsUnbroken == IInv => AllUnbroken
<1> SUFFICES ASSUME IInv, NEW p \in Pids
             PROVE  Log!Unbroken(Readable(p), CallsOf(p, records, 0))
  BY DEF AllUnbroken
<1>1. PICK lost \in Seq(Numbers), rest \in Seq(Numbers) : KeptBy(p, lost, rest)
  BY DEF IInv, Flow
<1> DEFINE d == CallsIn(p, disk)
<1>2. d \in Seq(Numbers)
  BY LinesAreLines DEF IInv
<1>3. lost \o (d \o rest) = CallsOf(p, records, 0)
  BY <1>1 DEF KeptBy
<1>4. Log!Unbroken(d, CallsOf(p, records, 0)) /\ Log!Unbroken(<<>>, CallsOf(p, records, 0))
  <2> HIDE DEF d
  <2> QED BY <1>2, <1>3, MiddleIsUnbroken
<1>5. Readable(p) = d \/ Readable(p) = <<>>
  BY DEF Readable
<1> HIDE DEF d
<1> QED BY <1>4, <1>5

(* file_stream.h:15-24, file_aggr_stream.h:20-57: what is dispatched comes *)
(* after what was accepted, what is written after what is there.           *)
LEMMA DispatchRecords ==
    ASSUME IInv, NEW pack \in Packs, Dispatch(pack)
    PROVE  IInv' /\ Log!Record
<1>1. IInv' /\ DiskGrows
  BY DispatchAggrIInv, DispatchFileIInv DEF Dispatch
<1>2. /\ pack \in Seq(Records) /\ records' = records \o pack
      /\ Len(records) + Len(pack) <= MaxRecords /\ records \in Seq(Records)
      /\ headless' = headless /\ stream' = stream
  BY PackIsSeq DEF IInv, Types, Dispatch
<1>3. ASSUME NEW p \in Pids
      PROVE  IsPrefix(CallsOf(p, records, 0), CallsOf(p, records, 0)')
  <2> DEFINE c == CallsOf(p, pack, Len(records))
             a == CallsOf(p, records, 0)
  <2>1. a \in Seq(Numbers) /\ CallsOf(p, records, 0)' = a \o c
    BY <1>2, CallsGrow DEF IInv
  <2>2. c \in Seq(Numbers)
    BY <1>2, GroupsGrow DEF IInv, Groups
  <2> HIDE DEF a, c
  <2>3. IsPrefix(a, a \o c)
    BY <2>1, <2>2, PrefixOfConcat
  <2> QED BY <2>1, <2>3 DEF a
<1>4. ASSUME NEW p \in Pids PROVE IsPrefix(Readable(p), Readable(p)')
  <2>1. PICK first \in Seq(Lines) : disk' = disk \o first
    BY <1>1 DEF DiskGrows
  <2>2. disk \in Seq(Lines)
    BY LinesAreLines DEF IInv
  <2> DEFINE d == CallsIn(p, disk)
             f == CallsIn(p, first)
  <2>3. d \in Seq(Numbers) /\ f \in Seq(Numbers)
    BY <2>2, CallsInType
  <2>4. CallsIn(p, disk)' = d \o f
    <3>1. CallsIn(p, disk \o first) = d \o f
      BY <2>2, CallsInConcat
    <3> QED BY <2>1, <3>1 DEF CallsIn
  <2>5. \/ Readable(p) = <<>> /\ Readable(p)' = <<>>
        \/ Readable(p) = d /\ Readable(p)' = d \o f
    BY <1>2, <2>4 DEF Readable
  <2> HIDE DEF d, f
  <2>6. IsPrefix(d, d \o f)
    BY <2>3, PrefixOfConcat
  <2>7. IsPrefix(<<>>, <<>>)
    <3>1. <<>> \in Seq(Numbers)
      BY EmptySeq
    <3> QED BY <3>1, PrefixOfConcat
  <2> QED BY <2>5, <2>6, <2>7
<1>5. \A p \in Pids : Log!Unbroken(Readable(p)', CallsOf(p, records, 0)')
  <2>1. AllUnbroken'
    BY <1>1, ReadableIsUnbroken, PTL
  <2> QED BY <2>1 DEF AllUnbroken, Log!Unbroken
<1>6. \A old, new : IsPrefix(old, new) <=> Log!IsPrefix(old, new)
  BY DEF IsPrefix, Log!IsPrefix
<1>7. Log!Record
  BY <1>3, <1>4, <1>5, <1>6 DEF Log!Record, Log!Grows
<1> QED BY <1>1, <1>7

LEMMA NothingReadable ==
    ASSUME disk = <<>>
    PROVE  \A p : Readable(p) = <<>>
BY CallsInNothing DEF Readable

(* README:20-24, main.cpp:107-110: whatever fails, ends or is started, the *)
(* file is the archive of its sensor.                                      *)
THEOREM ImplementsArchive == Spec => IsArchive
<1>1. Init => Log!Init
  <2> SUFFICES ASSUME Init PROVE Log!Init
    OBVIOUS
  <2>1. \A p \in Pids : CallsOf(p, records, 0) = <<>> /\ Readable(p) = <<>>
    BY NothingReadable, NoRecords DEF Init
  <2> QED BY <2>1 DEF Log!Init, Log!Empty
<1>2. ASSUME IInv, [Next]_vars PROVE [Log!Next]_(Log!vars)
  <2>1. ASSUME NEW pack \in Packs, Dispatch(pack) PROVE Log!Next
    BY <1>2, <2>1, DispatchRecords DEF Log!Next
  <2>2. ASSUME UNCHANGED <<stream, records, disk, headless>>
        PROVE  UNCHANGED Log!vars
    BY <2>2 DEF Log!vars, Readable
  <2>3. CASE Ends
    BY <2>2, <2>3 DEF Ends
  <2>4. CASE UNCHANGED vars
    BY <2>2, <2>4 DEF vars, fileVars
  <2>5. CASE StartAgain
    <3>1. records' = <<>> /\ disk' = <<>>
      BY <2>5 DEF StartAgain, Opened
    <3>2. \A p \in Pids : CallsOf(p, records, 0)' = <<>> /\ Readable(p)' = <<>>
      BY <3>1, NoRecords, CallsInNothing DEF Readable
    <3> QED BY <3>2 DEF Log!Next, Log!Restart, Log!Empty
  <2>6. CASE StartRefused
    <3>1. records' = records /\ disk' = <<>>
      BY <2>6 DEF StartRefused
    <3>2. \A p \in Pids : CallsOf(p, records, 0)' = CallsOf(p, records, 0) /\ Readable(p)' = <<>>
      BY <3>1, CallsInNothing DEF Readable
    <3> QED BY <3>2 DEF Log!Next, Log!Truncate, Log!Empty
  <2> QED BY <1>2, <2>1, <2>3, <2>4, <2>5, <2>6 DEF Next
<1> QED BY <1>1, <1>2, Invariance, PTL DEF Spec, IsArchive, Log!Spec
=============================================================================
