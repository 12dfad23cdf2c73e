-------------------------- MODULE FlattenTheorems ---------------------------
(***************************************************************************)
(* What FlattenSeq, which FileStreams collects the calls of a process      *)
(* with, does to any sequence of sequences. FlattenSeq is a recursive      *)
(* function: that there is one, and only one, is shown by looking at the   *)
(* least place where two of them, or its values and their types, differ.   *)
(***************************************************************************)
EXTENDS Integers, Sequences, SequencesExt, SequenceTheorems,
        WellFoundedInduction, TLAPS

(* Every set of numbers has a least one. *)
LEMMA LeastElement ==
    ASSUME NEW S \in SUBSET Nat, S # {}
    PROVE  \E m \in S : \A n \in S : m <= n
<1> DEFINE R == OpToRel(<, Nat)
<1>1. \A x, y \in Nat : <<y, x>> \in R <=> y < x
  BY DEF OpToRel
<1>2. IsWellFoundedOn(R, Nat)
  BY NatLessThanWellFounded
<1> HIDE DEF R
<1>3. PICK m \in S : \A n \in S : <<n, m>> \notin R
  BY <1>2, WFMin
<1>4. ASSUME NEW n \in S PROVE m <= n
  <2>1. ~ (n < m)
    BY <1>1, <1>3
  <2> QED BY <2>1
<1> QED BY <1>4

(* Induction: a set of numbers with 0 and the successors of its members. *)
LEMMA EveryNumber ==
    ASSUME NEW S, 0 \in S, \A n \in Nat : n \in S => n + 1 \in S
    PROVE  Nat \subseteq S
<1> SUFFICES ASSUME NEW n \in Nat \ S PROVE FALSE
  OBVIOUS
<1>1. PICK m \in Nat \ S : \A other \in Nat \ S : m <= other
  BY LeastElement
<1>2. m - 1 \in Nat
  OBVIOUS
<1>3. m - 1 \in S
  BY <1>1, <1>2
<1> QED BY <1>2, <1>3

-----------------------------------------------------------------------------
(* The recursion *)

(* f is what FlattenSeq computes on the way along seqs. *)
Flattens(f, seqs) ==
    f = [i \in 1..Len(seqs) |-> IF i = 1 THEN seqs[i] ELSE f[i - 1] \o seqs[i]]

LEMMA FlattenSeqIs ==
    ASSUME NEW seqs, Len(seqs) # 0
    PROVE  FlattenSeq(seqs) = (CHOOSE f : Flattens(f, seqs))[Len(seqs)]
BY DEF FlattenSeq, Flattens

LEMMA FlattensAt ==
    ASSUME NEW seqs, NEW f, Flattens(f, seqs), NEW i \in 1..Len(seqs)
    PROVE  f[i] = IF i = 1 THEN seqs[i] ELSE f[i - 1] \o seqs[i]
<1> DEFINE value(j) == IF j = 1 THEN seqs[j] ELSE f[j - 1] \o seqs[j]
<1>1. f = [j \in 1..Len(seqs) |-> value(j)]
  BY DEF Flattens
<1> HIDE DEF value
<1>2. f[i] = value(i)
  BY <1>1
<1> QED BY <1>2 DEF value

Agree(f, g, n) == \A i \in 1..n : f[i] = g[i]

(* On a common beginning the two are the same. *)
LEMMA FlattensAlike ==
    ASSUME NEW seqs, NEW more, Len(seqs) \in Nat, Len(more) \in Nat,
           NEW n \in Nat, n <= Len(seqs), n <= Len(more), Agree(seqs, more, n),
           NEW f, Flattens(f, seqs), NEW g, Flattens(g, more)
    PROVE  Agree(f, g, n)
<1> USE DEF Agree
<1> DEFINE S == { i \in 1..n : f[i] # g[i] }
<1> SUFFICES ASSUME S # {} PROVE FALSE
  OBVIOUS
<1>1. S \in SUBSET Nat
  OBVIOUS
<1>2. PICK m \in S : \A i \in S : m <= i
  <2> HIDE DEF S
  <2> QED BY <1>1, LeastElement
<1>3. m \in 1..Len(seqs) /\ m \in 1..Len(more)
  OBVIOUS
<1>4. m # 1 => m - 1 \in 1..n /\ f[m - 1] = g[m - 1]
  BY <1>2
<1>5. f[m] = IF m = 1 THEN seqs[m] ELSE f[m - 1] \o seqs[m]
  BY <1>3, FlattensAt
<1>6. g[m] = IF m = 1 THEN more[m] ELSE g[m - 1] \o more[m]
  BY <1>3, FlattensAt
<1> QED BY <1>4, <1>5, <1>6

(* There is such a function, with sequences for its values: by induction   *)
(* on how far along seqs it is defined.                                    *)
LEMMA FlattensExists ==
    ASSUME NEW V, NEW seqs \in Seq(Seq(V))
    PROVE  \E f \in [1..Len(seqs) -> Seq(V)] : Flattens(f, seqs)
<1> DEFINE Upto(f, n) ==
               \A i \in 1..n : f[i] = IF i = 1 THEN seqs[i] ELSE f[i - 1] \o seqs[i]
           Reaches(n) == n <= Len(seqs) => \E f \in [1..n -> Seq(V)] : Upto(f, n)
           S == { n \in Nat : Reaches(n) }
<1>1. Reaches(0)
  <2> DEFINE none == [i \in 1..0 |-> <<>>]
  <2>1. none \in [1..0 -> Seq(V)] /\ Upto(none, 0)
    OBVIOUS
  <2> QED BY <2>1
<1>2. ASSUME NEW n \in Nat, Reaches(n) PROVE Reaches(n + 1)
  <2> SUFFICES ASSUME n + 1 <= Len(seqs)
               PROVE  \E f \in [1..(n + 1) -> Seq(V)] : Upto(f, n + 1)
    OBVIOUS
  <2>1. PICK f \in [1..n -> Seq(V)] : Upto(f, n)
    <3>1. n <= Len(seqs)
      BY LenProperties
    <3> QED BY <1>2, <3>1
  <2> DEFINE next == IF n = 0 THEN seqs[1] ELSE f[n] \o seqs[n + 1]
             g == [i \in 1..(n + 1) |-> IF i = n + 1 THEN next ELSE f[i]]
  <2>2. next \in Seq(V)
    BY ElementOfSeq, ConcatProperties
  <2>3. g \in [1..(n + 1) -> Seq(V)]
    <3> HIDE DEF next
    <3> QED BY <2>2
  <2>4. ASSUME NEW i \in 1..(n + 1)
        PROVE  g[i] = IF i = 1 THEN seqs[i] ELSE g[i - 1] \o seqs[i]
    <3>1. CASE i = n + 1
      BY <3>1
    <3>2. CASE i # n + 1
      <4>1. i \in 1..n
        BY <3>2
      <4>2. f[i] = IF i = 1 THEN seqs[i] ELSE f[i - 1] \o seqs[i]
        BY <2>1, <4>1
      <4>3. \A j \in 1..n : g[j] = f[j]
        <5> HIDE DEF next
        <5> QED OBVIOUS
      <4>4. g[i] = f[i] /\ (i # 1 => g[i - 1] = f[i - 1])
        <5>1. i # 1 => i - 1 \in 1..n
          BY <4>1
        <5> HIDE DEF g
        <5> QED BY <4>1, <4>3, <5>1
      <4> QED BY <4>2, <4>4
    <3> QED BY <3>1, <3>2
  <2> QED BY <2>3, <2>4
<1>3. Reaches(Len(seqs))
  <2> HIDE DEF Reaches
  <2>1. 0 \in S /\ \A n \in Nat : n \in S => n + 1 \in S
    BY <1>1, <1>2
  <2>2. Nat \subseteq S
    <3> HIDE DEF S
    <3> QED BY <2>1, EveryNumber
  <2> QED BY <2>2, LenProperties
<1>4. PICK f \in [1..Len(seqs) -> Seq(V)] : Upto(f, Len(seqs))
  BY <1>3, LenProperties
<1>5. f = [i \in 1..Len(seqs) |-> IF i = 1 THEN seqs[i] ELSE f[i - 1] \o seqs[i]]
  BY <1>4
<1> QED BY <1>5 DEF Flattens

(* An operator, for the provers to find what ConcatAssociative is used of. *)
Assoc(s, t, u) == (s \o t) \o u = s \o (t \o u)

LEMMA Associates ==
    ASSUME NEW V, NEW s \in Seq(V), NEW t \in Seq(V), NEW u \in Seq(V)
    PROVE  Assoc(s, t, u)
BY ConcatAssociative DEF Assoc

-----------------------------------------------------------------------------
(* FlattenSeq *)

LEMMA FlattenEmpty ==
    FlattenSeq(<<>>) = <<>>
BY DEF FlattenSeq

(* FlattenSeq picks one of them, and they are all alike. *)
LEMMA FlattenPicked ==
    ASSUME NEW V, NEW seqs \in Seq(Seq(V)), seqs # <<>>
    PROVE  \E f \in [1..Len(seqs) -> Seq(V)] :
               Flattens(f, seqs) /\ FlattenSeq(seqs) = f[Len(seqs)]
<1>1. Len(seqs) \in Nat \ {0}
  BY EmptySeq
<1>2. PICK f \in [1..Len(seqs) -> Seq(V)] : Flattens(f, seqs)
  BY FlattensExists
<1> DEFINE g == CHOOSE h : Flattens(h, seqs)
<1>3. Flattens(g, seqs)
  BY <1>2
<1>4. FlattenSeq(seqs) = g[Len(seqs)]
  BY <1>1, FlattenSeqIs
<1> HIDE DEF g
<1>5. Agree(seqs, seqs, Len(seqs))
  BY DEF Agree
<1>6. Agree(f, g, Len(seqs))
  BY <1>1, <1>2, <1>3, <1>5, FlattensAlike
<1>7. g[Len(seqs)] = f[Len(seqs)]
  <2>1. Len(seqs) \in 1..Len(seqs)
    BY ONLY <1>1
  <2> QED BY <1>6, <2>1 DEF Agree
<1>8. FlattenSeq(seqs) = f[Len(seqs)]
  BY ONLY <1>4, <1>7
<1> QED BY ONLY <1>2, <1>8

LEMMA FlattenType ==
    ASSUME NEW V, NEW seqs \in Seq(Seq(V))
    PROVE  FlattenSeq(seqs) \in Seq(V)
<1>1. CASE seqs = <<>>
  BY <1>1, FlattenEmpty, EmptySeq
<1>2. CASE seqs # <<>>
  <2>1. Len(seqs) \in Nat \ {0}
    BY <1>2, EmptySeq
  <2>2. PICK f \in [1..Len(seqs) -> Seq(V)] : FlattenSeq(seqs) = f[Len(seqs)]
    BY <1>2, FlattenPicked
  <2>3. Len(seqs) \in 1..Len(seqs)
    BY <2>1
  <2> QED BY <2>2, <2>3
<1> QED BY <1>1, <1>2

(* One more sequence goes to the end. *)
LEMMA FlattenAppend ==
    ASSUME NEW V, NEW seqs \in Seq(Seq(V)), NEW last \in Seq(V)
    PROVE  FlattenSeq(Append(seqs, last)) = FlattenSeq(seqs) \o last
<1> DEFINE more == Append(seqs, last)
           n == Len(seqs)
<1>1. /\ more \in Seq(Seq(V)) /\ Len(more) = n + 1 /\ n \in Nat
      /\ more # <<>> /\ more[n + 1] = last
      /\ \A i \in 1..n : seqs[i] = more[i]
  <2>1. \A U : \A s \in Seq(U), x \in U :
            /\ Append(s, x) \in Seq(U) /\ Len(Append(s, x)) = Len(s) + 1 /\ Len(s) \in Nat
            /\ Append(s, x) # <<>> /\ Append(s, x)[Len(s) + 1] = x
            /\ \A i \in 1..Len(s) : s[i] = Append(s, x)[i]
    OBVIOUS
  <2> QED BY <2>1
<1> HIDE DEF more
<1>2. PICK g \in [1..Len(more) -> Seq(V)] :
          Flattens(g, more) /\ FlattenSeq(more) = g[Len(more)]
  BY <1>1, FlattenPicked
<1>3. g[n + 1] = IF n = 0 THEN last ELSE g[n] \o last
  <2>1. n + 1 \in 1..Len(more)
    BY <1>1
  <2>2. g[n + 1] = IF n + 1 = 1 THEN more[n + 1] ELSE g[n + 1 - 1] \o more[n + 1]
    BY <1>2, <2>1, FlattensAt
  <2> QED BY <1>1, <2>2
<1>4. CASE n = 0
  <2>1. seqs = <<>>
    BY <1>4
  <2>2. <<>> \o last = last
    BY ConcatEmptySeq
  <2> QED BY <1>1, <1>2, <1>3, <1>4, <2>1, <2>2, FlattenEmpty DEF more
<1>5. CASE n # 0
  <2>1. PICK f \in [1..n -> Seq(V)] : Flattens(f, seqs) /\ FlattenSeq(seqs) = f[n]
    BY <1>5, FlattenPicked
  <2>2. n \in 1..n
    BY <1>1, <1>5
  <2>3. Agree(f, g, n)
    <3>1. /\ Len(seqs) \in Nat /\ Len(more) \in Nat /\ n \in Nat
          /\ n <= Len(seqs) /\ n <= Len(more)
      BY <1>1
    <3>2. Agree(seqs, more, n)
      BY <1>1 DEF Agree
    <3> HIDE DEF n
    <3> QED BY <1>2, <2>1, <3>1, <3>2, FlattensAlike
  <2> QED BY <1>1, <1>2, <1>3, <1>5, <2>1, <2>2, <2>3 DEF more, Agree
<1> QED BY <1>4, <1>5

LEMMA ConcatAppend ==
    ASSUME NEW V, NEW s \in Seq(V), NEW t \in Seq(V), NEW last \in V
    PROVE  s \o Append(t, last) = Append(s \o t, last)
OBVIOUS

LEMMA CutAt ==
    ASSUME NEW V, NEW s \in Seq(V), NEW k \in 1..Len(s)
    PROVE  s = Append(SubSeq(s, 1, k - 1), s[k]) \o SubSeq(s, k + 1, Len(s))
<1> DEFINE first == Append(SubSeq(s, 1, k - 1), s[k])
           rest == SubSeq(s, k + 1, Len(s))
<1>1. first \in Seq(V) /\ Len(first) = k /\ \A i \in 1..k : first[i] = s[i]
  OBVIOUS
<1>2. rest \in Seq(V) /\ Len(rest) = Len(s) - k /\ \A i \in 1..(Len(s) - k) : rest[i] = s[k + i]
  OBVIOUS
<1> HIDE DEF first, rest
<1>3. /\ first \o rest \in Seq(V) /\ Len(first \o rest) = Len(s)
      /\ \A i \in 1..Len(s) : (first \o rest)[i] = IF i <= k THEN first[i] ELSE rest[i - k]
  <2>1. /\ first \o rest \in Seq(V) /\ Len(first \o rest) = Len(first) + Len(rest)
        /\ \A i \in 1..(Len(first) + Len(rest)) :
               (first \o rest)[i] = IF i <= Len(first) THEN first[i] ELSE rest[i - Len(first)]
    BY <1>1, <1>2, ConcatProperties
  <2>2. Len(s) \in Nat /\ k \in Nat /\ k + (Len(s) - k) = Len(s)
    OBVIOUS
  <2>3. Len(first) = k /\ Len(first) + Len(rest) = Len(s)
    BY <1>1, <1>2, <2>2
  <2> HIDE DEF first, rest
  <2> QED BY <2>1, <2>3
<1>4. \A i \in 1..Len(s) : (first \o rest)[i] = s[i]
  BY <1>1, <1>2, <1>3
<1>5. first \o rest = s
  BY <1>3, <1>4, SeqEqual
<1> QED BY <1>5 DEF first, rest

LEMMA FlattenConcat ==
    ASSUME NEW V, NEW seqs \in Seq(Seq(V)), NEW more \in Seq(Seq(V))
    PROVE  FlattenSeq(seqs \o more) = FlattenSeq(seqs) \o FlattenSeq(more)
<1> DEFINE first(n) == SubSeq(more, 1, n)
           Splits(n) == n <= Len(more) =>
               FlattenSeq(seqs \o first(n)) = FlattenSeq(seqs) \o FlattenSeq(first(n))
           S == { n \in Nat : Splits(n) }
<1>1. Len(more) \in Nat /\ \A n \in 0..Len(more) : first(n) \in Seq(Seq(V))
  OBVIOUS
<1>2. Splits(0)
  <2>1. first(0) = <<>>
    OBVIOUS
  <2>2. seqs \o <<>> = seqs
    BY ConcatEmptySeq
  <2>3. FlattenSeq(seqs) \o <<>> = FlattenSeq(seqs)
    BY FlattenType, ConcatEmptySeq
  <2> HIDE DEF first
  <2> QED BY <2>1, <2>2, <2>3, FlattenEmpty
<1>3. ASSUME NEW n \in Nat, Splits(n) PROVE Splits(n + 1)
  <2> SUFFICES ASSUME n + 1 <= Len(more)
               PROVE  FlattenSeq(seqs \o first(n + 1))
                          = FlattenSeq(seqs) \o FlattenSeq(first(n + 1))
    OBVIOUS
  <2>1. more[n + 1] \in Seq(V) /\ first(n) \in Seq(Seq(V))
    BY <1>1
  <2>2. first(n + 1) = Append(first(n), more[n + 1])
    OBVIOUS
  <2>3. FlattenSeq(seqs \o first(n)) = FlattenSeq(seqs) \o FlattenSeq(first(n))
    BY <1>1, <1>3
  <2> HIDE DEF first
  <2>4. seqs \o first(n + 1) = Append(seqs \o first(n), more[n + 1])
    <3> DEFINE W == Seq(V)
               start == first(n)
               end == more[n + 1]
    <3>1. seqs \in Seq(W) /\ start \in Seq(W) /\ end \in W
      BY <2>1
    <3>2. seqs \o Append(start, end) = Append(seqs \o start, end)
      <4> HIDE DEF W, start, end
      <4> QED BY <3>1, ConcatAppend
    <3> QED BY <2>2, <3>2
  <2>5. seqs \o first(n) \in Seq(Seq(V))
    BY <2>1, ConcatProperties
  <2>6. FlattenSeq(seqs \o first(n + 1)) = FlattenSeq(seqs \o first(n)) \o more[n + 1]
    BY <2>1, <2>4, <2>5, FlattenAppend
  <2>7. FlattenSeq(first(n + 1)) = FlattenSeq(first(n)) \o more[n + 1]
    BY <2>1, <2>2, FlattenAppend
  <2>8. FlattenSeq(seqs) \in Seq(V) /\ FlattenSeq(first(n)) \in Seq(V)
    BY <2>1, FlattenType
  <2> DEFINE head == FlattenSeq(seqs)
             middle == FlattenSeq(first(n))
             end == more[n + 1]
  <2>9. (head \o middle) \o end = head \o (middle \o end)
    <3>1. head \in Seq(V) /\ middle \in Seq(V) /\ end \in Seq(V)
      BY <2>1, <2>8
    <3> HIDE DEF head, middle, end
    <3>2. Assoc(head, middle, end)
      BY ONLY <3>1, Associates
    <3> QED BY ONLY <3>2 DEF Assoc
  <2> QED BY <2>3, <2>6, <2>7, <2>9
<1>4. Nat \subseteq S
  <2> HIDE DEF Splits
  <2>1. 0 \in S /\ \A n \in Nat : n \in S => n + 1 \in S
    BY <1>2, <1>3
  <2> HIDE DEF S
  <2> QED BY <2>1, EveryNumber
<1>5. Splits(Len(more))
  <2> HIDE DEF Splits
  <2> QED BY <1>1, <1>4
<1>6. first(Len(more)) = more
  BY SubSeqFull
<1> HIDE DEF first
<1> QED BY <1>1, <1>5, <1>6

LEMMA FlattenOne ==
    ASSUME NEW V, NEW one \in Seq(V)
    PROVE  FlattenSeq(<<one>>) = one
<1>1. <<>> \in Seq(Seq(V)) /\ <<one>> = Append(<<>>, one)
  BY EmptySeq
<1>2. FlattenSeq(<<one>>) = FlattenSeq(<<>>) \o one
  BY <1>1, FlattenAppend
<1> QED BY <1>2, FlattenEmpty, ConcatEmptySeq

(* Nothing but empty sequences gives the empty one. *)
LEMMA FlattenNothing ==
    ASSUME NEW seqs \in Seq({<<>>})
    PROVE  FlattenSeq(seqs) = <<>>
<1> DEFINE none == {}
<1>1. Seq(none) = {<<>>}
  <2>1. ASSUME NEW s \in Seq(none) PROVE s = <<>>
    <3>1. s # <<>> => s[1] \in none
      OBVIOUS
    <3> QED BY <3>1
  <2> QED BY <2>1, EmptySeq
<1> HIDE DEF none
<1>2. FlattenSeq(seqs) \in Seq(none)
  BY <1>1, FlattenType
<1> QED BY <1>1, <1>2

(* Empty sequences in front leave no trace.                                *)
LEMMA FlattenAfterEmpty ==
    ASSUME NEW V, NEW seqs \in Seq(Seq(V)), NEW k \in 1..Len(seqs),
           \A i \in 1..(k - 1) : seqs[i] = <<>>
    PROVE  FlattenSeq(seqs) = seqs[k] \o FlattenSeq(SubSeq(seqs, k + 1, Len(seqs)))
<1> DEFINE before == SubSeq(seqs, 1, k - 1)
           after == SubSeq(seqs, k + 1, Len(seqs))
<1>1. before \in Seq({<<>>})
  BY SubSeqProperties
<1>2. before \in Seq(Seq(V)) /\ after \in Seq(Seq(V))
  OBVIOUS
<1>3. seqs[k] \in Seq(V)
  OBVIOUS
<1>4. seqs = Append(before, seqs[k]) \o after
  BY CutAt
<1> HIDE DEF before, after
<1>5. FlattenSeq(seqs) = FlattenSeq(Append(before, seqs[k])) \o FlattenSeq(after)
  <2>1. Append(before, seqs[k]) \in Seq(Seq(V))
    BY <1>2, <1>3, AppendProperties
  <2> QED BY <1>2, <1>4, <2>1, FlattenConcat
<1>6. FlattenSeq(Append(before, seqs[k])) = FlattenSeq(before) \o seqs[k]
  BY <1>2, <1>3, FlattenAppend
<1>7. FlattenSeq(before) = <<>>
  BY <1>1, FlattenNothing
<1>8. <<>> \o seqs[k] = seqs[k]
  BY <1>3, ConcatEmptySeq
<1>9. FlattenSeq(seqs) = seqs[k] \o FlattenSeq(after)
  BY <1>5, <1>6, <1>7, <1>8
<1> QED BY <1>9 DEF after

(* One sequence among empty ones is all that is left.                      *)
LEMMA FlattenAmongEmpty ==
    ASSUME NEW V, NEW seqs \in Seq(Seq(V)), NEW k \in 1..Len(seqs),
           \A i \in 1..Len(seqs) : i # k => seqs[i] = <<>>
    PROVE  FlattenSeq(seqs) = seqs[k]
<1> DEFINE after == SubSeq(seqs, k + 1, Len(seqs))
<1>1. \A i \in 1..(k - 1) : seqs[i] = <<>>
  OBVIOUS
<1>2. after \in Seq({<<>>})
  BY SubSeqProperties
<1>3. FlattenSeq(after) = <<>>
  <2> HIDE DEF after
  <2> QED BY <1>2, FlattenNothing
<1>4. FlattenSeq(seqs) = seqs[k] \o FlattenSeq(after)
  BY <1>1, FlattenAfterEmpty
<1>5. seqs[k] \in Seq(V)
  OBVIOUS
<1>6. seqs[k] \o <<>> = seqs[k]
  BY <1>5, ConcatEmptySeq
<1> HIDE DEF after
<1> QED BY <1>3, <1>4, <1>6
=============================================================================
