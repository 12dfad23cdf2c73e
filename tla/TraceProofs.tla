----------------------------- MODULE TraceProofs -----------------------------
(***************************************************************************)
(* Proofs about the three parts of the way of a line from trace_pipe to a  *)
(* record: the cut into lines (TraceReader), the queue it passes           *)
(* (SafeQueue) and what is made of it (TraceRecord).                       *)
(***************************************************************************)
EXTENDS SafeQueue, TraceReader, TraceRecord, FlattenTheorems

-----------------------------------------------------------------------------
(* Quotients and remainders *)

LEMMA DivMod ==
    ASSUME NEW n \in Nat, NEW b \in Nat \ {0}
    PROVE  /\ n \div b \in Int
           /\ n % b \in 0..(b - 1)
           /\ n = b * (n \div b) + (n % b)
<1>1. n \div b \in Int
  OBVIOUS
<1>2. n % b \in 0..(b - 1)
  OBVIOUS
<1>3. n = b * (n \div b) + (n % b)
  OBVIOUS
<1> QED BY <1>1, <1>2, <1>3

LEMMA NotBetween ==
    ASSUME NEW b \in Nat \ {0}, NEW x \in Int, NEW y \in Int, x < y
    PROVE  b * x + b <= b * y
<1>1. x + 1 <= y
  OBVIOUS
<1>2. b * (x + 1) <= b * y
  BY <1>1
<1>3. b * (x + 1) = b * x + b
  OBVIOUS
<1> QED BY <1>2, <1>3

(* The remainder is the one number below b that makes up a multiple.       *)
LEMMA RemainderIs ==
    ASSUME NEW b \in Nat \ {0}, NEW n \in Nat, NEW x \in Int, NEW r \in 0..(b - 1),
           n = b * x + r
    PROVE  n % b = r /\ n \div b = x
<1> DEFINE y == n \div b
           s == n % b
<1>1. y \in Int /\ s \in 0..(b - 1) /\ n = b * y + s
  BY DivMod
<1> HIDE DEF y, s
<1>2. CASE x < y
  BY <1>1, <1>2, NotBetween
<1>3. CASE y < x
  BY <1>1, <1>3, NotBetween
<1>4. CASE x = y
  BY <1>1, <1>4 DEF y, s
<1> QED BY <1>1, <1>2, <1>3, <1>4

-----------------------------------------------------------------------------
(* TraceReader: one string *)

C == Chars \cup {NL}

(* What follows the last end of a line.                                    *)
Rest(str) == SubSeq(str, Last(Ends(str)) + 1, Len(str))

(* Lines laid end to end.                                                  *)
LaidOut(ls) == FlattenSeq([i \in 1..Len(ls) |-> Append(ls[i], NL)])

(* A string is the empty one, or one character more than another.          *)
LEMMA OneMore ==
    ASSUME NEW V, NEW s \in Seq(V), NEW n \in Nat, Len(s) = n + 1
    PROVE  /\ SubSeq(s, 1, n) \in Seq(V) /\ Len(SubSeq(s, 1, n)) = n
           /\ s[n + 1] \in V
           /\ s = Append(SubSeq(s, 1, n), s[n + 1])
<1>1. \A i \in 1..n : s[i] \in V
  BY ElementOfSeq
<1>2. /\ SubSeq(s, 1, n) \in Seq(V)
      /\ Len(SubSeq(s, 1, n)) = n
      /\ \A i \in 1..n : SubSeq(s, 1, n)[i] = s[i]
  BY <1>1, SubSeqProperties
<1>3. s[n + 1] \in V
  BY ElementOfSeq
<1>4. /\ Append(SubSeq(s, 1, n), s[n + 1]) \in Seq(V)
      /\ Len(Append(SubSeq(s, 1, n), s[n + 1])) = n + 1
      /\ \A i \in 1..n : Append(SubSeq(s, 1, n), s[n + 1])[i] = s[i]
      /\ Append(SubSeq(s, 1, n), s[n + 1])[n + 1] = s[n + 1]
  BY <1>2, <1>3, AppendProperties
<1>5. \A i \in 1..(n + 1) : s[i] = Append(SubSeq(s, 1, n), s[n + 1])[i]
  BY <1>4
<1> QED BY <1>2, <1>3, <1>4, <1>5, SeqEqual

(* A cut in what was there before is not changed by what is added.         *)
LEMMA CutOfMore ==
    ASSUME NEW V, NEW s \in Seq(V), NEW c \in V, NEW a \in Nat \ {0}, NEW b \in 0..Len(s)
    PROVE  /\ SubSeq(Append(s, c), a, b) = SubSeq(s, a, b)
           /\ SubSeq(s, a, b) \in Seq(V)
<1>1. /\ Append(s, c) \in Seq(V)
      /\ Len(Append(s, c)) = Len(s) + 1
      /\ \A i \in 1..Len(s) : Append(s, c)[i] = s[i]
  BY AppendProperties
<1>2. \A i \in a..b : s[i] \in V /\ Append(s, c)[i] = s[i]
  BY <1>1, ElementOfSeq
<1>3. /\ SubSeq(s, a, b) \in Seq(V)
      /\ Len(SubSeq(s, a, b)) = IF a <= b THEN b - a + 1 ELSE 0
      /\ \A i \in 1..(b - a + 1) : SubSeq(s, a, b)[i] = s[a + i - 1]
  BY <1>2, SubSeqProperties
<1>4. /\ SubSeq(Append(s, c), a, b) \in Seq(V)
      /\ Len(SubSeq(Append(s, c), a, b)) = IF a <= b THEN b - a + 1 ELSE 0
      /\ \A i \in 1..(b - a + 1) : SubSeq(Append(s, c), a, b)[i] = Append(s, c)[a + i - 1]
  BY <1>2, SubSeqProperties
<1>5. ASSUME NEW i \in 1..Len(SubSeq(s, a, b))
      PROVE  SubSeq(Append(s, c), a, b)[i] = SubSeq(s, a, b)[i]
  <2>1. i \in 1..(b - a + 1) /\ a + i - 1 \in a..b
    BY <1>3
  <2> QED BY <2>1, <1>2, <1>3, <1>4
<1> QED BY <1>3, <1>4, <1>5, SeqEqual

(* What lies between two places.                                           *)
LEMMA Between ==
    ASSUME NEW V, NEW s \in Seq(V), NEW a \in Nat, NEW b \in Nat, a <= b, b <= Len(s)
    PROVE  /\ SubSeq(s, a + 1, b) \in Seq(V)
           /\ Len(SubSeq(s, a + 1, b)) = b - a
           /\ \A i \in 1..(b - a) : SubSeq(s, a + 1, b)[i] = s[a + i]
<1>1. \A i \in (a + 1)..b : s[i] \in V
  BY ElementOfSeq
<1>2. /\ SubSeq(s, a + 1, b) \in Seq(V)
      /\ Len(SubSeq(s, a + 1, b)) = IF a + 1 <= b THEN b - (a + 1) + 1 ELSE 0
      /\ \A i \in 1..(b - (a + 1) + 1) : SubSeq(s, a + 1, b)[i] = s[a + 1 + i - 1]
  BY <1>1, SubSeqProperties
<1>3. (IF a + 1 <= b THEN b - (a + 1) + 1 ELSE 0) = b - a
  OBVIOUS
<1>4. \A i \in 1..(b - a) : i \in 1..(b - (a + 1) + 1) /\ a + 1 + i - 1 = a + i
  OBVIOUS
<1> QED BY <1>2, <1>3, <1>4

(* ... and one up to the end grows by it.                                  *)
LEMMA RestOfMore ==
    ASSUME NEW V, NEW s \in Seq(V), NEW c \in V, NEW a \in 1..(Len(s) + 1)
    PROVE  SubSeq(Append(s, c), a, Len(s) + 1) = Append(SubSeq(s, a, Len(s)), c)
<1>1. /\ Append(s, c) \in Seq(V)
      /\ Len(Append(s, c)) = Len(s) + 1
      /\ Append(s, c)[Len(s) + 1] = c
  BY AppendProperties
<1>2. SubSeq(Append(s, c), a, Len(s) + 1)
          = SubSeq(Append(s, c), a, Len(s) + 1 - 1) \o <<Append(s, c)[Len(s) + 1]>>
  BY <1>1, SubSeqRecursiveSecond
<1>3. SubSeq(Append(s, c), a, Len(s)) = SubSeq(s, a, Len(s))
      /\ SubSeq(s, a, Len(s)) \in Seq(V)
  BY CutOfMore
<1>4. Append(SubSeq(s, a, Len(s)), c) = SubSeq(s, a, Len(s)) \o <<c>>
  BY <1>3, AppendIsConcat
<1> QED BY <1>1, <1>2, <1>3, <1>4

(* utils.h:118-122: another character ends a line or it does not.          *)
LEMMA EndsOfMore ==
    /\ Ends(<<>>) = <<0>>
    /\ \A str \in Seq(C), c \in C :
          Ends(Append(str, c)) = IF c = NL THEN Append(Ends(str), Len(str) + 1)
                                           ELSE Ends(str)
<1> DEFINE at(str) == [i \in 1..Len(str) |-> IF str[i] = NL THEN <<i>> ELSE <<>>]
<1>0. \A str : Ends(str) = <<0>> \o FlattenSeq(at(str))
  BY DEF Ends
<1>1. Ends(<<>>) = <<0>>
  <2>1. at(<<>>) = <<>>
    OBVIOUS
  <2>2. <<0>> \in Seq(Nat)
    OBVIOUS
  <2>3. <<0>> \o <<>> = <<0>>
    BY <2>2, ConcatEmptySeq
  <2> QED BY <1>0, <2>1, <2>3, FlattenEmpty
<1>2. ASSUME NEW str \in Seq(C), NEW c \in C
      PROVE  Ends(Append(str, c)) = IF c = NL THEN Append(Ends(str), Len(str) + 1)
                                              ELSE Ends(str)
  <2> DEFINE n == Len(str)
             new == IF c = NL THEN <<n + 1>> ELSE <<>>
  <2>1. n \in Nat
    OBVIOUS
  <2>2. \A i : <<i>> \in Seq({i})
    OBVIOUS
  <2>3. at(str) \in Seq(Seq(Nat))
    <3>1. <<>> \in Seq(Nat)
      BY EmptySeq
    <3>2. \A i \in 1..n : <<i>> \in Seq(Nat)
      OBVIOUS
    <3>3. at(str) \in [1..n -> Seq(Nat)]
      BY <3>1, <3>2
    <3> QED BY <2>1, <3>3
  <2>4. new \in Seq(Nat)
    <3>1. <<>> \in Seq(Nat)
      BY EmptySeq
    <3>2. <<n + 1>> \in Seq(Nat)
      BY <2>1
    <3> QED BY <3>1, <3>2
  <2>5. at(Append(str, c)) = Append(at(str), new)
    <3>1. /\ Len(Append(str, c)) = n + 1
          /\ \A i \in 1..n : Append(str, c)[i] = str[i]
          /\ Append(str, c)[n + 1] = c
      BY AppendProperties
    <3>2. Len(at(str)) = n
      BY <2>1
    <3> QED BY <3>1, <3>2, <2>1
  <2>6. FlattenSeq(at(Append(str, c))) = FlattenSeq(at(str)) \o new
    BY <2>3, <2>4, <2>5, FlattenAppend
  <2>7. FlattenSeq(at(str)) \in Seq(Nat)
    BY <2>3, FlattenType
  <2> HIDE DEF at
  <2>8. CASE c = NL
    <3>1. FlattenSeq(at(str)) \o new = Append(FlattenSeq(at(str)), n + 1)
      BY <2>1, <2>7, <2>8, AppendIsConcat
    <3>2. <<0>> \in Seq(Nat) /\ n + 1 \in Nat
      BY <2>1
    <3>3. <<0>> \o Append(FlattenSeq(at(str)), n + 1)
            = Append(<<0>> \o FlattenSeq(at(str)), n + 1)
      BY <2>7, <3>2, ConcatAppend
    <3> QED BY <1>0, <2>6, <2>8, <3>1, <3>3
  <2>9. CASE c # NL
    <3>1. FlattenSeq(at(str)) \o new = FlattenSeq(at(str))
      BY <2>7, <2>9, ConcatEmptySeq
    <3> QED BY <1>0, <2>6, <2>9, <3>1
  <2> QED BY <2>8, <2>9
<1> QED BY <1>1, <1>2

(* Laying out one line more, and some more.                                *)
LEMMA LaidOutLines ==
    ASSUME NEW ls \in Seq(Seq(Chars))
    PROVE  /\ [i \in 1..Len(ls) |-> Append(ls[i], NL)] \in Seq(Seq(C))
           /\ LaidOut(ls) \in Seq(C)
<1>1. \A i \in 1..Len(ls) : ls[i] \in Seq(C)
  BY ElementOfSeq DEF C
<1>2. NL \in C
  BY DEF C
<1>3. \A i \in 1..Len(ls) : Append(ls[i], NL) \in Seq(C)
  BY <1>1, <1>2, AppendProperties
<1>4. [i \in 1..Len(ls) |-> Append(ls[i], NL)] \in [1..Len(ls) -> Seq(C)]
  BY <1>3
<1>5. [i \in 1..Len(ls) |-> Append(ls[i], NL)] \in Seq(Seq(C))
  BY <1>4
<1> QED BY <1>5, FlattenType DEF LaidOut

LEMMA LaidOutConcat ==
    ASSUME NEW ls \in Seq(Seq(Chars)), NEW more \in Seq(Seq(Chars))
    PROVE  LaidOut(ls \o more) = LaidOut(ls) \o LaidOut(more)
<1> DEFINE ended(l) == [i \in 1..Len(l) |-> Append(l[i], NL)]
<1>1. ended(ls) \in Seq(Seq(C)) /\ ended(more) \in Seq(Seq(C))
  BY LaidOutLines
<1>2. Len(ended(ls)) = Len(ls) /\ Len(ended(more)) = Len(more)
  OBVIOUS
<1>3. /\ ls \o more \in Seq(Seq(Chars))
      /\ Len(ls \o more) = Len(ls) + Len(more)
      /\ \A i \in 1..(Len(ls) + Len(more)) :
            (ls \o more)[i] = IF i <= Len(ls) THEN ls[i] ELSE more[i - Len(ls)]
  BY ConcatProperties
<1>4. ended(ls \o more) \in Seq(Seq(C)) /\ Len(ended(ls \o more)) = Len(ls) + Len(more)
  BY <1>3, LaidOutLines
<1>5. /\ ended(ls) \o ended(more) \in Seq(Seq(C))
      /\ Len(ended(ls) \o ended(more)) = Len(ls) + Len(more)
      /\ \A i \in 1..(Len(ls) + Len(more)) :
            (ended(ls) \o ended(more))[i]
                = IF i <= Len(ls) THEN ended(ls)[i] ELSE ended(more)[i - Len(ls)]
  BY <1>1, <1>2, ConcatProperties
<1>6. ASSUME NEW i \in 1..(Len(ls) + Len(more))
      PROVE  ended(ls \o more)[i] = (ended(ls) \o ended(more))[i]
  <2>1. ended(ls \o more)[i] = Append((ls \o more)[i], NL)
    BY <1>3
  <2>2. CASE i <= Len(ls)
    BY <2>1, <2>2, <1>3, <1>5
  <2>3. CASE i > Len(ls)
    <3>1. i - Len(ls) \in 1..Len(more)
      BY <2>3
    <3> QED BY <2>1, <2>3, <3>1, <1>3, <1>5
  <2> QED BY <2>2, <2>3
<1>7. ended(ls \o more) = ended(ls) \o ended(more)
  BY <1>4, <1>5, <1>6, SeqEqual
<1> HIDE DEF ended
<1>8. FlattenSeq(ended(ls \o more)) = FlattenSeq(ended(ls)) \o FlattenSeq(ended(more))
  BY <1>1, <1>7, FlattenConcat
<1> QED BY <1>8 DEF LaidOut, ended

LEMMA LaidOutOne ==
    ASSUME NEW l \in Seq(Chars)
    PROVE  LaidOut(<<l>>) = Append(l, NL)
<1>1. l \in Seq(C) /\ NL \in C
  BY DEF C
<1>2. Append(l, NL) \in Seq(C)
  BY <1>1, AppendProperties
<1>3. [i \in 1..Len(<<l>>) |-> Append(<<l>>[i], NL)] = <<Append(l, NL)>>
  OBVIOUS
<1> QED BY <1>2, <1>3, FlattenOne DEF LaidOut

(* The lines of a string, as far as they are ended, and what follows them  *)
(* make up the string.                                                     *)
Splits(str) ==
    /\ Ends(str) \in Seq(0..Len(str)) /\ Len(Ends(str)) # 0
    /\ Last(Ends(str)) # 0 => str[Last(Ends(str))] = NL
    /\ Pieces(str) \in Seq(Seq(Chars))
    /\ Rest(str) \in Seq(Chars)
    /\ str = LaidOut(Pieces(str)) \o Rest(str)

LEMMA LastOfSplits ==
    ASSUME NEW str \in Seq(C), Splits(str)
    PROVE  Last(Ends(str)) \in 0..Len(str)
<1>1. Len(Ends(str)) \in 1..Len(Ends(str))
  <2>1. Len(Ends(str)) \in Nat
    BY LenProperties DEF Splits
  <2> QED BY <2>1 DEF Splits
<1> QED BY <1>1, ElementOfSeq DEF Splits, Last

LEMMA SplitsNothing == Splits(<<>>)
<1>1. Ends(<<>>) = <<0>> /\ Len(<<0>>) = 1 /\ Last(<<0>>) = 0
  BY EndsOfMore DEF Last
<1>2. <<0>> \in Seq(0..0) /\ Len(<<>>) = 0
  OBVIOUS
<1>3. Pieces(<<>>) = <<>>
  <2> DEFINE piece(i) == SubSeq(<<>>, Ends(<<>>)[i] + 1, Ends(<<>>)[i + 1] - 1)
  <2>1. Pieces(<<>>) = [i \in 1..(Len(Ends(<<>>)) - 1) |-> piece(i)]
    BY DEF Pieces
  <2> HIDE DEF piece
  <2>2. 1..(Len(Ends(<<>>)) - 1) = {}
    <3>1. \A n : n = 1 => 1..(n - 1) = {}
      OBVIOUS
    <3> QED BY <1>1, <3>1, Zenon
  <2>3. [i \in {} |-> piece(i)] = <<>>
    OBVIOUS
  <2> QED BY <2>1, <2>2, <2>3
<1>4. <<>> \in Seq(Seq(Chars)) /\ <<>> \in Seq(Chars) /\ <<>> \in Seq(C)
  BY EmptySeq
<1>5. Rest(<<>>) = <<>>
  BY <1>1, <1>2, SubSeqEmpty DEF Rest
<1>6. LaidOut(<<>>) = <<>>
  <2>1. [i \in 1..Len(<<>>) |-> Append(<<>>[i], NL)] = <<>>
    OBVIOUS
  <2> QED BY <2>1, FlattenEmpty DEF LaidOut
<1>7. <<>> \o <<>> = <<>>
  BY <1>4, ConcatEmptySeq
<1>8. Ends(<<>>) \in Seq(0..Len(<<>>)) /\ Len(Ends(<<>>)) # 0 /\ Last(Ends(<<>>)) = 0
  <2>1. Ends(<<>>) \in Seq(0..Len(<<>>))
    BY <1>1, <1>2
  <2>2. Len(Ends(<<>>)) = 1 /\ Last(Ends(<<>>)) = 0
    BY <1>1, Zenon
  <2>3. 1 # 0
    OBVIOUS
  <2> QED BY <2>1, <2>2, <2>3, Zenon
<1>9. /\ Pieces(<<>>) \in Seq(Seq(Chars)) /\ Rest(<<>>) \in Seq(Chars)
      /\ <<>> = LaidOut(Pieces(<<>>)) \o Rest(<<>>)
  BY <1>3, <1>4, <1>5, <1>6, <1>7
<1> QED BY <1>8, <1>9 DEF Splits

(* One character more.                                                     *)
LEMMA SplitsMoreOfLine ==
    ASSUME NEW str \in Seq(C), Splits(str), NEW c \in Chars
    PROVE  Splits(Append(str, c))
<1> DEFINE n == Len(str)
           ends == Ends(str)
           more == Append(str, c)
<1>0. c \in C /\ c # NL
  BY TraceReaderAssumption DEF C
<1>1. n \in Nat
  OBVIOUS
<1>2. Last(ends) \in 0..n
  BY LastOfSplits
<1>3. Ends(more) = ends
  BY <1>0, EndsOfMore
<1>4. more \in Seq(C) /\ Len(more) = n + 1 /\ \A i \in 1..n : more[i] = str[i]
  BY <1>0, AppendProperties
<1>5. ends \in Seq(0..n) /\ Len(ends) # 0 /\ Len(ends) \in Nat
  BY LenProperties DEF Splits
<1>6. ends \in Seq(0..(n + 1))
  <2>1. \A i \in 1..Len(ends) : ends[i] \in 0..n
    BY <1>5, ElementOfSeq
  <2>2. ends \in [1..Len(ends) -> 0..n]
    BY <1>5, LenProperties
  <2>3. ends \in [1..Len(ends) -> 0..(n + 1)]
    BY <1>1, <2>1, <2>2
  <2> QED BY <1>5, <2>3
<1>7. Last(ends) # 0 => more[Last(ends)] = NL
  BY <1>2, <1>4 DEF Splits
<1>8. Pieces(more) = Pieces(str)
  <2>1. ASSUME NEW i \in 1..(Len(ends) - 1)
        PROVE  SubSeq(more, ends[i] + 1, ends[i + 1] - 1)
                   = SubSeq(str, ends[i] + 1, ends[i + 1] - 1)
    <3>1. i \in 1..Len(ends) /\ i + 1 \in 1..Len(ends)
      BY <1>5
    <3>2. ends[i] \in 0..n /\ ends[i + 1] \in 0..n
      BY <1>5, <3>1, ElementOfSeq
    <3>3. CASE ends[i + 1] = 0
      <4>1. ends[i + 1] - 1 < ends[i] + 1 /\ ends[i] + 1 \in Int /\ ends[i + 1] - 1 \in Int
        BY <1>1, <3>2, <3>3
      <4> HIDE DEF ends, more
      <4> QED BY <4>1, SubSeqEmpty
    <3>4. CASE ends[i + 1] # 0
      <4>1. ends[i] + 1 \in Nat \ {0} /\ ends[i + 1] - 1 \in 0..Len(str)
        BY <3>2, <3>4, <1>1
      <4> DEFINE a == ends[i] + 1
                 b == ends[i + 1] - 1
      <4>2. a \in Nat \ {0} /\ b \in 0..Len(str)
        BY <4>1
      <4> HIDE DEF a, b
      <4>3. SubSeq(Append(str, c), a, b) = SubSeq(str, a, b)
        BY <4>2, <1>0, CutOfMore
      <4> QED BY <4>3 DEF a, b
    <3> QED BY <3>3, <3>4
  <2> HIDE DEF ends, more
  <2>2. Pieces(more) = [i \in 1..(Len(ends) - 1) |-> SubSeq(more, ends[i] + 1, ends[i + 1] - 1)]
    BY <1>3 DEF Pieces
  <2>3. Pieces(str) = [i \in 1..(Len(ends) - 1) |-> SubSeq(str, ends[i] + 1, ends[i + 1] - 1)]
    BY DEF Pieces, ends
  <2> QED BY <2>1, <2>2, <2>3
<1>9. Rest(more) = Append(Rest(str), c)
  <2>1. Last(ends) + 1 \in 1..(Len(str) + 1)
    BY <1>1, <1>2
  <2>2. SubSeq(more, Last(ends) + 1, n + 1) = Append(SubSeq(str, Last(ends) + 1, n), c)
    BY <1>0, <2>1, RestOfMore
  <2> QED BY <1>3, <1>4, <2>2 DEF Rest
<1>10. Rest(more) \in Seq(Chars)
  BY <1>9, AppendProperties DEF Splits
<1>11. more = LaidOut(Pieces(more)) \o Rest(more)
  <2>1. LaidOut(Pieces(str)) \in Seq(C) /\ Rest(str) \in Seq(C)
    BY LaidOutLines DEF Splits, C
  <2>2. LaidOut(Pieces(str)) \o Append(Rest(str), c)
            = Append(LaidOut(Pieces(str)) \o Rest(str), c)
    BY <1>0, <2>1, ConcatAppend
  <2> QED BY <1>8, <1>9, <2>2 DEF Splits
<1> HIDE DEF more, ends
<1>12. Pieces(more) \in Seq(Seq(Chars))
  BY <1>8 DEF Splits
<1>13. /\ Ends(more) \in Seq(0..Len(more)) /\ Len(Ends(more)) # 0
       /\ Last(Ends(more)) # 0 => more[Last(Ends(more))] = NL
  BY <1>3, <1>4, <1>5, <1>6, <1>7
<1>14. Splits(more)
  BY ONLY <1>10, <1>11, <1>12, <1>13 DEF Splits
<1> QED BY <1>14 DEF more

LEMMA SplitsEndOfLine ==
    ASSUME NEW str \in Seq(C), Splits(str)
    PROVE  Splits(Append(str, NL)) /\ Rest(Append(str, NL)) = <<>>
<1> DEFINE n == Len(str)
           ends == Ends(str)
           last == Last(ends)
           more == Append(str, NL)
<1>0. NL \in C
  BY DEF C
<1>1. n \in Nat
  OBVIOUS
<1>2. last \in 0..n
  BY LastOfSplits
<1>3. Ends(more) = Append(ends, n + 1)
  BY <1>0, EndsOfMore
<1>4. /\ more \in Seq(C) /\ Len(more) = n + 1
      /\ \A i \in 1..n : more[i] = str[i]
      /\ more[n + 1] = NL
  BY <1>0, AppendProperties
<1>5. ends \in Seq(0..n) /\ Len(ends) # 0 /\ Len(ends) \in Nat
  BY LenProperties DEF Splits
<1>6. ends \in Seq(0..(n + 1))
  <2>1. \A i \in 1..Len(ends) : ends[i] \in 0..n
    BY <1>5, ElementOfSeq
  <2>2. ends \in [1..Len(ends) -> 0..n]
    BY <1>5, LenProperties
  <2>3. ends \in [1..Len(ends) -> 0..(n + 1)]
    BY <1>1, <2>1, <2>2
  <2> QED BY <1>5, <2>3
<1>7. /\ Ends(more) \in Seq(0..(n + 1))
      /\ Len(Ends(more)) = Len(ends) + 1
      /\ \A i \in 1..Len(ends) : Ends(more)[i] = ends[i]
      /\ Ends(more)[Len(ends) + 1] = n + 1
  <2>1. n + 1 \in 0..(n + 1)
    BY <1>1
  <2> HIDE DEF ends, more, n
  <2> QED BY <2>1, <1>3, <1>6, AppendProperties
<1>8. Last(Ends(more)) = n + 1
  BY <1>7 DEF Last
<1>9. last = ends[Len(ends)]
  BY DEF Last
<1>10. Rest(more) = <<>>
  <2>1. Rest(more) = SubSeq(more, (n + 1) + 1, n + 1)
    BY <1>4, <1>8 DEF Rest
  <2>2. n + 1 < (n + 1) + 1 /\ (n + 1) + 1 \in Int /\ n + 1 \in Int
    BY <1>1
  <2> HIDE DEF more
  <2> QED BY <2>1, <2>2, SubSeqEmpty
<1>11. Pieces(more) = Append(Pieces(str), Rest(str))
  <2> DEFINE piece(i) == SubSeq(str, ends[i] + 1, ends[i + 1] - 1)
             cut(i) == SubSeq(more, Ends(more)[i] + 1, Ends(more)[i + 1] - 1)
             k == Len(ends)
  <2>1. ASSUME NEW i \in 1..(k - 1)
        PROVE  cut(i) = piece(i)
    <3>1. i \in 1..k /\ i + 1 \in 1..k
      BY <1>5
    <3>2. ends[i] \in 0..n /\ ends[i + 1] \in 0..n
      BY <1>5, <3>1, ElementOfSeq
    <3> DEFINE a == ends[i] + 1
               b == ends[i + 1] - 1
    <3>3. cut(i) = SubSeq(more, a, b)
      BY <1>7, <3>1
    <3>4. a \in Nat \ {0} /\ b \in Int /\ b <= Len(str)
      BY <1>1, <3>2
    <3> HIDE DEF a, b, cut
    <3>5. SubSeq(more, a, b) = SubSeq(str, a, b)
      <4>1. CASE b < a
        BY <4>1, <3>4, SubSeqEmpty
      <4>2. CASE b >= a
        <5>1. b \in 0..Len(str)
          BY <3>4, <4>2
        <5> QED BY <5>1, <3>4, <1>0, CutOfMore
      <4> QED BY <4>1, <4>2, <3>4
    <3> QED BY <3>3, <3>5 DEF a, b
  <2>2. cut(k) = Rest(str)
    <3>1. k \in 1..k
      BY <1>5
    <3>2. cut(k) = SubSeq(more, last + 1, (n + 1) - 1)
      BY <1>7, <1>9, <3>1
    <3>3. (n + 1) - 1 = Len(str)
      BY <1>1
    <3>4. last + 1 \in Nat \ {0} /\ Len(str) \in 0..Len(str)
      BY <1>1, <1>2
    <3> HIDE DEF cut, last
    <3>5. SubSeq(more, last + 1, Len(str)) = SubSeq(str, last + 1, Len(str))
      <4> DEFINE a == last + 1
                 b == Len(str)
      <4>1. a \in Nat \ {0} /\ b \in 0..Len(str)
        BY ONLY <3>4
      <4> HIDE DEF a, b
      <4>2. SubSeq(more, a, b) = SubSeq(str, a, b)
        BY <1>0, <4>1, CutOfMore
      <4> QED BY ONLY <4>2, Zenon DEF a, b
    <3> QED BY <3>2, <3>3, <3>5 DEF Rest, last
  <2>3. Pieces(str) = [i \in 1..(k - 1) |-> piece(i)]
    BY DEF Pieces
  <2>4. Pieces(more) = [i \in 1..(Len(Ends(more)) - 1) |-> cut(i)]
    BY DEF Pieces
  <2>5. Len(Ends(more)) - 1 = k /\ k \in Nat \ {0}
    BY <1>5, <1>7
  <2> HIDE DEF piece, cut, k
  <2>6. Len(Pieces(str)) = k - 1
    BY <2>3, <2>5
  <2> DEFINE all == Append(Pieces(str), Rest(str))
  <2>7. /\ all \in Seq(Seq(Chars)) /\ Len(all) = k
        /\ \A i \in 1..(k - 1) : all[i] = piece(i)
        /\ all[k] = Rest(str)
    <3>1. Pieces(str) \in Seq(Seq(Chars)) /\ Rest(str) \in Seq(Chars)
      BY DEF Splits
    <3>2. \A i \in 1..(k - 1) : Pieces(str)[i] = piece(i)
      BY <2>3
    <3>3. (k - 1) + 1 = k
      BY <2>5
    <3> QED BY <2>6, <3>1, <3>2, <3>3, AppendProperties
  <2> HIDE DEF all
  <2>8. all = [i \in 1..k |-> all[i]]
    BY <2>7, LenProperties
  <2>9. \A i \in 1..k : cut(i) = all[i]
    BY <2>1, <2>2, <2>5, <2>7
  <2>10. Pieces(more) = all
    BY <2>4, <2>5, <2>8, <2>9
  <2> QED BY <2>10 DEF all
<1>12. Pieces(str) \in Seq(Seq(Chars)) /\ Rest(str) \in Seq(Chars)
  BY DEF Splits
<1>13. Pieces(more) \in Seq(Seq(Chars))
  BY <1>11, <1>12, AppendProperties
<1>14. LaidOut(Pieces(more)) = more
  <2>1. <<Rest(str)>> \in Seq(Seq(Chars))
    BY <1>12
  <2>2. Pieces(more) = Pieces(str) \o <<Rest(str)>>
    BY <1>11, <1>12, AppendIsConcat
  <2>3. LaidOut(Pieces(more)) = LaidOut(Pieces(str)) \o LaidOut(<<Rest(str)>>)
    BY <1>12, <2>1, <2>2, LaidOutConcat
  <2>4. LaidOut(<<Rest(str)>>) = Append(Rest(str), NL)
    BY <1>12, LaidOutOne
  <2>5. LaidOut(Pieces(str)) \in Seq(C) /\ Rest(str) \in Seq(C)
    BY <1>12, LaidOutLines DEF C
  <2>6. LaidOut(Pieces(str)) \o Append(Rest(str), NL)
            = Append(LaidOut(Pieces(str)) \o Rest(str), NL)
    BY <1>0, <2>5, ConcatAppend
  <2> QED BY <2>3, <2>4, <2>6 DEF Splits
<1>15. /\ Ends(more) \in Seq(0..Len(more)) /\ Len(Ends(more)) # 0
       /\ more[Last(Ends(more))] = NL
  <2>1. Len(Ends(more)) # 0
    BY <1>5, <1>7
  <2> HIDE DEF more, n
  <2> QED BY <2>1, <1>4, <1>7, <1>8
<1>16. Rest(more) \in Seq(Chars) /\ more = LaidOut(Pieces(more)) \o Rest(more)
  BY <1>4, <1>10, <1>14, EmptySeq, ConcatEmptySeq
<1> HIDE DEF more
<1>17. Splits(more)
  BY ONLY <1>13, <1>15, <1>16 DEF Splits
<1> QED BY <1>10, <1>17 DEF more

LEMMA SplitsEverything ==
    ASSUME NEW str \in Seq(C)
    PROVE  Splits(str)
<1> DEFINE S == { n \in Nat : \A s \in Seq(C) : Len(s) = n => Splits(s) }
<1>1. 0 \in S
  <2>1. \A s \in Seq(C) : Len(s) = 0 => s = <<>>
    OBVIOUS
  <2> QED BY <2>1, SplitsNothing
<1>2. ASSUME NEW n \in Nat, n \in S PROVE n + 1 \in S
  <2>1. ASSUME NEW s \in Seq(C), Len(s) = n + 1 PROVE Splits(s)
    <3> DEFINE before == SubSeq(s, 1, n)
               c == s[n + 1]
    <3>1. before \in Seq(C) /\ Len(before) = n /\ c \in C /\ s = Append(before, c)
      BY <2>1, OneMore
    <3> HIDE DEF before, c
    <3>2. Splits(before)
      BY <1>2, <3>1
    <3>3. CASE c = NL
      BY <3>1, <3>2, <3>3, SplitsEndOfLine
    <3>4. CASE c \in Chars
      BY <3>1, <3>2, <3>4, SplitsMoreOfLine
    <3> QED BY <3>1, <3>3, <3>4 DEF C
  <2> QED BY <2>1
<1>3. Nat \subseteq S
  <2> HIDE DEF S
  <2> QED BY <1>1, <1>2, EveryNumber
<1> QED BY <1>3

(* utils.h:124-128: a string that is no line is left for the next read,    *)
(* but for one character that begins a line.                               *)
LEMMA CarriedIs ==
    ASSUME NEW str \in Seq(C), Len(str) >= 2
    PROVE  LET n == Len(str)
           IN /\ Pieces(str) \in Seq(Seq(Chars))
              /\ Carried(str) \in Seq(Chars)
              /\ str[n] # NL /\ str[n - 1] = NL =>
                    Carried(str) = <<>> /\ str = Append(LaidOut(Pieces(str)), str[n])
              /\ ~(str[n] # NL /\ str[n - 1] = NL) =>
                    str = LaidOut(Pieces(str)) \o Carried(str)
<1> DEFINE n == Len(str)
           last == Last(Ends(str))
<1>1. Splits(str)
  BY SplitsEverything
<1>2. n \in Nat /\ n >= 2 /\ last \in 0..n
  BY <1>1, LastOfSplits
<1>3. Rest(str) = SubSeq(str, last + 1, n)
  BY DEF Rest
<1>4. \A i \in (last + 1)..n : str[i] \in C
  BY <1>2, ElementOfSeq
<1>5. /\ Len(Rest(str)) = n - last
      /\ \A i \in 1..(n - last) : Rest(str)[i] = str[last + i]
  <2> HIDE DEF last, n
  <2>1. /\ Len(Rest(str)) = IF last + 1 <= n THEN n - (last + 1) + 1 ELSE 0
        /\ \A i \in 1..(n - (last + 1) + 1) : Rest(str)[i] = str[last + 1 + i - 1]
    BY <1>2, <1>3, <1>4, SubSeqProperties
  <2> QED BY <1>2, <2>1
<1>6. \A i \in (last + 1)..n : str[i] # NL
  <2>1. ASSUME NEW i \in (last + 1)..n PROVE str[i] # NL
    <3>1. i - last \in 1..(n - last) /\ last + (i - last) = i
      BY <1>2
    <3>2. Rest(str)[i - last] = str[i]
      BY <1>5, <3>1
    <3>3. i - last \in 1..Len(Rest(str)) /\ Rest(str) \in Seq(Chars)
      BY <1>1, <1>5, <3>1 DEF Splits
    <3>4. Rest(str)[i - last] \in Chars
      BY <3>3, ElementOfSeq
    <3> QED BY <3>2, <3>4, TraceReaderAssumption
  <2> QED BY <2>1
<1>7. last # 0 => str[last] = NL
  BY <1>1 DEF Splits
<1>8. Carried(str) = IF last < n - 1 THEN Rest(str) ELSE <<>>
  BY DEF Carried, Rest
<1>9. /\ Pieces(str) \in Seq(Seq(Chars)) /\ Rest(str) \in Seq(Chars)
      /\ str = LaidOut(Pieces(str)) \o Rest(str)
  BY <1>1 DEF Splits
<1>10. <<>> \in Seq(Chars)
  BY EmptySeq
<1> HIDE DEF last
<1>11. CASE last < n - 1
  <2>1. str[n - 1] # NL
    BY <1>2, <1>6, <1>11
  <2> QED BY <1>8, <1>9, <1>11, <2>1
<1>12. CASE last = n - 1
  <2>1. str[n] # NL /\ str[n - 1] = NL
    BY <1>2, <1>6, <1>7, <1>12
  <2>2. Carried(str) = <<>>
    BY <1>2, <1>8, <1>12
  <2>3. Rest(str) = <<str[n]>>
    <3>1. Len(Rest(str)) = 1 /\ Rest(str)[1] = str[n]
      BY <1>2, <1>5, <1>12
    <3> QED BY <1>9, <3>1
  <2>4. LaidOut(Pieces(str)) \in Seq(C) /\ str[n] \in C
    BY <1>2, <1>9, LaidOutLines, ElementOfSeq
  <2>5. LaidOut(Pieces(str)) \o <<str[n]>> = Append(LaidOut(Pieces(str)), str[n])
    BY <2>4, AppendIsConcat
  <2> QED BY <1>9, <1>10, <2>1, <2>2, <2>3, <2>5
<1>13. CASE last = n
  <2>1. str[n] = NL
    BY <1>2, <1>7, <1>13
  <2>2. Carried(str) = <<>>
    BY <1>2, <1>8, <1>13
  <2>3. Rest(str) = <<>>
    BY <1>2, <1>5, <1>9, <1>13, EmptySeq
  <2> QED BY <1>9, <1>10, <2>1, <2>2, <2>3
<1> QED BY <1>2, <1>11, <1>12, <1>13

LEMMA CarriedAtTheEnd ==
    ASSUME NEW s \in Seq(C)
    PROVE  LET str == Append(s, NL)
           IN /\ Pieces(str) \in Seq(Seq(Chars))
              /\ Carried(str) = <<>>
              /\ str = LaidOut(Pieces(str))
<1> DEFINE str == Append(s, NL)
<1>1. str \in Seq(C)
  BY AppendProperties DEF C
<1>2. Splits(str) /\ Rest(str) = <<>>
  BY SplitsEverything, SplitsEndOfLine
<1>3. Carried(str) = <<>>
  BY <1>2 DEF Carried, Rest
<1>4. Pieces(str) \in Seq(Seq(Chars)) /\ str = LaidOut(Pieces(str)) \o <<>>
  BY <1>2 DEF Splits
<1> HIDE DEF str
<1>5. LaidOut(Pieces(str)) \o <<>> = LaidOut(Pieces(str))
  BY <1>4, LaidOutLines, ConcatEmptySeq
<1>6. Pieces(str) \in Seq(Seq(Chars)) /\ Carried(str) = <<>> /\ str = LaidOut(Pieces(str))
  BY <1>3, <1>4, <1>5
<1> QED BY <1>6 DEF str

-----------------------------------------------------------------------------
(* TraceReader: all reads *)

LEMMA KeptMore ==
    ASSUME text \in Seq(C), NEW n \in Nat, n < Len(text)
    PROVE  /\ Kept(n) \in Seq(C)
           /\ Kept(n + 1) = IF Lone(n + 1) THEN Kept(n) ELSE Append(Kept(n), text[n + 1])
<1> DEFINE kept(k) == IF Lone(k) THEN <<>> ELSE <<text[k]>>
           seqs(l) == [k \in 1..l |-> kept(k)]
<1>1. ASSUME NEW k \in 1..(n + 1) PROVE kept(k) \in Seq(C)
  <2>1. k \in 1..Len(text)
    BY <1>1
  <2>2. text[k] \in C
    BY <2>1, ElementOfSeq
  <2>3. <<>> \in Seq(C) /\ <<text[k]>> \in Seq(C)
    BY <2>2, EmptySeq
  <2> QED BY <2>3
<1>2. \A l : Kept(l) = FlattenSeq(seqs(l))
  BY DEF Kept
<1>3. text[n + 1] \in C
  BY ElementOfSeq
<1>4. kept(n + 1) = IF Lone(n + 1) THEN <<>> ELSE <<text[n + 1]>>
  OBVIOUS
<1> HIDE DEF kept
<1>5. seqs(n) \in Seq(Seq(C)) /\ seqs(n + 1) = Append(seqs(n), kept(n + 1))
  <2>1. seqs(n) \in [1..n -> Seq(C)]
    BY <1>1
  <2>2. seqs(n) \in Seq(Seq(C)) /\ Len(seqs(n)) = n
    BY <2>1
  <2>3. seqs(n + 1) = Append(seqs(n), kept(n + 1))
    BY <2>2
  <2> QED BY <2>2, <2>3
<1> HIDE DEF seqs
<1>6. Kept(n) \in Seq(C)
  BY <1>2, <1>5, FlattenType
<1>7. Kept(n + 1) = Kept(n) \o kept(n + 1)
  <2>1. kept(n + 1) \in Seq(C)
    BY <1>1
  <2> QED BY <1>2, <1>5, <2>1, FlattenAppend
<1>8. CASE Lone(n + 1)
  BY <1>4, <1>6, <1>7, <1>8, ConcatEmptySeq
<1>9. CASE ~Lone(n + 1)
  BY <1>3, <1>4, <1>6, <1>7, <1>9, AppendIsConcat
<1> QED BY <1>6, <1>8, <1>9

LEMMA KeptNothing == Kept(0) = <<>>
<1> DEFINE kept(k) == IF Lone(k) THEN <<>> ELSE <<text[k]>>
<1>1. Kept(0) = FlattenSeq([k \in 1..0 |-> kept(k)])
  BY DEF Kept
<1> HIDE DEF kept
<1>2. [k \in 1..0 |-> kept(k)] = <<>>
  OBVIOUS
<1> QED BY <1>1, <1>2, FlattenEmpty

(* A stretch of the trace in which no character is dropped.                *)
LEMMA KeptRun ==
    ASSUME text \in Seq(C), NEW a \in Nat, NEW b \in Nat, a <= b, b <= Len(text),
           \A k \in (a + 1)..b : ~Lone(k), Kept(a) \in Seq(C)
    PROVE  /\ Kept(b) = Kept(a) \o SubSeq(text, a + 1, b)
           /\ Kept(b) \in Seq(C)
<1> DEFINE Run(n) == Kept(a + n) = Kept(a) \o SubSeq(text, a + 1, a + n)
                     /\ Kept(a + n) \in Seq(C)
           S == { n \in Nat : a + n <= b => Run(n) }
<1>1. Run(0)
  <2>1. SubSeq(text, a + 1, a + 0) = <<>>
    BY SubSeqEmpty
  <2>2. a + 0 = a
    OBVIOUS
  <2> QED BY <2>1, <2>2, ConcatEmptySeq
<1>2. ASSUME NEW n \in Nat, a + (n + 1) <= b, Run(n) PROVE Run(n + 1)
  <2> DEFINE i == a + n
  <2>1. /\ i \in Nat /\ i < b /\ i + 1 = a + (n + 1) /\ i < Len(text)
        /\ i + 1 \in (a + 1)..b /\ i + 1 \in 1..Len(text) /\ a + 1 \in 1..Len(text)
        /\ i + 1 \in (a + 1)..Len(text) /\ (i + 1) - 1 = i
    BY <1>2
  <2>3. Kept(i + 1) = Append(Kept(i), text[i + 1])
    BY <2>1, KeptMore
  <2>4. SubSeq(text, a + 1, i + 1) = SubSeq(text, a + 1, i) \o <<text[i + 1]>>
    <3>1. SubSeq(text, a + 1, i + 1) = SubSeq(text, a + 1, (i + 1) - 1) \o <<text[i + 1]>>
      BY <2>1, SubSeqRecursiveSecond
    <3> QED BY <2>1, <3>1
  <2>5. text[i + 1] \in C /\ \A k \in (a + 1)..i : text[k] \in C
    BY <2>1, ElementOfSeq
  <2>6. SubSeq(text, a + 1, i) \in Seq(C)
    BY <2>1, <2>5, SubSeqProperties
  <2> HIDE DEF i
  <2>7. SubSeq(text, a + 1, i + 1) = Append(SubSeq(text, a + 1, i), text[i + 1])
    BY <2>4, <2>5, <2>6, AppendIsConcat
  <2>8. Kept(i) = Kept(a) \o SubSeq(text, a + 1, i) /\ Kept(i) \in Seq(C)
    BY <1>2 DEF i
  <2>9. Kept(i + 1) = Kept(a) \o SubSeq(text, a + 1, i + 1)
    <3>1. Kept(a) \o Append(SubSeq(text, a + 1, i), text[i + 1])
              = Append(Kept(a) \o SubSeq(text, a + 1, i), text[i + 1])
      <4> DEFINE s == Kept(a)
                 run == SubSeq(text, a + 1, i)
                 c == text[i + 1]
      <4>1. s \in Seq(C) /\ run \in Seq(C) /\ c \in C
        BY <2>5, <2>6
      <4> HIDE DEF s, run, c
      <4>2. s \o Append(run, c) = Append(s \o run, c)
        BY <4>1, ConcatAppend
      <4> QED BY <4>2 DEF s, run, c
    <3> QED BY <2>3, <2>7, <2>8, <3>1
  <2>10. Kept(i + 1) \in Seq(C)
    <3> DEFINE s == Kept(i)
               c == text[i + 1]
    <3>1. s \in Seq(C) /\ c \in C
      BY <2>5, <2>8
    <3> HIDE DEF s, c
    <3>2. Append(s, c) \in Seq(C)
      BY ONLY <3>1, AppendProperties
    <3> QED BY <2>3, <3>2 DEF s, c
  <2> QED BY <2>1, <2>9, <2>10
<1> HIDE DEF Run
<1>3. \A n \in Nat : n \in S => n + 1 \in S
  BY <1>2
<1>4. 0 \in S
  BY <1>1
<1>5. b - a \in Nat /\ a + (b - a) = b
  OBVIOUS
<1>6. Nat \subseteq S
  <2> HIDE DEF S
  <2> QED BY <1>3, <1>4, EveryNumber
<1>7. Run(b - a)
  BY <1>5, <1>6
<1> QED BY <1>5, <1>7 DEF Run

(* sensor.h:148: in what a read takes only its last character may be one   *)
(* that is dropped.                                                        *)
LEMMA LoneOnlyLast ==
    ASSUME NEW n \in Nat, n % BufferSize = 0
    PROVE  /\ (n + BufferSize) % BufferSize = 0
           /\ \A k \in (n + 1)..(n + BufferSize - 1) : ~Lone(k)
<1> DEFINE b == BufferSize
           x == n \div b
<1>0. b \in Nat \ {0} /\ b >= 2
  BY TraceReaderAssumption
<1>1. x \in Int /\ n = b * x
  <2>1. x \in Int /\ n = b * x + (n % b)
    BY <1>0, DivMod
  <2>2. b * x \in Int
    BY <1>0, <2>1
  <2> QED BY <2>1, <2>2
<1> HIDE DEF b, x
<1>2. (n + b) % b = 0
  <2>1. n + b = b * (x + 1) + 0
    BY <1>0, <1>1
  <2>2. x + 1 \in Int /\ 0 \in 0..(b - 1) /\ n + b \in Nat
    BY <1>0, <1>1
  <2> QED BY <1>0, <2>1, <2>2, RemainderIs
<1>3. ASSUME NEW k \in (n + 1)..(n + b - 1) PROVE ~Lone(k)
  <2>1. k \in Nat /\ k - n \in 0..(b - 1) /\ k - n # 0 /\ k = b * x + (k - n)
    BY <1>0, <1>1
  <2> DEFINE r == k - n
  <2>2. k % b = r
    <3>1. r \in 0..(b - 1) /\ k = b * x + r
      BY <2>1
    <3> HIDE DEF r
    <3> QED BY <1>0, <1>1, <2>1, <3>1, RemainderIs
  <2> QED BY <2>1, <2>2 DEF Lone, b
<1> QED BY <1>2, <1>3 DEF b

LEMMA KeptType ==
    ASSUME text \in Seq(C), NEW n \in 0..Len(text)
    PROVE  Kept(n) \in Seq(C)
<1>1. CASE n = 0
  BY <1>1, KeptNothing, EmptySeq
<1>2. CASE n # 0
  <2> DEFINE before == n - 1
  <2>1. before \in Nat /\ before < Len(text) /\ n = before + 1 /\ n \in 1..Len(text)
    BY <1>2
  <2>2. text[n] \in C
    BY <2>1, ElementOfSeq
  <2> HIDE DEF before
  <2>3. /\ Kept(before) \in Seq(C)
        /\ Kept(n) = IF Lone(n) THEN Kept(before) ELSE Append(Kept(before), text[n])
    BY <2>1, KeptMore
  <2> QED BY <2>2, <2>3, AppendProperties
<1> QED BY <1>1, <1>2

LEMMA AppendCancels ==
    ASSUME NEW V, NEW s \in Seq(V), NEW t \in Seq(V), NEW c \in V,
           Append(s, c) = Append(t, c)
    PROVE  s = t
<1>1. /\ Len(Append(s, c)) = Len(s) + 1 /\ Len(Append(t, c)) = Len(t) + 1
      /\ \A i \in 1..Len(s) : Append(s, c)[i] = s[i]
      /\ \A i \in 1..Len(t) : Append(t, c)[i] = t[i]
  BY AppendProperties
<1>2. Len(s) = Len(t)
  <2>1. Len(s) \in Nat /\ Len(t) \in Nat
    OBVIOUS
  <2> QED BY <1>1, <2>1
<1> QED BY <1>1, <1>2, SeqEqual

(* The strengthening: until the trace ends a read fills the buffer.        *)
ReaderInv ==
    /\ ReaderTypeOK
    /\ ~eof => taken % BufferSize = 0
    /\ LinesOfTheTrace

LEMMA InitReaderInv == ReaderInit => ReaderInv
<1> SUFFICES ASSUME ReaderInit PROVE ReaderInv
  OBVIOUS
<1>1. text \in Seq(C)
  <2>1. PICK n \in 0..MaxText : text \in [1..n -> C]
    BY DEF ReaderInit, BoundedSeq, SeqOf, C
  <2>2. n \in Nat
    BY TraceReaderAssumption
  <2> QED BY <2>1, <2>2
<1>2. <<>> \in Seq(Chars) /\ <<>> \in Seq(Seq(Chars))
  BY EmptySeq
<1>3. ReaderTypeOK
  <2>1. Len(text) \in Nat
    BY <1>1, LenProperties
  <2>2. taken \in 0..Len(text)
    BY <2>1 DEF ReaderInit
  <2> QED BY <1>1, <1>2, <2>2 DEF ReaderInit, ReaderTypeOK, C
<1>4. taken % BufferSize = 0
  <2>1. BufferSize \in Nat \ {0} /\ 0 = BufferSize * 0 + 0 /\ 0 \in 0..(BufferSize - 1)
    BY TraceReaderAssumption
  <2>2. 0 % BufferSize = 0
    BY <2>1, RemainderIs
  <2> QED BY <2>2 DEF ReaderInit
<1>5. LinesOfTheTrace
  <2>1. [i \in 1..Len(<<>>) |-> Append(<<>>[i], NL)] = <<>>
    OBVIOUS
  <2>2. FlattenSeq([i \in 1..Len(lines) |-> Append(lines[i], NL)]) = <<>>
    BY <2>1, FlattenEmpty DEF ReaderInit
  <2>3. Kept(taken) = <<>> /\ ~eof /\ last_line = <<>>
    BY KeptNothing DEF ReaderInit
  <2> QED BY <2>2, <2>3 DEF LinesOfTheTrace
<1> QED BY <1>3, <1>4, <1>5 DEF ReaderInv

(* What a read adds to the lines is what it takes of the trace.            *)
LEMMA ReadAddsWhatItTakes ==
    ASSUME ReaderInv, Read
    PROVE  /\ last_line' \in Seq(Chars)
           /\ lines' \in Seq(Seq(Chars))
           /\ LaidOut(lines') \o last_line'
                  = Kept(taken') \o (IF eof' THEN <<NL>> ELSE <<>>)
<1> DEFINE chunk == SubSeq(text, taken + 1, taken')
           all == last_line \o chunk
           str == all \o (IF eof' THEN <<NL>> ELSE <<>>)
           laid == LaidOut(lines)
<1>1. /\ text \in Seq(C) /\ Len(text) \in Nat
      /\ taken \in Nat /\ taken <= Len(text)
      /\ last_line \in Seq(Chars) /\ last_line \in Seq(C)
      /\ lines \in Seq(Seq(Chars))
  <2>1. text \in Seq(C) /\ taken \in 0..Len(text)
    BY DEF ReaderInv, ReaderTypeOK, C
  <2>2. last_line \in Seq(Chars) /\ lines \in Seq(Seq(Chars))
    BY DEF ReaderInv, ReaderTypeOK
  <2>3. last_line \in Seq(C)
    BY <2>2 DEF C
  <2> QED BY <2>1, <2>2, <2>3, LenProperties
<1>2. BufferSize \in Nat /\ BufferSize >= 2
  BY TraceReaderAssumption
<1>3. /\ ~eof
      /\ eof' = (taken + BufferSize > Len(text))
      /\ taken' = IF eof' THEN Len(text) ELSE taken + BufferSize
  BY DEF Read
<1>4. lines' = lines \o Pieces(str) /\ last_line' = Carried(str)
  BY DEF Read
<1>5. /\ taken' \in Nat /\ taken <= taken' /\ taken' <= Len(text)
      /\ eof' => taken' < taken + BufferSize
      /\ ~eof' => taken' = taken + BufferSize
  <2>1. CASE taken + BufferSize > Len(text)
    <3>1. eof' /\ taken' = Len(text)
      BY <1>3, <2>1
    <3> QED BY <1>1, <1>2, <2>1, <3>1
  <2>2. CASE ~(taken + BufferSize > Len(text))
    <3>1. ~eof' /\ taken' = taken + BufferSize
      BY <1>3, <2>2
    <3> QED BY <1>1, <1>2, <2>2, <3>1
  <2> QED BY <2>1, <2>2
<1>6. /\ (taken + BufferSize) % BufferSize = 0
      /\ \A k \in (taken + 1)..(taken + BufferSize - 1) : ~Lone(k)
  BY <1>1, <1>3, LoneOnlyLast DEF ReaderInv
<1>7. laid \in Seq(C) /\ Kept(taken) \in Seq(C) /\ laid \o last_line = Kept(taken)
  <2>1. laid \in Seq(C)
    BY <1>1, LaidOutLines
  <2>2. Kept(taken) \in Seq(C)
    BY <1>1, KeptType
  <2>3. laid \o last_line = Kept(taken) \o <<>>
    BY <1>3 DEF ReaderInv, LinesOfTheTrace, LaidOut
  <2>4. Kept(taken) \o <<>> = Kept(taken)
    BY <2>2, ConcatEmptySeq
  <2> QED BY <2>1, <2>2, <2>3, <2>4
<1>9. /\ chunk \in Seq(C) /\ Len(chunk) = taken' - taken
      /\ \A i \in 1..(taken' - taken) : chunk[i] = text[taken + i]
  <2> DEFINE a == taken
             b == taken'
  <2>1. text \in Seq(C) /\ a \in Nat /\ b \in Nat /\ a <= b /\ b <= Len(text)
    BY <1>1, <1>5
  <2> HIDE DEF a, b
  <2>2. /\ SubSeq(text, a + 1, b) \in Seq(C)
        /\ Len(SubSeq(text, a + 1, b)) = b - a
        /\ \A i \in 1..(b - a) : SubSeq(text, a + 1, b)[i] = text[a + i]
    BY ONLY <2>1, Between
  <2> QED BY ONLY <2>2 DEF a, b, chunk
<1>10. /\ all \in Seq(C) /\ Len(all) = Len(last_line) + Len(chunk)
       /\ \A i \in 1..(Len(last_line) + Len(chunk)) :
             all[i] = IF i <= Len(last_line) THEN last_line[i] ELSE chunk[i - Len(last_line)]
  <2>1. last_line \in Seq(C) /\ chunk \in Seq(C)
    BY <1>1, <1>9
  <2> HIDE DEF chunk
  <2> QED BY ONLY <2>1, ConcatProperties DEF all
<1>11. laid \o all = Kept(taken) \o chunk
  <2> HIDE DEF chunk, laid
  <2>0. laid \in Seq(C) /\ last_line \in Seq(C) /\ chunk \in Seq(C)
    BY <1>1, <1>7, <1>9
  <2>1. Assoc(laid, last_line, chunk)
    BY ONLY <2>0, Associates
  <2> QED BY ONLY <1>7, <2>1 DEF Assoc, all
<1>12. Kept(taken') \in Seq(C)
  BY <1>1, <1>5, KeptType
<1>13. CASE eof'
  <2>1. str = Append(all, NL)
    <3>1. NL \in C
      BY DEF C
    <3> HIDE DEF all
    <3> QED BY <1>10, <1>13, <3>1, AppendIsConcat
  <2>2. Pieces(str) \in Seq(Seq(Chars)) /\ Carried(str) = <<>> /\ str = LaidOut(Pieces(str))
    <3> HIDE DEF all
    <3>1. /\ Pieces(Append(all, NL)) \in Seq(Seq(Chars))
          /\ Carried(Append(all, NL)) = <<>>
          /\ Append(all, NL) = LaidOut(Pieces(Append(all, NL)))
      BY <1>10, CarriedAtTheEnd
    <3> QED BY <2>1, <3>1
  <2>3. Kept(taken') = Kept(taken) \o chunk
    <3>1. \A k \in (taken + 1)..taken' : ~Lone(k)
      BY <1>1, <1>2, <1>5, <1>6, <1>13
    <3> QED BY <1>1, <1>5, <1>7, <3>1, KeptRun
  <2>4. lines' \in Seq(Seq(Chars)) /\ LaidOut(lines') = laid \o LaidOut(Pieces(str))
    <3> HIDE DEF str
    <3> QED BY <1>1, <1>4, <2>2, LaidOutConcat, ConcatProperties
  <2>5. laid \o Append(all, NL) = Append(laid \o all, NL)
    <3>1. NL \in C
      BY DEF C
    <3> HIDE DEF all, laid
    <3> QED BY <1>7, <1>10, <3>1, ConcatAppend
  <2>6. LaidOut(lines') = Append(Kept(taken'), NL)
    <3> HIDE DEF all, laid, str, chunk
    <3> QED BY <1>11, <2>1, <2>2, <2>3, <2>4, <2>5
  <2>7. LaidOut(lines') \in Seq(C)
    BY <2>4, LaidOutLines
  <2>8. LaidOut(lines') \o <<>> = LaidOut(lines')
    BY <2>7, ConcatEmptySeq
  <2>9. Append(Kept(taken'), NL) = Kept(taken') \o <<NL>>
    BY <1>12, AppendIsConcat DEF C
  <2>10. last_line' = <<>>
    BY <1>4, <2>2
  <2>11. last_line' \in Seq(Chars)
    BY <2>10, EmptySeq
  <2> HIDE DEF all, laid, str, chunk
  <2> QED BY <1>13, <2>4, <2>6, <2>8, <2>9, <2>10, <2>11
<1>14. CASE ~eof'
  <2> DEFINE n == Len(all)
             x == text[taken']
             before == text[taken' - 1]
  <2>0. /\ taken' - 1 \in Nat /\ taken <= taken' - 1 /\ taken' - 1 < Len(text) /\ taken' - 1 <= Len(text)
        /\ (taken' - 1) + 1 = taken'
    BY <1>1, <1>2, <1>5, <1>14
  <2>1. str = all
    <3> HIDE DEF all
    <3> QED BY <1>10, <1>14, ConcatEmptySeq
  <2>2. /\ n \in Nat /\ n >= 2 /\ all[n] = x /\ all[n - 1] = before
        /\ taken' \in 1..Len(text) /\ taken' - 1 \in Nat /\ x \in C
    <3>1. Len(last_line) \in Nat /\ Len(chunk) = BufferSize /\ taken' - taken = BufferSize
      BY <1>1, <1>2, <1>5, <1>9, <1>14
    <3>2. chunk[BufferSize] = x /\ chunk[BufferSize - 1] = before
      <4>1. BufferSize \in 1..(taken' - taken) /\ BufferSize - 1 \in 1..(taken' - taken)
        BY <1>2, <3>1
      <4>2. taken + BufferSize = taken' /\ taken + (BufferSize - 1) = taken' - 1
        BY <1>1, <1>2, <1>5, <1>14
      <4> HIDE DEF chunk
      <4> QED BY <1>9, <4>1, <4>2
    <3>3. taken' \in 1..Len(text) /\ taken' - 1 \in Nat
      BY <1>1, <1>2, <1>5, <1>14
    <3>4. x \in C
      BY <1>1, <3>3, ElementOfSeq
    <3> HIDE DEF chunk, all, x, before
    <3>5. n = Len(last_line) + BufferSize
      BY <1>10, <3>1
    <3>6. all[n] = chunk[BufferSize] /\ all[n - 1] = chunk[BufferSize - 1]
      <4>1. n \in 1..(Len(last_line) + Len(chunk)) /\ n - 1 \in 1..(Len(last_line) + Len(chunk))
        BY <1>2, <3>1, <3>5
      <4>2. /\ ~(n <= Len(last_line)) /\ n - Len(last_line) = BufferSize
            /\ ~(n - 1 <= Len(last_line)) /\ n - 1 - Len(last_line) = BufferSize - 1
        BY <1>2, <3>1, <3>5
      <4> QED BY <1>10, <4>1, <4>2
    <3>7. n \in Nat /\ n >= 2
      BY <1>2, <3>1, <3>5
    <3> QED BY <3>2, <3>3, <3>4, <3>6, <3>7
  <2>3. Lone(taken') <=> x # NL /\ before = NL
    <3>1. taken' % BufferSize = 0 /\ taken' # 1
      BY <1>1, <1>2, <1>5, <1>6, <1>14
    <3> QED BY <3>1 DEF Lone
  <2>4. /\ Pieces(all) \in Seq(Seq(Chars))
        /\ Carried(all) \in Seq(Chars)
        /\ x # NL /\ before = NL =>
              Carried(all) = <<>> /\ all = Append(LaidOut(Pieces(all)), x)
        /\ ~(x # NL /\ before = NL) =>
              all = LaidOut(Pieces(all)) \o Carried(all)
    <3> HIDE DEF all, x, before
    <3> QED BY <1>10, <2>2, CarriedIs
  <2>5. lines' \in Seq(Seq(Chars)) /\ LaidOut(lines') = laid \o LaidOut(Pieces(all))
    <3> HIDE DEF all, str
    <3> QED BY <1>1, <1>4, <2>1, <2>4, LaidOutConcat, ConcatProperties
  <2>6. last_line' = Carried(all)
    BY <1>4, <2>1
  <2>7. LaidOut(Pieces(all)) \in Seq(C) /\ Carried(all) \in Seq(C)
    <3>1. Carried(all) \in Seq(C)
      <4> HIDE DEF all
      <4> QED BY <2>4 DEF C
    <3>2. LaidOut(Pieces(all)) \in Seq(C)
      <4> HIDE DEF all
      <4> QED BY <2>4, LaidOutLines
    <3> QED BY <3>1, <3>2
  <2>8. LaidOut(lines') \o last_line' = laid \o (LaidOut(Pieces(all)) \o Carried(all))
    <3> DEFINE whole == LaidOut(Pieces(all))
               open == Carried(all)
    <3>1. laid \in Seq(C) /\ whole \in Seq(C) /\ open \in Seq(C)
      BY <1>7, <2>7
    <3>2. LaidOut(lines') \o last_line' = (laid \o whole) \o open
      BY <2>5, <2>6
    <3> HIDE DEF laid, whole, open
    <3>3. Assoc(laid, whole, open)
      BY ONLY <3>1, Associates
    <3> QED BY ONLY <3>2, <3>3 DEF Assoc, whole, open
  <2>9. Kept(taken') \o <<>> = Kept(taken')
    BY <1>12, ConcatEmptySeq
  <2>10. LaidOut(lines') \o last_line' = Kept(taken')
    <3>1. CASE Lone(taken')
      <4> DEFINE run == SubSeq(text, taken + 1, taken' - 1)
      <4>1. Kept(taken') = Kept(taken' - 1)
        <5> DEFINE k == taken' - 1
        <5>1. k \in Nat /\ k < Len(text) /\ k + 1 = taken'
          BY <2>0
        <5> HIDE DEF k
        <5>2. Kept(k + 1) = Kept(k)
          BY <1>1, <3>1, <5>1, KeptMore
        <5> QED BY <5>1, <5>2 DEF k
      <4>2. Kept(taken' - 1) = Kept(taken) \o run
        <5> DEFINE k == taken' - 1
        <5>1. k \in Nat /\ taken <= k /\ k <= Len(text)
          BY <1>1, <1>2, <1>5, <1>14
        <5>2. ASSUME NEW i \in (taken + 1)..k PROVE ~Lone(i)
          <6>1. i \in (taken + 1)..(taken + BufferSize - 1)
            BY <1>1, <1>2, <1>5, <1>14
          <6> QED BY <1>6, <6>1
        <5> HIDE DEF k
        <5>3. Kept(k) = Kept(taken) \o SubSeq(text, taken + 1, k)
          BY <1>1, <1>7, <5>1, <5>2, KeptRun
        <5> QED BY <5>3 DEF k
      <4>3. run \in Seq(C) /\ chunk = Append(run, x)
        <5>1. taken + 1 \in 1..Len(text) /\ taken' \in (taken + 1)..Len(text)
          BY <1>1, <1>2, <1>5, <1>14
        <5>2. chunk = run \o <<x>>
          BY <1>1, <5>1, SubSeqRecursiveSecond
        <5>3. run \in Seq(C)
          <6> DEFINE b == taken' - 1
          <6>1. b \in Nat /\ taken <= b /\ b <= Len(text)
            BY <2>0
          <6> HIDE DEF b
          <6>2. SubSeq(text, taken + 1, b) \in Seq(C)
            BY <1>1, <6>1, Between
          <6> QED BY <6>2 DEF b
        <5> HIDE DEF chunk, run, x
        <5> QED BY <2>2, <5>2, <5>3, AppendIsConcat
      <4> HIDE DEF chunk, run, x, before, laid
      <4>4. all = Append(last_line \o run, x) /\ last_line \o run \in Seq(C)
        <5>1. last_line \in Seq(C) /\ run \in Seq(C) /\ x \in C
          BY <1>1, <2>2, <4>3
        <5>2. last_line \o Append(run, x) = Append(last_line \o run, x)
          BY ONLY <5>1, ConcatAppend
        <5>3. last_line \o run \in Seq(C)
          BY ONLY <5>1, ConcatProperties
        <5>4. all = last_line \o Append(run, x)
          BY ONLY <4>3 DEF all
        <5> QED BY ONLY <5>2, <5>3, <5>4
      <4> HIDE DEF all
      <4>5. Carried(all) = <<>> /\ all = Append(LaidOut(Pieces(all)), x)
        BY <2>3, <2>4, <3>1
      <4>6. LaidOut(Pieces(all)) = last_line \o run
        BY <2>2, <2>7, <4>4, <4>5, AppendCancels
      <4>7. laid \o (last_line \o run) = Kept(taken) \o run
        <5>1. laid \in Seq(C) /\ last_line \in Seq(C) /\ run \in Seq(C)
          BY <1>1, <1>7, <4>3
        <5>2. Assoc(laid, last_line, run)
          BY ONLY <5>1, Associates
        <5> QED BY ONLY <1>7, <5>2 DEF Assoc
      <4>8. LaidOut(Pieces(all)) \o <<>> = LaidOut(Pieces(all))
        BY <2>7, ConcatEmptySeq
      <4> QED BY <2>8, <4>1, <4>2, <4>5, <4>6, <4>7, <4>8
    <3>2. CASE ~Lone(taken')
      <4>1. ASSUME NEW k \in (taken + 1)..taken' PROVE ~Lone(k)
        <5>1. k = taken' \/ k \in (taken + 1)..(taken + BufferSize - 1)
          BY <1>1, <1>2, <1>5, <1>14
        <5> QED BY <1>6, <3>2, <5>1
      <4>2. Kept(taken') = Kept(taken) \o chunk
        BY <1>1, <1>5, <1>7, <4>1, KeptRun
      <4> HIDE DEF chunk, x, before, laid, all
      <4> QED BY <1>11, <2>3, <2>4, <2>8, <3>2, <4>2
    <3> QED BY <3>1, <3>2
  <2> HIDE DEF all, laid, str, chunk
  <2> QED BY <1>14, <2>4, <2>5, <2>6, <2>9, <2>10
<1> QED BY <1>13, <1>14

LEMMA NextReaderInv == ReaderInv /\ [ReaderNext]_readerVars => ReaderInv'
<1> SUFFICES ASSUME ReaderInv, [ReaderNext]_readerVars PROVE ReaderInv'
  OBVIOUS
<1>1. CASE Read
  <2>1. /\ last_line' \in Seq(Chars)
        /\ lines' \in Seq(Seq(Chars))
        /\ LaidOut(lines') \o last_line'
               = Kept(taken') \o (IF eof' THEN <<NL>> ELSE <<>>)
    BY <1>1, ReadAddsWhatItTakes
  <2>2. /\ ~eof /\ text' = text
        /\ eof' = (taken + BufferSize > Len(text))
        /\ taken' = IF eof' THEN Len(text) ELSE taken + BufferSize
    BY <1>1 DEF Read
  <2>3. /\ text \in Seq(C) /\ Len(text) \in Nat
        /\ taken \in Nat /\ taken <= Len(text) /\ BufferSize \in Nat \ {0}
    <3>1. text \in Seq(C) /\ taken \in 0..Len(text)
      BY DEF ReaderInv, ReaderTypeOK, C
    <3> QED BY <3>1, LenProperties, TraceReaderAssumption
  <2>4. ReaderTypeOK'
    <3>1. text' \in Seq(Chars \cup {NL})
      BY <2>2, <2>3 DEF C
    <3>2. taken' \in 0..Len(text')
      <4>1. CASE taken + BufferSize > Len(text)
        <5>1. taken' = Len(text) /\ text' = text
          BY <2>2, <4>1
        <5> QED BY <2>3, <5>1
      <4>2. CASE ~(taken + BufferSize > Len(text))
        <5>1. taken' = taken + BufferSize /\ text' = text
          BY <2>2, <4>2
        <5> QED BY <2>3, <4>2, <5>1
      <4> QED BY <4>1, <4>2
    <3>3. eof' \in BOOLEAN
      BY <2>2
    <3> QED BY <2>1, <3>1, <3>2, <3>3 DEF ReaderTypeOK
  <2>5. ~eof' => taken' % BufferSize = 0
    BY <2>2, <2>3, LoneOnlyLast DEF ReaderInv
  <2>6. Kept(taken)' = Kept(taken')
    BY <2>2 DEF Kept, Lone
  <2>7. LinesOfTheTrace'
    BY <2>1, <2>6 DEF LinesOfTheTrace, LaidOut
  <2> QED BY <2>4, <2>5, <2>7 DEF ReaderInv
<1>2. CASE UNCHANGED readerVars
  BY <1>2 DEF ReaderInv, ReaderTypeOK, LinesOfTheTrace, Kept, Lone, readerVars
<1> QED BY <1>1, <1>2 DEF ReaderNext

LEMMA ReaderInvariant == ReaderSpec => []ReaderInv
BY InitReaderInv, NextReaderInv, PTL DEF ReaderSpec

(* sensor.h:139-154: no line holds the end of a line, whatever the reads   *)
(* cut.                                                                    *)
THEOREM ReaderTypeCorrect == ReaderSpec => []ReaderTypeOK
<1>1. ReaderInv => ReaderTypeOK
  BY DEF ReaderInv
<1> QED BY <1>1, ReaderInvariant, PTL

(* sensor.h:143-154, utils.h:109-130: for any trace and any size of the    *)
(* buffer the lines are those of the trace, but for a character that fills *)
(* the buffer and begins a line.                                           *)
THEOREM LinesAreOfTheTrace == ReaderSpec => []LinesOfTheTrace
<1>1. ReaderInv => LinesOfTheTrace
  BY DEF ReaderInv
<1> QED BY <1>1, ReaderInvariant, PTL

-----------------------------------------------------------------------------
(* SafeQueue: for any producers, consumers, messages, array capacity and   *)
(* bulk size the mutex is held exactly by the thread inside, no wakeup is  *)
(* lost, and SafeQueue implements MessageQueue.                            *)

(* simple_queue.h:58-62: what the pop loop takes of q fits in the array,   *)
(* and what it takes and what it leaves are both sequences of messages.    *)
LEMMA TakeSplits ==
    ASSUME NEW s \in Seq(Messages), s # <<>>
    PROVE  LET k == Smaller(Capacity, Len(s))
           IN /\ k \in 1..Len(s)
              /\ SubSeq(s, 1, k) \in Seq(Messages)
              /\ Len(SubSeq(s, 1, k)) <= Capacity
              /\ SubSeq(s, k + 1, Len(s)) \in Seq(Messages)
<1> DEFINE k == Smaller(Capacity, Len(s))
<1>1. Len(s) \in Nat \ {0}
  BY EmptySeq
<1>2. k \in 1..Len(s)
  BY <1>1, SafeQueueAssumption DEF Smaller
<1>3. /\ \A i \in 1..k : s[i] \in Messages
      /\ \A i \in (k + 1)..Len(s) : s[i] \in Messages
  BY <1>1, <1>2, ElementOfSeq
<1>4. SubSeq(s, 1, k) \in Seq(Messages) /\ Len(SubSeq(s, 1, k)) = k
  BY <1>1, <1>2, <1>3, SubSeqProperties
<1>5. SubSeq(s, k + 1, Len(s)) \in Seq(Messages)
  BY <1>1, <1>2, <1>3, SubSeqProperties
<1>6. k <= Capacity
  BY <1>1, SafeQueueAssumption DEF Smaller
<1> QED
  BY <1>2, <1>4, <1>5, <1>6

(* simple_queue.h:44: the array passed to enqueue_bulk is a sequence of    *)
(* messages.                                                               *)
LEMMA BulksAreSequences == Bulks \subseteq Seq(Messages)
  BY SafeQueueAssumption DEF Bulks

(* The inductive invariant: typing, ownership of m, and no lost wakeup.    *)
QueueInv == TypeOK /\ MutexHeldInside /\ NoLostWakeup

(* An empty queue with every thread outside satisfies it. *)
LEMMA InitQueueInv == Init => QueueInv
  BY SafeQueueAssumption, EmptySeq
  DEF Init, QueueInv, TypeOK, MutexHeldInside, NoLostWakeup, Holding, Threads

(* Every step of simple_queue.h preserves it. A consumer goes to sleep     *)
(* only with q empty and m in its hands, and the producer that fills q     *)
(* keeps m until it has notified.                                          *)
LEMMA NextQueueInv == QueueInv /\ [Next]_vars => QueueInv'
<1> SUFFICES ASSUME QueueInv, [Next]_vars
             PROVE  QueueInv'
  OBVIOUS
<1> USE SafeQueueAssumption DEF QueueInv, TypeOK, MutexHeldInside, NoLostWakeup,
                                Holding, Threads, Goto
<1>1. ASSUME NEW p \in Producers, NEW ms \in Bulks, CallEnqueue(p, ms)
      PROVE  QueueInv'
  BY <1>1, BulksAreSequences DEF CallEnqueue
<1>2. ASSUME NEW c \in Consumers, CallDequeue(c)
      PROVE  QueueInv'
  BY <1>2, EmptySeq DEF CallDequeue
<1>3. ASSUME NEW t \in Threads, Lock(t)
      PROVE  QueueInv'
  BY <1>3 DEF Lock
<1>4. ASSUME NEW p \in Producers, Push(p)
      PROVE  QueueInv'
  <2>1. q \o message[p] \in Seq(Messages)
    BY ConcatProperties
  <2>2. m = p
    BY <1>4 DEF Push
  <2> QED
    BY <1>4, <2>1, <2>2 DEF Push
<1>5. ASSUME NEW p \in Producers, NotifyAll(p)
      PROVE  QueueInv'
  BY <1>5 DEF NotifyAll
<1>6. ASSUME NEW c \in Consumers, Wait(c)
      PROVE  QueueInv'
  BY <1>6 DEF Wait
<1>7. ASSUME NEW c \in Consumers, SpuriousWakeup(c)
      PROVE  QueueInv'
  BY <1>7 DEF SpuriousWakeup
<1>8. ASSUME NEW c \in Consumers, Take(c)
      PROVE  QueueInv'
  <2> DEFINE k == Smaller(Capacity, Len(q))
  <2>1. /\ SubSeq(q, 1, k) \in Seq(Messages)
        /\ Len(SubSeq(q, 1, k)) <= Capacity
        /\ SubSeq(q, k + 1, Len(q)) \in Seq(Messages)
    BY <1>8, TakeSplits DEF Take
  <2>2. m = c
    BY <1>8 DEF Take
  <2>3. TypeOK' /\ MutexHeldInside'
    BY <1>8, <2>1 DEF Take
  (* c holds m, so no producer does: nobody sleeps beside q. *)
  <2>4. \A d \in Consumers : pc[d] # "wait"
    BY <1>8, <2>2 DEF Take
  <2>5. NoLostWakeup'
    BY <1>8, <2>4 DEF Take
  <2> QED
    BY <2>3, <2>5
<1>9. ASSUME NEW t \in Threads, Unlock(t)
      PROVE  QueueInv'
  BY <1>9 DEF Unlock
<1>10. CASE UNCHANGED vars
  BY <1>10 DEF vars
<1> QED
  BY <1>1, <1>2, <1>3, <1>4, <1>5, <1>6, <1>7, <1>8, <1>9, <1>10
  DEF Next, ProducerStep, ConsumerStep

(* Hence it holds in every reachable state. *)
LEMMA QueueInvariant == Spec => []QueueInv
  BY InitQueueInv, NextQueueInv, PTL DEF Spec

(* simple_queue.h:25-64: every variable keeps its type, and no consumer is *)
(* given more than its array holds.                                        *)
THEOREM QueueTypeCorrect == Spec => []TypeOK
  BY QueueInvariant, PTL DEF QueueInv

(* simple_queue.h:27-29, 44-49, 54-57: a consumer sleeps beside a          *)
(* non-empty queue only while a producer inside m is about to notify.      *)
THEOREM WakeupsAreNotLost == Spec => []NoLostWakeup
  BY QueueInvariant, PTL DEF QueueInv

-----------------------------------------------------------------------------
(* Refinement: under the mapping of IsMessageQueue a push is Enqueue, a    *)
(* take is Dequeue, the calls and the returns are themselves, and all that *)
(* is done with m and c is invisible.                                      *)

(* An empty queue with idle threads is one of MessageQueue. *)
LEMMA InitRefines == Init => Abstract!Init
  BY DEF Init, Abstract!Init, StatusOf, Threads

(* Every step of SafeQueue is one of MessageQueue or changes nothing there. *)
LEMMA NextRefines == QueueInv /\ [Next]_vars => [Abstract!Next]_(Abstract!vars)
<1> SUFFICES ASSUME QueueInv, [Next]_vars
             PROVE  [Abstract!Next]_(Abstract!vars)
  OBVIOUS
<1> DEFINE st == [u \in Threads |-> StatusOf(u)]
<1>0. pc \in [Threads -> {"idle", "lock", "locked", "notify", "unlock", "wait"}]
  BY DEF QueueInv, TypeOK
<1> USE DEF Goto
<1>1. ASSUME NEW p \in Producers, NEW ms \in Bulks, CallEnqueue(p, ms)
      PROVE  Abstract!CallEnqueue(p, ms)
  BY <1>0, <1>1 DEF CallEnqueue, Abstract!CallEnqueue, StatusOf, Threads
<1>2. ASSUME NEW c \in Consumers, CallDequeue(c)
      PROVE  Abstract!CallDequeue(c)
  BY <1>0, <1>2 DEF CallDequeue, Abstract!CallDequeue, StatusOf, Threads
<1>3. ASSUME NEW p \in Producers, Push(p)
      PROVE  Abstract!Enqueue(p)
  BY <1>0, <1>3 DEF Push, Abstract!Enqueue, StatusOf, Threads
<1>4. ASSUME NEW c \in Consumers, Take(c)
      PROVE  Abstract!Dequeue(c)
  BY <1>0, <1>4 DEF Take, Abstract!Dequeue, StatusOf, Threads, Smaller, Abstract!Smaller
<1>5. ASSUME NEW t \in Threads, Unlock(t)
      PROVE  Abstract!Return(t)
  BY <1>0, <1>5 DEF Unlock, Abstract!Return, StatusOf, Threads
<1>6. ASSUME \/ \E t \in Threads : Lock(t)
             \/ \E p \in Producers : NotifyAll(p)
             \/ \E c \in Consumers : Wait(c) \/ SpuriousWakeup(c)
             \/ UNCHANGED vars
      PROVE  UNCHANGED Abstract!vars
  <2>1. st' = st
    BY <1>0, <1>6 DEF Lock, NotifyAll, Wait, SpuriousWakeup, vars, StatusOf, Threads
  <2>2. q' = q /\ message' = message
    BY <1>6 DEF Lock, NotifyAll, Wait, SpuriousWakeup, vars
  <2> QED
    BY <2>1, <2>2 DEF Abstract!vars
<1> QED
  BY <1>1, <1>2, <1>3, <1>4, <1>5, <1>6
  DEF Next, ProducerStep, ConsumerStep, Abstract!Next, Threads, Bulks, Abstract!Bulks

(* simple_queue.h:25-64: SafeQueue is a FIFO queue whose bulk operations   *)
(* are atomic.                                                             *)
THEOREM ImplementsMessageQueue == Spec => IsMessageQueue
  BY QueueInvariant, InitRefines, NextRefines, PTL DEF Spec, IsMessageQueue, Abstract!Spec

-----------------------------------------------------------------------------
(* TraceRecord: the digits of a number                                     *)

(* f spells the numbers up to n.                                           *)
Spells(f, n) ==
    /\ f \in [0..n -> Seq(0..9)]
    /\ \A k \in 0..n : f[k] = IF k < 10 THEN <<k>> ELSE Append(f[k \div 10], k % 10)

LEMMA Tenth ==
    ASSUME NEW n \in Nat
    PROVE  /\ n \div 10 \in Nat /\ n % 10 \in 0..9
           /\ n >= 10 => n \div 10 < n
           /\ n \div 10 <= n
           /\ n = (n \div 10) * 10 + (n % 10)
  OBVIOUS

LEMMA SpellsAlike ==
    ASSUME NEW a \in Nat, NEW b \in Nat, NEW f, NEW g, Spells(f, a), Spells(g, b),
           NEW n \in Nat, n <= a, n <= b
    PROVE  f[n] = g[n]
<1> DEFINE S == { k \in 0..n : f[k] # g[k] }
<1> SUFFICES ASSUME S # {} PROVE FALSE
  OBVIOUS
<1>1. S \in SUBSET Nat
  OBVIOUS
<1>2. PICK k \in S : \A l \in S : k <= l
  BY <1>1, LeastElement
<1>3. k \in Nat /\ k <= n /\ f[k] # g[k] /\ k \in 0..a /\ k \in 0..b
  OBVIOUS
<1>4. /\ f[k] = IF k < 10 THEN <<k>> ELSE Append(f[k \div 10], k % 10)
      /\ g[k] = IF k < 10 THEN <<k>> ELSE Append(g[k \div 10], k % 10)
  BY <1>3 DEF Spells
<1>5. k >= 10
  BY <1>3, <1>4
<1>6. k \div 10 \in 0..n /\ k \div 10 < k
  BY <1>3, <1>5, Tenth
<1>7. k \div 10 \in Nat
  BY <1>3, Tenth
<1>8. k \div 10 \notin S
  <2> HIDE DEF S
  <2>1. k \div 10 \in S => k <= k \div 10
    BY <1>2
  <2> QED BY <1>3, <1>6, <1>7, <2>1
<1>9. f[k \div 10] = g[k \div 10]
  BY <1>6, <1>8
<1> QED BY <1>3, <1>4, <1>9

LEMMA SpellsExists ==
    ASSUME NEW n \in Nat
    PROVE  \E f : Spells(f, n)
<1> DEFINE S == { k \in Nat : \E f : Spells(f, k) }
<1>1. 0 \in S
  <2> DEFINE f == [k \in 0..0 |-> <<0>>]
  <2>1. f \in [0..0 -> Seq(0..9)]
    OBVIOUS
  <2>2. \A k \in 0..0 : k = 0 /\ f[k] = <<k>> /\ k < 10
    OBVIOUS
  <2>3. Spells(f, 0)
    BY <2>1, <2>2 DEF Spells
  <2> QED BY <2>3
<1>2. ASSUME NEW k \in Nat, k \in S PROVE k + 1 \in S
  <2>1. PICK f : Spells(f, k)
    BY <1>2
  <2> DEFINE last == IF k + 1 < 10 THEN <<k + 1>> ELSE Append(f[(k + 1) \div 10], (k + 1) % 10)
             g == [l \in 0..(k + 1) |-> IF l <= k THEN f[l] ELSE last]
  <2>2. last \in Seq(0..9)
    <3>1. CASE k + 1 < 10
      <4>1. k + 1 \in 0..9
        BY <3>1
      <4> QED BY <3>1, <4>1
    <3>2. CASE k + 1 >= 10
      <4>1. (k + 1) \div 10 \in Nat /\ (k + 1) \div 10 < k + 1 /\ (k + 1) % 10 \in 0..9
        BY <3>2, Tenth
      <4>2. (k + 1) \div 10 \in 0..k
        BY <4>1
      <4>3. f[(k + 1) \div 10] \in Seq(0..9)
        BY <2>1, <4>2 DEF Spells
      <4>4. ~(k + 1 < 10)
        BY <3>2
      <4> QED BY <4>1, <4>3, <4>4, AppendProperties
    <3> QED BY <3>1, <3>2
  <2>3. \A l \in 0..k : f[l] \in Seq(0..9)
    BY <2>1 DEF Spells
  <2>4. g \in [0..(k + 1) -> Seq(0..9)]
    <3> HIDE DEF last
    <3> QED BY <2>2, <2>3
  <2>5. ASSUME NEW l \in 0..(k + 1)
        PROVE  g[l] = IF l < 10 THEN <<l>> ELSE Append(g[l \div 10], l % 10)
    <3>1. l \in Nat /\ l \div 10 \in Nat /\ l \div 10 <= l /\ (l >= 10 => l \div 10 < l)
      BY Tenth
    <3>2. CASE l <= k
      <4>1. l \div 10 \in 0..k /\ l \in 0..k
        BY <3>1, <3>2
      <4>2. g[l] = f[l] /\ g[l \div 10] = f[l \div 10]
        BY <4>1
      <4>3. f[l] = IF l < 10 THEN <<l>> ELSE Append(f[l \div 10], l % 10)
        BY <2>1, <4>1 DEF Spells
      <4> QED BY <4>2, <4>3
    <3>3. CASE l = k + 1
      <4>1. g[l] = last
        BY <3>3
      <4>2. CASE l < 10
        BY <3>3, <4>1, <4>2
      <4>3. CASE l >= 10
        <5>1. l \div 10 \in 0..k
          BY <3>1, <3>3, <4>3
        <5>2. g[l \div 10] = f[l \div 10]
          BY <5>1
        <5>3. ~(l < 10) /\ last = Append(f[l \div 10], l % 10)
          BY <3>3, <4>3
        <5> HIDE DEF g, last
        <5> QED BY <4>1, <5>2, <5>3
      <4> QED BY <4>2, <4>3
    <3> QED BY <3>2, <3>3
  <2> HIDE DEF g
  <2>6. Spells(g, k + 1)
    BY <2>4, <2>5 DEF Spells
  <2> QED BY <2>6
<1>3. Nat \subseteq S
  <2> HIDE DEF S
  <2> QED BY <1>1, <1>2, EveryNumber
<1> QED BY <1>3

LEMMA DigitsAre ==
    ASSUME NEW n \in Nat
    PROVE  /\ Digits[n] \in Seq(0..9)
           /\ Digits[n] = IF n < 10 THEN <<n>> ELSE Append(Digits[n \div 10], n % 10)
<1> DEFINE G(k) == CHOOSE f : Spells(f, k)
           digits == [k \in Nat |-> G(k)[k]]
           step(f, k) == IF k < 10 THEN <<k>> ELSE Append(f[k \div 10], k % 10)
<1>1. \A k \in Nat : Spells(G(k), k)
  BY SpellsExists
<1> HIDE DEF G
<1>2. ASSUME NEW k \in Nat
      PROVE  digits[k] = step(digits, k) /\ digits[k] \in Seq(0..9)
  <2>1. G(k)[k] = IF k < 10 THEN <<k>> ELSE Append(G(k)[k \div 10], k % 10)
    BY <1>1 DEF Spells
  <2>2. G(k)[k] \in Seq(0..9)
    BY <1>1 DEF Spells
  <2>3. k \div 10 \in Nat /\ k \div 10 <= k
    BY Tenth
  <2>4. G(k)[k \div 10] = G(k \div 10)[k \div 10]
    BY <1>1, <2>3, SpellsAlike
  <2> QED BY <2>1, <2>2, <2>3, <2>4
<1> HIDE DEF step
<1>3. digits = [k \in Nat |-> step(digits, k)]
  BY <1>2
<1> HIDE DEF digits
<1>4. \E f : f = [k \in Nat |-> step(f, k)]
  BY <1>3
<1>5. Digits = [k \in Nat |-> step(Digits, k)]
  <2>1. Digits = CHOOSE f : f = [k \in Nat |-> step(f, k)]
    BY DEF Digits, step
  <2> QED BY <1>4, <2>1
<1>6. \A k \in Nat : Digits[k] = step(Digits, k)
  BY <1>5
<1>7. \A k \in Nat : Digits[k] = IF k < 10 THEN <<k>> ELSE Append(Digits[k \div 10], k % 10)
  BY <1>6 DEF step
<1> DEFINE S == { k \in Nat : Digits[k] \notin Seq(0..9) }
<1>8. S = {}
  <2> SUFFICES ASSUME S # {} PROVE FALSE
    OBVIOUS
  <2>1. S \in SUBSET Nat
    OBVIOUS
  <2>2. PICK k \in S : \A l \in S : k <= l
    BY <2>1, LeastElement
  <2>3. k \in Nat /\ Digits[k] \notin Seq(0..9)
    OBVIOUS
  <2>4. CASE k < 10
    <3>0. Digits[k] = IF k < 10 THEN <<k>> ELSE Append(Digits[k \div 10], k % 10)
      BY <1>7, <2>3
    <3>1. Digits[k] = <<k>> /\ k \in 0..9
      BY <2>3, <2>4, <3>0
    <3>2. <<k>> \in Seq(0..9)
      BY <3>1
    <3> QED BY <2>3, <3>1, <3>2
  <2>5. CASE k >= 10
    <3>1. k \div 10 \in Nat /\ k \div 10 < k /\ k % 10 \in 0..9 /\ ~(k < 10)
      BY <2>3, <2>5, Tenth
    <3>2. k \div 10 \notin S
      <4> HIDE DEF S
      <4>1. k \div 10 \in S => k <= k \div 10
        BY <2>2
      <4> QED BY <2>3, <3>1, <4>1
    <3>3. Digits[k \div 10] \in Seq(0..9)
      BY <3>1, <3>2
    <3>4. Digits[k] = Append(Digits[k \div 10], k % 10)
      BY <1>7, <2>3, <3>1
    <3> QED BY <2>3, <3>1, <3>3, <3>4, AppendProperties
  <2> QED BY <2>3, <2>4, <2>5
<1> QED BY <1>7, <1>8

LEMMA DigitsLength ==
    ASSUME NEW n \in Nat
    PROVE  /\ Len(Digits[n]) \in Nat /\ Len(Digits[n]) >= 1
           /\ n < 10 => Len(Digits[n]) = 1
           /\ n >= 10 => Len(Digits[n]) = Len(Digits[n \div 10]) + 1
<1>1. Digits[n] \in Seq(0..9)
  BY DigitsAre
<1>2. Len(Digits[n]) \in Nat
  BY <1>1, LenProperties
<1>3. CASE n < 10
  <2>1. Digits[n] = <<n>>
    BY <1>3, DigitsAre
  <2>2. Len(<<n>>) = 1
    OBVIOUS
  <2>3. Len(Digits[n]) = 1
    BY <2>1, <2>2
  <2> HIDE DEF Digits
  <2> QED BY <1>3, <2>3
<1>4. CASE n >= 10
  <2>1. n \div 10 \in Nat /\ n % 10 \in 0..9 /\ ~(n < 10)
    BY <1>4, Tenth
  <2>2. Digits[n \div 10] \in Seq(0..9)
    BY <2>1, DigitsAre
  <2>3. Digits[n] = Append(Digits[n \div 10], n % 10)
    BY <2>1, DigitsAre
  <2>4. Len(Digits[n]) = Len(Digits[n \div 10]) + 1 /\ Len(Digits[n \div 10]) \in Nat
    BY <2>1, <2>2, <2>3, AppendProperties, LenProperties
  <2> QED BY <1>2, <2>1, <2>4
<1> QED BY <1>3, <1>4

(* How wide a field is.                                                    *)
LEMMA DigitsFit ==
    ASSUME NEW n \in Nat
    PROVE  /\ n < 1000 => Len(Digits[n]) <= 3
           /\ n < 100000 => Len(Digits[n]) <= 5
           /\ n >= 100000 => Len(Digits[n]) >= 5
<1>1. \A k \in Nat : k < 10 => Len(Digits[k]) = 1
  BY DigitsLength
<1>2. \A k \in Nat : Len(Digits[k]) \in Nat /\ Len(Digits[k]) >= 1
  BY DigitsLength
<1>3. \A k \in Nat : k >= 10 => Len(Digits[k]) = Len(Digits[k \div 10]) + 1
  BY DigitsLength
<1>4. \A k \in Nat : k \div 10 \in Nat
  BY Tenth
<1>4a. ASSUME NEW k \in Nat PROVE Len(Digits[k]) <= Len(Digits[k \div 10]) + 1
  <2>1. /\ Len(Digits[k]) \in Nat
        /\ Len(Digits[k \div 10]) \in Nat /\ Len(Digits[k \div 10]) >= 1
    BY <1>2, <1>4
  <2>2. CASE k < 10
    <3>1. Len(Digits[k]) = 1
      BY <1>1, <2>2
    <3> QED BY <2>1, <3>1
  <2>3. CASE k >= 10
    <3>1. Len(Digits[k]) = Len(Digits[k \div 10]) + 1
      BY <1>3, <2>3
    <3> QED BY <2>1, <3>1
  <2> QED BY <2>2, <2>3
<1>5. ASSUME NEW k \in Nat, k < 100 PROVE Len(Digits[k]) <= 2
  <2>1. k \div 10 < 10
    BY <1>5
  <2>2. Len(Digits[k \div 10]) = 1
    BY <1>1, <1>4, <2>1
  <2>3. Len(Digits[k]) <= Len(Digits[k \div 10]) + 1 /\ Len(Digits[k]) \in Nat
    BY <1>2, <1>4a
  <2> QED BY ONLY <2>2, <2>3
<1>6. ASSUME NEW k \in Nat, k < 1000 PROVE Len(Digits[k]) <= 3
  <2>1. k \div 10 < 100
    BY <1>6
  <2>2. Len(Digits[k \div 10]) <= 2 /\ Len(Digits[k \div 10]) \in Nat
    BY <1>2, <1>4, <1>5, <2>1
  <2>3. Len(Digits[k]) <= Len(Digits[k \div 10]) + 1 /\ Len(Digits[k]) \in Nat
    BY <1>2, <1>4a
  <2> QED BY ONLY <2>2, <2>3
<1>7. ASSUME NEW k \in Nat, k < 10000 PROVE Len(Digits[k]) <= 4
  <2>1. k \div 10 < 1000
    BY <1>7
  <2>2. Len(Digits[k \div 10]) <= 3 /\ Len(Digits[k \div 10]) \in Nat
    BY <1>2, <1>4, <1>6, <2>1
  <2>3. Len(Digits[k]) <= Len(Digits[k \div 10]) + 1 /\ Len(Digits[k]) \in Nat
    BY <1>2, <1>4a
  <2> QED BY ONLY <2>2, <2>3
<1>8. ASSUME n < 100000 PROVE Len(Digits[n]) <= 5
  <2>1. n \div 10 < 10000
    BY <1>8
  <2>2. Len(Digits[n \div 10]) <= 4 /\ Len(Digits[n \div 10]) \in Nat
    BY <1>2, <1>4, <1>7, <2>1
  <2>3. Len(Digits[n]) <= Len(Digits[n \div 10]) + 1 /\ Len(Digits[n]) \in Nat
    BY <1>2, <1>4a
  <2> QED BY ONLY <2>2, <2>3
<1>9. ASSUME NEW k \in Nat, k >= 10 PROVE Len(Digits[k]) >= 2
  <2>1. Len(Digits[k]) = Len(Digits[k \div 10]) + 1
    BY <1>3, <1>9
  <2>2. Len(Digits[k \div 10]) >= 1 /\ Len(Digits[k \div 10]) \in Nat
    BY <1>2, <1>4
  <2> QED BY ONLY <2>1, <2>2
<1>10. ASSUME NEW k \in Nat, k >= 100 PROVE Len(Digits[k]) >= 3
  <2>1. k \div 10 >= 10 /\ k >= 10
    BY <1>10
  <2>2. Len(Digits[k \div 10]) >= 2 /\ Len(Digits[k \div 10]) \in Nat
    BY <1>2, <1>4, <1>9, <2>1
  <2>3. Len(Digits[k]) = Len(Digits[k \div 10]) + 1
    BY <1>3, <2>1
  <2> QED BY ONLY <2>2, <2>3
<1>11. ASSUME NEW k \in Nat, k >= 1000 PROVE Len(Digits[k]) >= 4
  <2>1. k \div 10 >= 100 /\ k >= 10
    BY <1>11
  <2>2. Len(Digits[k \div 10]) >= 3 /\ Len(Digits[k \div 10]) \in Nat
    BY <1>2, <1>4, <1>10, <2>1
  <2>3. Len(Digits[k]) = Len(Digits[k \div 10]) + 1
    BY <1>3, <2>1
  <2> QED BY ONLY <2>2, <2>3
<1>12. ASSUME NEW k \in Nat, k >= 10000 PROVE Len(Digits[k]) >= 5
  <2>1. k \div 10 >= 1000 /\ k >= 10
    BY <1>12
  <2>2. Len(Digits[k \div 10]) >= 4 /\ Len(Digits[k \div 10]) \in Nat
    BY <1>2, <1>4, <1>11, <2>1
  <2>3. Len(Digits[k]) = Len(Digits[k \div 10]) + 1
    BY <1>3, <2>1
  <2> QED BY ONLY <2>2, <2>3
<1>13. n >= 100000 => n >= 10000
  OBVIOUS
<1> QED BY <1>6, <1>8, <1>12, <1>13

-----------------------------------------------------------------------------
(* TraceRecord: the value of digits                                        *)

(* v is what set_pid and set_syscall compute on the way along s.           *)
Values(v, s) ==
    v = [i \in 0..Len(s) |-> IF i = 0 THEN 0 ELSE v[i - 1] * 10 + s[i]]

LEMMA ValueIs ==
    ASSUME NEW s
    PROVE  Value(s) = (CHOOSE v : Values(v, s))[Len(s)]
BY DEF Value, Values

LEMMA ValuesAt ==
    ASSUME NEW s, Len(s) \in Nat, NEW v, Values(v, s)
    PROVE  /\ v[0] = 0
           /\ \A i \in 1..Len(s) : v[i] = v[i - 1] * 10 + s[i]
<1> DEFINE value(i) == IF i = 0 THEN 0 ELSE v[i - 1] * 10 + s[i]
<1>1. v = [i \in 0..Len(s) |-> value(i)]
  BY DEF Values
<1> HIDE DEF value
<1>2. \A i \in 0..Len(s) : v[i] = value(i)
  BY <1>1
<1>3. value(0) = 0
  BY DEF value
<1>4. \A i \in 1..Len(s) : value(i) = v[i - 1] * 10 + s[i]
  BY DEF value
<1>5. 0 \in 0..Len(s) /\ \A i \in 1..Len(s) : i \in 0..Len(s)
  OBVIOUS
<1> QED BY <1>2, <1>3, <1>4, <1>5

LEMMA ValuesAlike ==
    ASSUME NEW s, NEW t, Len(s) \in Nat, Len(t) \in Nat,
           NEW n \in Nat, n <= Len(s), n <= Len(t), \A i \in 1..n : s[i] = t[i],
           NEW v, Values(v, s), NEW w, Values(w, t)
    PROVE  v[n] = w[n]
<1> DEFINE S == { i \in Nat : i <= n => v[i] = w[i] }
<1>1. 0 \in S
  BY ValuesAt
<1>2. ASSUME NEW i \in Nat, i \in S PROVE i + 1 \in S
  <2> SUFFICES ASSUME i + 1 <= n PROVE v[i + 1] = w[i + 1]
    OBVIOUS
  <2>1. v[i] = w[i]
    BY <1>2
  <2>2. i + 1 \in 1..Len(s) /\ i + 1 \in 1..Len(t) /\ i + 1 \in 1..n /\ (i + 1) - 1 = i
    OBVIOUS
  <2>3. v[i + 1] = v[(i + 1) - 1] * 10 + s[i + 1]
    BY <2>2, ValuesAt
  <2>4. w[i + 1] = w[(i + 1) - 1] * 10 + t[i + 1]
    BY <2>2, ValuesAt
  <2> QED BY <2>1, <2>2, <2>3, <2>4
<1>3. Nat \subseteq S
  <2> HIDE DEF S
  <2> QED BY <1>1, <1>2, EveryNumber
<1> QED BY <1>3

(* A digit more: what v becomes.                                           *)
LEMMA ValuesOfMore ==
    ASSUME NEW s \in Seq(Int), NEW c \in Int, NEW v, Values(v, s), v[Len(s)] \in Int
    PROVE  \E w : Values(w, Append(s, c)) /\ w[Len(s)] = v[Len(s)]
<1> DEFINE n == Len(s)
           more == Append(s, c)
           next == v[n] * 10 + c
           w == [i \in 0..(n + 1) |-> IF i <= n THEN v[i] ELSE next]
<1>1. n \in Nat
  BY LenProperties
<1>2. Len(more) = n + 1 /\ more[n + 1] = c /\ \A i \in 1..n : more[i] = s[i]
  BY AppendProperties
<1>3. v[0] = 0 /\ \A i \in 1..n : v[i] = v[i - 1] * 10 + s[i]
  BY <1>1, ValuesAt
<1>4. ASSUME NEW i \in 0..(n + 1)
      PROVE  w[i] = IF i = 0 THEN 0 ELSE w[i - 1] * 10 + more[i]
  <2>1. CASE i = 0
    BY <1>1, <1>3, <2>1
  <2>2. CASE i \in 1..n
    <3>1. i - 1 \in 0..(n + 1) /\ i - 1 <= n /\ i <= n /\ i # 0
      BY <1>1, <2>2
    <3>2. w[i] = v[i] /\ w[i - 1] = v[i - 1]
      BY <3>1
    <3> HIDE DEF w, more
    <3> QED BY <1>2, <1>3, <2>2, <3>1, <3>2
  <2>3. CASE i = n + 1
    <3>1. i - 1 = n /\ ~(i <= n) /\ i # 0 /\ n \in 0..(n + 1) /\ n <= n
      BY <1>1, <2>3
    <3>2. w[i] = next /\ w[n] = v[n]
      BY <3>1
    <3> HIDE DEF w, more
    <3> QED BY <1>2, <2>3, <3>1, <3>2
  <2> QED BY <1>1, <2>1, <2>2, <2>3
<1>5. w = [i \in 0..(n + 1) |-> w[i]]
  OBVIOUS
<1>6. w[n] = v[n]
  BY <1>1
<1> HIDE DEF w, more
<1>7. Values(w, more)
  BY <1>2, <1>4, <1>5 DEF Values
<1> QED BY <1>6, <1>7 DEF more

LEMMA ValuesExists ==
    ASSUME NEW s \in Seq(Int)
    PROVE  \E v : Values(v, s) /\ v[Len(s)] \in Int
<1> DEFINE S == { n \in Nat : \A t \in Seq(Int) :
                      Len(t) = n => \E v : Values(v, t) /\ v[n] \in Int }
<1>1. 0 \in S
  <2> SUFFICES ASSUME NEW t \in Seq(Int), Len(t) = 0
               PROVE  \E v : Values(v, t) /\ v[0] \in Int
    OBVIOUS
  <2> DEFINE v == [i \in 0..0 |-> 0]
  <2>1. v[0] = 0
    OBVIOUS
  <2>2. v = [i \in 0..0 |-> IF i = 0 THEN 0 ELSE v[i - 1] * 10 + t[i]]
    OBVIOUS
  <2> HIDE DEF v
  <2>3. Values(v, t)
    BY <2>2 DEF Values
  <2> QED BY <2>1, <2>3
<1>2. ASSUME NEW n \in Nat, n \in S PROVE n + 1 \in S
  <2> SUFFICES ASSUME NEW t \in Seq(Int), Len(t) = n + 1
               PROVE  \E v : Values(v, t) /\ v[n + 1] \in Int
    OBVIOUS
  <2> DEFINE before == SubSeq(t, 1, n)
             c == t[n + 1]
  <2>1. before \in Seq(Int) /\ Len(before) = n /\ c \in Int /\ t = Append(before, c)
    BY OneMore
  <2> HIDE DEF before, c
  <2>2. PICK v : Values(v, before) /\ v[n] \in Int
    BY <1>2, <2>1
  <2>3. PICK w : Values(w, t) /\ w[n] = v[n]
    <3>1. v[Len(before)] \in Int
      BY ONLY <2>1, <2>2, Zenon
    <3>2. \E w : Values(w, Append(before, c)) /\ w[Len(before)] = v[Len(before)]
      BY ONLY <2>1, <2>2, <3>1, ValuesOfMore
    <3> QED BY ONLY <2>1, <3>2, Zenon
  <2>4. w[n + 1] = w[(n + 1) - 1] * 10 + t[n + 1]
    <3>1. Len(t) \in Nat /\ n + 1 \in 1..Len(t)
      OBVIOUS
    <3> QED BY <2>3, <3>1, ValuesAt
  <2>5. (n + 1) - 1 = n
    OBVIOUS
  <2>6. w[n + 1] \in Int
    BY <2>1, <2>2, <2>3, <2>4, <2>5 DEF c
  <2> QED BY <2>3, <2>6
<1>3. Nat \subseteq S
  <2> HIDE DEF S
  <2> QED BY <1>1, <1>2, EveryNumber
<1>4. Len(s) \in Nat
  BY LenProperties
<1> QED BY <1>3, <1>4

(* sys_record.h:24-32: a number is ten times that of the digits before its *)
(* last and the last.                                                      *)
LEMMA ValueOfMore ==
    /\ Value(<<>>) = 0
    /\ \A s \in Seq(Int) : Value(s) \in Int
    /\ \A s \in Seq(Int), c \in Int : Value(Append(s, c)) = Value(s) * 10 + c
<1>1. ASSUME NEW s \in Seq(Int)
      PROVE  \E v : Values(v, s) /\ Value(s) = v[Len(s)] /\ v[Len(s)] \in Int
  <2>1. PICK w : Values(w, s) /\ w[Len(s)] \in Int
    BY ValuesExists
  <2> DEFINE v == CHOOSE f : Values(f, s)
  <2>2. Values(v, s)
    BY <2>1
  <2> HIDE DEF v
  <2>3. v[Len(s)] = w[Len(s)]
    <3>1. Len(s) \in Nat
      BY LenProperties
    <3> QED BY <2>1, <2>2, <3>1, ValuesAlike
  <2>4. Value(s) = v[Len(s)]
    BY ValueIs DEF v
  <2> QED BY <2>1, <2>2, <2>3, <2>4
<1>2. Value(<<>>) = 0
  <2>1. <<>> \in Seq(Int) /\ Len(<<>>) = 0
    BY EmptySeq
  <2>2. PICK v : Values(v, <<>>) /\ Value(<<>>) = v[Len(<<>>)]
    BY <1>1, <2>1
  <2>3. v[0] = 0
    BY <2>1, <2>2, ValuesAt
  <2> QED BY <2>1, <2>2, <2>3
<1>3. ASSUME NEW s \in Seq(Int), NEW c \in Int
      PROVE  Value(Append(s, c)) = Value(s) * 10 + c
  <2> DEFINE n == Len(s)
             more == Append(s, c)
  <2>1. n \in Nat
    BY LenProperties
  <2>2. /\ more \in Seq(Int) /\ Len(more) = n + 1 /\ more[n + 1] = c
        /\ \A i \in 1..n : more[i] = s[i]
    BY AppendProperties
  <2>3. PICK v : Values(v, s) /\ Value(s) = v[n]
    BY <1>1
  <2> HIDE DEF more, n
  <2>4. PICK w : Values(w, more) /\ Value(more) = w[n + 1]
    BY <1>1, <2>2
  <2>5. w[n + 1] = w[(n + 1) - 1] * 10 + c
    <3>1. Len(more) \in Nat /\ n + 1 \in 1..Len(more)
      BY <2>1, <2>2
    <3> QED BY <2>2, <2>4, <3>1, ValuesAt
  <2>6. w[n] = v[n]
    <3>1. Len(more) \in Nat /\ n <= Len(more) /\ n <= Len(s) /\ Len(s) \in Nat
      BY <2>1, <2>2 DEF n
    <3>2. \A i \in 1..n : s[i] = more[i]
      BY <2>2
    <3>3. Values(v, s) /\ Values(w, more)
      BY <2>3, <2>4
    <3> QED BY ONLY <2>1, <3>1, <3>2, <3>3, ValuesAlike
  <2>7. (n + 1) - 1 = n
    BY <2>1
  <2> QED BY <2>3, <2>4, <2>5, <2>6, <2>7 DEF more
<1>4. \A s \in Seq(Int) : Value(s) \in Int
  BY <1>1
<1> QED BY <1>2, <1>3, <1>4

(* What printing a number and reading it give.                             *)
LEMMA ValueOfDigits ==
    ASSUME NEW n \in Nat
    PROVE  Value(Digits[n]) = n
<1> DEFINE S == { k \in Nat : Value(Digits[k]) # k }
<1> SUFFICES ASSUME S # {} PROVE FALSE
  OBVIOUS
<1>1. S \in SUBSET Nat
  OBVIOUS
<1>2. PICK k \in S : \A l \in S : k <= l
  BY <1>1, LeastElement
<1>3. k \in Nat /\ Value(Digits[k]) # k
  OBVIOUS
<1>4. CASE k < 10
  <2>1. Digits[k] = <<k>>
    BY <1>3, <1>4, DigitsAre
  <2>2. <<>> \in Seq(Int)
    BY EmptySeq
  <2>3. <<k>> = Append(<<>>, k)
    OBVIOUS
  <2>4. Value(Append(<<>>, k)) = Value(<<>>) * 10 + k
    <3>1. \A s \in Seq(Int), c \in Int : Value(Append(s, c)) = Value(s) * 10 + c
      BY ValueOfMore
    <3>2. k \in Int
      BY <1>3
    <3> QED BY ONLY <2>2, <3>1, <3>2, Zenon
  <2>5. Value(<<>>) * 10 + k = k
    BY <1>3, ValueOfMore
  <2> QED BY <1>3, <2>1, <2>3, <2>4, <2>5
<1>5. CASE k >= 10
  <2>1. /\ k \div 10 \in Nat /\ k \div 10 < k /\ k % 10 \in 0..9 /\ ~(k < 10)
        /\ k = (k \div 10) * 10 + (k % 10)
    BY <1>3, <1>5, Tenth
  <2>2. Value(Digits[k \div 10]) = k \div 10
    <3>1. k \div 10 \notin S
      <4> HIDE DEF S
      <4>1. k \div 10 \in S => k <= k \div 10
        BY <1>2
      <4> QED BY <1>3, <2>1, <4>1
    <3> QED BY <2>1, <3>1
  <2>3. Digits[k] = Append(Digits[k \div 10], k % 10)
    BY <1>3, <2>1, DigitsAre
  <2>4. Digits[k \div 10] \in Seq(Int) /\ k % 10 \in Int
    <3>1. Digits[k \div 10] \in Seq(0..9)
      BY <2>1, DigitsAre
    <3>2. Digits[k \div 10] \in Seq(Int)
      BY <3>1
    <3> QED BY <2>1, <3>2
  <2>5. Value(Digits[k]) = Value(Digits[k \div 10]) * 10 + (k % 10)
    BY <2>3, <2>4, ValueOfMore
  <2> QED BY <1>3, <2>1, <2>2, <2>5
<1> QED BY <1>3, <1>4, <1>5

-----------------------------------------------------------------------------
(* TraceRecord: what is read of some columns                               *)

(* The codes of the characters of a line.                                  *)
Codes == (0 - 16)..49

LEMMA WiderSeq ==
    ASSUME NEW V, NEW W, V \subseteq W, NEW s \in Seq(V)
    PROVE  s \in Seq(W)
<1>1. Len(s) \in Nat /\ s \in [1..Len(s) -> V]
  BY LenProperties
<1>2. s \in [1..Len(s) -> W]
  BY <1>1
<1> QED BY <1>1, <1>2

LEMMA FirstIs ==
    ASSUME NEW S \in SUBSET Nat, NEW k \in S, \A i \in S : k <= i
    PROVE  Min(S) = k
<1>1. \E x \in S : \A y \in S : x =< y
  OBVIOUS
<1>2. Min(S) \in S /\ \A i \in S : Min(S) =< i
  BY <1>1, Zenon DEF Min
<1>3. Min(S) <= k /\ k <= Min(S) /\ Min(S) \in Nat /\ k \in Nat
  BY <1>2
<1> QED BY ONLY <1>3

LEMMA LastIs ==
    ASSUME NEW S \in SUBSET Nat, NEW k \in S, \A i \in S : i <= k
    PROVE  Max(S) = k
<1>1. \E x \in S : \A y \in S : x >= y
  OBVIOUS
<1>2. Max(S) \in S /\ \A i \in S : Max(S) >= i
  BY <1>1, Zenon DEF Max
<1>3. Max(S) >= k /\ Max(S) <= k /\ Max(S) \in Nat /\ k \in Nat
  BY <1>2
<1> QED BY ONLY <1>3

(* sys_record.h:26-27: no space, ...                                       *)
LEMMA NumberWithoutSpace ==
    ASSUME NEW s, Len(s) \in Nat, \A i \in 1..Len(s) : s[i] # Space
    PROVE  NumberIn(s) = Value(s)
<1>1. { i \in 1..Len(s) : s[i] = Space } = {}
  OBVIOUS
<1>2. SelectInSeq(s, LAMBDA c : c = Space) = 0
  BY <1>1 DEF SelectInSeq
<1> QED BY <1>2 DEF NumberIn

(* ... or a first one.                                                     *)
LEMMA NumberBeforeSpace ==
    ASSUME NEW s, Len(s) \in Nat, NEW k \in 1..Len(s), s[k] = Space,
           \A i \in 1..(k - 1) : s[i] # Space
    PROVE  NumberIn(s) = Value(SubSeq(s, 1, k - 1))
<1> DEFINE S == { i \in 1..Len(s) : s[i] = Space }
<1>1. S \in SUBSET Nat /\ k \in S
  OBVIOUS
<1>2. ASSUME NEW i \in S PROVE k <= i
  <2>1. i \in Nat /\ i >= 1 /\ i \notin 1..(k - 1)
    OBVIOUS
  <2> QED BY <2>1
<1>3. S # {} /\ Min(S) = k
  <2> HIDE DEF S
  <2> QED BY <1>1, <1>2, FirstIs
<1>4. SelectInSeq(s, LAMBDA c : c = Space) = k
  BY <1>3 DEF SelectInSeq
<1>5. k # 0
  OBVIOUS
<1> QED BY <1>4, <1>5 DEF NumberIn

(* What is printed at the left of its columns is what is read from them.   *)
LEMMA NumberOfDigits ==
    ASSUME NEW n \in Nat, NEW s \in Seq(Codes),
           Len(Digits[n]) <= Len(s),
           \A i \in 1..Len(Digits[n]) : s[i] = Digits[n][i],
           Len(Digits[n]) < Len(s) => s[Len(Digits[n]) + 1] = Space
    PROVE  NumberIn(s) = n
<1> DEFINE d == Digits[n]
           k == Len(d)
<1>1. d \in Seq(0..9) /\ k \in Nat
  BY DigitsAre, LenProperties
<1>2. Len(s) \in Nat
  BY LenProperties
<1>3. \A i \in 1..k : s[i] # Space
  <2>1. \A i \in 1..k : d[i] \in 0..9
    BY <1>1, ElementOfSeq
  <2> QED BY <2>1 DEF Space
<1>4. Value(d) = n
  BY ValueOfDigits
<1>5. CASE k = Len(s)
  <2>1. s = d
    <3>1. \A i \in 1..k : d[i] \in Codes
      <4>1. \A i \in 1..k : d[i] \in 0..9
        BY <1>1, ElementOfSeq
      <4> QED BY <4>1 DEF Codes
    <3>2. d \in Seq(Codes)
      BY <1>1, <3>1
    <3> HIDE DEF d
    <3> QED BY <1>5, <3>2, SeqEqual DEF d
  <2>2. NumberIn(s) = Value(s)
    BY <1>2, <1>3, <1>5, NumberWithoutSpace
  <2> QED BY <1>4, <2>1, <2>2
<1>6. CASE k < Len(s)
  <2> DEFINE j == k + 1
  <2>1. j \in 1..Len(s) /\ s[j] = Space /\ j - 1 = k
    BY <1>1, <1>2, <1>6
  <2>2. SubSeq(s, 1, k) = d
    <3>1. \A i \in 1..k : s[i] \in 0..9
      BY <1>1, ElementOfSeq
    <3>2. /\ SubSeq(s, 1, k) \in Seq(0..9)
          /\ Len(SubSeq(s, 1, k)) = IF 1 <= k THEN k - 1 + 1 ELSE 0
          /\ \A i \in 1..(k - 1 + 1) : SubSeq(s, 1, k)[i] = s[1 + i - 1]
      BY <1>1, <3>1, SubSeqProperties
    <3> HIDE DEF d
    <3>3. Len(SubSeq(s, 1, k)) = k /\ \A i \in 1..k : SubSeq(s, 1, k)[i] = s[i]
      BY <1>1, <3>2
    <3> QED BY <1>1, <3>2, <3>3, SeqEqual DEF d
  <2> HIDE DEF j, d
  <2>3. NumberIn(s) = Value(SubSeq(s, 1, j - 1))
    BY <1>2, <1>3, <2>1, NumberBeforeSpace
  <2> QED BY <1>4, <2>1, <2>2, <2>3
<1> QED BY <1>1, <1>2, <1>5, <1>6

(* sys_record.h:35-42: three characters never overflow a short.            *)
LEMMA ValueOfThree ==
    ASSUME NEW s \in Seq(Codes), Len(s) <= 3
    PROVE  Value(s) \in Int /\ -1776 <= Value(s) /\ Value(s) <= 5439
<1>0. Codes \subseteq Int
  BY DEF Codes
<1>1. \A t \in Seq(Codes) : t \in Seq(Int)
  BY <1>0, WiderSeq
<1>2. ASSUME NEW t \in Seq(Codes), Len(t) = 0 PROVE Value(t) = 0
  <2>1. t = <<>>
    BY <1>2
  <2> QED BY <2>1, ValueOfMore
<1>3. ASSUME NEW t \in Seq(Codes), NEW n \in Nat, Len(t) = n + 1
      PROVE  \E b \in Seq(Codes), c \in Codes :
                Len(b) = n /\ Value(t) = Value(b) * 10 + c
  <2> DEFINE b == SubSeq(t, 1, n)
             c == t[n + 1]
  <2>1. b \in Seq(Codes) /\ Len(b) = n /\ c \in Codes /\ t = Append(b, c)
    BY <1>3, OneMore
  <2> HIDE DEF b, c
  <2>2. b \in Seq(Int) /\ c \in Int
    BY <1>0, <1>1, <2>1
  <2>3. Value(Append(b, c)) = Value(b) * 10 + c
    BY <2>2, ValueOfMore
  <2> QED BY <2>1, <2>3
<1>4. ASSUME NEW t \in Seq(Codes), Len(t) = 1
      PROVE  Value(t) \in Int /\ -16 <= Value(t) /\ Value(t) <= 49
  <2>1. PICK b \in Seq(Codes), c \in Codes : Len(b) = 0 /\ Value(t) = Value(b) * 10 + c
    <3>1. 0 \in Nat /\ Len(t) = 0 + 1
      BY <1>4
    <3> QED BY <1>3, <3>1
  <2>2. Value(b) = 0
    BY <1>2, <2>1
  <2>3. c \in Int /\ -16 <= c /\ c <= 49
    BY DEF Codes
  <2>4. Value(t) = Value(b) * 10 + c
    BY <2>1
  <2> QED BY ONLY <2>2, <2>3, <2>4
<1>5. ASSUME NEW t \in Seq(Codes), Len(t) = 2
      PROVE  Value(t) \in Int /\ -176 <= Value(t) /\ Value(t) <= 539
  <2>1. PICK b \in Seq(Codes), c \in Codes : Len(b) = 1 /\ Value(t) = Value(b) * 10 + c
    <3>1. 1 \in Nat /\ Len(t) = 1 + 1
      BY <1>5
    <3> QED BY <1>3, <3>1
  <2>2. Value(b) \in Int /\ -16 <= Value(b) /\ Value(b) <= 49
    BY <1>4, <2>1
  <2>3. c \in Int /\ -16 <= c /\ c <= 49
    BY DEF Codes
  <2>4. Value(t) = Value(b) * 10 + c
    BY <2>1
  <2> QED BY ONLY <2>2, <2>3, <2>4
<1>6. ASSUME NEW t \in Seq(Codes), Len(t) = 3
      PROVE  Value(t) \in Int /\ -1776 <= Value(t) /\ Value(t) <= 5439
  <2>1. PICK b \in Seq(Codes), c \in Codes : Len(b) = 2 /\ Value(t) = Value(b) * 10 + c
    <3>1. 2 \in Nat /\ Len(t) = 2 + 1
      BY <1>6
    <3> QED BY <1>3, <3>1
  <2>2. Value(b) \in Int /\ -176 <= Value(b) /\ Value(b) <= 539
    BY <1>5, <2>1
  <2>3. c \in Int /\ -16 <= c /\ c <= 49
    BY DEF Codes
  <2>4. Value(t) = Value(b) * 10 + c
    BY <2>1
  <2> QED BY ONLY <2>2, <2>3, <2>4
<1>7. Len(s) \in Nat
  BY LenProperties
<1>8. Len(s) = 0 \/ Len(s) = 1 \/ Len(s) = 2 \/ Len(s) = 3
  <2>1. \A n \in Nat : n <= 3 => n = 0 \/ n = 1 \/ n = 2 \/ n = 3
    BY ONLY SMT
  <2> QED BY <1>7, <2>1
<1>9. CASE Len(s) = 0
  <2>1. Value(s) = 0
    BY <1>2, <1>9
  <2> QED BY ONLY <2>1
<1>10. CASE Len(s) = 1
  <2>1. Value(s) \in Int /\ -16 <= Value(s) /\ Value(s) <= 49
    BY <1>4, <1>10
  <2> QED BY ONLY <2>1
<1>11. CASE Len(s) = 2
  <2>1. Value(s) \in Int /\ -176 <= Value(s) /\ Value(s) <= 539
    BY <1>5, <1>11
  <2> QED BY ONLY <2>1
<1>12. CASE Len(s) = 3
  BY <1>6, <1>12
<1> QED BY <1>8, <1>9, <1>10, <1>11, <1>12

LEMMA NumberType ==
    ASSUME NEW s \in Seq(Codes)
    PROVE  /\ NumberIn(s) \in Int
           /\ Len(s) <= 3 => NumberIn(s) \in Shorts
<1>0. Len(s) \in Nat
  BY LenProperties
<1>1. ASSUME NEW t \in Seq(Codes)
      PROVE  Value(t) \in Int
  <2>1. Codes \subseteq Int
    BY DEF Codes
  <2>2. t \in Seq(Int)
    BY <2>1, WiderSeq
  <2> QED BY <2>2, ValueOfMore
<1>2. PICK t \in Seq(Codes) : NumberIn(s) = Value(t) /\ Len(t) <= Len(s)
  <2> DEFINE S == { i \in 1..Len(s) : s[i] = Space }
  <2>1. CASE S = {}
    <3>1. \A i \in 1..Len(s) : s[i] # Space
      BY <2>1
    <3> QED BY <1>0, <3>1, NumberWithoutSpace
  <2>2. CASE S # {}
    <3>1. S \in SUBSET Nat
      OBVIOUS
    <3>2. PICK k \in S : \A i \in S : k <= i
      <4> HIDE DEF S
      <4> QED BY <2>2, <3>1, LeastElement
    <3>3. k \in 1..Len(s) /\ s[k] = Space
      OBVIOUS
    <3>4. ASSUME NEW i \in 1..(k - 1) PROVE s[i] # Space
      <4>1. i \in 1..Len(s) /\ ~(k <= i)
        BY <1>0, <3>3
      <4>2. i \notin S
        BY <3>2, <4>1
      <4> QED BY <4>1, <4>2
    <3>5. NumberIn(s) = Value(SubSeq(s, 1, k - 1))
      BY <1>0, <3>3, <3>4, NumberBeforeSpace
    <3>6. \A i \in 1..(k - 1) : s[i] \in Codes
      BY <1>0, <3>3, ElementOfSeq
    <3> DEFINE j == k - 1
    <3>7. j \in Nat /\ j <= Len(s)
      BY <1>0, <3>3
    <3> HIDE DEF j
    <3>8. SubSeq(s, 0 + 1, j) \in Seq(Codes) /\ Len(SubSeq(s, 0 + 1, j)) = j - 0
      BY <3>7, Between
    <3>9. SubSeq(s, 1, j) \in Seq(Codes) /\ Len(SubSeq(s, 1, j)) <= Len(s)
      BY <3>7, <3>8
    <3> QED BY <3>5, <3>9 DEF j
  <2> QED BY <2>1, <2>2
<1>3. ASSUME Len(s) <= 3 PROVE NumberIn(s) \in Shorts
  <2>1. Len(t) \in Nat
    BY LenProperties
  <2>2. Len(t) <= 3
    BY <1>0, <1>2, <1>3, <2>1
  <2>3. Value(t) \in Int /\ -1776 <= Value(t) /\ Value(t) <= 5439
    BY <2>2, ValueOfThree
  <2>4. NumberIn(s) = Value(t)
    BY <1>2
  <2>5. NumberIn(s) \in Int /\ -1776 <= NumberIn(s) /\ NumberIn(s) <= 5439
    BY <2>3, <2>4
  <2> DEFINE low == -32768
             high == 32767
  <2>6. low \in Int /\ high \in Int /\ low <= NumberIn(s) /\ NumberIn(s) <= high
    BY <2>5, SMT
  <2>7. Shorts = low..high
    BY ONLY DEF Shorts
  <2> HIDE DEF low, high
  <2>8. NumberIn(s) \in low..high
    BY ONLY <2>5, <2>6
  <2> QED BY ONLY <2>7, <2>8
<1>4. NumberIn(s) \in Int
  BY <1>1, <1>2
<1> QED BY <1>3, <1>4

-----------------------------------------------------------------------------
(* TraceRecord: the columns of a line                                      *)

(* line begins with s. *)
Starts(s, line) == Len(s) <= Len(line) /\ \A i \in 1..Len(s) : line[i] = s[i]

LEMMA StartsPart ==
    ASSUME NEW V, NEW s \in Seq(V), NEW t \in Seq(V), NEW line \in Seq(V),
           Starts(s \o t, line)
    PROVE  /\ Starts(s, line)
           /\ \A i \in 1..Len(t) : line[Len(s) + i] = t[i]
<1>1. Len(s) \in Nat /\ Len(t) \in Nat /\ Len(line) \in Nat
  BY LenProperties
<1>2. /\ Len(s \o t) = Len(s) + Len(t)
      /\ \A i \in 1..Len(s) + Len(t) :
            (s \o t)[i] = IF i <= Len(s) THEN s[i] ELSE t[i - Len(s)]
  BY ConcatProperties
<1>3. Len(s) + Len(t) <= Len(line) /\ \A i \in 1..Len(s) + Len(t) : line[i] = (s \o t)[i]
  BY <1>2 DEF Starts
<1>4. Starts(s, line)
  <2>1. ASSUME NEW i \in 1..Len(s) PROVE line[i] = s[i]
    <3>1. i \in 1..Len(s) + Len(t) /\ i <= Len(s)
      BY <1>1
    <3> QED BY <1>2, <1>3, <3>1
  <2>2. Len(s) <= Len(line)
    BY ONLY <1>1, <1>3
  <2> QED BY <2>1, <2>2 DEF Starts
<1>5. ASSUME NEW i \in 1..Len(t) PROVE line[Len(s) + i] = t[i]
  <2> DEFINE j == Len(s) + i
  <2>1. j \in 1..Len(s) + Len(t) /\ ~(j <= Len(s)) /\ j - Len(s) = i
    BY <1>1
  <2> HIDE DEF j
  <2>2. line[j] = t[i]
    BY <1>2, <1>3, <2>1
  <2> QED BY <2>2 DEF j
<1> QED BY <1>4, <1>5

LEMMA OfIs ==
    ASSUME NEW V, NEW c \in V, NEW n \in Int
    PROVE  /\ Of(c, n) \in Seq(V)
           /\ Len(Of(c, n)) = IF n > 0 THEN n ELSE 0
           /\ \A i \in 1..n : Of(c, n)[i] = c
<1>1. CASE n > 0
  BY <1>1 DEF Of
<1>2. CASE ~(n > 0)
  <2>1. <<>> \in Seq(V)
    BY EmptySeq
  <2> QED BY <1>2, <2>1 DEF Of
<1> QED BY <1>1, <1>2

LEMMA OneIs ==
    ASSUME NEW V, NEW c \in V
    PROVE  <<c>> \in Seq(V) /\ Len(<<c>>) = 1 /\ <<c>>[1] = c
  OBVIOUS

(* A field at the left or at the right of its columns.                     *)
LEMMA AtLeftIs ==
    ASSUME NEW s \in Seq(Codes), NEW width \in Nat
    PROVE  /\ AtLeft(s, width) \in Seq(Codes)
           /\ Len(AtLeft(s, width)) = IF Len(s) < width THEN width ELSE Len(s)
           /\ \A i \in 1..Len(s) : AtLeft(s, width)[i] = s[i]
           /\ \A i \in (Len(s) + 1)..width : AtLeft(s, width)[i] = Space
<1>1. Len(s) \in Nat
  BY LenProperties
<1> DEFINE n == width - Len(s)
           t == Of(Space, n)
<1>2. Space \in Codes /\ n \in Int
  BY <1>1 DEF Space, Codes
<1>3. t \in Seq(Codes) /\ Len(t) = (IF n > 0 THEN n ELSE 0) /\ \A i \in 1..n : t[i] = Space
  <2> HIDE DEF n
  <2> QED BY <1>2, OfIs
<1>4. AtLeft(s, width) = s \o t
  BY DEF AtLeft
<1> HIDE DEF t
<1>5. /\ s \o t \in Seq(Codes)
      /\ Len(s \o t) = Len(s) + Len(t)
      /\ \A i \in 1..Len(s) + Len(t) : (s \o t)[i] = IF i <= Len(s) THEN s[i] ELSE t[i - Len(s)]
  BY <1>3, ConcatProperties
<1>6. Len(s \o t) = IF Len(s) < width THEN width ELSE Len(s)
  BY <1>1, <1>3, <1>5
<1>7. ASSUME NEW i \in 1..Len(s) PROVE (s \o t)[i] = s[i]
  <2>1. i \in 1..Len(s) + Len(t) /\ i <= Len(s)
    BY <1>1, <1>3
  <2> QED BY <1>5, <2>1
<1>8. ASSUME NEW i \in (Len(s) + 1)..width PROVE (s \o t)[i] = Space
  <2>1. i - Len(s) \in 1..n /\ Len(t) = n
    BY <1>1, <1>3
  <2>2. i \in 1..Len(s) + Len(t) /\ ~(i <= Len(s))
    BY <1>1, <2>1
  <2> QED BY <1>3, <1>5, <2>1, <2>2
<1> QED BY <1>4, <1>5, <1>6, <1>7, <1>8

LEMMA AtRightIs ==
    ASSUME NEW s \in Seq(Codes), NEW width \in Nat
    PROVE  /\ AtRight(s, width) \in Seq(Codes)
           /\ Len(AtRight(s, width)) = IF Len(s) < width THEN width ELSE Len(s)
           /\ \A i \in 1..(width - Len(s)) : AtRight(s, width)[i] = Space
           /\ Len(s) <= width =>
                \A i \in 1..Len(s) : AtRight(s, width)[width - Len(s) + i] = s[i]
<1>1. Len(s) \in Nat
  BY LenProperties
<1> DEFINE n == width - Len(s)
           t == Of(Space, n)
<1>2. Space \in Codes /\ n \in Int
  BY <1>1 DEF Space, Codes
<1>3. t \in Seq(Codes) /\ Len(t) = (IF n > 0 THEN n ELSE 0) /\ \A i \in 1..n : t[i] = Space
  <2> HIDE DEF n
  <2> QED BY <1>2, OfIs
<1>4. AtRight(s, width) = t \o s
  BY DEF AtRight
<1> HIDE DEF t
<1>5. /\ t \o s \in Seq(Codes)
      /\ Len(t \o s) = Len(t) + Len(s)
      /\ \A i \in 1..Len(t) + Len(s) : (t \o s)[i] = IF i <= Len(t) THEN t[i] ELSE s[i - Len(t)]
  BY <1>3, ConcatProperties
<1>6. Len(t \o s) = IF Len(s) < width THEN width ELSE Len(s)
  BY <1>1, <1>3, <1>5
<1>7. ASSUME NEW i \in 1..n PROVE (t \o s)[i] = Space
  <2>1. i \in 1..Len(t) + Len(s) /\ i <= Len(t)
    BY <1>1, <1>3
  <2> QED BY <1>3, <1>5, <2>1
<1>8. ASSUME Len(s) <= width, NEW i \in 1..Len(s) PROVE (t \o s)[n + i] = s[i]
  <2>1. Len(t) = n
    BY <1>1, <1>3, <1>8
  <2>2. n + i \in 1..Len(t) + Len(s) /\ ~(n + i <= Len(t)) /\ (n + i) - Len(t) = i
    BY <1>1, <1>8, <2>1
  <2> QED BY <1>5, <2>2
<1> QED BY <1>4, <1>5, <1>6, <1>7, <1>8

(* The widths of the pid and of the time: five columns or more.            *)
LEMMA WidthIs ==
    ASSUME NEW n \in Nat
    PROVE  /\ AtLeft(Digits[n], 5) \in Seq(Codes) /\ Len(AtLeft(Digits[n], 5)) = Width(n)
           /\ AtRight(Digits[n], 5) \in Seq(Codes) /\ Len(AtRight(Digits[n], 5)) = Width(n)
           /\ Width(n) \in Nat /\ Width(n) >= 5
<1>1. Digits[n] \in Seq(0..9)
  BY DigitsAre
<1>2. 0..9 \subseteq Codes
  BY DEF Codes
<1>3. Digits[n] \in Seq(Codes)
  BY <1>1, <1>2, WiderSeq
<1> DEFINE d == Digits[n]
<1> HIDE DEF d
<1>4. Len(d) \in Nat /\ 5 \in Nat /\ d \in Seq(Codes)
  BY <1>3, LenProperties DEF d
<1>5. /\ AtLeft(d, 5) \in Seq(Codes)
      /\ Len(AtLeft(d, 5)) = IF Len(d) < 5 THEN 5 ELSE Len(d)
  BY <1>4, AtLeftIs
<1>6. /\ AtRight(d, 5) \in Seq(Codes)
      /\ Len(AtRight(d, 5)) = IF Len(d) < 5 THEN 5 ELSE Len(d)
  BY <1>4, AtRightIs
<1>7. Width(n) = IF Len(d) < 5 THEN 5 ELSE Len(d)
  <2>1. CASE Fits(n)
    <3>1. Width(n) = 5
      BY <2>1 DEF Width
    <3>2. Len(d) <= 5
      BY <2>1, DigitsFit, SMT DEF Fits, d
    <3>3. \A k \in Nat : k <= 5 => 5 = IF k < 5 THEN 5 ELSE k
      BY ONLY SMT
    <3>4. 5 = IF Len(d) < 5 THEN 5 ELSE Len(d)
      BY <1>4, <3>2, <3>3
    <3> QED BY <3>1, <3>4
  <2>2. CASE ~Fits(n)
    <3>1. Width(n) = Len(d)
      BY <2>2 DEF Width, d
    <3>2. n >= 100000
      BY <2>2, SMT DEF Fits
    <3>3. Len(d) >= 5
      BY <3>2, DigitsFit, SMT DEF d
    <3> QED BY ONLY <3>1, <3>3, <1>4
  <2> QED BY <2>1, <2>2
<1>8. Width(n) \in Nat /\ Width(n) >= 5
  BY ONLY <1>4, <1>7
<1> QED BY <1>5, <1>6, <1>7, <1>8 DEF d

LEMMA NumberIs ==
    ASSUME NEW n \in Int
    PROVE  /\ Number(n) \in Seq(Codes)
           /\ Len(Number(n)) \in Nat /\ Len(Number(n)) >= 1
<1>1. ASSUME NEW k \in Nat PROVE Digits[k] \in Seq(Codes) /\ Len(Digits[k]) >= 1
  <2>1. Digits[k] \in Seq(0..9) /\ Len(Digits[k]) >= 1
    BY DigitsAre, DigitsLength
  <2>2. 0..9 \subseteq Codes
    BY DEF Codes
  <2> QED BY <2>1, <2>2, WiderSeq
<1>2. CASE n < 0
  <2> DEFINE d == Digits[0 - n]
             one == <<Dash>>
  <2>1. d \in Seq(Codes) /\ Len(d) >= 1
    <3>1. 0 - n \in Nat
      BY <1>2
    <3> QED BY <1>1, <3>1
  <2>2. Dash \in Codes
    BY DEF Dash, Codes
  <2>3. one \in Seq(Codes) /\ Len(one) = 1
    BY <2>2, OneIs
  <2>4. Number(n) = one \o d
    BY <1>2 DEF Number
  <2> HIDE DEF d, one
  <2>5. one \o d \in Seq(Codes) /\ Len(one \o d) = Len(one) + Len(d)
    BY <2>1, <2>3, ConcatProperties
  <2>6. Len(d) \in Nat
    BY <2>1, LenProperties
  <2> QED BY <2>1, <2>3, <2>4, <2>5, <2>6
<1>3. CASE ~(n < 0)
  <2>1. n \in Nat /\ Number(n) = Digits[n]
    BY <1>3 DEF Number
  <2>2. Number(n) \in Seq(Codes) /\ Len(Number(n)) >= 1
    BY <1>1, <2>1
  <2> QED BY <2>2, LenProperties
<1> QED BY <1>2, <1>3

LEMMA PartsOfALine ==
    ASSUME NEW e \in SysEnters
    PROVE  /\ e.name \in Seq(Codes) /\ Len(e.name) \in Nat /\ Len(e.name) < 16
           /\ e.pid \in Nat /\ e.sec \in Nat /\ e.nr \in Int /\ e.lost \in BOOLEAN
<1>1. /\ e.name \in Names /\ e.pid \in Pids /\ e.sec \in Seconds
      /\ e.nr \in Calls /\ e.lost \in BOOLEAN
  BY DEF SysEnters
<1>2. {Space, Letter} \subseteq Codes
  BY DEF Codes, Space, Letter
<1>3. e.name \in Seq({Space, Letter}) /\ Len(e.name) < 16
  BY <1>1, TraceRecordAssumption
<1>4. e.name \in Seq(Codes)
  BY <1>2, <1>3, WiderSeq
<1>5. e.pid \in Nat /\ e.sec \in Nat /\ e.nr \in Int
  BY <1>1, TraceRecordAssumption
<1>6. Len(e.name) \in Nat
  BY <1>4, LenProperties
<1> QED BY <1>1, <1>3, <1>4, <1>5, <1>6

(* The columns of a line as it is printed: those of the pid, those that    *)
(* the number of the call is looked for in at some shift, and that number. *)
LEMMA PrintedColumns ==
    ASSUME NEW e \in SysEnters
    PROVE  LET line == Printed(e)
               w == Width(e.pid) + Width(e.sec)
               n == Len(Number(e.nr))
           IN  /\ line \in Seq(Codes) /\ Len(line) = w + n + 73
               /\ \A i \in 1..16 : line[i] = AtRight(e.name, 16)[i]
               /\ line[17] = Dash
               /\ \A i \in 1..Width(e.pid) : line[17 + i] = AtLeft(Digits[e.pid], 5)[i]
               /\ line[49 + w] = Space /\ line[50 + w] = 30
               /\ line[51 + w] = 34 /\ line[52 + w] = Space
               /\ \A i \in 1..n : line[52 + w + i] = Number(e.nr)[i]
               /\ line[53 + w + n] = Space
<1> DEFINE line == Printed(e)
           p == Width(e.pid)
           t == Width(e.sec)
           n == Len(Number(e.nr))
           name == AtRight(e.name, 16)
           pid == AtLeft(Digits[e.pid], 5)
           sec == AtRight(Digits[e.sec], 5)
           ten == Of(Letter, 10)
           more == Of(Letter, 19)
           rest == Of(Letter, 20)
           nr == Number(e.nr)
           dash == <<Dash>>
           space == <<Space>>
           NR == <<30, 34, Space>>
<1>1. name \in Seq(Codes) /\ Len(name) = 16
  <2>1. e.name \in Seq(Codes) /\ Len(e.name) \in Nat /\ Len(e.name) < 16
    BY PartsOfALine
  <2> HIDE DEF name
  <2>2. 16 \in Nat
    OBVIOUS
  <2>3. /\ name \in Seq(Codes)
        /\ Len(name) = IF Len(e.name) < 16 THEN 16 ELSE Len(e.name)
    BY <2>1, <2>2, AtRightIs DEF name
  <2> QED BY <2>1, <2>3
<1>2. pid \in Seq(Codes) /\ Len(pid) = p /\ p \in Nat
  BY PartsOfALine, WidthIs
<1>3. sec \in Seq(Codes) /\ Len(sec) = t /\ t \in Nat
  BY PartsOfALine, WidthIs
<1>4. nr \in Seq(Codes) /\ Len(nr) = n /\ n \in Nat
  BY PartsOfALine, NumberIs
<1>5. Letter \in Codes /\ Space \in Codes /\ Dash \in Codes /\ 30 \in Codes /\ 34 \in Codes
  BY DEF Letter, Space, Dash, Codes
<1>6. ASSUME NEW k \in 1..30
      PROVE Of(Letter, k) \in Seq(Codes) /\ Len(Of(Letter, k)) = k
  <2>1. k \in Int /\ k > 0
    OBVIOUS
  <2> QED BY <1>5, <2>1, OfIs
<1>7. ten \in Seq(Codes) /\ Len(ten) = 10
  <2>1. 10 \in 1..30
    OBVIOUS
  <2> QED BY <1>6, <2>1
<1>8. more \in Seq(Codes) /\ Len(more) = 19
  <2>1. 19 \in 1..30
    OBVIOUS
  <2> QED BY <1>6, <2>1
<1>9. rest \in Seq(Codes) /\ Len(rest) = 20
  <2>1. 20 \in 1..30
    OBVIOUS
  <2> QED BY <1>6, <2>1
<1>10. /\ dash \in Seq(Codes) /\ Len(dash) = 1 /\ dash[1] = Dash
       /\ space \in Seq(Codes) /\ Len(space) = 1 /\ space[1] = Space
  BY <1>5, OneIs
<1>11. NR \in Seq(Codes) /\ Len(NR) = 3 /\ NR[1] = 30 /\ NR[2] = 34 /\ NR[3] = Space
  BY <1>5
<1> DEFINE s2 == name \o dash
           s3 == s2 \o pid
           s4 == s3 \o space
           s5 == s4 \o ten
           s6 == s5 \o space
           s7 == s6 \o sec
           s8 == s7 \o more
           s9 == s8 \o space
           s10 == s9 \o NR
           s11 == s10 \o nr
           s12 == s11 \o space
           s13 == s12 \o rest
<1>12. line = s13
  BY DEF Printed
<1> HIDE DEF line, p, t, n, name, pid, sec, ten, more, rest, nr, dash, space, NR
<1>13. \A r, x \in Seq(Codes) : r \o x \in Seq(Codes) /\ Len(r \o x) = Len(r) + Len(x)
  BY ConcatProperties
<1> HIDE DEF s2, s3, s4, s5, s6, s7, s8, s9, s10, s11, s12, s13
<1> DEFINE w == p + t
<1>20. w \in Nat
  BY <1>2, <1>3
<1>14. s2 \in Seq(Codes) /\ Len(s2) = 17
  <2>1. s2 \in Seq(Codes) /\ Len(s2) = Len(name) + Len(dash)
    BY <1>1, <1>10, <1>13 DEF s2
  <2> QED BY ONLY <2>1, <1>1, <1>10, <1>2, <1>20, <1>4
<1>15. s3 \in Seq(Codes) /\ Len(s3) = 17 + p
  <2>1. s3 \in Seq(Codes) /\ Len(s3) = Len(s2) + Len(pid)
    BY <1>14, <1>2, <1>13 DEF s3
  <2> QED BY ONLY <2>1, <1>14, <1>2, <1>2, <1>20, <1>4
<1>16. s4 \in Seq(Codes) /\ Len(s4) = 18 + p
  <2>1. s4 \in Seq(Codes) /\ Len(s4) = Len(s3) + Len(space)
    BY <1>15, <1>10, <1>13 DEF s4
  <2> QED BY ONLY <2>1, <1>15, <1>10, <1>2, <1>20, <1>4
<1>17. s5 \in Seq(Codes) /\ Len(s5) = 28 + p
  <2>1. s5 \in Seq(Codes) /\ Len(s5) = Len(s4) + Len(ten)
    BY <1>16, <1>7, <1>13 DEF s5
  <2> QED BY ONLY <2>1, <1>16, <1>7, <1>2, <1>20, <1>4
<1>18. s6 \in Seq(Codes) /\ Len(s6) = 29 + p
  <2>1. s6 \in Seq(Codes) /\ Len(s6) = Len(s5) + Len(space)
    BY <1>17, <1>10, <1>13 DEF s6
  <2> QED BY ONLY <2>1, <1>17, <1>10, <1>2, <1>20, <1>4
<1>19. s7 \in Seq(Codes) /\ Len(s7) = 29 + w
  <2>1. s7 \in Seq(Codes) /\ Len(s7) = Len(s6) + Len(sec)
    BY <1>18, <1>3, <1>13 DEF s7
  <2> QED BY ONLY <2>1, <1>18, <1>3, <1>2
<1> HIDE DEF w
<1>21. s8 \in Seq(Codes) /\ Len(s8) = 48 + w
  <2>1. s8 \in Seq(Codes) /\ Len(s8) = Len(s7) + Len(more)
    BY <1>19, <1>8, <1>13 DEF s8
  <2> QED BY ONLY <2>1, <1>19, <1>8, <1>2, <1>20, <1>4
<1>22. s9 \in Seq(Codes) /\ Len(s9) = 49 + w
  <2>1. s9 \in Seq(Codes) /\ Len(s9) = Len(s8) + Len(space)
    BY <1>21, <1>10, <1>13 DEF s9
  <2> QED BY ONLY <2>1, <1>21, <1>10, <1>2, <1>20, <1>4
<1>23. s10 \in Seq(Codes) /\ Len(s10) = 52 + w
  <2>1. s10 \in Seq(Codes) /\ Len(s10) = Len(s9) + Len(NR)
    BY <1>22, <1>11, <1>13 DEF s10
  <2> QED BY ONLY <2>1, <1>22, <1>11, <1>2, <1>20, <1>4
<1>24. s11 \in Seq(Codes) /\ Len(s11) = 52 + w + n
  <2>1. s11 \in Seq(Codes) /\ Len(s11) = Len(s10) + Len(nr)
    BY <1>23, <1>4, <1>13 DEF s11
  <2> QED BY ONLY <2>1, <1>23, <1>4, <1>2, <1>20, <1>4
<1>25. s12 \in Seq(Codes) /\ Len(s12) = 53 + w + n
  <2>1. s12 \in Seq(Codes) /\ Len(s12) = Len(s11) + Len(space)
    BY <1>24, <1>10, <1>13 DEF s12
  <2> QED BY ONLY <2>1, <1>24, <1>10, <1>2, <1>20, <1>4
<1>26. s13 \in Seq(Codes) /\ Len(s13) = w + n + 73
  <2>1. s13 \in Seq(Codes) /\ Len(s13) = Len(s12) + Len(rest)
    BY <1>25, <1>9, <1>13 DEF s13
  <2> QED BY ONLY <2>1, <1>25, <1>9, <1>2, <1>20, <1>4
<1>27. line \in Seq(Codes) /\ Len(line) = w + n + 73
  BY <1>12, <1>26
<1>28. Starts(s13, line)
  BY <1>12, <1>26, <1>20, <1>4 DEF Starts
<1>29. \A r, x \in Seq(Codes) : Starts(r \o x, line) =>
            Starts(r, line) /\ \A i \in 1..Len(x) : line[Len(r) + i] = x[i]
  BY <1>27, StartsPart
<1>30. Starts(s12, line)
  BY <1>28, <1>29, <1>25, <1>9 DEF s13
<1>31. Starts(s11, line) /\ \A i \in 1..Len(space) : line[Len(s11) + i] = space[i]
  BY <1>30, <1>29, <1>24, <1>10 DEF s12
<1>32. Starts(s10, line) /\ \A i \in 1..Len(nr) : line[Len(s10) + i] = nr[i]
  BY <1>31, <1>29, <1>23, <1>4 DEF s11
<1>33. Starts(s9, line) /\ \A i \in 1..Len(NR) : line[Len(s9) + i] = NR[i]
  BY <1>32, <1>29, <1>22, <1>11 DEF s10
<1>34. Starts(s8, line) /\ \A i \in 1..Len(space) : line[Len(s8) + i] = space[i]
  BY <1>33, <1>29, <1>21, <1>10 DEF s9
<1>35. Starts(s7, line)
  BY <1>34, <1>29, <1>19, <1>8 DEF s8
<1>36. Starts(s6, line)
  BY <1>35, <1>29, <1>18, <1>3 DEF s7
<1>37. Starts(s5, line)
  BY <1>36, <1>29, <1>17, <1>10 DEF s6
<1>38. Starts(s4, line)
  BY <1>37, <1>29, <1>16, <1>7 DEF s5
<1>39. Starts(s3, line)
  BY <1>38, <1>29, <1>15, <1>10 DEF s4
<1>40. Starts(s2, line) /\ \A i \in 1..Len(pid) : line[Len(s2) + i] = pid[i]
  BY <1>39, <1>29, <1>14, <1>2 DEF s3
<1>41. Starts(name, line) /\ \A i \in 1..Len(dash) : line[Len(name) + i] = dash[i]
  BY <1>40, <1>29, <1>1, <1>10 DEF s2
<1>42. \A i \in 1..16 : line[i] = name[i]
  BY <1>41, <1>1 DEF Starts
<1>43. line[17] = Dash
  BY <1>41, <1>1, <1>10
<1>44. \A i \in 1..p : line[17 + i] = pid[i]
  BY <1>40, <1>14, <1>2
<1>45. line[49 + w] = Space
  <2>1. 48 + w + 1 = 49 + w
    BY <1>20
  <2> QED BY <2>1, <1>34, <1>21, <1>10
<1>46. line[50 + w] = 30 /\ line[51 + w] = 34 /\ line[52 + w] = Space
  <2>1. 49 + w + 1 = 50 + w /\ 49 + w + 2 = 51 + w /\ 49 + w + 3 = 52 + w
    BY <1>20
  <2>2. 1 \in 1..3 /\ 2 \in 1..3 /\ 3 \in 1..3
    OBVIOUS
  <2> QED BY <2>1, <2>2, <1>33, <1>22, <1>11
<1>47. \A i \in 1..n : line[52 + w + i] = nr[i]
  BY <1>32, <1>23, <1>4
<1>48. line[53 + w + n] = Space
  <2>1. 52 + w + n + 1 = 53 + w + n
    BY <1>20, <1>4
  <2> QED BY <2>1, <1>31, <1>24, <1>10
<1> USE DEF line, p, t, w, n, name, pid, nr
<1> QED BY ONLY <1>27, <1>42, <1>43, <1>44, <1>45, <1>46, <1>47, <1>48

(* ... and as it comes, which may be without its first character.          *)
LEMMA LineColumns ==
    ASSUME NEW e \in SysEnters
    PROVE  LET line == Line(e)
               k == Shift(e)
               n == Len(Number(e.nr))
           IN  /\ k \in Int /\ k >= -1
               /\ line \in Seq(Codes) /\ Len(line) >= 83
               /\ line[16] = Dash \/ line[17] = Dash
               /\ line[59 + k] = Space /\ line[60 + k] = 30
               /\ line[61 + k] = 34 /\ line[62 + k] = Space
               /\ \A i \in 1..n : line[62 + k + i] = Number(e.nr)[i]
               /\ line[63 + k + n] = Space
               /\ Shift(e) = (Width(e.pid) - 5) + (Width(e.sec) - 5) - (IF e.lost THEN 1 ELSE 0)
<1> DEFINE full == Printed(e)
           line == Line(e)
           k == Shift(e)
           n == Len(Number(e.nr))
           w == Width(e.pid) + Width(e.sec)
           d == IF e.lost THEN 1 ELSE 0
           nr == Number(e.nr)
<1>1. /\ full \in Seq(Codes) /\ Len(full) = w + n + 73
      /\ full[17] = Dash
      /\ full[49 + w] = Space /\ full[50 + w] = 30
      /\ full[51 + w] = 34 /\ full[52 + w] = Space
      /\ \A i \in 1..n : full[52 + w + i] = nr[i]
      /\ full[53 + w + n] = Space
  <2> HIDE DEF full, w, n, nr
  <2> USE DEF full, w, n, nr
  <2> QED BY PrintedColumns
<1>2. w \in Nat /\ w >= 10 /\ n \in Nat /\ n >= 1
  <2>1. e.pid \in Nat /\ e.sec \in Nat /\ e.nr \in Int
    BY PartsOfALine
  <2>2. /\ Width(e.pid) \in Nat /\ Width(e.pid) >= 5
        /\ Width(e.sec) \in Nat /\ Width(e.sec) >= 5
    BY <2>1, WidthIs
  <2>3. n \in Nat /\ n >= 1
    BY <2>1, NumberIs
  <2> QED BY ONLY <2>2, <2>3
<1>3. k = w - 10 - d
  <2>1. Width(e.pid) \in Nat /\ Width(e.sec) \in Nat
    BY PartsOfALine, WidthIs
  <2>2. k = (Width(e.pid) - 5) + (Width(e.sec) - 5) - d
    BY DEF Shift
  <2>3. d \in Int
    OBVIOUS
  <2> HIDE DEF d, k
  <2> QED BY ONLY <2>1, <2>2, <2>3 DEF w
<1>4. IsSysEnter(e) /\ e.lost \in BOOLEAN
  BY DEF SysEnters, IsSysEnter
<1>5. d \in {0, 1}
  OBVIOUS
<1>6. /\ line \in Seq(Codes) /\ Len(line) = w + n + 73 - d
      /\ \A i \in 1..Len(line) : line[i] = full[i + d]
  <2>1. CASE e.lost
    <3>1. line = Tail(full) /\ d = 1
      BY <1>4, <2>1 DEF Line
    <3> HIDE DEF full, w, n, d, line
    <3>2. full # <<>>
      BY <1>1, <1>2
    <3>3. /\ Tail(full) \in Seq(Codes) /\ Len(Tail(full)) = Len(full) - 1
          /\ \A i \in 1..Len(Tail(full)) : Tail(full)[i] = full[i + 1]
      BY <1>1, <3>2, HeadTailProperties
    <3>4. Len(full) - 1 = w + n + 73 - 1
      BY <1>1, <1>2
    <3> QED BY <3>1, <3>3, <3>4
  <2>2. CASE ~e.lost
    <3>1. line = full /\ d = 0
      BY <1>4, <2>2 DEF Line
    <3> HIDE DEF full, w, n, d, line
    <3>2. Len(full) = w + n + 73 - 0
      BY <1>1, <1>2
    <3>3. \A i \in 1..Len(full) : i + 0 = i
      OBVIOUS
    <3> QED BY <1>1, <3>1, <3>2, <3>3
  <2> QED BY <2>1, <2>2
<1> HIDE DEF full, line, k, n, w, d, nr
<1>7. k \in Int /\ k >= -1 /\ Len(line) >= 83
  BY ONLY <1>2, <1>3, <1>5, <1>6
<1>8. line[16] = Dash \/ line[17] = Dash
  <2>1. 16 \in 1..Len(line) /\ 17 \in 1..Len(line)
    BY ONLY <1>7, <1>2, <1>5, <1>6
  <2>2. line[16] = full[16 + d] /\ line[17] = full[17 + d]
    BY <1>6, <2>1
  <2>3. d = 0 => 17 + d = 17
    OBVIOUS
  <2>4. d = 1 => 16 + d = 17
    OBVIOUS
  <2> QED BY <1>1, <1>5, <2>2, <2>3, <2>4
<1>9. /\ line[59 + k] = Space /\ line[60 + k] = 30
      /\ line[61 + k] = 34 /\ line[62 + k] = Space
  <2>1. /\ 59 + k \in 1..Len(line) /\ (59 + k) + d = 49 + w
        /\ 60 + k \in 1..Len(line) /\ (60 + k) + d = 50 + w
        /\ 61 + k \in 1..Len(line) /\ (61 + k) + d = 51 + w
        /\ 62 + k \in 1..Len(line) /\ (62 + k) + d = 52 + w
    BY ONLY <1>2, <1>3, <1>5, <1>6
  <2>2. /\ line[59 + k] = full[(59 + k) + d] /\ line[60 + k] = full[(60 + k) + d]
        /\ line[61 + k] = full[(61 + k) + d] /\ line[62 + k] = full[(62 + k) + d]
    BY <1>6, <2>1, Zenon
  <2>3. /\ line[59 + k] = full[49 + w] /\ line[60 + k] = full[50 + w]
        /\ line[61 + k] = full[51 + w] /\ line[62 + k] = full[52 + w]
    BY ONLY <2>1, <2>2, Zenon
  <2> QED BY ONLY <1>1, <2>3
<1>10. ASSUME NEW i \in 1..n PROVE line[62 + k + i] = nr[i]
  <2>1. 62 + k + i \in 1..Len(line) /\ (62 + k + i) + d = 52 + w + i
    BY ONLY <1>2, <1>3, <1>5, <1>6, i \in 1..n
  <2>2. line[62 + k + i] = full[(62 + k + i) + d]
    BY <1>6, <2>1, Zenon
  <2> QED BY <1>1, <2>1, <2>2
<1>11. line[63 + k + n] = Space
  <2>1. 63 + k + n \in 1..Len(line) /\ (63 + k + n) + d = 53 + w + n
    BY ONLY <1>2, <1>3, <1>5, <1>6
  <2>2. line[63 + k + n] = full[(63 + k + n) + d]
    BY <1>6, <2>1, Zenon
  <2> QED BY <1>1, <2>1, <2>2
<1>12. Shift(e) = (Width(e.pid) - 5) + (Width(e.sec) - 5) - (IF e.lost THEN 1 ELSE 0)
  BY DEF Shift
<1> USE DEF line, k, n, nr
<1> QED BY ONLY <1>6, <1>7, <1>8, <1>9, <1>10, <1>11, <1>12

-----------------------------------------------------------------------------
(* TraceRecord: the records                                                *)

(* sys_record.h: a name is in front of the pid, whatever the line is, if   *)
(* something is there.                                                     *)
LEMMA NameType ==
    ASSUME NEW line \in Seq(Codes), Len(line) >= 17,
           NEW k \in 1..17, line[k] # Space
    PROVE  NameIn(line) \in Seq(Codes) /\ Len(NameIn(line)) <= 16
<1> DEFINE F == { i \in 1..Len(line) : line[i] # Space }
           E == { i \in 1..17 : line[i] # Space }
<1>0. Len(line) \in Nat
  BY LenProperties
<1>1. F \in SUBSET Nat /\ F # {} /\ E \in SUBSET Nat /\ k \in E
  <2>1. k \in 1..Len(line) /\ \A i \in 1..Len(line) : i \in Nat
    BY <1>0
  <2>2. \A i \in 1..17 : i \in Nat
    OBVIOUS
  <2>3. k \in F /\ k \in E
    BY <2>1, Zenon
  <2>4. (\A i \in F : i \in Nat) /\ (\A i \in E : i \in Nat)
    BY ONLY <2>1, <2>2, Zenon
  <2> HIDE DEF E, F
  <2> QED BY ONLY <2>3, <2>4, Zenon
<1>2. PICK first \in F : \A i \in F : first <= i
  <2> HIDE DEF F
  <2> QED BY <1>1, LeastElement
<1>3. SelectInSeq(line, LAMBDA c : c # Space) = first
  <2>1. Min(F) = first
    <3> HIDE DEF F
    <3> QED BY <1>1, <1>2, FirstIs
  <2> QED BY <1>1, <2>1 DEF SelectInSeq
<1>4. PICK end \in E : \A i \in E : i <= end
  <2> DEFINE R == { j \in 0..16 : 17 - j \in E }
  <2>1. R \in SUBSET Nat
    OBVIOUS
  <2>2. 17 - k \in R
    BY <1>1
  <2>3. PICK j \in R : \A i \in R : j <= i
    <3> HIDE DEF R
    <3> QED BY <2>1, <2>2, LeastElement
  <2>4. ASSUME NEW i \in E PROVE i <= 17 - j
    <3>1. i \in 1..17 /\ 17 - (17 - i) = i
      OBVIOUS
    <3>2. 17 - i \in R
      BY <3>1
    <3>3. j <= 17 - i
      BY <2>3, <3>2
    <3>4. j \in 0..16
      OBVIOUS
    <3> QED BY ONLY <3>1, <3>3, <3>4
  <2> HIDE DEF E
  <2>5. 17 - j \in E
    BY <2>3
  <2> QED BY <2>4, <2>5
<1>5. SelectLastInSubSeq(line, 1, 17, LAMBDA c : c # Space) = end
  <2>1. Max(E) = end
    <3> HIDE DEF E
    <3> QED BY <1>1, <1>4, LastIs
  <2> QED BY <1>1, <2>1 DEF SelectLastInSubSeq
<1>6. NameIn(line) = SubSeq(line, first, end - 1)
  BY <1>3, <1>5 DEF NameIn
<1>7. first \in Nat /\ first >= 1 /\ end \in Nat /\ end >= 1 /\ end <= 17
  BY <1>0
<1>8. ASSUME NEW i \in first..(end - 1) PROVE line[i] \in Codes
  <2>1. i \in 1..Len(line)
    BY <1>0, <1>7
  <2> QED BY <2>1, ElementOfSeq
<1> HIDE DEF F, E
<1> DEFINE last == end - 1
<1>9. first \in Int /\ last \in Int /\ last <= 16
  BY <1>7
<1> HIDE DEF last
<1>10. /\ SubSeq(line, first, last) \in Seq(Codes)
       /\ Len(SubSeq(line, first, last)) = IF first <= last THEN last - first + 1 ELSE 0
  BY <1>8, <1>9, SubSeqProperties DEF last
<1>11. Len(SubSeq(line, first, last)) <= 16
  BY ONLY <1>7, <1>9, <1>10
<1> QED BY <1>6, <1>10, <1>11 DEF last

(* The columns of SyscallsParams, counted from 0.                          *)
LEMMA ColumnsOf ==
    ASSUME NEW line \in Seq(Codes), Len(line) >= 65
    PROVE  /\ SubSeq(line, 18, 22) \in Seq(Codes) /\ Len(SubSeq(line, 18, 22)) = 5
           /\ \A i \in 1..5 : SubSeq(line, 18, 22)[i] = line[17 + i]
           /\ SubSeq(line, 63, 65) \in Seq(Codes) /\ Len(SubSeq(line, 63, 65)) = 3
           /\ \A i \in 1..3 : SubSeq(line, 63, 65)[i] = line[62 + i]
<1>0. Len(line) \in Nat
  BY LenProperties
<1>1. /\ SubSeq(line, 17 + 1, 22) \in Seq(Codes)
      /\ Len(SubSeq(line, 17 + 1, 22)) = 22 - 17
      /\ \A i \in 1..(22 - 17) : SubSeq(line, 17 + 1, 22)[i] = line[17 + i]
  <2>1. 17 \in Nat /\ 22 \in Nat /\ 17 <= 22 /\ 22 <= Len(line)
    BY <1>0
  <2> QED BY ONLY <2>1, line \in Seq(Codes), Between
<1>2. /\ SubSeq(line, 62 + 1, 65) \in Seq(Codes)
      /\ Len(SubSeq(line, 62 + 1, 65)) = 65 - 62
      /\ \A i \in 1..(65 - 62) : SubSeq(line, 62 + 1, 65)[i] = line[62 + i]
  <2>1. 62 \in Nat /\ 65 \in Nat /\ 62 <= 65 /\ 65 <= Len(line)
    BY <1>0
  <2> QED BY ONLY <2>1, line \in Seq(Codes), Between
<1>3. 17 + 1 = 18 /\ 22 - 17 = 5 /\ 62 + 1 = 63 /\ 65 - 62 = 3
  OBVIOUS
<1> QED BY ONLY <1>1, <1>2, <1>3

LEMMA RecordType ==
    ASSUME NEW line \in Seq(Codes), Len(line) >= 65,
           NEW k \in 1..17, line[k] # Space
    PROVE  RecordOf(line) \in Records /\ Len(RecordOf(line).name) <= 16
<1>1. NameIn(line) \in Seq(Codes) /\ Len(NameIn(line)) <= 16
  <2>1. Len(line) >= 17
    BY LenProperties
  <2> QED BY <2>1, NameType
<1>2. NameIn(line) \in Seq(Int)
  <2>1. Codes \subseteq Int
    BY DEF Codes
  <2> QED BY <1>1, <2>1, WiderSeq
<1>3. NumberIn(SubSeq(line, 18, 22)) \in Int
  <2> DEFINE s == SubSeq(line, 18, 22)
  <2>1. s \in Seq(Codes)
    BY ColumnsOf
  <2> HIDE DEF s
  <2>2. NumberIn(s) \in Int
    BY <2>1, NumberType, Zenon
  <2> QED BY <2>2 DEF s
<1>4. NumberIn(SubSeq(line, 63, 65)) \in Shorts
  <2> DEFINE s == SubSeq(line, 63, 65)
  <2>0. s \in Seq(Codes) /\ Len(s) = 3
    BY ColumnsOf
  <2>1. s \in Seq(Codes) /\ Len(s) <= 3
    BY ONLY <2>0
  <2> HIDE DEF s
  <2>2. NumberIn(s) \in Shorts
    BY <2>1, NumberType, Zenon
  <2> QED BY <2>2 DEF s
<1> DEFINE N == NameIn(line)
           P == NumberIn(SubSeq(line, 18, 22))
           S == NumberIn(SubSeq(line, 63, 65))
<1>5. RecordOf(line) = [name |-> N, pid |-> P, syscall |-> S]
  BY DEF RecordOf
<1>6. N \in Seq(Int) /\ P \in Int /\ S \in Shorts /\ Len(N) <= 16
  BY ONLY <1>1, <1>2, <1>3, <1>4
<1>7. Records = [name : Seq(Int), pid : Int, syscall : Shorts]
  BY DEF Records
<1> HIDE DEF N, P, S
<1> QED BY ONLY <1>5, <1>6, <1>7

(* syscall_params.h:17, 29-31: a line of sys_enter has the arguments of    *)
(* the call, and one of something else is letters.                         *)
LEMMA LineOfOther ==
    ASSUME NEW e \in Others
    PROVE  /\ e.length \in OtherLengths /\ e.length \in Nat /\ e.length \notin {63, 64}
           /\ e = [length |-> e.length]
           /\ Line(e) \in Seq(Codes) /\ Len(Line(e)) = e.length
           /\ e.length > 0 => Line(e)[1] = Letter
<1>1. e.length \in OtherLengths /\ e = [length |-> e.length] /\ ~IsSysEnter(e)
  BY DEF Others, IsSysEnter
<1>2. e.length \in Nat /\ e.length \notin {63, 64}
  BY <1>1, TraceRecordAssumption
<1>3. Line(e) = Of(Letter, e.length)
  BY <1>1 DEF Line
<1> DEFINE n == e.length
<1>4. Letter \in Codes
  BY DEF Letter, Codes
<1>5. n \in Nat /\ n \in Int
  BY <1>2
<1> HIDE DEF n
<1>6. /\ Of(Letter, n) \in Seq(Codes)
      /\ Len(Of(Letter, n)) = IF n > 0 THEN n ELSE 0
      /\ \A i \in 1..n : Of(Letter, n)[i] = Letter
  BY <1>4, <1>5, OfIs
<1>7. Len(Of(Letter, n)) = n
  BY ONLY <1>5, <1>6
<1>8. n > 0 => 1 \in 1..n
  BY <1>5
<1>9. n > 0 => Of(Letter, n)[1] = Letter
  BY <1>6, <1>8
<1> USE DEF n
<1> QED BY ONLY <1>1, <1>2, <1>3, <1>6, <1>7, <1>9

LEMMA LineType ==
    ASSUME NEW e \in SysEnters \cup Others
    PROVE  /\ Line(e) \in Seq(Codes) /\ Len(Line(e)) \in Nat
           /\ ~(Len(Line(e)) < 63) =>
                RecordOf(Line(e)) \in Records /\ Len(RecordOf(Line(e)).name) <= 16
<1> DEFINE line == Line(e)
<1>1. CASE e \in SysEnters
  <2>1. /\ line \in Seq(Codes) /\ Len(line) >= 83
        /\ line[16] = Dash \/ line[17] = Dash
    BY <1>1, LineColumns
  <2> HIDE DEF line
  <2>2. Len(line) \in Nat /\ Len(line) >= 65
    BY <2>1, LenProperties
  <2>3. Dash # Space
    BY DEF Dash, Space
  <2>4. \E k \in 1..17 : line[k] # Space
    <3>1. 16 \in 1..17 /\ 17 \in 1..17
      OBVIOUS
    <3> QED BY <2>1, <2>3, <3>1
  <2>5. RecordOf(line) \in Records /\ Len(RecordOf(line).name) <= 16
    BY <2>1, <2>2, <2>4, RecordType
  <2> QED BY <2>1, <2>2, <2>5 DEF line
<1>2. CASE e \in Others
  <2>1. /\ line \in Seq(Codes) /\ Len(line) = e.length
        /\ e.length \in Nat /\ e.length \notin {63, 64}
        /\ e.length > 0 => line[1] = Letter
    BY <1>2, LineOfOther
  <2> HIDE DEF line
  <2>2. ASSUME ~(Len(line) < 63)
        PROVE  RecordOf(line) \in Records /\ Len(RecordOf(line).name) <= 16
    <3>1. Len(line) >= 65 /\ e.length > 0
      BY <2>1, <2>2
    <3>2. 1 \in 1..17 /\ line[1] # Space
      BY <2>1, <3>1 DEF Letter, Space
    <3> QED BY <2>1, <3>1, <3>2, RecordType
  <2>3. Len(line) \in Nat
    BY <2>1
  <2> QED BY <2>1, <2>2, <2>3 DEF line
<1> QED BY <1>1, <1>2

(* The events whose lines are read among the first c of a trace.           *)
ReadOf(tr, c) ==
    FlattenSeq([i \in 1..c |-> IF IsRead(Line(tr[i])) THEN <<tr[i]>> ELSE <<>>])

LEMMA ReadOfType ==
    ASSUME NEW V, NEW tr \in Seq(V), NEW c \in 0..Len(tr)
    PROVE  /\ ReadOf(tr, c) \in Seq(V)
           /\ Len(ReadOf(tr, c)) \in Nat
           /\ \A last \in V : ReadOf(Append(tr, last), c) = ReadOf(tr, c)
           /\ c < Len(tr) => ReadOf(tr, c + 1) =
                                IF IsRead(Line(tr[c + 1])) THEN Append(ReadOf(tr, c), tr[c + 1])
                                                           ELSE ReadOf(tr, c)
<1> DEFINE one(e) == IF IsRead(Line(e)) THEN <<e>> ELSE <<>>
           picked(t, n) == [i \in 1..n |-> one(t[i])]
<1>1. Len(tr) \in Nat /\ c \in Nat /\ c <= Len(tr)
  BY LenProperties
<1>2. \A e \in V : one(e) \in Seq(V)
  <2>1. <<>> \in Seq(V)
    BY EmptySeq
  <2>2. \A e \in V : <<e>> \in Seq(V)
    OBVIOUS
  <2> QED BY <2>1, <2>2
<1>3. \A t, n : ReadOf(t, n) = FlattenSeq(picked(t, n))
  BY DEF ReadOf
<1>4. ASSUME NEW n \in 0..Len(tr)
      PROVE  picked(tr, n) \in Seq(Seq(V)) /\ Len(picked(tr, n)) = n
  <2>1. n \in Nat
    BY <1>1
  <2>2. \A i \in 1..n : one(tr[i]) \in Seq(V)
    <3> HIDE DEF one
    <3>1. \A i \in 1..n : tr[i] \in V
      BY <1>1, ElementOfSeq
    <3> QED BY <1>2, <3>1
  <2> HIDE DEF one
  <2> QED BY <2>1, <2>2
<1>5. ReadOf(tr, c) \in Seq(V) /\ Len(ReadOf(tr, c)) \in Nat
  <2> HIDE DEF one, picked
  <2>1. FlattenSeq(picked(tr, c)) \in Seq(V)
    BY <1>4, FlattenType
  <2> QED BY <1>3, <2>1, LenProperties
<1>6. ASSUME NEW last \in V PROVE ReadOf(Append(tr, last), c) = ReadOf(tr, c)
  <2>1. \A i \in 1..c : Append(tr, last)[i] = tr[i]
    BY <1>1, AppendProperties
  <2>2. picked(Append(tr, last), c) = picked(tr, c)
    <3> HIDE DEF one
    <3> QED BY <2>1
  <2> HIDE DEF one, picked
  <2> QED BY <1>3, <2>2
<1>7. ASSUME c < Len(tr)
      PROVE  ReadOf(tr, c + 1) = IF IsRead(Line(tr[c + 1])) THEN Append(ReadOf(tr, c), tr[c + 1])
                                                            ELSE ReadOf(tr, c)
  <2> DEFINE e == tr[c + 1]
             p == picked(tr, c)
             more == picked(tr, c + 1)
  <2>1. c + 1 \in 1..Len(tr) /\ e \in V
    <3>1. c + 1 \in 1..Len(tr)
      BY <1>1, <1>7
    <3> QED BY <3>1, ElementOfSeq
  <2>2. p \in Seq(Seq(V)) /\ Len(p) = c
    <3> HIDE DEF picked
    <3> QED BY <1>4
  <2>3. more \in Seq(Seq(V)) /\ Len(more) = c + 1
    <3> HIDE DEF picked
    <3>1. c + 1 \in 0..Len(tr)
      BY <1>1, <2>1
    <3> QED BY <1>4, <3>1
  <2>4. (\A i \in 1..c : more[i] = p[i]) /\ more[c + 1] = one(e)
    <3> HIDE DEF one
    <3>1. \A i \in 1..c : i \in 1..(c + 1)
      BY <1>1
    <3>2. c + 1 \in 1..(c + 1)
      BY <1>1
    <3> QED BY <3>1, <3>2
  <2>5. one(e) \in Seq(V)
    BY <1>2, <2>1
  <2> DEFINE o == one(e)
  <2>12. o \in Seq(V) /\ more[c + 1] = o
    BY <2>4, <2>5
  <2>6. e = tr[c + 1] /\ o = (IF IsRead(Line(e)) THEN <<e>> ELSE <<>>)
    OBVIOUS
  <2>7. ReadOf(tr, c) = FlattenSeq(p) /\ ReadOf(tr, c + 1) = FlattenSeq(more)
    BY <1>3
  <2> HIDE DEF p, more, o, e, one, picked
  <2>8. more = Append(p, o)
    <3>1. Append(p, o) \in Seq(Seq(V)) /\ Len(Append(p, o)) = c + 1
      BY <2>2, <2>12, AppendProperties
    <3>2. ASSUME NEW i \in 1..(c + 1) PROVE more[i] = Append(p, o)[i]
      <4>1. CASE i \in 1..c
        BY <2>2, <2>4, <2>12, <4>1, AppendProperties
      <4>2. CASE i = c + 1
        <5>1. Append(p, o)[Len(p) + 1] = o
          BY <2>2, <2>12, AppendProperties
        <5> QED BY <2>2, <2>12, <4>2, <5>1
      <4>3. i \in 1..c \/ i = c + 1
        BY <1>1
      <4> QED BY <4>1, <4>2, <4>3
    <3> QED BY <2>3, <3>1, <3>2, SeqEqual
  <2>9. FlattenSeq(more) = FlattenSeq(p) \o o
    BY <2>2, <2>12, <2>8, FlattenAppend
  <2>10. CASE IsRead(Line(e))
    <3>1. o = <<e>>
      BY <2>6, <2>10
    <3>2. ReadOf(tr, c) \o <<e>> = Append(ReadOf(tr, c), e)
      BY <1>5, <2>1
    <3> QED BY <2>6, <2>7, <2>9, <2>10, <3>1, <3>2
  <2>11. CASE ~IsRead(Line(e))
    <3>1. o = <<>>
      BY <2>6, <2>11
    <3>2. ReadOf(tr, c) \o <<>> = ReadOf(tr, c)
      BY <1>5, ConcatEmptySeq
    <3> QED BY <2>6, <2>7, <2>9, <2>11, <3>1, <3>2
  <2> QED BY <2>10, <2>11
<1> QED BY <1>5, <1>6, <1>7

LEMMA RecordedIs == Recorded = ReadOf(trace, collected)
  BY DEF Recorded, ReadOf

(* What the worker's data are: a record of each line that is read, in the  *)
(* order of the trace.                                                     *)
RecordInv ==
    /\ RecordTypeOK
    /\ Len(data) = Len(Recorded)
    /\ \A i \in 1..Len(data) : data[i] = RecordOf(Line(Recorded[i]))
    /\ terminated => collected < Len(trace)
    /\ OnlyOthersTerminate

LEMMA InitRecordInv == RecordInit => RecordInv
<1> SUFFICES ASSUME RecordInit PROVE RecordInv
  OBVIOUS
<1>1. trace = <<>> /\ collected = 0 /\ data = <<>> /\ terminated = FALSE
  BY DEF RecordInit
<1>2. trace \in Seq(SysEnters \cup Others) /\ data \in Seq(Records)
  BY <1>1, EmptySeq
<1>3. collected \in 0..Len(trace) /\ Len(data) = 0
  BY <1>1
<1>5. RecordTypeOK
  <2>1. \A i \in 1..Len(data) : Len(data[i].name) <= 16
    BY <1>3
  <2>2. terminated \in BOOLEAN
    BY <1>1
  <2> QED BY ONLY <1>2, <1>3, <2>1, <2>2 DEF RecordTypeOK
<1>6. Recorded = <<>>
  <2>1. [i \in 1..0 |-> IF IsRead(Line(trace[i])) THEN <<trace[i]>> ELSE <<>>] = <<>>
    OBVIOUS
  <2> QED BY <1>1, <2>1, FlattenEmpty DEF Recorded
<1>7. Len(data) = Len(Recorded) /\ \A i \in 1..Len(data) : data[i] = RecordOf(Line(Recorded[i]))
  BY <1>1, <1>6
<1> QED BY <1>1, <1>2, <1>5, <1>7 DEF RecordInv, OnlyOthersTerminate

(* The kernel prints: what has been collected stays.                       *)
LEMMA TraceKeepsInv == RecordInv /\ Trace => RecordInv'
<1> SUFFICES ASSUME RecordInv, Trace PROVE RecordInv'
  OBVIOUS
<1> DEFINE V == SysEnters \cup Others
<1>1. PICK e \in V : trace' = Append(trace, e)
  BY DEF Trace
<1>2. collected' = collected /\ data' = data /\ terminated' = terminated
  BY DEF Trace
<1>3. trace \in Seq(V) /\ collected \in 0..Len(trace)
  BY DEF RecordInv, RecordTypeOK
<1> HIDE DEF V
<1>4. /\ trace' \in Seq(V) /\ Len(trace') = Len(trace) + 1 /\ Len(trace) \in Nat
      /\ \A i \in 1..Len(trace) : trace'[i] = trace[i]
  BY <1>1, <1>3, AppendProperties, LenProperties
<1>5. collected' \in 0..Len(trace')
  <2>1. \A n \in Nat : \A k \in 0..n : k \in 0..(n + 1)
    OBVIOUS
  <2>2. collected \in 0..(Len(trace) + 1)
    BY <1>3, <1>4, <2>1
  <2> QED BY <1>2, <1>4, <2>2
<1>6. Recorded' = Recorded
  <2>1. Recorded = ReadOf(trace, collected)
    BY RecordedIs
  <2>2. Recorded' = ReadOf(trace', collected')
    BY DEF Recorded, ReadOf
  <2>3. ReadOf(Append(trace, e), collected) = ReadOf(trace, collected)
    BY <1>3, ReadOfType
  <2> QED BY <1>1, <1>2, <2>1, <2>2, <2>3
<1>7. RecordTypeOK'
  <2>1. /\ data \in Seq(Records)
        /\ \A i \in 1..Len(data) : Len(data[i].name) <= 16
        /\ terminated \in BOOLEAN
    BY DEF RecordInv, RecordTypeOK
  <2>2. trace' \in Seq(SysEnters \cup Others)
    BY <1>4 DEF V
  <2> QED BY <1>2, <1>5, <2>1, <2>2 DEF RecordTypeOK
<1>8. /\ data' \in Seq(Records) /\ Len(data') = Len(Recorded')
      /\ \A i \in 1..Len(data') : data'[i] = RecordOf(Line(Recorded'[i]))
  <2>1. /\ data \in Seq(Records) /\ Len(data) = Len(Recorded)
        /\ \A i \in 1..Len(data) : data[i] = RecordOf(Line(Recorded[i]))
    BY DEF RecordInv, RecordTypeOK
  <2> QED BY <1>2, <1>6, <2>1
<1>9. terminated' => collected' < Len(trace')
  <2>1. terminated => collected < Len(trace)
    BY DEF RecordInv
  <2>2. collected < Len(trace) => collected < Len(trace) + 1
    BY <1>3, <1>4
  <2> QED BY <1>2, <1>4, <2>1, <2>2
<1>10. OnlyOthersTerminate'
  <2> SUFFICES ASSUME terminated'
               PROVE  Line(trace'[collected' + 1]) \in {Line([length |-> n]) : n \in {61, 62}}
    BY DEF OnlyOthersTerminate
  <2>1. collected < Len(trace) /\ Line(trace[collected + 1]) \in {Line([length |-> n]) : n \in {61, 62}}
    BY <1>2 DEF RecordInv, OnlyOthersTerminate
  <2>2. collected + 1 \in 1..Len(trace)
    BY <1>3, <1>4, <2>1
  <2>3. trace'[collected + 1] = trace[collected + 1]
    BY <1>4, <2>2
  <2> QED BY <1>2, <2>1, <2>3
<1>11. data' \in Seq(Records)
  BY <1>8
<1> QED BY <1>7, <1>8, <1>9, <1>10 DEF RecordInv

(* A line of sys_enter is long enough for its columns.                     *)
LEMMA ShortLines ==
    ASSUME NEW e \in SysEnters \cup Others, IsRead(Line(e)), Len(Line(e)) < 63
    PROVE  Line(e) \in {Line([length |-> n]) : n \in {61, 62}}
<1>1. Len(Line(e)) \in Nat /\ Len(Line(e)) > 60
  BY LineType DEF IsRead
<1>2. CASE e \in SysEnters
  <2>1. Len(Line(e)) >= 83
    BY <1>2, LineColumns
  <2> QED BY <1>1, <2>1
<1>3. CASE e \in Others
  <2>1. e = [length |-> e.length] /\ Len(Line(e)) = e.length
    BY <1>3, LineOfOther
  <2>2. e.length \in {61, 62}
    BY <1>1, <2>1
  <2> QED BY <2>1, <2>2
<1> QED BY <1>2, <1>3

LEMMA CollectKeepsInv == RecordInv /\ Collect => RecordInv'
<1> SUFFICES ASSUME RecordInv, Collect PROVE RecordInv'
  OBVIOUS
<1> DEFINE V == SysEnters \cup Others
           e == trace[collected + 1]
           line == Line(e)
<1>1. ~terminated /\ collected < Len(trace) /\ trace' = trace
  BY DEF Collect
<1>2. trace \in Seq(V) /\ collected \in 0..Len(trace) /\ Len(trace) \in Nat
  BY LenProperties DEF RecordInv, RecordTypeOK
<1>3. collected + 1 \in 1..Len(trace) /\ e \in V
  <2>1. collected + 1 \in 1..Len(trace)
    BY <1>1, <1>2
  <2> HIDE DEF V
  <2> QED BY <1>2, <2>1, ElementOfSeq
<1>4. \A i \in 1..Len(data) : Len(data[i].name) <= 16
  BY DEF RecordInv, RecordTypeOK
<1>5. /\ data \in Seq(Records) /\ Len(data) = Len(Recorded)
      /\ \A i \in 1..Len(data) : data[i] = RecordOf(Line(Recorded[i]))
  BY DEF RecordInv, RecordTypeOK
<1>7. Recorded = ReadOf(trace, collected) /\ Recorded' = ReadOf(trace', collected')
  BY RecordedIs DEF Recorded, ReadOf
<1>8. CASE IsRead(line) /\ Len(line) < 63
  <2>1. terminated' = TRUE /\ collected' = collected /\ data' = data
    BY <1>8 DEF Collect
  <2>2. Recorded' = Recorded
    BY <1>1, <1>7, <2>1
  <2>3. Line(trace[collected + 1]) \in {Line([length |-> n]) : n \in {61, 62}}
    BY <1>3, <1>8, ShortLines
  <2>4. RecordTypeOK'
    BY <1>1, <1>2, <1>4, <1>5, <2>1 DEF RecordTypeOK
  <2>5. OnlyOthersTerminate'
    BY <1>1, <2>1, <2>3 DEF OnlyOthersTerminate
  <2>6. terminated' => collected' < Len(trace')
    BY <1>1, <2>1
  <2>7. /\ data' \in Seq(Records) /\ Len(data') = Len(Recorded')
        /\ \A i \in 1..Len(data') : data'[i] = RecordOf(Line(Recorded'[i]))
    BY <1>5, <2>1, <2>2
  <2> QED BY <2>4, <2>5, <2>6, <2>7 DEF RecordInv
<1>9. CASE ~(IsRead(line) /\ Len(line) < 63)
  <2>1. /\ data' = IF IsRead(line) THEN Append(data, RecordOf(line)) ELSE data
        /\ collected' = collected + 1 /\ terminated' = terminated
    BY <1>9 DEF Collect
  <2>2. Recorded' = IF IsRead(line) THEN Append(Recorded, e) ELSE Recorded
    <3> HIDE DEF V
    <3>1. ReadOf(trace, collected + 1) = IF IsRead(line) THEN Append(ReadOf(trace, collected), e)
                                                        ELSE ReadOf(trace, collected)
      BY <1>1, <1>2, ReadOfType
    <3> QED BY <1>1, <1>7, <2>1, <3>1
  <2>3. Recorded \in Seq(V)
    <3> HIDE DEF V
    <3> QED BY <1>2, <1>7, ReadOfType
  <2>4. IsRead(line) => RecordOf(line) \in Records /\ Len(RecordOf(line).name) <= 16
    BY <1>3, <1>9, LineType
  <2> HIDE DEF V, line, e
  <2>5. /\ data' \in Seq(Records) /\ Len(data') = Len(Recorded')
        /\ \A i \in 1..Len(data') : data'[i] = RecordOf(Line(Recorded'[i]))
        /\ \A i \in 1..Len(data') : Len(data'[i].name) <= 16
    <3>1. CASE IsRead(line)
      <4> DEFINE r == RecordOf(line)
      <4>1. data' = Append(data, r) /\ Recorded' = Append(Recorded, e)
        BY <2>1, <2>2, <3>1
      <4>2. r \in Records /\ Len(r.name) <= 16 /\ r = RecordOf(Line(e))
        BY <2>4, <3>1 DEF line
      <4> HIDE DEF r
      <4>3. Len(data) \in Nat
        BY <1>5, LenProperties
      <4>4. /\ Append(data, r) \in Seq(Records) /\ Len(Append(data, r)) = Len(data) + 1
            /\ \A i \in 1..Len(data) : Append(data, r)[i] = data[i]
            /\ Append(data, r)[Len(data) + 1] = r
        BY <1>5, <4>2, AppendProperties
      <4>5. /\ Len(Append(Recorded, e)) = Len(data) + 1
            /\ \A i \in 1..Len(data) : Append(Recorded, e)[i] = Recorded[i]
            /\ Append(Recorded, e)[Len(data) + 1] = e
        BY <1>3, <1>5, <2>3, AppendProperties
      <4>6. ASSUME NEW i \in 1..(Len(data) + 1)
            PROVE  Append(data, r)[i] = RecordOf(Line(Append(Recorded, e)[i]))
                   /\ Len(Append(data, r)[i].name) <= 16
        <5>1. CASE i \in 1..Len(data)
          BY <1>4, <1>5, <4>4, <4>5, <5>1
        <5>2. CASE i = Len(data) + 1
          BY <4>2, <4>4, <4>5, <5>2
        <5>3. i \in 1..Len(data) \/ i = Len(data) + 1
          BY <4>3
        <5> QED BY <5>1, <5>2, <5>3
      <4> QED BY <4>1, <4>4, <4>5, <4>6
    <3>2. CASE ~IsRead(line)
      <4>1. data' = data /\ Recorded' = Recorded
        BY <2>1, <2>2, <3>2
      <4> QED BY <1>4, <1>5, <4>1
    <3> QED BY <3>1, <3>2
  <2>6. RecordTypeOK'
    <3>2. trace' \in Seq(SysEnters \cup Others)
      BY <1>1, <1>2 DEF V
    <3>3. collected' \in 0..Len(trace')
      BY <1>1, <1>2, <2>1
    <3>4. terminated' \in BOOLEAN
      BY <2>1 DEF RecordInv, RecordTypeOK
    <3> QED BY <2>5, <3>2, <3>3, <3>4 DEF RecordTypeOK
  <2>7. ~terminated'
    BY <1>1, <2>1
  <2> QED BY <2>5, <2>6, <2>7 DEF RecordInv, OnlyOthersTerminate
<1> QED BY <1>8, <1>9

LEMMA NextRecordInv == RecordInv /\ [RecordNext]_recordVars => RecordInv'
<1>1. RecordInv /\ Trace => RecordInv'
  BY TraceKeepsInv
<1>2. RecordInv /\ Collect => RecordInv'
  BY CollectKeepsInv
<1>3. RecordInv /\ UNCHANGED recordVars => RecordInv'
  <2> SUFFICES ASSUME RecordInv, UNCHANGED recordVars PROVE RecordInv'
    OBVIOUS
  <2>1. trace' = trace /\ collected' = collected /\ data' = data /\ terminated' = terminated
    BY DEF recordVars
  <2>2. RecordTypeOK' = RecordTypeOK
    BY <2>1 DEF RecordTypeOK
  <2>3. OnlyOthersTerminate' = OnlyOthersTerminate
    BY <2>1 DEF OnlyOthersTerminate
  <2>4. Recorded' = Recorded
    BY <2>1 DEF Recorded
  <2> QED BY <2>1, <2>2, <2>3, <2>4 DEF RecordInv
<1> QED BY <1>1, <1>2, <1>3 DEF RecordNext

LEMMA RecordInvariant == RecordSpec => []RecordInv
  BY InitRecordInv, NextRecordInv, PTL DEF RecordSpec

(* sys_record.h:38-47, sys_params_record.h:20-27: a name is cut in front   *)
(* of the pid and a call is read within its type, whatever the line.       *)
THEOREM RecordTypeCorrect == RecordSpec => []RecordTypeOK
<1>1. RecordInv => RecordTypeOK
  BY DEF RecordInv
<1> QED BY <1>1, RecordInvariant, PTL

(* syscall_params.h:17, 29-31: the worker is not ended by a line of        *)
(* sys_enter, wherever its columns are.                                    *)
THEOREM OthersTerminate == RecordSpec => []OnlyOthersTerminate
<1>1. RecordInv => OnlyOthersTerminate
  BY DEF RecordInv
<1> QED BY <1>1, RecordInvariant, PTL

-----------------------------------------------------------------------------
(* TraceRecord: the numbers of calls that are not where they are looked    *)
(* for, and the records of those that are                                  *)

LEMMA ValueOfStart ==
    ASSUME NEW s \in Seq(Codes), NEW n \in Nat, n + 1 <= Len(s)
    PROVE  Value(SubSeq(s, 1, n + 1)) = Value(SubSeq(s, 1, n)) * 10 + s[n + 1]
<1>0. Len(s) \in Nat
  BY LenProperties
<1> DEFINE more == SubSeq(s, 1, n + 1)
           less == SubSeq(s, 1, n)
           c == s[n + 1]
<1>1. n + 1 \in Nat /\ 0 \in Nat /\ 0 <= n + 1 /\ 0 <= n /\ n <= Len(s)
  BY <1>0
<1>2. /\ more \in Seq(Codes) /\ Len(more) = n + 1
      /\ \A i \in 1..(n + 1) : more[i] = s[i]
  <2> DEFINE b == n + 1
  <2>1. b \in Nat /\ 0 <= b /\ b <= Len(s)
    BY <1>1
  <2> HIDE DEF b
  <2>2. /\ SubSeq(s, 0 + 1, b) \in Seq(Codes) /\ Len(SubSeq(s, 0 + 1, b)) = b - 0
        /\ \A i \in 1..(b - 0) : SubSeq(s, 0 + 1, b)[i] = s[0 + i]
    BY <1>1, <2>1, Between
  <2>3. 0 + 1 = 1 /\ b - 0 = b /\ \A i \in 1..b : 0 + i = i
    BY <2>1
  <2>4. SubSeq(s, 1, b) \in Seq(Codes) /\ Len(SubSeq(s, 1, b)) = b
    BY <2>2, <2>3
  <2>5. \A i \in 1..b : SubSeq(s, 1, b)[i] = s[i]
    BY <2>2, <2>3
  <2> QED BY <2>4, <2>5 DEF b
<1>3. /\ less \in Seq(Codes) /\ Len(less) = n
      /\ \A i \in 1..n : less[i] = s[i]
  <2>2. /\ SubSeq(s, 0 + 1, n) \in Seq(Codes) /\ Len(SubSeq(s, 0 + 1, n)) = n - 0
        /\ \A i \in 1..(n - 0) : SubSeq(s, 0 + 1, n)[i] = s[0 + i]
    BY <1>1, Between
  <2>3. 0 + 1 = 1 /\ n - 0 = n /\ \A i \in 1..n : 0 + i = i
    OBVIOUS
  <2>4. SubSeq(s, 1, n) \in Seq(Codes) /\ Len(SubSeq(s, 1, n)) = n
    BY <2>2, <2>3
  <2>5. \A i \in 1..n : SubSeq(s, 1, n)[i] = s[i]
    BY <2>2, <2>3
  <2> QED BY <2>4, <2>5
<1>4. c \in Codes
  <2>1. n + 1 \in 1..Len(s)
    BY <1>0
  <2> QED BY <2>1, ElementOfSeq
<1> HIDE DEF more, less
<1>5. /\ Append(less, c) \in Seq(Codes) /\ Len(Append(less, c)) = n + 1
      /\ \A i \in 1..n : Append(less, c)[i] = less[i]
      /\ Append(less, c)[n + 1] = c
  <2> HIDE DEF c
  <2>1. /\ Append(less, c) \in Seq(Codes) /\ Len(Append(less, c)) = Len(less) + 1
        /\ \A i \in 1..Len(less) : Append(less, c)[i] = less[i]
        /\ Append(less, c)[Len(less) + 1] = c
    BY <1>3, <1>4, AppendProperties
  <2> QED BY <1>3, <2>1
<1>6. more = Append(less, c)
  <2>1. ASSUME NEW i \in 1..(n + 1) PROVE more[i] = Append(less, c)[i]
    <3>1. i \in 1..n \/ i = n + 1
      OBVIOUS
    <3> QED BY <1>2, <1>3, <1>5, <3>1
  <2> HIDE DEF c
  <2> QED BY <1>2, <1>5, <2>1, SeqEqual
<1>7. Codes \subseteq Int
  BY DEF Codes
<1>8. less \in Seq(Int) /\ c \in Int
  BY <1>3, <1>4, <1>7, WiderSeq
<1>9. Value(Append(less, c)) = Value(less) * 10 + c
  BY <1>8, ValueOfMore
<1> QED BY <1>6, <1>9 DEF more, less

LEMMA ShortCode ==
    ASSUME NEW s \in Seq(Codes), Len(s) = 3
    PROVE  /\ s[1] = Space => NumberIn(s) = 0
           /\ s[1] # Space /\ s[2] = Space => NumberIn(s) = s[1]
           /\ s[1] # Space /\ s[2] # Space /\ s[3] = Space => NumberIn(s) = s[1] * 10 + s[2]
<1>0. Len(s) \in Nat /\ 1 \in 1..Len(s) /\ 2 \in 1..Len(s) /\ 3 \in 1..Len(s)
  OBVIOUS
<1>1. s[1] \in Int /\ s[2] \in Int
  <2>1. s[1] \in Codes /\ s[2] \in Codes
    BY <1>0, ElementOfSeq
  <2>2. \A c \in Codes : c \in Int
    BY DEF Codes
  <2> QED BY <2>1, <2>2
<1>2. SubSeq(s, 1, 0) = <<>> /\ Value(SubSeq(s, 1, 0)) = 0
  <2>1. SubSeq(s, 1, 0) = <<>>
    OBVIOUS
  <2> QED BY <2>1, ValueOfMore
<1>3. Value(SubSeq(s, 1, 1)) = s[1]
  <2>1. Value(SubSeq(s, 1, 0 + 1)) = Value(SubSeq(s, 1, 0)) * 10 + s[0 + 1]
    BY ValueOfStart
  <2>2. 0 + 1 = 1 /\ 0 * 10 + s[1] = s[1]
    BY <1>1
  <2> QED BY <1>2, <2>1, <2>2
<1>4. Value(SubSeq(s, 1, 2)) = s[1] * 10 + s[2]
  <2>1. Value(SubSeq(s, 1, 1 + 1)) = Value(SubSeq(s, 1, 1)) * 10 + s[1 + 1]
    <3>1. \A n \in Nat : n + 1 <= Len(s) =>
              Value(SubSeq(s, 1, n + 1)) = Value(SubSeq(s, 1, n)) * 10 + s[n + 1]
      BY ValueOfStart
    <3>2. 1 \in Nat /\ 1 + 1 <= Len(s)
      OBVIOUS
    <3> QED BY <3>1, <3>2, Zenon
  <2>2. 1 + 1 = 2
    OBVIOUS
  <2> QED BY <1>3, <2>1, <2>2
<1>5. ASSUME s[1] = Space PROVE NumberIn(s) = 0
  <2>1. NumberIn(s) = Value(SubSeq(s, 1, 1 - 1))
    <3>1. \A i \in 1..(1 - 1) : s[i] # Space
      OBVIOUS
    <3> QED BY <1>0, <1>5, <3>1, NumberBeforeSpace
  <2>2. 1 - 1 = 0
    OBVIOUS
  <2> QED BY <1>2, <2>1, <2>2
<1>6. ASSUME s[1] # Space, s[2] = Space PROVE NumberIn(s) = s[1]
  <2>1. NumberIn(s) = Value(SubSeq(s, 1, 2 - 1))
    <3>1. \A i \in 1..(2 - 1) : s[i] # Space
      <4>1. \A i \in 1..(2 - 1) : i = 1
        OBVIOUS
      <4> QED BY <1>6, <4>1
    <3> QED BY <1>0, <1>6, <3>1, NumberBeforeSpace
  <2>2. 2 - 1 = 1
    OBVIOUS
  <2> QED BY <1>3, <2>1, <2>2
<1>7. ASSUME s[1] # Space, s[2] # Space, s[3] = Space PROVE NumberIn(s) = s[1] * 10 + s[2]
  <2>1. NumberIn(s) = Value(SubSeq(s, 1, 3 - 1))
    <3>1. \A i \in 1..(3 - 1) : s[i] # Space
      <4>1. \A i \in 1..(3 - 1) : i = 1 \/ i = 2
        OBVIOUS
      <4> QED BY <1>7, <4>1
    <3> QED BY <1>0, <1>7, <3>1, NumberBeforeSpace
  <2>2. 3 - 1 = 2
    OBVIOUS
  <2> QED BY <1>4, <2>1, <2>2
<1> QED BY <1>5, <1>6, <1>7

(* syscall_params.h:26-27: what the columns of a shifted line have.        *)
LEMMA ShiftedCall ==
    ASSUME NEW e \in SysEnters
    PROVE  /\ Shift(e) \in 1..4 => RecordOf(Line(e)).syscall = <<0, 34, 334, 0>>[Shift(e)]
           /\ Shift(e) = -1 /\ e.nr \in 0..9 => RecordOf(Line(e)).syscall = 0
<1> DEFINE line == Line(e)
           k == Shift(e)
           s == SubSeq(line, 63, 65)
           n == Len(Number(e.nr))
<1>1. /\ line \in Seq(Codes) /\ Len(line) >= 83
      /\ line[59 + k] = Space /\ line[60 + k] = 30
      /\ line[61 + k] = 34 /\ line[62 + k] = Space
      /\ line[63 + k + n] = Space
  BY LineColumns
<1>2. RecordOf(line).syscall = NumberIn(s)
  BY DEF RecordOf
<1> HIDE DEF line, s, n, k
<1>3. Len(line) >= 65
  BY ONLY <1>1, LenProperties
<1>4. s \in Seq(Codes) /\ Len(s) = 3 /\ \A i \in 1..3 : s[i] = line[62 + i]
  BY <1>1, <1>3, ColumnsOf DEF s
<1>5. s[1] = line[63] /\ s[2] = line[64] /\ s[3] = line[65]
  <2>1. 1 \in 1..3 /\ 2 \in 1..3 /\ 3 \in 1..3 /\ 62 + 1 = 63 /\ 62 + 2 = 64 /\ 62 + 3 = 65
    OBVIOUS
  <2> QED BY <1>4, <2>1
<1>6. /\ s[1] = Space => NumberIn(s) = 0
      /\ s[1] # Space /\ s[2] = Space => NumberIn(s) = s[1]
      /\ s[1] # Space /\ s[2] # Space /\ s[3] = Space => NumberIn(s) = s[1] * 10 + s[2]
  BY <1>4, ShortCode
<1>7. 30 # Space /\ 34 # Space
  BY DEF Space
<1>8. ASSUME k = 1 PROVE NumberIn(s) = 0
  <2>1. 62 + k = 63
    BY <1>8
  <2> QED BY <1>1, <1>5, <1>6, <2>1
<1>9. ASSUME k = 2 PROVE NumberIn(s) = 34
  <2>1. 61 + k = 63 /\ 62 + k = 64
    BY <1>9
  <2> QED BY <1>1, <1>5, <1>6, <1>7, <2>1
<1>10. ASSUME k = 3 PROVE NumberIn(s) = 334
  <2>1. 60 + k = 63 /\ 61 + k = 64 /\ 62 + k = 65
    BY <1>10
  <2>2. s[1] = 30 /\ s[2] = 34 /\ s[3] = Space
    BY <1>1, <1>5, <2>1
  <2>3. NumberIn(s) = 30 * 10 + 34
    BY <1>6, <1>7, <2>2
  <2> QED BY ONLY <2>3
<1>11. ASSUME k = 4 PROVE NumberIn(s) = 0
  <2>1. 59 + k = 63
    BY <1>11
  <2> QED BY <1>1, <1>5, <1>6, <2>1
<1>12. ASSUME k = -1, e.nr \in 0..9 PROVE NumberIn(s) = 0
  <2>1. n = 1
    <3> DEFINE c == e.nr
    <3>1. c \in Nat /\ ~(c < 0) /\ c < 10
      BY <1>12
    <3>2. Number(c) = Digits[c]
      BY <3>1 DEF Number
    <3>3. Len(Digits[c]) = 1
      BY <3>1, DigitsLength
    <3> QED BY <3>2, <3>3 DEF n
  <2>2. 63 + k + n = 63
    BY ONLY <1>12, <2>1
  <2> QED BY <1>1, <1>5, <1>6, <2>2
<1>13. ASSUME k \in 1..4 PROVE NumberIn(s) = <<0, 34, 334, 0>>[k]
  <2>1. k = 1 \/ k = 2 \/ k = 3 \/ k = 4
    BY <1>13
  <2>2. /\ <<0, 34, 334, 0>>[1] = 0 /\ <<0, 34, 334, 0>>[2] = 34
        /\ <<0, 34, 334, 0>>[3] = 334 /\ <<0, 34, 334, 0>>[4] = 0
    OBVIOUS
  <2> QED BY <1>8, <1>9, <1>10, <1>11, <2>1, <2>2
<1> USE DEF line, k
<1> QED BY <1>2, <1>12, <1>13

(* The event of a record.                                                  *)
LEMMA EventOfRecord ==
    ASSUME RecordInv, NEW i \in 1..Len(data), IsSysEnter(Recorded[i])
    PROVE  Recorded[i] \in SysEnters /\ data[i] = RecordOf(Line(Recorded[i]))
<1> DEFINE V == SysEnters \cup Others
           e == Recorded[i]
<1>1. Recorded \in Seq(V)
  <2>1. trace \in Seq(V) /\ collected \in 0..Len(trace)
    BY DEF RecordInv, RecordTypeOK
  <2> HIDE DEF V
  <2> QED BY <2>1, RecordedIs, ReadOfType
<1>2. i \in 1..Len(Recorded)
  BY DEF RecordInv
<1>3. e \in V
  <2> HIDE DEF V
  <2> QED BY <1>1, <1>2, ElementOfSeq
<1>4. e \notin Others
  BY DEF Others, IsSysEnter
<1> QED BY <1>3, <1>4 DEF RecordInv

(* syscall_params.h:26-27: once the machine has been up for 100000 seconds *)
(* every call is recorded as another one.                                  *)
THEOREM ShiftedCallsAreLost == RecordSpec => []CallsOfShiftedLines
<1>1. RecordInv => CallsOfShiftedLines
  <2> SUFFICES ASSUME RecordInv, NEW i \in 1..Len(data), IsSysEnter(Recorded[i])
               PROVE  /\ Shift(Recorded[i]) \in 1..4 =>
                            data[i].syscall = <<0, 34, 334, 0>>[Shift(Recorded[i])]
                      /\ Shift(Recorded[i]) = -1 /\ Recorded[i].nr \in 0..9 =>
                            data[i].syscall = 0
    BY Zenon DEF CallsOfShiftedLines
  <2>1. Recorded[i] \in SysEnters /\ data[i] = RecordOf(Line(Recorded[i]))
    BY EventOfRecord
  <2> DEFINE e == Recorded[i]
  <2> HIDE DEF e
  <2>2. /\ Shift(e) \in 1..4 => RecordOf(Line(e)).syscall = <<0, 34, 334, 0>>[Shift(e)]
        /\ Shift(e) = -1 /\ e.nr \in 0..9 => RecordOf(Line(e)).syscall = 0
    BY <2>1, ShiftedCall DEF e
  <2> QED BY <2>1, <2>2 DEF e
<1> QED BY <1>1, RecordInvariant, PTL

(* sys_record.h:38-47: a name of less than 16 characters is in front of a  *)
(* dash, with spaces at its left.                                          *)
LEMMA NameOfColumns ==
    ASSUME NEW name \in Seq(Codes), Len(name) < 16,
           NEW line \in Seq(Codes), Len(line) >= 17,
           \A i \in 1..16 : line[i] = AtRight(name, 16)[i], line[17] = Dash
    PROVE  NameIn(line) = Stripped(name)
<1> DEFINE k == Len(name)
           pad == 16 - k
           dashed == Append(name, Dash)
           G == { i \in 1..Len(dashed) : dashed[i] # Space }
           F == { i \in 1..Len(line) : line[i] # Space }
           E == { i \in 1..17 : line[i] # Space }
<1>0. k \in Nat /\ k < 16 /\ Len(line) \in Nat /\ Len(line) >= 17 /\ pad \in Nat /\ pad >= 1 /\ pad + k = 16
  <2>1. k \in Nat /\ Len(line) \in Nat
    BY LenProperties
  <2>2. k < 16 /\ Len(line) >= 17
    OBVIOUS
  <2> HIDE DEF k
  <2> QED BY ONLY <2>1, <2>2 DEF pad
<1>1. Dash \in Codes /\ Dash # Space
  BY DEF Dash, Space, Codes
<1>2. /\ dashed \in Seq(Codes) /\ Len(dashed) = k + 1
      /\ \A i \in 1..k : dashed[i] = name[i]
      /\ dashed[k + 1] = Dash
  BY <1>1, AppendProperties
<1>3. /\ \A i \in 1..pad : line[i] = Space
      /\ \A i \in 1..k : line[pad + i] = name[i]
  <2>1. /\ \A i \in 1..(16 - Len(name)) : AtRight(name, 16)[i] = Space
        /\ Len(name) <= 16 =>
             \A i \in 1..Len(name) : AtRight(name, 16)[16 - Len(name) + i] = name[i]
    <3>1. 16 \in Nat
      OBVIOUS
    <3> QED BY ONLY <3>1, name \in Seq(Codes), AtRightIs
  <2>2. Len(name) <= 16
    BY <1>0
  <2>3. ASSUME NEW i \in 1..pad PROVE line[i] = Space
    <3>1. i \in 1..16
      <4> HIDE DEF k, pad
      <4> QED BY ONLY <1>0, i \in 1..pad
    <3> QED BY <2>1, <3>1
  <2>4. ASSUME NEW i \in 1..k PROVE line[pad + i] = name[i]
    <3>1. pad + i \in 1..16
      <4> HIDE DEF k, pad
      <4> QED BY ONLY <1>0, i \in 1..k
    <3>2. line[pad + i] = AtRight(name, 16)[pad + i]
      BY <3>1
    <3>3. AtRight(name, 16)[pad + i] = name[i]
      BY <2>1, <2>2
    <3> QED BY <3>2, <3>3
  <2> QED BY <2>3, <2>4
<1> HIDE DEF k, pad, dashed
<1>4. ASSUME NEW i \in 1..(k + 1) PROVE line[pad + i] = dashed[i]
  <2>1. CASE i \in 1..k
    BY <1>2, <1>3, <2>1
  <2>2. CASE i = k + 1
    <3>1. pad + i = 17
      BY <1>0, <2>2
    <3> QED BY <1>2, <2>2, <3>1
  <2>3. i \in 1..k \/ i = k + 1
    BY <1>0
  <2> QED BY <2>1, <2>2, <2>3
<1>5. G \in SUBSET Nat /\ k + 1 \in G
  <2>1. k + 1 \in 1..Len(dashed) /\ \A i \in 1..Len(dashed) : i \in Nat
    BY ONLY <1>0, <1>2
  <2>2. dashed[k + 1] # Space
    BY ONLY <1>1, <1>2
  <2>3. k + 1 \in G
    BY ONLY <2>1, <2>2, Zenon
  <2>4. \A i \in G : i \in Nat
    BY ONLY <2>1, Zenon
  <2> HIDE DEF G
  <2> QED BY ONLY <2>3, <2>4, Zenon
<1>6. PICK f \in G : \A i \in G : f <= i
  <2> HIDE DEF G
  <2> QED BY <1>5, LeastElement
<1>7. SelectInSeq(dashed, LAMBDA c : c # Space) = f
  <2>1. G # {} /\ Min(G) = f
    <3> HIDE DEF G
    <3> QED BY <1>5, <1>6, FirstIs
  <2> QED BY <2>1 DEF SelectInSeq
<1>8. f \in 1..(k + 1) /\ dashed[f] # Space
  BY <1>2
<1>9. F \in SUBSET Nat /\ pad + f \in F
  <2>1. pad + f \in 1..Len(line)
    BY ONLY <1>0, <1>8
  <2>2. line[pad + f] # Space
    BY <1>4, <1>8
  <2>3. \A i \in 1..Len(line) : i \in Nat
    OBVIOUS
  <2>4. pad + f \in F
    BY ONLY <2>1, <2>2, Zenon
  <2>5. \A i \in F : i \in Nat
    BY ONLY <2>3, Zenon
  <2> HIDE DEF F
  <2> QED BY ONLY <2>4, <2>5, Zenon
<1>10. ASSUME NEW i \in F PROVE pad + f <= i
  <2>1. i \in 1..Len(line) /\ line[i] # Space
    OBVIOUS
  <2>2. ~(i <= pad)
    <3>1. i <= pad => i \in 1..pad
      BY ONLY <1>0, <2>1
    <3> QED BY ONLY <1>3, <2>1, <3>1, Zenon
  <2>3. CASE i - pad \in 1..(k + 1)
    <3> DEFINE j == i - pad
    <3>1. pad + j = i /\ j \in 1..(k + 1)
      BY ONLY <1>0, <2>1, <2>3
    <3> HIDE DEF j
    <3>2. dashed[j] # Space
      BY <1>4, <2>1, <3>1
    <3>3. j \in G
      BY <1>2, <3>1, <3>2
    <3> HIDE DEF G
    <3>4. f <= j
      BY <1>6, <3>3
    <3> QED BY ONLY <1>0, <1>8, <3>1, <3>4
  <2>4. CASE i - pad \notin 1..(k + 1)
    <3>1. i - pad > k + 1
      BY ONLY <1>0, <2>1, <2>2, <2>4
    <3> QED BY ONLY <1>0, <1>8, <2>1, <3>1
  <2> QED BY <2>3, <2>4
<1>11. SelectInSeq(line, LAMBDA c : c # Space) = pad + f
  <2>1. F # {} /\ Min(F) = pad + f
    <3> HIDE DEF F
    <3> QED BY <1>9, <1>10, FirstIs
  <2> QED BY <2>1 DEF SelectInSeq
<1>12. SelectLastInSubSeq(line, 1, 17, LAMBDA c : c # Space) = 17
  <2>1. E \in SUBSET Nat /\ 17 \in E /\ \A i \in E : i <= 17
    <3>1. 17 \in E
      BY <1>1
    <3>2. \A i \in E : i \in 1..17
      OBVIOUS
    <3> HIDE DEF E
    <3>3. E \in SUBSET Nat
      <4>1. \A i : i \in 1..17 => i \in Nat
        OBVIOUS
      <4> QED BY ONLY <3>2, <4>1, Zenon
    <3>4. \A i \in E : i <= 17
      <4>1. \A i : i \in 1..17 => i <= 17
        OBVIOUS
      <4> QED BY ONLY <3>2, <4>1, Zenon
    <3> QED BY ONLY <3>1, <3>3, <3>4
  <2>2. E # {} /\ Max(E) = 17
    <3> HIDE DEF E
    <3> QED BY <2>1, LastIs
  <2> QED BY <2>2 DEF SelectLastInSubSeq
<1>13. NameIn(line) = SubSeq(line, pad + f, 17 - 1)
  BY <1>11, <1>12 DEF NameIn
<1>14. Stripped(name) = SubSeq(name, f, k)
  BY <1>7 DEF Stripped, dashed, k
<1> HIDE DEF G, F, E
<1>15. f \in Nat /\ f >= 1 /\ f <= k + 1
  BY <1>0, <1>8
<1> DEFINE from == pad + f
<1>16. from \in Int /\ from = pad + f /\ 16 \in Int /\ 17 - 1 = 16
  BY <1>0, <1>15
<1> HIDE DEF from
<1>17. /\ SubSeq(line, from, 16) \in Seq(Codes)
       /\ Len(SubSeq(line, from, 16)) = IF from <= 16 THEN 16 - from + 1 ELSE 0
       /\ \A i \in 1..(16 - from + 1) : SubSeq(line, from, 16)[i] = line[from + i - 1]
  <2>1. ASSUME NEW i \in from..16 PROVE line[i] \in Codes
    <3>1. i \in 1..Len(line)
      BY ONLY <1>0, <1>15, <1>16, i \in from..16
    <3> QED BY <3>1, ElementOfSeq
  <2> QED BY ONLY <1>16, <2>1, SubSeqProperties
<1>18. /\ SubSeq(name, f, k) \in Seq(Codes)
       /\ Len(SubSeq(name, f, k)) = IF f <= k THEN k - f + 1 ELSE 0
       /\ \A i \in 1..(k - f + 1) : SubSeq(name, f, k)[i] = name[f + i - 1]
  <2>1. ASSUME NEW i \in f..k PROVE name[i] \in Codes
    <3>1. i \in 1..Len(name)
      BY <1>0, <1>15 DEF k
    <3> QED BY <3>1, ElementOfSeq
  <2>2. f \in Int /\ k \in Int
    BY <1>0, <1>15
  <2> HIDE DEF k
  <2> QED BY ONLY <2>1, <2>2, SubSeqProperties
<1> DEFINE n == k - f + 1
<1>19. n \in Nat /\ 16 - from + 1 = n /\ Len(SubSeq(line, from, 16)) = n /\ Len(SubSeq(name, f, k)) = n
  <2>1. n \in Nat /\ 16 - from + 1 = n
    BY ONLY <1>0, <1>15, <1>16
  <2>2. Len(SubSeq(line, from, 16)) = n
    BY ONLY <1>0, <1>15, <1>16, <1>17
  <2>3. Len(SubSeq(name, f, k)) = n
    BY ONLY <1>0, <1>15, <1>18
  <2> QED BY <2>1, <2>2, <2>3
<1> HIDE DEF n
<1>20. ASSUME NEW i \in 1..n PROVE SubSeq(line, from, 16)[i] = SubSeq(name, f, k)[i]
  <2>1. SubSeq(line, from, 16)[i] = line[from + i - 1]
    BY <1>17, <1>19
  <2>2. SubSeq(name, f, k)[i] = name[f + i - 1]
    BY <1>18 DEF n
  <2> DEFINE j == f + i - 1
  <2>3. j \in 1..k /\ from + i - 1 = pad + j
    BY ONLY <1>0, <1>15, <1>16, <1>19, i \in 1..n DEF n
  <2> HIDE DEF j
  <2>4. line[pad + j] = name[j]
    BY <1>3, <2>3
  <2> QED BY <2>1, <2>2, <2>3, <2>4 DEF j
<1>21. SubSeq(line, from, 16) = SubSeq(name, f, k)
  <2>1. SubSeq(line, from, 16) \in Seq(Codes) /\ SubSeq(name, f, k) \in Seq(Codes)
    BY <1>17, <1>18
  <2> DEFINE s == SubSeq(line, from, 16)
             t == SubSeq(name, f, k)
  <2>2. Len(s) = n /\ Len(t) = n /\ \A i \in 1..n : s[i] = t[i]
    BY ONLY <1>19, <1>20, Zenon
  <2>3. s \in Seq(Codes) /\ t \in Seq(Codes)
    BY ONLY <2>1, Zenon
  <2> HIDE DEF s, t, n
  <2>4. s = t
    BY ONLY <2>2, <2>3, SeqEqual
  <2> QED BY ONLY <2>4, Zenon DEF s, t
<1> QED BY <1>13, <1>14, <1>16, <1>21

(* syscall_params.h:15-36: the columns are those of a whole line with a    *)
(* pid and a time of five digits at most.                                  *)
LEMMA RightRecord ==
    ASSUME NEW e \in SysEnters, ~e.lost, Fits(e.pid), Fits(e.sec), e.nr \in 0..999
    PROVE  RecordOf(Line(e)) = [name |-> Stripped(e.name), pid |-> e.pid, syscall |-> e.nr]
<1> DEFINE line == Line(e)
           n == Len(Number(e.nr))
           p == AtLeft(Digits[e.pid], 5)
<1>1. /\ e.name \in Seq(Codes) /\ Len(e.name) < 16
      /\ e.pid \in Nat /\ e.sec \in Nat /\ e.nr \in Nat
  <2>1. \A k \in 0..999 : k \in Nat
    OBVIOUS
  <2>2. e.nr \in Nat
    BY <2>1, Zenon
  <2> QED BY <2>2, PartsOfALine
<1>2. Width(e.pid) = 5 /\ Width(e.sec) = 5
  BY DEF Width
<1>3. Shift(e) = 0
  <2>1. Shift(e) = (Width(e.pid) - 5) + (Width(e.sec) - 5) - (IF e.lost THEN 1 ELSE 0)
    BY DEF Shift
  <2>2. Shift(e) = (5 - 5) + (5 - 5) - 0
    BY <1>2, <2>1
  <2> QED BY ONLY <2>2
<1>4. /\ line \in Seq(Codes) /\ Len(line) >= 83
      /\ \A i \in 1..n : line[62 + 0 + i] = Number(e.nr)[i]
      /\ line[63 + 0 + n] = Space
  BY <1>3, LineColumns
<1>5. line = Printed(e)
  <2>1. IsSysEnter(e)
    BY DEF SysEnters, IsSysEnter
  <2> QED BY <2>1 DEF Line
<1>6. /\ \A i \in 1..16 : line[i] = AtRight(e.name, 16)[i]
      /\ line[17] = Dash
      /\ \A i \in 1..5 : line[17 + i] = p[i]
  <2>1. /\ \A i \in 1..16 : Printed(e)[i] = AtRight(e.name, 16)[i]
        /\ Printed(e)[17] = Dash
        /\ \A i \in 1..Width(e.pid) : Printed(e)[17 + i] = p[i]
    BY PrintedColumns
  <2> HIDE DEF line, p
  <2> QED BY <1>2, <1>5, <2>1
<1>7. Len(line) \in Nat /\ Len(line) >= 65 /\ Len(line) >= 17
  <2> HIDE DEF line
  <2> QED BY ONLY <1>4, LenProperties
<1>8. NameIn(line) = Stripped(e.name)
  <2> HIDE DEF line
  <2> QED BY <1>1, <1>4, <1>6, <1>7, NameOfColumns
<1> HIDE DEF line
<1>9. /\ SubSeq(line, 18, 22) \in Seq(Codes) /\ Len(SubSeq(line, 18, 22)) = 5
      /\ \A i \in 1..5 : SubSeq(line, 18, 22)[i] = line[17 + i]
      /\ SubSeq(line, 63, 65) \in Seq(Codes) /\ Len(SubSeq(line, 63, 65)) = 3
      /\ \A i \in 1..3 : SubSeq(line, 63, 65)[i] = line[62 + i]
  BY <1>4, <1>7, ColumnsOf
<1>10. NumberIn(SubSeq(line, 18, 22)) = e.pid
  <2> DEFINE s == SubSeq(line, 18, 22)
             d == Digits[e.pid]
             k == Len(d)
  <2>1. d \in Seq(Codes) /\ k \in Nat /\ k <= 5
    <3>1. d \in Seq(0..9)
      BY <1>1, DigitsAre
    <3>2. 0..9 \subseteq Codes
      BY DEF Codes
    <3>3. d \in Seq(Codes)
      <4> HIDE DEF d
      <4> QED BY ONLY <3>1, <3>2, WiderSeq
    <3>4. k <= 5
      BY <1>1, DigitsFit, SMT DEF Fits
    <3> HIDE DEF d
    <3> QED BY <3>3, <3>4, LenProperties
  <2>2. /\ \A i \in 1..k : p[i] = d[i]
        /\ \A i \in (k + 1)..5 : p[i] = Space
    <3>1. 5 \in Nat /\ p = AtLeft(d, 5)
      OBVIOUS
    <3> HIDE DEF d, p
    <3> QED BY <2>1, <3>1, AtLeftIs
  <2> HIDE DEF p
  <2>3. s \in Seq(Codes) /\ Len(s) = 5 /\ \A i \in 1..5 : s[i] = p[i]
    BY <1>6, <1>9
  <2> HIDE DEF s
  <2>4. ASSUME NEW i \in 1..k PROVE s[i] = d[i]
    <3> HIDE DEF d, k
    <3>1. i \in 1..5
      BY <2>1
    <3> QED BY <2>2, <2>3, <3>1
  <2>5. ASSUME k < 5 PROVE s[k + 1] = Space
    <3> HIDE DEF d, k
    <3>1. k + 1 \in 1..5 /\ k + 1 \in (k + 1)..5
      BY <2>1, <2>5
    <3> QED BY <2>2, <2>3, <3>1
  <2>6. NumberIn(s) = e.pid
    <3>1. Len(d) <= Len(s) /\ (Len(d) < Len(s) => s[Len(d) + 1] = Space)
      BY <2>1, <2>3, <2>5
    <3> QED BY <1>1, <2>3, <2>4, <3>1, NumberOfDigits
  <2> QED BY <2>6 DEF s
<1>11. NumberIn(SubSeq(line, 63, 65)) = e.nr
  <2> DEFINE s == SubSeq(line, 63, 65)
             d == Digits[e.nr]
             k == Len(d)
  <2>1. Number(e.nr) = d /\ n = k
    BY <1>1 DEF Number
  <2>2. k \in Nat /\ k <= 3
    <3>1. e.nr < 1000
      OBVIOUS
    <3> QED BY <1>1, <3>1, DigitsFit, DigitsLength
  <2>3. s \in Seq(Codes) /\ Len(s) = 3 /\ \A i \in 1..3 : s[i] = line[62 + i]
    BY <1>9
  <2> HIDE DEF s
  <2>4. ASSUME NEW i \in 1..k PROVE s[i] = d[i]
    <3>1. line[62 + 0 + i] = d[i]
      BY <1>4, <2>1
    <3> HIDE DEF d, k
    <3>2. i \in 1..3 /\ 62 + 0 + i = 62 + i
      BY <2>2
    <3> QED BY <2>3, <3>1, <3>2
  <2>5. ASSUME k < 3 PROVE s[k + 1] = Space
    <3>1. line[63 + 0 + k] = Space
      BY <1>4, <2>1
    <3> HIDE DEF d, k
    <3>2. k + 1 \in 1..3 /\ 63 + 0 + k = 62 + (k + 1)
      BY <2>2, <2>5
    <3> QED BY <2>3, <3>1, <3>2
  <2>6. NumberIn(s) = e.nr
    <3>1. Len(d) <= Len(s) /\ (Len(d) < Len(s) => s[Len(d) + 1] = Space)
      BY <2>2, <2>3, <2>5
    <3> QED BY <1>1, <2>3, <2>4, <3>1, NumberOfDigits
  <2> QED BY <2>6 DEF s
<1>12. RecordOf(line) = [name |-> NameIn(line), pid |-> NumberIn(SubSeq(line, 18, 22)),
                         syscall |-> NumberIn(SubSeq(line, 63, 65))]
  BY DEF RecordOf
<1> QED BY <1>8, <1>10, <1>11, <1>12 DEF line

(* syscall_params.h:15-36, sys_record.h:24-47, sys_params_record.h:20-27:  *)
(* the records are those of the trace, in its order.                       *)
THEOREM RecordsAreOfTheTrace == RecordSpec => []RecordsOfTheTrace
<1>1. RecordInv => RecordsOfTheTrace
  <2> SUFFICES ASSUME RecordInv PROVE RecordsOfTheTrace
    OBVIOUS
  <2>1. Len(data) = Len(Recorded)
    BY DEF RecordInv
  <2>2. ASSUME NEW i \in 1..Len(data), IsSysEnter(Recorded[i]), ~Recorded[i].lost,
               Fits(Recorded[i].pid), Fits(Recorded[i].sec), Recorded[i].nr \in 0..999
        PROVE  data[i] = [name |-> Stripped(Recorded[i].name), pid |-> Recorded[i].pid,
                          syscall |-> Recorded[i].nr]
    <3>1. Recorded[i] \in SysEnters /\ data[i] = RecordOf(Line(Recorded[i]))
      BY <2>2, EventOfRecord
    <3> DEFINE e == Recorded[i]
    <3>2. e \in SysEnters /\ ~e.lost /\ Fits(e.pid) /\ Fits(e.sec) /\ e.nr \in 0..999
      BY <2>2, <3>1
    <3> HIDE DEF e
    <3>3. RecordOf(Line(e)) = [name |-> Stripped(e.name), pid |-> e.pid, syscall |-> e.nr]
      BY <3>2, RightRecord
    <3> QED BY <3>1, <3>3 DEF e
  <2> QED BY <2>1, <2>2, Zenon DEF RecordsOfTheTrace
<1> QED BY <1>1, RecordInvariant, PTL

=============================================================================
