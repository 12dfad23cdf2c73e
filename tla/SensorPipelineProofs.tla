------------------------ MODULE SensorPipelineProofs ------------------------
(***************************************************************************)
(* Proofs about SensorPipeline, for any batch size, pack size and chunk    *)
(* size and any number of reads and of dispatches that throw: the records  *)
(* lie in the pipeline in the order of the trace, from the stream back to  *)
(* the reader; nullptr closes each queue; and so the sensor delivers in    *)
(* order, drops nothing and is finished only when all is settled.          *)
(*                                                                         *)
(* A queue spans the records after lo up to hi if its messages, laid end   *)
(* to end, are exactly lo + 1, lo + 2, ..., hi, with NULL taking no room.  *)
(* The module begins with what the queue operations do to that.            *)
(*                                                                         *)
(* The inductive invariant IInv has four parts:                            *)
(*   Sizes     what the messages of each queue may be;                     *)
(*   Control   where the threads stand with respect to one another;        *)
(*   Ends      where nullptr may be;                                       *)
(*   Flow      which records each queue spans.                             *)
(***************************************************************************)
EXTENDS SensorPipeline, SequenceTheorems, WellFoundedInduction, TLAPS

-----------------------------------------------------------------------------
(* How records lie in the queues *)

(* The message with the records after lo up to hi. *)
Records(lo, hi) == [i \in 1..(hi - lo) |-> lo + i]

(* mark[i] is the last record of the first i messages. *)
MarkedBy(queue, lo, hi, mark) ==
    /\ mark[0] = lo
    /\ mark[Len(queue)] = hi
    /\ \A i, j \in 0..Len(queue) : i <= j => mark[i] <= mark[j]
    /\ \A i \in 1..Len(queue) :
          \/ queue[i] = NULL /\ mark[i] = mark[i-1]
          \/ queue[i] = Records(mark[i-1], mark[i])

Spans(queue, lo, hi) ==
    \E mark \in [0..Len(queue) -> lo..hi] : MarkedBy(queue, lo, hi, mark)

(* multithreaded_sensor.h:153: a bulk of records is a message. *)
LEMMA RecordsIsMessage ==
    ASSUME NEW lo \in Nat, NEW hi \in Nat, lo <= hi
    PROVE  /\ Records(lo, hi) \in Seq(Nat)
           /\ Records(lo, hi) # NULL
           /\ Len(Records(lo, hi)) = hi - lo
           /\ \A i \in 1..(hi - lo) : Records(lo, hi)[i] = lo + i
           /\ RecordsOf(Records(lo, hi)) = (lo + 1)..hi
<1>1. Records(lo, hi) \in Seq(Nat) /\ Len(Records(lo, hi)) = hi - lo
  BY DEF Records
<1>2. Records(lo, hi) # NULL
  BY <1>1, SensorPipelineAssumption
<1>3. \A i \in 1..(hi - lo) : Records(lo, hi)[i] = lo + i
  BY DEF Records
<1>4. RecordsOf(Records(lo, hi)) = (lo + 1)..hi
  <2>1. RecordsOf(Records(lo, hi)) = { lo + i : i \in 1..(hi - lo) }
    BY <1>1, <1>2, <1>3 DEF RecordsOf
  <2>2. ASSUME NEW x \in (lo + 1)..hi
        PROVE  x \in { lo + i : i \in 1..(hi - lo) }
    <3>1. x - lo \in 1..(hi - lo) /\ x = lo + (x - lo)
      OBVIOUS
    <3> QED
      BY <3>1
  <2> QED
    BY <2>1, <2>2
<1> QED
  BY <1>1, <1>2, <1>3, <1>4

(* multithreaded_sensor.h:170: appending the lines of the next bulk to the *)
(* aggregator extends its run of records.                                  *)
LEMMA RecordsConcat ==
    ASSUME NEW a \in Nat, NEW b \in Nat, NEW c \in Nat, a <= b, b <= c
    PROVE  Records(a, b) \o Records(b, c) = Records(a, c)
<1> DEFINE u == Records(a, b)
           v == Records(b, c)
           w == Records(a, c)
<1>1. u \in Seq(Nat) /\ Len(u) = b - a /\ \A i \in 1..(b - a) : u[i] = a + i
  BY RecordsIsMessage
<1>2. v \in Seq(Nat) /\ Len(v) = c - b /\ \A i \in 1..(c - b) : v[i] = b + i
  BY RecordsIsMessage
<1>3. w \in Seq(Nat) /\ Len(w) = c - a /\ \A i \in 1..(c - a) : w[i] = a + i
  BY a <= c, RecordsIsMessage
<1> HIDE DEF u, v, w
<1>4. /\ u \o v \in Seq(Nat)
      /\ Len(u \o v) = Len(u) + Len(v)
      /\ \A i \in 1..(Len(u) + Len(v)) :
            (u \o v)[i] = IF i <= Len(u) THEN u[i] ELSE v[i - Len(u)]
  BY <1>1, <1>2, ConcatProperties
<1>5. Len(u \o v) = Len(w)
  BY <1>1, <1>2, <1>3, <1>4
<1>6. ASSUME NEW i \in 1..Len(w)
      PROVE  (u \o v)[i] = w[i]
  <2>0. Len(u) = b - a /\ Len(v) = c - b /\ Len(w) = c - a
    BY <1>1, <1>2, <1>3
  <2>1. i \in 1..(Len(u) + Len(v)) /\ i \in 1..(c - a)
    BY <2>0
  <2>2. w[i] = a + i
    BY <1>3, <2>1
  <2>3. CASE i <= Len(u)
    <3>1. i \in 1..(b - a)
      BY <2>0, <2>1, <2>3
    <3>2. u[i] = a + i
      BY <1>1, <3>1
    <3>3. (u \o v)[i] = u[i]
      BY <1>4, <2>1, <2>3
    <3> QED
      BY <2>2, <3>2, <3>3
  <2>4. CASE ~(i <= Len(u))
    <3>1. i - Len(u) \in 1..(c - b) /\ b + (i - Len(u)) = a + i
      BY <2>0, <2>1, <2>4
    <3>2. v[i - Len(u)] = a + i
      BY <1>2, <3>1
    <3>3. (u \o v)[i] = v[i - Len(u)]
      BY <1>4, <2>1, <2>4
    <3> QED
      BY <2>2, <3>2, <3>3
  <2> QED
    BY <2>3, <2>4
<1> QED
  BY <1>3, <1>4, <1>5, <1>6, SeqEqual DEF u, v, w

(* An empty queue spans nothing. *)
LEMMA SpansEmpty ==
    ASSUME NEW lo \in Nat, NEW hi \in Nat
    PROVE  Spans(<<>>, lo, hi) <=> lo = hi
<1>1. Spans(<<>>, lo, hi) => lo = hi
  BY DEF Spans, MarkedBy
<1>2. ASSUME lo = hi
      PROVE  Spans(<<>>, lo, hi)
  <2> DEFINE mark == [i \in 0..0 |-> lo]
  <2>1. mark \in [0..Len(<<>>) -> lo..hi] /\ MarkedBy(<<>>, lo, hi, mark)
    BY <1>2 DEF MarkedBy
  <2> QED
    BY <2>1 DEF Spans
<1> QED
  BY <1>1, <1>2

(* A queue spans forward. *)
LEMMA SpansForward ==
    ASSUME NEW queue \in Seq(Bulks), NEW lo \in Nat, NEW hi \in Nat,
           Spans(queue, lo, hi)
    PROVE  lo <= hi
<1>1. PICK mark \in [0..Len(queue) -> lo..hi] : MarkedBy(queue, lo, hi, mark)
  BY DEF Spans
<1> QED
  BY <1>1, LenProperties DEF MarkedBy

(* simple_queue.h:44-49: a bulk enqueued behind a queue that ends where it *)
(* begins.                                                                 *)
LEMMA SpansConcat ==
    ASSUME NEW q1 \in Seq(Bulks), NEW q2 \in Seq(Bulks),
           NEW a \in Nat, NEW b \in Nat, NEW c \in Nat,
           Spans(q1, a, b), Spans(q2, b, c)
    PROVE  Spans(q1 \o q2, a, c)
<1>1. PICK m1 \in [0..Len(q1) -> a..b] : MarkedBy(q1, a, b, m1)
  BY DEF Spans
<1>2. PICK m2 \in [0..Len(q2) -> b..c] : MarkedBy(q2, b, c, m2)
  BY DEF Spans
<1> DEFINE n1 == Len(q1)
           n2 == Len(q2)
           q  == q1 \o q2
           mark == [i \in 0..(n1 + n2) |-> IF i <= n1 THEN m1[i] ELSE m2[i - n1]]
<1>3. n1 \in Nat /\ n2 \in Nat
  BY LenProperties
<1>4. /\ Len(q) = n1 + n2
      /\ \A i \in 1..(n1 + n2) : q[i] = IF i <= n1 THEN q1[i] ELSE q2[i - n1]
  BY ConcatProperties
<1>5. m1[0] = a /\ m1[n1] = b /\ m2[0] = b /\ m2[n2] = c
  BY <1>1, <1>2 DEF MarkedBy
<1>6. a <= b /\ b <= c
  BY SpansForward
<1>7. \A i \in 0..n1 : mark[i] = m1[i]
  BY <1>3
<1>8. ASSUME NEW i \in 0..n2
      PROVE  mark[n1 + i] = m2[i]
  <2>1. CASE i = 0
    BY <1>3, <1>5, <2>1
  <2>2. CASE i # 0
    <3>1. n1 + i \in 0..(n1 + n2) /\ ~(n1 + i <= n1) /\ (n1 + i) - n1 = i
      BY <1>3, <2>2
    <3> QED
      BY <3>1
  <2> QED
    BY <2>1, <2>2
<1>9. mark \in [0..Len(q) -> a..c]
  <2>1. \A i \in 0..n1 : m1[i] \in a..c
    <3>1. \A i \in 0..n1 : m1[i] \in a..b
      OBVIOUS
    <3> QED
      BY <1>6, <3>1
  <2>4. \A i \in 0..n2 : m2[i] \in a..c
    <3>1. \A i \in 0..n2 : m2[i] \in b..c
      OBVIOUS
    <3> QED
      BY <1>6, <3>1
  <2>2. ASSUME NEW i \in 0..(n1 + n2)
        PROVE  (IF i <= n1 THEN m1[i] ELSE m2[i - n1]) \in a..c
    BY <1>3, <2>1, <2>4
  <2>3. mark \in [0..(n1 + n2) -> a..c]
    BY <2>2
  <2> QED
    BY <1>4, <2>3
<1>10. mark[0] = a /\ mark[Len(q)] = c
  BY <1>3, <1>4, <1>5, <1>7, <1>8
<1>11. ASSUME NEW i \in 0..Len(q), NEW j \in 0..Len(q), i <= j
       PROVE  mark[i] <= mark[j]
  <2>1. CASE j <= n1
    BY <1>1, <1>3, <1>4, <1>7, <1>11, <2>1 DEF MarkedBy
  <2>2. CASE i <= n1 /\ ~(j <= n1)
    <3>1. mark[i] \in a..b
      <4>1. i \in 0..n1
        BY ONLY <1>3, <2>2, i \in 0..Len(q)
      <4> HIDE DEF mark, n1, n2, q
      <4>2. mark[i] = m1[i]
        BY ONLY <1>7, <4>1, Zenon
      <4>3. m1[i] \in a..b
        BY <4>1 DEF n1
      <4> QED BY ONLY <4>2, <4>3
    <3>2. mark[j] \in b..c
      <4> DEFINE k == j - n1
      <4>1. k \in 0..n2 /\ n1 + k = j
        BY <1>3, <1>4, <2>2
      <4> HIDE DEF k, mark, n1, q
      <4>2. mark[j] = m2[k]
        BY ONLY <1>8, <4>1
      <4>3. m2[k] \in b..c
        BY <4>1 DEF n2
      <4> QED BY ONLY <4>2, <4>3
    <3> QED
      BY <3>1, <3>2
  <2>3. CASE ~(i <= n1)
    <3>1. mark[i] = m2[i - n1] /\ mark[j] = m2[j - n1]
      BY <1>3, <1>4, <1>11, <2>3
    <3>2. i - n1 \in 0..n2 /\ j - n1 \in 0..n2 /\ i - n1 <= j - n1
      BY <1>3, <1>4, <1>11, <2>3
    <3> QED
      BY <1>2, <3>1, <3>2 DEF MarkedBy
  <2> QED
    BY <2>1, <2>2, <2>3
<1>12. ASSUME NEW i \in 1..Len(q)
       PROVE  \/ q[i] = NULL /\ mark[i] = mark[i-1]
              \/ q[i] = Records(mark[i-1], mark[i])
  <2>1. CASE i <= n1
    <3>1. q[i] = q1[i] /\ mark[i] = m1[i] /\ mark[i-1] = m1[i-1]
      BY <1>3, <1>4, <1>7, <2>1
    <3> QED
      BY <1>1, <1>3, <2>1, <3>1 DEF MarkedBy
  <2>2. CASE ~(i <= n1)
    <3> DEFINE k == i - n1
    <3>1. k \in 1..n2 /\ k - 1 \in 0..n2
      BY <1>3, <1>4, <2>2
    <3>2. q[i] = q2[k]
      BY <1>3, <1>4, <2>2
    <3>3. mark[n1 + k] = m2[k] /\ mark[n1 + (k - 1)] = m2[k-1]
      BY <1>8, <3>1
    <3>4. n1 + k = i /\ n1 + (k - 1) = i - 1
      BY <1>3, <1>4
    <3> QED
      BY <1>2, <3>1, <3>2, <3>3, <3>4 DEF MarkedBy
  <2> QED
    BY <2>1, <2>2
<1> QED
  BY <1>9, <1>10, <1>11, <1>12 DEF Spans, MarkedBy

(* multithreaded_sensor.h:157, 176-178, 184: a message enqueued behind a   *)
(* queue extends what it spans; NULL does not.                             *)
LEMMA SpansAppend ==
    ASSUME NEW queue \in Seq(Bulks), NEW lo \in Nat, NEW mid \in Nat,
           Spans(queue, lo, mid)
    PROVE  /\ Spans(Append(queue, NULL), lo, mid)
           /\ \A hi \in Nat : mid <= hi =>
                  Spans(Append(queue, Records(mid, hi)), lo, hi)
<1>1. ASSUME NEW msg \in Bulks, NEW hi \in Nat, mid <= hi,
             \/ msg = NULL /\ mid = hi
             \/ msg = Records(mid, hi)
      PROVE  Spans(Append(queue, msg), lo, hi)
  <2> DEFINE mark == [i \in 0..1 |-> IF i = 0 THEN mid ELSE hi]
  <2>1. <<msg>> \in Seq(Bulks) /\ Len(<<msg>>) = 1 /\ <<msg>>[1] = msg
    OBVIOUS
  <2>2. mark \in [0..1 -> mid..hi] /\ mark[0] = mid /\ mark[1] = hi
    BY <1>1
  <2> HIDE DEF mark
  <2>3. MarkedBy(<<msg>>, mid, hi, mark)
    <3>1. \A i \in 1..1 : \/ <<msg>>[i] = NULL /\ mark[i] = mark[i-1]
                          \/ <<msg>>[i] = Records(mark[i-1], mark[i])
      BY <1>1, <2>1, <2>2
    <3>2. \A i, j \in 0..1 : i <= j => mark[i] <= mark[j]
      BY <1>1, <2>2
    <3> QED
      BY <2>1, <2>2, <3>1, <3>2 DEF MarkedBy
  <2>4. Spans(<<msg>>, mid, hi)
    BY <2>1, <2>2, <2>3 DEF Spans
  <2>5. Append(queue, msg) = queue \o <<msg>>
    BY AppendIsConcat
  <2> QED
    BY <2>1, <2>4, <2>5, SpansConcat
<1>2. ASSUME NEW hi \in Nat, mid <= hi
      PROVE  Spans(Append(queue, Records(mid, hi)), lo, hi)
  BY <1>1, <1>2, RecordsIsMessage DEF Bulks
<1>3. Spans(Append(queue, NULL), lo, mid)
  BY <1>1 DEF Bulks
<1> QED
  BY <1>2, <1>3

(* simple_queue.h:58-63: a batch of any size is a prefix of what the queue *)
(* spans.                                                                  *)
LEMMA SpansSplit ==
    ASSUME NEW queue \in Seq(Bulks), NEW lo \in Nat, NEW hi \in Nat,
           Spans(queue, lo, hi), NEW k \in 0..Len(queue)
    PROVE  \E mid \in Nat : /\ Spans(SubSeq(queue, 1, k), lo, mid)
                            /\ Spans(SubSeq(queue, k + 1, Len(queue)), mid, hi)
<1>1. PICK mark \in [0..Len(queue) -> lo..hi] : MarkedBy(queue, lo, hi, mark)
  BY DEF Spans
<1> DEFINE n  == Len(queue)
           q1 == SubSeq(queue, 1, k)
           q2 == SubSeq(queue, k + 1, n)
           m1 == [i \in 0..k |-> mark[i]]
           m2 == [i \in 0..(n - k) |-> mark[k + i]]
<1>2. n \in Nat /\ \A i \in 1..n : queue[i] \in Bulks
  BY LenProperties, ElementOfSeq
<1>3. Len(q1) = k /\ \A i \in 1..k : q1[i] = queue[i]
  <2>1. \A i \in 1..k : queue[i] \in Bulks
    BY <1>2
  <2>2. Len(q1) = (IF 1 <= k THEN k - 1 + 1 ELSE 0)
        /\ \A i \in 1..(k - 1 + 1) : q1[i] = queue[1 + i - 1]
    BY <1>2, <2>1, SubSeqProperties
  <2> QED
    BY <1>2, <2>2
<1>4. Len(q2) = n - k /\ \A i \in 1..(n - k) : q2[i] = queue[k + i]
  <2>1. \A i \in (k + 1)..n : queue[i] \in Bulks
    BY <1>2
  <2>2. Len(q2) = (IF k + 1 <= n THEN n - (k + 1) + 1 ELSE 0)
        /\ \A i \in 1..(n - (k + 1) + 1) : q2[i] = queue[(k + 1) + i - 1]
    BY <1>2, <2>1, SubSeqProperties
  <2>3. \A i \in 1..(n - k) : (k + 1) + i - 1 = k + i
    BY <1>2
  <2> QED
    BY <1>2, <2>2, <2>3
<1>5. /\ \A i \in 0..n : mark[i] \in Nat
      /\ \A i, j \in 0..n : i <= j => mark[i] <= mark[j]
      /\ mark[0] = lo /\ mark[n] = hi
  BY <1>1 DEF MarkedBy
<1>6. Spans(q1, lo, mark[k])
  <2>1. m1 \in [0..k -> lo..mark[k]]
    BY <1>2, <1>5
  <2>2. MarkedBy(q1, lo, mark[k], m1)
    <3>1. m1[0] = lo /\ m1[k] = mark[k]
      BY <1>2, <1>5
    <3>2. \A i, j \in 0..k : i <= j => m1[i] <= m1[j]
      BY <1>2, <1>5
    <3>3. \A i \in 1..k : \/ q1[i] = NULL /\ m1[i] = m1[i-1]
                          \/ q1[i] = Records(m1[i-1], m1[i])
      <4> TAKE i \in 1..k
      <4>1. q1[i] = queue[i] /\ m1[i] = mark[i] /\ m1[i-1] = mark[i-1] /\ i \in 1..n
        BY <1>2, <1>3
      <4> QED
        BY <1>1, <4>1 DEF MarkedBy
    <3> QED
      BY <1>3, <3>1, <3>2, <3>3 DEF MarkedBy
  <2> QED
    BY <1>3, <2>1, <2>2 DEF Spans
<1>7. Spans(q2, mark[k], hi)
  <2>0. \A i \in 0..(n - k) : k + i \in 0..n /\ m2[i] = mark[k + i]
    BY <1>2
  <2>1. m2 \in [0..(n - k) -> mark[k]..hi]
    <3>1. ASSUME NEW i \in 0..(n - k)
          PROVE  mark[k + i] \in mark[k]..hi
      <4>1. k + i \in 0..n /\ k <= k + i /\ k + i <= n
        BY <1>2
      <4> QED
        BY <1>2, <1>5, <4>1
    <3> QED
      BY <3>1
  <2>2. MarkedBy(q2, mark[k], hi, m2)
    <3>1. m2[0] = mark[k] /\ m2[n - k] = hi
      <4>1. k + 0 = k /\ k + (n - k) = n /\ 0 \in 0..(n - k) /\ n - k \in 0..(n - k)
        BY <1>2
      <4> QED
        BY <1>5, <2>0, <4>1
    <3>2. ASSUME NEW i \in 0..(n - k), NEW j \in 0..(n - k), i <= j
          PROVE  m2[i] <= m2[j]
      <4>1. k + i <= k + j
        BY <3>2
      <4> QED
        BY <1>5, <2>0, <4>1
    <3>3. \A i \in 1..(n - k) : \/ q2[i] = NULL /\ m2[i] = m2[i-1]
                                \/ q2[i] = Records(m2[i-1], m2[i])
      <4> TAKE i \in 1..(n - k)
      <4>1. k + i \in 1..n /\ i \in 0..(n - k) /\ i - 1 \in 0..(n - k)
            /\ k + (i - 1) = (k + i) - 1
        BY <1>2
      <4>2. q2[i] = queue[k + i] /\ m2[i] = mark[k + i] /\ m2[i-1] = mark[(k + i) - 1]
        BY <1>4, <2>0, <4>1
      <4> QED
        BY <1>1, <4>1, <4>2 DEF MarkedBy
    <3> QED
      BY <1>4, <3>1, <3>2, <3>3 DEF MarkedBy
  <2> QED
    BY <1>4, <2>1, <2>2 DEF Spans
<1> QED
  BY <1>5, <1>6, <1>7

(* multithreaded_sensor.h:166-167, 196-197: the next message of an array   *)
(* begins where the array begins.                                          *)
LEMMA SpansHead ==
    ASSUME NEW queue \in Seq(Bulks), NEW lo \in Nat, NEW hi \in Nat,
           Spans(queue, lo, hi), queue # <<>>
    PROVE  \E mid \in Nat :
              /\ lo <= mid /\ mid <= hi
              /\ Spans(Tail(queue), mid, hi)
              /\ (Head(queue) = NULL /\ mid = lo) \/ Head(queue) = Records(lo, mid)
<1>1. PICK mark \in [0..Len(queue) -> lo..hi] : MarkedBy(queue, lo, hi, mark)
  BY DEF Spans
<1> DEFINE n == Len(queue)
           rest == [i \in 0..(n - 1) |-> mark[i + 1]]
<1>2. n \in Nat \ {0}
  BY EmptySeq
<1>3. Len(Tail(queue)) = n - 1 /\ \A i \in 1..(n - 1) : Tail(queue)[i] = queue[i + 1]
  BY HeadTailProperties
<1>4. Head(queue) = queue[1]
  BY <1>2
<1>5. /\ \A i \in 0..n : mark[i] \in lo..hi
      /\ \A i, j \in 0..n : i <= j => mark[i] <= mark[j]
      /\ mark[0] = lo /\ mark[n] = hi
  BY <1>1 DEF MarkedBy
<1>6. mark[1] \in Nat /\ lo <= mark[1] /\ mark[1] <= hi
  BY <1>2, <1>5
<1>7. Spans(Tail(queue), mark[1], hi)
  <2>0. \A i \in 0..(n - 1) : i + 1 \in 0..n /\ rest[i] = mark[i + 1]
    BY <1>2
  <2>1. rest \in [0..(n - 1) -> mark[1]..hi]
    <3>1. ASSUME NEW i \in 0..(n - 1)
          PROVE  mark[i + 1] \in mark[1]..hi
      <4>1. 1 \in 0..n /\ i + 1 \in 0..n /\ 1 <= i + 1
        BY <1>2
      <4>2. mark[1] <= mark[i + 1] /\ mark[i + 1] \in lo..hi
        BY <1>5, <4>1
      <4> QED
        BY <1>6, <4>2
    <3> QED
      BY <3>1
  <2>2. rest[0] = mark[1] /\ rest[n - 1] = hi
    <3>1. 0 + 1 = 1 /\ (n - 1) + 1 = n /\ 0 \in 0..(n - 1) /\ n - 1 \in 0..(n - 1)
      BY <1>2
    <3> QED
      BY <1>5, <2>0, <3>1
  <2>3. ASSUME NEW i \in 0..(n - 1), NEW j \in 0..(n - 1), i <= j
        PROVE  rest[i] <= rest[j]
    BY <1>5, <2>0, <2>3
  <2>4. ASSUME NEW i \in 1..(n - 1)
        PROVE  \/ Tail(queue)[i] = NULL /\ rest[i] = rest[i-1]
               \/ Tail(queue)[i] = Records(rest[i-1], rest[i])
    <3>1. i + 1 \in 1..n /\ i \in 0..(n - 1) /\ i - 1 \in 0..(n - 1)
          /\ (i - 1) + 1 = i /\ (i + 1) - 1 = i
      BY <1>2
    <3>2. Tail(queue)[i] = queue[i + 1] /\ rest[i] = mark[i + 1] /\ rest[i-1] = mark[i]
      BY <1>3, <2>0, <3>1
    <3> QED
      BY <1>1, <3>1, <3>2 DEF MarkedBy
  <2> HIDE DEF rest
  <2> QED
    BY <1>3, <2>1, <2>2, <2>3, <2>4 DEF Spans, MarkedBy
<1>8. (Head(queue) = NULL /\ mark[1] = lo) \/ Head(queue) = Records(lo, mark[1])
  <2>1. 1 \in 1..n /\ 1 - 1 = 0
    BY <1>2
  <2> QED
    BY <1>1, <1>4, <1>5, <2>1 DEF MarkedBy
<1> QED
  BY <1>6, <1>7, <1>8

(* A set of numbers has a least element. *)
LEMMA LeastElement ==
    ASSUME NEW T, T \subseteq Nat, T # {}
    PROVE  \E x \in T : \A y \in T : x <= y
<1> DEFINE less == OpToRel(<, Nat)
<1>1. \A x, y \in Nat : y < x => <<y, x>> \in less
  BY Zenon DEF OpToRel
<1>2. IsWellFoundedOn(less, Nat)
  BY NatLessThanWellFounded, Zenon
<1> HIDE DEF less
<1>3. PICK x \in T : \A y \in T : ~(<<y, x>> \in less)
  BY <1>2, WFMin
<1>4. \A y \in T : y \in Nat /\ x \in Nat /\ ~(y < x)
  BY <1>1, <1>3
<1>5. \A y \in T : x <= y
  BY <1>4
<1> QED
  BY <1>5

(* The records of the messages of a queue are those it spans: a record     *)
(* between two marks lies in the message that crosses it.                  *)
LEMMA SpansRecords ==
    ASSUME NEW queue \in Seq(Bulks), NEW lo \in Nat, NEW hi \in Nat,
           Spans(queue, lo, hi)
    PROVE  RecordsIn(queue) = (lo + 1)..hi
<1>1. PICK mark \in [0..Len(queue) -> lo..hi] : MarkedBy(queue, lo, hi, mark)
  BY DEF Spans
<1> DEFINE n == Len(queue)
<1>2. n \in Nat
  BY LenProperties
<1>3. /\ \A i \in 0..n : mark[i] \in lo..hi
      /\ \A i, j \in 0..n : i <= j => mark[i] <= mark[j]
      /\ mark[0] = lo /\ mark[n] = hi
  BY <1>1 DEF MarkedBy
<1>4. ASSUME NEW i \in 1..n
      PROVE  /\ mark[i-1] \in Nat /\ mark[i] \in Nat /\ mark[i-1] <= mark[i]
             /\ RecordsOf(queue[i]) = (mark[i-1] + 1)..mark[i]
  <2>1. i \in 0..n /\ i - 1 \in 0..n /\ i - 1 <= i
    BY <1>2
  <2>2. mark[i-1] \in lo..hi /\ mark[i] \in lo..hi /\ mark[i-1] <= mark[i]
    BY <1>3, <2>1
  <2>3. mark[i-1] \in Nat /\ mark[i] \in Nat
    BY <2>2
  <2>4. CASE queue[i] = NULL /\ mark[i] = mark[i-1]
    <3>1. (mark[i-1] + 1)..mark[i] = {}
      BY <2>3, <2>4
    <3> QED
      BY <2>2, <2>3, <2>4, <3>1 DEF RecordsOf
  <2>5. CASE queue[i] = Records(mark[i-1], mark[i])
    <3> DEFINE a == mark[i-1]
               b == mark[i]
    <3>1. a \in Nat /\ b \in Nat /\ a <= b
      BY <2>2, <2>3
    <3> HIDE DEF a, b
    <3>2. RecordsOf(Records(a, b)) = (a + 1)..b
      BY <3>1, RecordsIsMessage
    <3> QED
      BY <2>2, <2>3, <2>5, <3>2 DEF a, b
  <2> QED
    BY <1>1, <2>4, <2>5 DEF MarkedBy
<1>5. ASSUME NEW x \in RecordsIn(queue)
      PROVE  x \in (lo + 1)..hi
  <2>1. PICK i \in 1..n : x \in RecordsOf(queue[i])
    BY DEF RecordsIn
  <2>2. x \in (mark[i-1] + 1)..mark[i] /\ i - 1 \in 0..n /\ i \in 0..n
    BY <1>2, <1>4, <2>1
  <2>3. mark[i-1] \in lo..hi /\ mark[i] \in lo..hi
    BY <1>3, <2>2
  <2> QED
    BY <2>2, <2>3
<1>6. ASSUME NEW x \in (lo + 1)..hi
      PROVE  x \in RecordsIn(queue)
  <2> DEFINE beyond == { i \in 0..n : x <= mark[i] }
  <2>1. n \in beyond /\ beyond \subseteq Nat
    BY <1>2, <1>3
  <2>2. PICK i \in beyond : \A j \in beyond : i <= j
    BY <2>1, LeastElement
  <2>3. i \in 1..n /\ x <= mark[i]
    <3>1. i \in 0..n /\ x <= mark[i]
      OBVIOUS
    <3>2. i # 0
      BY <1>3, <3>1
    <3> QED
      BY <1>2, <3>1, <3>2
  <2>4. i - 1 \in 0..n /\ i - 1 \notin beyond
    <3>1. i - 1 \in Nat /\ i \in Nat /\ i - 1 < i /\ i - 1 \in 0..n
      BY <1>2, <2>3
    <3> HIDE DEF beyond
    <3> QED
      BY <2>2, <3>1
  <2>5. ~(x <= mark[i-1])
    BY <2>4
  <2>6. x \in (mark[i-1] + 1)..mark[i]
    BY <1>4, <2>3, <2>5
  <2>7. x \in RecordsOf(queue[i])
    BY <1>4, <2>3, <2>6
  <2> QED
    BY <2>3, <2>7 DEF RecordsIn
<1> QED
  BY <1>5, <1>6

-----------------------------------------------------------------------------
(* What a message may be *)

SmallBulks == { s \in Seq(Nat) : Len(s) <= MaxChunk }
Packs      == { s \in Seq(Nat) : Len(s) \in 1..(PackSize + MaxChunk - 1) }

Sizes ==
    /\ TypeOK
    /\ bulks \in Seq(SmallBulks)
    /\ stream_queue \in Seq({NULL} \cup SmallBulks)
    /\ lines \in Seq({NULL} \cup SmallBulks)
    /\ Len(data) < PackSize
    /\ result_queue \in Seq({NULL} \cup Packs)
    /\ events \in Seq({NULL} \cup Packs)

(* simple_queue.h:51-64: a batch is never empty, and with what stays       *)
(* behind it makes up the queue.                                           *)
LEMMA BatchSplits ==
    ASSUME NEW S, NEW queue \in Seq(S), queue # <<>>
    PROVE  \E k \in 1..Len(queue) :
              /\ Taken(queue) = SubSeq(queue, 1, k)
              /\ Behind(queue) = SubSeq(queue, k + 1, Len(queue))
              /\ Taken(queue) \in Seq(S) /\ Len(Taken(queue)) = k
              /\ Behind(queue) \in Seq(S) /\ Len(Behind(queue)) = Len(queue) - k
              /\ \A i \in 1..k : Taken(queue)[i] = queue[i]
              /\ \A i \in 1..(Len(queue) - k) : Behind(queue)[i] = queue[k + i]
<1> DEFINE n == Len(queue)
           k == Smaller(BulkCapacity, n)
<1>1. n \in Nat \ {0} /\ \A i \in 1..n : queue[i] \in S
  BY EmptySeq, ElementOfSeq
<1>2. k \in 1..n
  BY <1>1, SensorPipelineAssumption DEF Smaller
<1>3. Taken(queue) = SubSeq(queue, 1, k) /\ Behind(queue) = SubSeq(queue, k + 1, n)
  BY DEF Taken, Behind
<1> HIDE DEF k, n
<1>4. /\ SubSeq(queue, 1, k) \in Seq(S)
      /\ Len(SubSeq(queue, 1, k)) = k
      /\ \A i \in 1..k : SubSeq(queue, 1, k)[i] = queue[i]
  <2>1. \A i \in 1..k : queue[i] \in S
    BY <1>1, <1>2
  <2>2. /\ SubSeq(queue, 1, k) \in Seq(S)
        /\ Len(SubSeq(queue, 1, k)) = IF 1 <= k THEN k - 1 + 1 ELSE 0
        /\ \A i \in 1..(k - 1 + 1) : SubSeq(queue, 1, k)[i] = queue[1 + i - 1]
    BY <1>1, <1>2, <2>1, SubSeqProperties
  <2> QED
    BY <1>1, <1>2, <2>2
<1>5. /\ SubSeq(queue, k + 1, n) \in Seq(S)
      /\ Len(SubSeq(queue, k + 1, n)) = n - k
      /\ \A i \in 1..(n - k) : SubSeq(queue, k + 1, n)[i] = queue[k + i]
  <2>1. \A i \in (k + 1)..n : queue[i] \in S
    BY <1>1, <1>2
  <2>2. /\ SubSeq(queue, k + 1, n) \in Seq(S)
        /\ Len(SubSeq(queue, k + 1, n)) = IF k + 1 <= n THEN n - (k + 1) + 1 ELSE 0
        /\ \A i \in 1..(n - (k + 1) + 1) :
              SubSeq(queue, k + 1, n)[i] = queue[(k + 1) + i - 1]
    BY <1>1, <1>2, <2>1, SubSeqProperties
  <2>3. \A i \in 1..(n - k) : (k + 1) + i - 1 = k + i /\ i \in 1..(n - (k + 1) + 1)
    BY <1>1, <1>2
  <2> QED
    BY <1>1, <1>2, <2>2, <2>3
<1> QED
  BY <1>2, <1>3, <1>4, <1>5 DEF n

(* multithreaded_sensor.h:145-153: the bulk of a read of n records. *)
LEMMA ChunkIsBulk ==
    ASSUME NEW n \in 0..MaxChunk, NEW r \in Nat
    PROVE  /\ [i \in 1..n |-> r + i] \in SmallBulks
           /\ [i \in 1..n |-> r + i] = Records(r, r + n)
<1>1. (r + n) - r = n /\ n \in Nat /\ n <= MaxChunk
  BY SensorPipelineAssumption
<1>2. [i \in 1..n |-> r + i] = Records(r, r + n)
  BY <1>1 DEF Records
<1>3. Records(r, r + n) \in Seq(Nat) /\ Len(Records(r, r + n)) = n
  <2> DEFINE h == r + n
  <2>1. h \in Nat /\ r <= h /\ h - r = n
    BY <1>1
  <2> HIDE DEF h
  <2>2. Records(r, h) \in Seq(Nat) /\ Len(Records(r, h)) = h - r
    BY <2>1, RecordsIsMessage
  <2> QED
    BY <2>1, <2>2 DEF h
<1> QED
  BY <1>1, <1>2, <1>3 DEF SmallBulks

(* multithreaded_sensor.h:31-45: nothing is queued yet. *)
LEMMA InitSizes == Init => Sizes
<1> SUFFICES ASSUME Init
             PROVE  Sizes
  OBVIOUS
<1>1. \A S : <<>> \in Seq(S) /\ Len(<<>>) = 0
  BY EmptySeq
<1>2. TypeOK
  BY <1>1 DEF Init, TypeOK
<1> QED
  BY <1>1, <1>2, SensorPipelineAssumption DEF Init, Sizes

(* data_aggregator.h:26-41, multithreaded_sensor.h:139-189: a bulk is one  *)
(* read, and what is enqueued as a pack has PackSize records and less than *)
(* one bulk more.                                                          *)
LEMMA NextSizes == Sizes /\ [Next]_vars => Sizes'
<1> SUFFICES ASSUME Sizes, [Next]_vars
             PROVE  Sizes'
  OBVIOUS
<1> USE SensorPipelineAssumption DEF Sizes, TypeOK, mainVars, readerVars, workerVars, senderVars
<1>0. /\ SmallBulks \subseteq Seq(Nat) /\ Packs \subseteq Seq(Nat)
      /\ {NULL} \cup SmallBulks \subseteq Bulks /\ {NULL} \cup Packs \subseteq Bulks
  BY DEF SmallBulks, Packs, Bulks
<1>1. ASSUME NEW n \in 0..MaxChunk, ReadChunk(n) \/ ReadEnd(n)
      PROVE  Sizes'
  <2>1. bulks' = Append(bulks, [i \in 1..n |-> read + i]) /\ read' = read + n
    BY <1>1 DEF ReadChunk, ReadEnd
  <2>2. bulks' \in Seq(SmallBulks) /\ read' \in Nat
    <3>1. [i \in 1..n |-> read + i] \in SmallBulks
      BY ChunkIsBulk
    <3> QED
      BY <2>1, <3>1, AppendProperties
  <2>3. bulks' \in Seq(Seq(Nat))
    BY <1>0, <2>2, SeqMonotonic
  <2>4. CASE ReadChunk(n)
    BY <2>2, <2>3, <2>4 DEF ReadChunk
  <2>5. CASE ReadEnd(n)
    BY <2>2, <2>3, <2>5 DEF ReadEnd
  <2> QED
    BY <1>1, <2>4, <2>5
<1>2. CASE EnqueueBulk
  <2>1. bulks \in Seq({NULL} \cup SmallBulks)
    BY SeqMonotonic
  <2>2. stream_queue' \in Seq({NULL} \cup SmallBulks)
    BY <1>2, <2>1, ConcatProperties DEF EnqueueBulk
  <2>3. stream_queue' \in Seq(Bulks)
    BY <1>0, <2>2, SeqMonotonic
  <2>4. bulks' \in Seq(SmallBulks) /\ bulks' \in Seq(Seq(Nat))
    BY <1>2, EmptySeq DEF EnqueueBulk
  <2> QED
    BY <1>2, <2>2, <2>3, <2>4 DEF EnqueueBulk
<1>3. CASE EnqueueEnd
  <2>1. stream_queue' \in Seq({NULL} \cup SmallBulks)
    BY <1>3, AppendProperties DEF EnqueueEnd
  <2>2. stream_queue' \in Seq(Bulks)
    BY <1>0, <2>1, SeqMonotonic
  <2> QED
    BY <1>3, <2>1, <2>2 DEF EnqueueEnd
<1>4. CASE RelayEnd
  <2>1. stream_queue' \in Seq({NULL} \cup SmallBulks)
    BY <1>4, AppendProperties DEF RelayEnd
  <2>2. stream_queue' \in Seq(Bulks)
    BY <1>0, <2>1, SeqMonotonic
  <2> QED
    BY <1>4, <2>1, <2>2 DEF RelayEnd
<1>5. CASE WorkerDequeue
  <2>1. /\ lines' \in Seq({NULL} \cup SmallBulks)
        /\ stream_queue' \in Seq({NULL} \cup SmallBulks)
    BY <1>5, BatchSplits DEF WorkerDequeue
  <2>2. lines' \in Seq(Bulks) /\ stream_queue' \in Seq(Bulks)
    BY <1>0, <2>1, SeqMonotonic
  <2> QED
    BY <1>5, <2>1, <2>2 DEF WorkerDequeue
<1>6. CASE Collect
  <2> DEFINE collected == data \o Head(lines)
  <2>1. Head(lines) \in SmallBulks /\ lines' \in Seq({NULL} \cup SmallBulks)
    BY <1>6, HeadTailProperties DEF Collect, Ready
  <2>2. lines' \in Seq(Bulks)
    BY <1>0, <2>1, SeqMonotonic
  <2>3. Head(lines) \in Seq(Nat) /\ Len(Head(lines)) \in Nat /\ Len(Head(lines)) <= MaxChunk
    BY <2>1, LenProperties DEF SmallBulks
  <2>4. /\ collected \in Seq(Nat) /\ Len(collected) \in Nat
        /\ Len(collected) <= PackSize + MaxChunk - 1
    BY <2>3, ConcatProperties, LenProperties
  <2> HIDE DEF collected
  <2>5. CASE Len(collected) >= PackSize
    <3>1. data' = <<>> /\ result_queue' = Append(result_queue, collected)
      BY <1>6, <2>5 DEF Collect, Ready, collected
    <3>2. collected \in Packs
      BY <2>4, <2>5 DEF Packs
    <3>3. result_queue' \in Seq({NULL} \cup Packs)
      BY <3>1, <3>2, AppendProperties
    <3>4. result_queue' \in Seq(Bulks)
      BY <1>0, <3>3, SeqMonotonic
    <3>5. data' \in Seq(Nat) /\ Len(data') < PackSize
      BY <3>1, EmptySeq
    <3> QED
      BY <1>6, <2>1, <2>2, <3>3, <3>4, <3>5 DEF Collect, Ready
  <2>6. CASE ~(Len(collected) >= PackSize)
    <3>1. data' = collected /\ result_queue' = result_queue
      BY <1>6, <2>6 DEF Collect, Ready, collected
    <3>2. data' \in Seq(Nat) /\ Len(data') < PackSize
      BY <2>4, <2>6, <3>1
    <3> QED
      BY <1>6, <2>1, <2>2, <3>1, <3>2 DEF Collect, Ready
  <2> QED
    BY <2>5, <2>6
<1>7. CASE FlushLastPack
  <2>1. result_queue' \in Seq({NULL} \cup Packs)
    <3>1. CASE data = <<>>
      BY <1>7, <3>1 DEF FlushLastPack
    <3>2. CASE data # <<>>
      <4>1. Len(data) \in Nat \ {0}
        BY <3>2, EmptySeq
      <4>2. data \in Packs
        BY <4>1 DEF Packs
      <4> QED
        BY <1>7, <3>2, <4>2, AppendProperties DEF FlushLastPack
    <3> QED
      BY <3>1, <3>2
  <2>2. result_queue' \in Seq(Bulks)
    BY <1>0, <2>1, SeqMonotonic
  <2>3. data' \in Seq(Nat) /\ Len(data') < PackSize
        /\ lines' \in Seq({NULL} \cup SmallBulks) /\ lines' \in Seq(Bulks)
    BY <1>7, EmptySeq DEF FlushLastPack
  <2> QED
    BY <1>7, <2>1, <2>2, <2>3 DEF FlushLastPack
<1>8. CASE EndResults
  <2>1. result_queue' \in Seq({NULL} \cup Packs)
    BY <1>8, AppendProperties DEF EndResults
  <2>2. result_queue' \in Seq(Bulks)
    BY <1>0, <2>1, SeqMonotonic
  <2> QED
    BY <1>8, <2>1, <2>2 DEF EndResults
<1>9. CASE SenderDequeue
  <2>1. /\ events' \in Seq({NULL} \cup Packs)
        /\ result_queue' \in Seq({NULL} \cup Packs)
    BY <1>9, BatchSplits DEF SenderDequeue
  <2>2. events' \in Seq(Bulks) /\ result_queue' \in Seq(Bulks)
    BY <1>0, <2>1, SeqMonotonic
  <2> QED
    BY <1>9, <2>1, <2>2 DEF SenderDequeue
<1>10. CASE Dispatch
  <2>1. Head(events) \in Packs /\ events' \in Seq({NULL} \cup Packs)
    BY <1>10, HeadTailProperties DEF Dispatch
  <2>2. events' \in Seq(Bulks) /\ Head(events) \in Seq(Nat)
    BY <1>0, <2>1, SeqMonotonic
  <2>3. delivered' \in Seq(Nat)
    BY <1>10, <2>2, ConcatProperties DEF Dispatch
  <2> QED
    BY <1>10, <2>1, <2>2, <2>3 DEF Dispatch
<1>11. CASE DispatchThrows
  <2>1. RecordsIn(events) \subseteq Nat
    <3>1. ASSUME NEW i \in 1..Len(events)
          PROVE  RecordsOf(events[i]) \subseteq Nat
      <4>1. events[i] \in Bulks
        BY ElementOfSeq
      <4> QED
        BY <4>1, ElementOfSeq DEF RecordsOf, Bulks
    <3> QED
      BY <3>1 DEF RecordsIn
  <2>2. lost' \in SUBSET Nat
    BY <1>11, <2>1 DEF DispatchThrows
  <2>3. events' \in Seq({NULL} \cup Packs) /\ events' \in Seq(Bulks)
    BY <1>11, EmptySeq DEF DispatchThrows
  <2>4. throws' \in Nat
    BY <1>11 DEF DispatchThrows
  <2> QED
    BY <1>11, <2>2, <2>3, <2>4 DEF DispatchThrows
<1>12. CASE Finish
  <2>1. events' \in Seq({NULL} \cup Packs)
    BY <1>12, HeadTailProperties DEF Finish
  <2>2. events' \in Seq(Bulks)
    BY <1>0, <2>1, SeqMonotonic
  <2>3. finished' \in BOOLEAN /\ sender' \in {"new", "run", "returned"}
    BY <1>12 DEF Finish
  <2> QED
    BY <1>12, <2>1, <2>2, <2>3 DEF Finish
<1>13. CASE Start
  BY <1>13 DEF Start
<1>14. CASE TraceOn
  BY <1>14 DEF TraceOn
<1>15. CASE JoinReader \/ JoinSender \/ JoinWorker
  <2>1. CASE JoinReader
    BY <2>1 DEF JoinReader, Join
  <2>2. CASE JoinSender
    BY <2>2 DEF JoinSender, Join
  <2>3. CASE JoinWorker
    BY <2>3 DEF JoinWorker, Join
  <2> QED
    BY <1>15, <2>1, <2>2, <2>3
<1>16. CASE TestAgain
  <2>1. main' \in {"trace_off", "listen"}
    BY <1>16 DEF TestAgain
  <2> QED
    BY <1>16, <2>1 DEF TestAgain
<1>17. CASE SeeFinished
  BY <1>17 DEF SeeFinished
<1>18. CASE TraceOff
  BY <1>18 DEF TraceOff
<1>19. CASE ClientConnects
  BY <1>19 DEF ClientConnects
<1>20. CASE ClientGone
  BY <1>20 DEF ClientGone
<1>21. CASE TracingStopped
  <2>1. tracing' \in BOOLEAN
    BY <1>21 DEF TracingStopped
  <2>2. main' = main /\ logging' = logging
    BY <1>21 DEF TracingStopped
  <2> QED
    BY <1>21, <2>1, <2>2 DEF TracingStopped
<1>22. CASE UNCHANGED vars
  BY <1>22 DEF vars
<1>23. CASE ReaderReturns
  BY <1>23 DEF ReaderReturns
<1>24. CASE WorkerReturns
  BY <1>24 DEF WorkerReturns
<1> HIDE DEF Sizes, TypeOK, mainVars, readerVars, workerVars, senderVars
<1>25. CASE Reader
  BY <1>1, <1>2, <1>3, <1>23, <1>25 DEF Reader
<1>26. CASE Worker
  BY <1>4, <1>5, <1>6, <1>7, <1>8, <1>24, <1>26 DEF Worker
<1>27. CASE Sender
  BY <1>9, <1>10, <1>11, <1>12, <1>27 DEF Sender
<1>28. CASE Main
  BY <1>13, <1>14, <1>15, <1>16, <1>17, <1>18, <1>28 DEF Main
<1>29. CASE Client
  BY <1>19, <1>20, <1>29 DEF Client
<1> QED
  BY <1>21, <1>22, <1>25, <1>26, <1>27, <1>28, <1>29 DEF Next, AtRest

-----------------------------------------------------------------------------
(* Where the threads stand *)

Control ==
    /\ main = "start" => reader = "new" /\ worker = "new" /\ sender = "new"
    /\ main \in {"listen", "serve", "gone"} => logging
    /\ main \in {"join_reader", "join_sender", "join_worker"} => ~logging
    /\ main \in {"join_sender", "join_worker"} => reader = "returned"
    /\ main \in {"join_worker", "trace_off", "returned"} => sender = "returned"
    /\ main \in {"trace_off", "returned"} =>
           logging \/ (reader = "returned" /\ worker = "returned")
    /\ finished <=> sender = "returned"

(* multithreaded_sensor.h:81: no thread runs before start(). *)
LEMMA InitControl == Init => Control
  BY DEF Init, Control

(* multithreaded_sensor.h:81-132: the main thread passes a join only when  *)
(* the thread has returned, and finished is the sender's return.           *)
LEMMA NextControl == TypeOK /\ Control /\ [Next]_vars => Control'
<1> SUFFICES ASSUME TypeOK, Control, [Next]_vars
             PROVE  Control'
  OBVIOUS
<1> USE DEF Control, TypeOK, mainVars, readerVars, workerVars, senderVars
<1>1. CASE Reader
  <2>1. UNCHANGED <<main, logging, worker, sender, finished>>
    BY <1>1 DEF Reader, ReadChunk, ReadEnd, EnqueueBulk, EnqueueEnd, ReaderReturns
  <2>2. /\ main # "start"
        /\ reader' = reader \/ (reader # "returned" /\ worker' = worker)
    BY <1>1 DEF Reader, ReadChunk, ReadEnd, EnqueueBulk, EnqueueEnd, ReaderReturns
  <2> QED
    BY <2>1, <2>2
<1>2. CASE Worker
  <2>1. UNCHANGED <<main, logging, reader, sender, finished>>
    BY <1>2 DEF Worker, WorkerDequeue, Collect, FlushLastPack, RelayEnd, EndResults,
                WorkerReturns
  <2>2. main # "start" /\ worker # "returned"
    BY <1>2 DEF Worker, WorkerDequeue, Collect, FlushLastPack, RelayEnd, EndResults,
                WorkerReturns
  <2> QED
    BY <2>1, <2>2
<1>3. CASE Sender
  <2>1. UNCHANGED <<main, logging, reader, worker>> /\ sender = "run"
    BY <1>3 DEF Sender, SenderDequeue, Dispatch, DispatchThrows, Finish
  <2>2. \/ sender' = sender /\ finished' = finished
        \/ sender' = "returned" /\ finished' = TRUE
    BY <1>3 DEF Sender, SenderDequeue, Dispatch, DispatchThrows, Finish
  <2> QED
    BY <2>1, <2>2
<1>4. CASE Start
  BY <1>4 DEF Start
<1>5. CASE TraceOn
  BY <1>5 DEF TraceOn
<1>6. CASE JoinReader \/ JoinSender \/ JoinWorker
  BY <1>6 DEF JoinReader, JoinSender, JoinWorker, Join
<1>7. CASE TestAgain
  BY <1>7 DEF TestAgain
<1>8. CASE SeeFinished \/ TraceOff
  BY <1>8 DEF SeeFinished, TraceOff
<1>9. CASE Client \/ TracingStopped
  BY <1>9 DEF Client, ClientConnects, ClientGone, TracingStopped
<1>10. CASE UNCHANGED vars
  BY <1>10 DEF vars
<1> HIDE DEF Control, TypeOK, mainVars, readerVars, workerVars, senderVars
<1>11. CASE Main
  BY <1>4, <1>5, <1>6, <1>7, <1>8, <1>11 DEF Main
<1> QED
  BY <1>1, <1>2, <1>3, <1>9, <1>10, <1>11 DEF Next, AtRest

-----------------------------------------------------------------------------
(* Where nullptr may be *)

NoEnd(queue)     == \A i \in 1..Len(queue) : queue[i] # NULL
OnlyEnds(queue)  == \A i \in 1..Len(queue) : queue[i] = NULL
EndIsLast(queue) == \A i \in 1..Len(queue) : queue[i] = NULL => i = Len(queue)

Ends ==
    /\ reader \in {"end", "stop_watch", "returned"} => bulks = <<>>
    /\ reader \in {"new", "run", "end"} =>
           worker \in {"new", "run"} /\ NoEnd(stream_queue) /\ NoEnd(lines)
    /\ worker \in {"new", "run"} =>
           /\ EndIsLast(stream_queue) /\ EndIsLast(lines)
           /\ NoEnd(lines) \/ stream_queue = <<>>
    /\ worker \in {"relay", "end", "stop_watch", "returned"} =>
           lines = <<>> /\ data = <<>> /\ OnlyEnds(stream_queue)
    /\ worker \in {"new", "run", "relay", "end"} =>
           sender # "returned" /\ NoEnd(result_queue) /\ NoEnd(events)
    /\ worker \in {"stop_watch", "returned"} =>
           /\ EndIsLast(result_queue) /\ EndIsLast(events)
           /\ NoEnd(events) \/ result_queue = <<>>
    /\ sender = "returned" => events = <<>> /\ result_queue = <<>>

(* An empty array holds no nullptr, and a queue without one may get one. *)
LEMMA EndsTrivia ==
    /\ NoEnd(<<>>) /\ OnlyEnds(<<>>) /\ EndIsLast(<<>>)
    /\ \A queue : NoEnd(queue) => EndIsLast(queue)
  BY DEF NoEnd, OnlyEnds, EndIsLast

(* multithreaded_sensor.h:157, 176-178, 184: enqueueing one message.       *)
LEMMA EndsAppend ==
    ASSUME NEW queue \in Seq(Bulks), NEW msg \in Bulks
    PROVE  /\ NoEnd(queue) => EndIsLast(Append(queue, msg))
           /\ NoEnd(queue) /\ msg # NULL => NoEnd(Append(queue, msg))
           /\ OnlyEnds(queue) /\ msg = NULL => OnlyEnds(Append(queue, msg))
<1> DEFINE n == Len(queue)
           longer == Append(queue, msg)
<1>1. /\ n \in Nat /\ Len(longer) = n + 1
      /\ \A i \in 1..n : longer[i] = queue[i]
      /\ longer[n + 1] = msg
  BY AppendProperties, LenProperties
<1>2. \A i \in 1..(n + 1) : i \in 1..n \/ i = n + 1
  BY <1>1
<1> HIDE DEF longer
<1>3. NoEnd(queue) => EndIsLast(longer)
  BY <1>1, <1>2 DEF NoEnd, EndIsLast
<1>4. NoEnd(queue) /\ msg # NULL => NoEnd(longer)
  BY <1>1, <1>2 DEF NoEnd
<1>5. OnlyEnds(queue) /\ msg = NULL => OnlyEnds(longer)
  BY <1>1, <1>2 DEF OnlyEnds
<1> QED
  BY <1>3, <1>4, <1>5 DEF longer

(* multithreaded_sensor.h:155: the reader's array holds bulks only. *)
LEMMA EndsConcat ==
    ASSUME NEW queue \in Seq(Bulks), NEW array \in Seq(Seq(Nat)), NoEnd(queue)
    PROVE  NoEnd(queue \o array)
<1>1. Seq(Nat) \subseteq Bulks
  BY DEF Bulks
<1>2. array \in Seq(Bulks)
  BY <1>1, SeqMonotonic
<1>3. /\ Len(queue) \in Nat /\ Len(array) \in Nat
      /\ Len(queue \o array) = Len(queue) + Len(array)
      /\ \A i \in 1..(Len(queue) + Len(array)) : (queue \o array)[i] =
             IF i <= Len(queue) THEN queue[i] ELSE array[i - Len(queue)]
  BY <1>2, ConcatProperties, LenProperties
<1>4. \A i \in 1..Len(array) : array[i] # NULL
  BY ElementOfSeq, SensorPipelineAssumption
<1>5. ASSUME NEW i \in 1..(Len(queue) + Len(array))
      PROVE  (queue \o array)[i] # NULL
  <2>1. CASE i <= Len(queue)
    BY <1>3, <2>1 DEF NoEnd
  <2>2. CASE ~(i <= Len(queue))
    <3>1. i - Len(queue) \in 1..Len(array)
      BY <1>3, <2>2
    <3> QED
      BY <1>3, <1>4, <2>2, <3>1
  <2> QED
    BY <2>1, <2>2
<1> QED
  BY <1>3, <1>5 DEF NoEnd

(* multithreaded_sensor.h:165, 195: a batch that holds nullptr takes all   *)
(* that was in the queue.                                                  *)
LEMMA EndsBatch ==
    ASSUME NEW queue \in Seq(Bulks), queue # <<>>, EndIsLast(queue)
    PROVE  /\ EndIsLast(Taken(queue)) /\ EndIsLast(Behind(queue))
           /\ NoEnd(Taken(queue)) \/ Behind(queue) = <<>>
           /\ NoEnd(queue) => NoEnd(Taken(queue)) /\ NoEnd(Behind(queue))
<1> DEFINE n == Len(queue)
           t == Taken(queue)
           b == Behind(queue)
<1>1. PICK k \in 1..n :
         /\ t \in Seq(Bulks) /\ Len(t) = k
         /\ b \in Seq(Bulks) /\ Len(b) = n - k
         /\ \A i \in 1..k : t[i] = queue[i]
         /\ \A i \in 1..(n - k) : b[i] = queue[k + i]
  BY BatchSplits
<1>2. n \in Nat \ {0}
  BY EmptySeq
<1> HIDE DEF t, b, n
<1>3. \A i \in 1..n : queue[i] = NULL => i = n
  BY DEF EndIsLast, n
<1>4. EndIsLast(t)
  BY <1>1, <1>2, <1>3 DEF EndIsLast
<1>5. EndIsLast(b)
  <2>1. ASSUME NEW i \in 1..(n - k), b[i] = NULL
        PROVE  i = n - k
    <3>1. k + i \in 1..n /\ queue[k + i] = NULL
      BY <1>1, <1>2, <2>1
    <3>2. k + i = n
      BY <1>3, <3>1
    <3> QED
      BY <1>1, <1>2, <3>2
  <2> QED
    BY <1>1, <2>1 DEF EndIsLast
<1>6. NoEnd(t) \/ b = <<>>
  <2>1. CASE k = n
    BY <1>1, <1>2, <2>1, EmptySeq
  <2>2. CASE k # n
    BY <1>1, <1>2, <1>3, <2>2 DEF NoEnd
  <2> QED
    BY <2>1, <2>2
<1>7. ASSUME NoEnd(queue)
      PROVE  NoEnd(t) /\ NoEnd(b)
  <2>1. \A i \in 1..n : queue[i] # NULL
    BY <1>7 DEF NoEnd, n
  <2>2. /\ \A i \in 1..k : i \in 1..n
        /\ \A i \in 1..(n - k) : k + i \in 1..n
    BY <1>1, <1>2
  <2>3. \A i \in 1..Len(t) : t[i] # NULL
    BY <1>1, <2>1, <2>2
  <2>4. \A i \in 1..Len(b) : b[i] # NULL
    BY <1>1, <2>1, <2>2
  <2> QED
    BY <2>3, <2>4 DEF NoEnd
<1> QED
  BY <1>4, <1>5, <1>6, <1>7 DEF t, b

(* multithreaded_sensor.h:166-186, 196-208: going through an array.        *)
LEMMA EndsTail ==
    ASSUME NEW queue \in Seq(Bulks), queue # <<>>, EndIsLast(queue)
    PROVE  /\ EndIsLast(Tail(queue))
           /\ NoEnd(queue) => NoEnd(Tail(queue)) /\ Head(queue) # NULL
           /\ Head(queue) = NULL => Tail(queue) = <<>>
<1> DEFINE n == Len(queue)
           t == Tail(queue)
<1>1. /\ n \in Nat \ {0} /\ Head(queue) = queue[1]
      /\ t \in Seq(Bulks) /\ Len(t) = n - 1
      /\ \A i \in 1..(n - 1) : t[i] = queue[i + 1]
  BY EmptySeq, HeadTailProperties
<1> HIDE DEF t, n
<1>2. \A i \in 1..n : queue[i] = NULL => i = n
  BY DEF EndIsLast, n
<1>3. \A i \in 1..(n - 1) : i + 1 \in 1..n
  BY <1>1
<1>4. EndIsLast(t)
  BY <1>1, <1>2, <1>3 DEF EndIsLast
<1>5. ASSUME NoEnd(queue)
      PROVE  NoEnd(t) /\ Head(queue) # NULL
  <2>1. \A i \in 1..n : queue[i] # NULL
    BY <1>5 DEF NoEnd, n
  <2>2. \A i \in 1..Len(t) : t[i] # NULL
    BY <1>1, <1>3, <2>1
  <2>3. queue[1] # NULL
    BY <1>1, <2>1
  <2> QED
    BY <1>1, <2>2, <2>3 DEF NoEnd
<1>6. Head(queue) = NULL => t = <<>>
  <2>1. Head(queue) = NULL => n = 1
    BY <1>1, <1>2
  <2> QED
    BY <1>1, <2>1, EmptySeq
<1> QED
  BY <1>4, <1>5, <1>6 DEF t

(* multithreaded_sensor.h:31-45: no nullptr is queued yet. *)
LEMMA InitEnds == Init => Ends
  BY EndsTrivia DEF Init, Ends

(* multithreaded_sensor.h:139-209: each thread sends nullptr as its last   *)
(* message, after its array is empty, and ends when it takes one.          *)
LEMMA NextEnds == TypeOK /\ Control /\ Ends /\ [Next]_vars => Ends'
<1> SUFFICES ASSUME TypeOK, Control, Ends, [Next]_vars
             PROVE  Ends'
  OBVIOUS
<1>0. /\ bulks \in Seq(Seq(Nat)) /\ stream_queue \in Seq(Bulks) /\ lines \in Seq(Bulks)
      /\ data \in Seq(Nat) /\ result_queue \in Seq(Bulks) /\ events \in Seq(Bulks)
      /\ reader \in {"new", "run", "end", "stop_watch", "returned"}
      /\ worker \in {"new", "run", "relay", "end", "stop_watch", "returned"}
      /\ sender \in {"new", "run", "returned"}
      /\ NULL \in Bulks /\ Seq(Nat) \subseteq Bulks
      /\ \A s \in Seq(Nat) : s # NULL
  BY SensorPipelineAssumption DEF TypeOK, Bulks
<1> USE DEF Ends, mainVars, readerVars, workerVars, senderVars
<1>1. ASSUME NEW n \in 0..MaxChunk, ReadChunk(n) \/ ReadEnd(n)
      PROVE  Ends'
  BY <1>1 DEF ReadChunk, ReadEnd
<1>2. CASE EnqueueBulk
  <2>1. NoEnd(stream_queue')
    BY <1>0, <1>2, EndsConcat DEF EnqueueBulk
  <2>2. EndIsLast(stream_queue')
    BY <2>1, EndsTrivia
  <2> QED
    BY <1>2, <2>1, <2>2 DEF EnqueueBulk
<1>3. CASE EnqueueEnd
  <2>1. NoEnd(stream_queue) /\ worker \in {"new", "run"} /\ NoEnd(lines)
    BY <1>3 DEF EnqueueEnd
  <2>2. EndIsLast(stream_queue')
    BY <1>0, <1>3, <2>1, EndsAppend DEF EnqueueEnd
  <2> QED
    BY <1>3, <2>1, <2>2 DEF EnqueueEnd
<1>4. CASE ReaderReturns
  BY <1>4 DEF ReaderReturns
<1>5. CASE WorkerDequeue
  <2>1. EndIsLast(stream_queue) /\ stream_queue # <<>>
    BY <1>5 DEF WorkerDequeue
  <2>2. /\ EndIsLast(lines') /\ EndIsLast(stream_queue')
        /\ NoEnd(lines') \/ stream_queue' = <<>>
        /\ NoEnd(stream_queue) => NoEnd(lines') /\ NoEnd(stream_queue')
    BY <1>0, <1>5, <2>1, EndsBatch DEF WorkerDequeue
  <2> QED
    BY <1>5, <2>2 DEF WorkerDequeue
<1>6. CASE Collect
  <2>1. EndIsLast(lines) /\ lines # <<>> /\ worker = "run"
    BY <1>6 DEF Collect, Ready
  <2>2. EndIsLast(lines') /\ (NoEnd(lines) => NoEnd(lines'))
    BY <1>0, <1>6, <2>1, EndsTail DEF Collect, Ready
  <2>3. NoEnd(result_queue')
    <3>1. Head(lines) \in Seq(Nat)
      BY <1>0, <1>6, <2>1, HeadTailProperties DEF Collect, Ready, Bulks
    <3>2. data \o Head(lines) \in Seq(Nat)
      BY <1>0, <3>1, ConcatProperties
    <3>3. \/ result_queue' = result_queue
          \/ result_queue' = Append(result_queue, data \o Head(lines))
      BY <1>6 DEF Collect, Ready
    <3>4. NoEnd(result_queue)
      BY <2>1
    <3>5. NoEnd(Append(result_queue, data \o Head(lines)))
      BY <1>0, <3>2, <3>4, EndsAppend
    <3> QED
      BY <3>3, <3>4, <3>5
  <2> QED
    BY <1>6, <2>1, <2>2, <2>3 DEF Collect, Ready
<1>7. CASE FlushLastPack
  <2>1. EndIsLast(lines) /\ lines # <<>> /\ worker = "run" /\ Head(lines) = NULL
    BY <1>7 DEF FlushLastPack
  <2>2. ~NoEnd(lines)
    BY <1>0, <2>1, EndsTail
  <2>3. stream_queue = <<>> /\ reader \in {"stop_watch", "returned"}
    BY <1>0, <2>1, <2>2
  <2>4. OnlyEnds(stream_queue)
    BY <2>3, EndsTrivia
  <2>5. NoEnd(result_queue')
    <3>1. \/ result_queue' = result_queue
          \/ result_queue' = Append(result_queue, data)
      BY <1>7 DEF FlushLastPack
    <3>2. NoEnd(result_queue) /\ data \in Bulks /\ data # NULL
      BY <1>0, <2>1
    <3> QED
      BY <1>0, <3>1, <3>2, EndsAppend
  <2> QED
    BY <1>7, <2>1, <2>3, <2>4, <2>5 DEF FlushLastPack
<1>8. CASE RelayEnd
  <2>1. OnlyEnds(stream_queue) /\ worker = "relay"
    BY <1>8 DEF RelayEnd
  <2>2. OnlyEnds(stream_queue')
    BY <1>0, <1>8, <2>1, EndsAppend DEF RelayEnd
  <2> QED
    BY <1>0, <1>8, <2>1, <2>2 DEF RelayEnd
<1>9. CASE EndResults
  <2>1. NoEnd(result_queue) /\ NoEnd(events) /\ worker = "end" /\ sender # "returned"
    BY <1>9 DEF EndResults
  <2>2. EndIsLast(result_queue') /\ EndIsLast(events)
    BY <1>0, <1>9, <2>1, EndsAppend, EndsTrivia DEF EndResults
  <2> QED
    BY <1>0, <1>9, <2>1, <2>2 DEF EndResults
<1>10. CASE WorkerReturns
  BY <1>10 DEF WorkerReturns
<1>11. CASE SenderDequeue
  <2>1. EndIsLast(result_queue) /\ result_queue # <<>> /\ sender = "run"
    BY <1>0, <1>11, EndsTrivia DEF SenderDequeue
  <2>2. /\ EndIsLast(events') /\ EndIsLast(result_queue')
        /\ NoEnd(events') \/ result_queue' = <<>>
        /\ NoEnd(result_queue) => NoEnd(events') /\ NoEnd(result_queue')
    BY <1>0, <1>11, <2>1, EndsBatch DEF SenderDequeue
  <2> QED
    BY <1>11, <2>1, <2>2 DEF SenderDequeue
<1>12. CASE Dispatch
  <2>1. EndIsLast(events) /\ events # <<>> /\ sender = "run"
    BY <1>0, <1>12, EndsTrivia DEF Dispatch
  <2>2. EndIsLast(events') /\ (NoEnd(events) => NoEnd(events'))
    BY <1>0, <1>12, <2>1, EndsTail DEF Dispatch
  <2> QED
    BY <1>12, <2>1, <2>2 DEF Dispatch
<1>13. CASE DispatchThrows
  <2>1. events' = <<>> /\ NoEnd(events') /\ EndIsLast(events')
    BY <1>13, EndsTrivia DEF DispatchThrows
  <2> QED
    BY <1>13, <2>1 DEF DispatchThrows
<1>14. CASE Finish
  <2>1. EndIsLast(events) /\ events # <<>> /\ Head(events) = NULL
    BY <1>0, <1>14, EndsTrivia DEF Finish
  <2>2. events' = <<>> /\ ~NoEnd(events)
    BY <1>0, <1>14, <2>1, EndsTail DEF Finish
  <2>3. worker \in {"stop_watch", "returned"} /\ result_queue = <<>>
    BY <1>0, <2>2
  <2>4. NoEnd(events') /\ EndIsLast(events')
    BY <2>2, EndsTrivia
  <2> QED
    BY <1>14, <2>2, <2>3, <2>4 DEF Finish
<1>15. CASE Start
  <2>1. reader = "new" /\ worker = "new" /\ sender = "new"
    BY <1>15 DEF Start, Control
  <2> QED
    BY <1>15, <2>1 DEF Start
<1>16. CASE \/ TraceOn \/ JoinReader \/ JoinSender \/ JoinWorker \/ TestAgain
            \/ SeeFinished \/ TraceOff \/ Client \/ TracingStopped \/ UNCHANGED vars
  <2>1. UNCHANGED <<readerVars, stream_queue, workerVars, result_queue, senderVars>>
    BY <1>16 DEF TraceOn, JoinReader, JoinSender, JoinWorker, Join, TestAgain,
                 SeeFinished, TraceOff, Client, ClientConnects, ClientGone,
                 TracingStopped, vars
  <2> QED
    BY <2>1
<1> HIDE DEF Ends, mainVars, readerVars, workerVars, senderVars
<1>17. CASE Reader
  BY <1>1, <1>2, <1>3, <1>4, <1>17 DEF Reader
<1>18. CASE Worker
  BY <1>5, <1>6, <1>7, <1>8, <1>9, <1>10, <1>18 DEF Worker
<1>19. CASE Sender
  BY <1>11, <1>12, <1>13, <1>14, <1>19 DEF Sender
<1> QED
  BY <1>15, <1>16, <1>17, <1>18, <1>19 DEF Next, Main, AtRest

-----------------------------------------------------------------------------
(* Where the records are *)

Increasing(s) == \A i, j \in 1..Len(s) : i < j => s[i] < s[j]

(* Settled up to d0, the sender's array holds what follows up to d1, the   *)
(* result queue up to d2, the aggregator up to d3, the worker's array up   *)
(* to d4, the stream queue up to d5 and the reader's array the rest.       *)
FlowAt(d0, d1, d2, d3, d4, d5) ==
    /\ Settled = 1..d0
    /\ Spans(events, d0, d1)
    /\ Spans(result_queue, d1, d2)
    /\ d2 <= d3 /\ data = Records(d2, d3)
    /\ Spans(lines, d3, d4)
    /\ Spans(stream_queue, d4, d5)
    /\ Spans(bulks, d5, read)

Flow ==
    /\ Increasing(delivered)
    /\ \E d0, d1, d2, d3, d4, d5 \in Nat : FlowAt(d0, d1, d2, d3, d4, d5)

(* multithreaded_sensor.h:31-45: nothing is read yet. *)
LEMMA InitFlow == Init => Flow
<1> SUFFICES ASSUME Init
             PROVE  Flow
  OBVIOUS
<1>1. Spans(<<>>, 0, 0)
  BY SpansEmpty
<1>2. Records(0, 0) = <<>>
  <2>1. Records(0, 0) \in Seq(Nat) /\ Len(Records(0, 0)) = 0
    BY RecordsIsMessage
  <2> QED
    BY <2>1, EmptySeq
<1>3. Settled = 1..0
  BY SensorPipelineAssumption DEF Init, Settled, RecordsOf
<1>4. FlowAt(0, 0, 0, 0, 0, 0)
  BY <1>1, <1>2, <1>3 DEF Init, FlowAt
<1> QED
  BY <1>4 DEF Init, Flow, Increasing

(* data_aggregator.h: what the aggregator holds tells how far it reaches.  *)
LEMMA EmptyRecords ==
    ASSUME NEW lo \in Nat, NEW hi \in Nat, lo <= hi
    PROVE  Records(lo, hi) = <<>> <=> lo = hi
<1>1. Records(lo, hi) \in Seq(Nat) /\ Len(Records(lo, hi)) = hi - lo
  BY RecordsIsMessage
<1> QED
  BY <1>1, EmptySeq

(* The records of a message appended to another. *)
LEMMA RecordsOfConcat ==
    ASSUME NEW s \in Seq(Nat), NEW lo \in Nat, NEW hi \in Nat, lo <= hi
    PROVE  RecordsOf(s \o Records(lo, hi)) = RecordsOf(s) \cup ((lo + 1)..hi)
<1> DEFINE r == Records(lo, hi)
<1>1. /\ r \in Seq(Nat) /\ r # NULL /\ RecordsOf(r) = (lo + 1)..hi
      /\ Len(r) \in Nat /\ Len(s) \in Nat
  BY RecordsIsMessage, LenProperties
<1> HIDE DEF r
<1>2. /\ s \o r \in Seq(Nat) /\ Len(s \o r) = Len(s) + Len(r)
      /\ \A i \in 1..(Len(s) + Len(r)) :
            (s \o r)[i] = IF i <= Len(s) THEN s[i] ELSE r[i - Len(s)]
  BY <1>1, ConcatProperties
<1>3. /\ s # NULL /\ s \o r # NULL
      /\ RecordsOf(s) = { s[i] : i \in 1..Len(s) }
      /\ RecordsOf(r) = { r[i] : i \in 1..Len(r) }
      /\ RecordsOf(s \o r) = { (s \o r)[i] : i \in 1..(Len(s) + Len(r)) }
  BY <1>1, <1>2, SensorPipelineAssumption DEF RecordsOf
<1>4. ASSUME NEW i \in 1..(Len(s) + Len(r))
      PROVE  (s \o r)[i] \in RecordsOf(s) \cup RecordsOf(r)
  <2>1. CASE i <= Len(s)
    BY <1>1, <1>2, <1>3, <2>1
  <2>2. CASE ~(i <= Len(s))
    <3>1. i - Len(s) \in 1..Len(r)
      BY <1>1, <2>2
    <3> QED
      BY <1>2, <1>3, <2>2, <3>1
  <2> QED
    BY <2>1, <2>2
<1>5. ASSUME NEW i \in 1..Len(s)
      PROVE  s[i] \in RecordsOf(s \o r)
  <2>1. i \in 1..(Len(s) + Len(r)) /\ i <= Len(s)
    BY <1>1
  <2> QED
    BY <1>2, <1>3, <2>1
<1>6. ASSUME NEW i \in 1..Len(r)
      PROVE  r[i] \in RecordsOf(s \o r)
  <2>1. /\ Len(s) + i \in 1..(Len(s) + Len(r))
        /\ ~(Len(s) + i <= Len(s)) /\ (Len(s) + i) - Len(s) = i
    BY <1>1
  <2>2. (s \o r)[Len(s) + i] = r[i]
    BY <1>2, <2>1
  <2> QED
    BY <1>3, <2>1, <2>2
<1>7. RecordsOf(s \o r) = RecordsOf(s) \cup RecordsOf(r)
  BY <1>3, <1>4, <1>5, <1>6
<1> QED
  BY <1>1, <1>7 DEF r

(* simple_queue.h:51-64: a batch cuts what the queue spans in two. *)
LEMMA SpansBatch ==
    ASSUME NEW queue \in Seq(Bulks), NEW lo \in Nat, NEW hi \in Nat,
           Spans(queue, lo, hi), queue # <<>>
    PROVE  \E mid \in Nat : Spans(Taken(queue), lo, mid) /\ Spans(Behind(queue), mid, hi)
<1>1. PICK k \in 1..Len(queue) : /\ Taken(queue) = SubSeq(queue, 1, k)
                                 /\ Behind(queue) = SubSeq(queue, k + 1, Len(queue))
  BY BatchSplits
<1>2. k \in 0..Len(queue)
  BY <1>1, LenProperties
<1> QED
  BY <1>1, <1>2, SpansSplit

(* multithreaded_sensor.h:199: dispatching what follows what was delivered *)
(* keeps the order.                                                        *)
LEMMA IncreasingConcat ==
    ASSUME NEW s \in Seq(Nat), Increasing(s), NEW lo \in Nat, NEW hi \in Nat, lo <= hi,
           \A i \in 1..Len(s) : s[i] <= lo
    PROVE  Increasing(s \o Records(lo, hi))
<1> DEFINE n == Len(s)
           r == Records(lo, hi)
           t == s \o r
<1>1. r \in Seq(Nat) /\ Len(r) = hi - lo /\ \A i \in 1..(hi - lo) : r[i] = lo + i
  BY RecordsIsMessage
<1>2. n \in Nat /\ \A i \in 1..n : s[i] \in Nat /\ s[i] <= lo
  BY LenProperties, ElementOfSeq
<1> HIDE DEF r
<1>3. /\ Len(t) = n + Len(r)
      /\ \A i \in 1..(n + Len(r)) : t[i] = IF i <= n THEN s[i] ELSE r[i - n]
  BY <1>1, ConcatProperties
<1> HIDE DEF t, n
<1>4. \A i \in 1..Len(t) : i > n => i - n \in 1..(hi - lo) /\ t[i] = lo + (i - n)
  BY <1>1, <1>2, <1>3
<1>5. \A i \in 1..Len(t) : i <= n => i \in 1..n /\ t[i] = s[i]
  BY <1>1, <1>2, <1>3
<1>6. ASSUME NEW i \in 1..Len(t), NEW j \in 1..Len(t), i < j
      PROVE  t[i] < t[j]
  <2>1. CASE j <= n
    <3>1. i \in 1..n /\ j \in 1..n /\ t[i] = s[i] /\ t[j] = s[j]
      BY <1>2, <1>5, <1>6, <2>1
    <3> QED
      BY <1>6, <3>1 DEF Increasing, n
  <2>2. CASE i <= n /\ j > n
    <3>1. t[i] \in Nat /\ t[i] <= lo
      BY <1>2, <1>5, <2>2
    <3>2. t[j] = lo + (j - n) /\ j - n \in 1..(hi - lo)
      BY <1>4, <2>2
    <3> QED
      BY <3>1, <3>2
  <2>3. CASE i > n
    <3>1. t[i] = lo + (i - n) /\ t[j] = lo + (j - n)
      BY <1>2, <1>3, <1>4, <1>6, <2>3
    <3> QED
      BY <1>2, <1>3, <1>6, <3>1
  <2> QED
    BY <1>2, <1>3, <2>1, <2>2, <2>3
<1> QED
  BY <1>6 DEF Increasing, t, r

(* multithreaded_sensor.h:134-214: a message moves from one container to   *)
(* the next at the boundary where their stretches of records meet.         *)
LEMMA NextFlow == TypeOK /\ Ends /\ Flow /\ [Next]_vars => Flow'
<1> SUFFICES ASSUME TypeOK, Ends, Flow, [Next]_vars
             PROVE  Flow'
  OBVIOUS
<1>0. /\ bulks \in Seq(Bulks) /\ stream_queue \in Seq(Bulks) /\ lines \in Seq(Bulks)
      /\ data \in Seq(Nat) /\ result_queue \in Seq(Bulks) /\ events \in Seq(Bulks)
      /\ delivered \in Seq(Nat) /\ read \in Nat
  <2>1. Seq(Nat) \subseteq Bulks
    BY DEF Bulks
  <2>2. bulks \in Seq(Bulks)
    BY <2>1, SeqMonotonic DEF TypeOK
  <2> QED
    BY <2>2 DEF TypeOK
<1>f. PICK d0 \in Nat, d1 \in Nat, d2 \in Nat, d3 \in Nat, d4 \in Nat, d5 \in Nat :
         FlowAt(d0, d1, d2, d3, d4, d5)
  BY DEF Flow
<1>i. Increasing(delivered)
  BY DEF Flow
<1>s. /\ Settled = 1..d0
      /\ Spans(events, d0, d1) /\ Spans(result_queue, d1, d2)
      /\ d2 <= d3 /\ data = Records(d2, d3)
      /\ Spans(lines, d3, d4) /\ Spans(stream_queue, d4, d5) /\ Spans(bulks, d5, read)
  BY <1>f DEF FlowAt
<1> USE DEF mainVars, readerVars, workerVars, senderVars
<1>1. ASSUME NEW n \in 0..MaxChunk, ReadChunk(n) \/ ReadEnd(n)
      PROVE  Flow'
  <2>1. /\ bulks' = Append(bulks, [i \in 1..n |-> read + i]) /\ read' = read + n
        /\ UNCHANGED <<stream_queue, workerVars, result_queue, senderVars>>
    BY <1>1 DEF ReadChunk, ReadEnd
  <2>2. [i \in 1..n |-> read + i] = Records(read, read')
    BY <1>0, <2>1, ChunkIsBulk
  <2>3. read' \in Nat /\ read <= read'
    BY <1>0, <2>1, SensorPipelineAssumption
  <2>4. Spans(bulks', d5, read')
    BY <1>0, <1>s, <2>1, <2>2, <2>3, SpansAppend
  <2>5. Settled' = Settled
    BY <2>1 DEF Settled
  <2>6. FlowAt(d0, d1, d2, d3, d4, d5)'
    BY <1>s, <2>1, <2>4, <2>5 DEF FlowAt
  <2> QED
    BY <1>i, <2>1, <2>6 DEF Flow
<1>2. CASE EnqueueBulk
  <2>1. /\ stream_queue' = stream_queue \o bulks /\ bulks' = <<>>
        /\ UNCHANGED <<read, workerVars, result_queue, senderVars>>
    BY <1>2 DEF EnqueueBulk
  <2>2. Spans(stream_queue', d4, read)
    BY <1>0, <1>s, <2>1, SpansConcat
  <2>3. Spans(bulks', read, read)
    BY <1>0, <2>1, SpansEmpty
  <2>4. Settled' = Settled
    BY <2>1 DEF Settled
  <2>5. FlowAt(d0, d1, d2, d3, d4, read)'
    BY <1>s, <2>1, <2>2, <2>3, <2>4 DEF FlowAt
  <2> QED
    BY <1>0, <1>i, <2>1, <2>5 DEF Flow
<1>3. CASE EnqueueEnd \/ RelayEnd
  <2>1. /\ stream_queue' = Append(stream_queue, NULL)
        /\ UNCHANGED <<read, bulks, lines, data, result_queue, senderVars>>
    BY <1>3 DEF EnqueueEnd, RelayEnd
  <2>2. Spans(stream_queue', d4, d5)
    BY <1>0, <1>s, <2>1, SpansAppend
  <2>3. Settled' = Settled
    BY <2>1 DEF Settled
  <2>4. FlowAt(d0, d1, d2, d3, d4, d5)'
    BY <1>s, <2>1, <2>2, <2>3 DEF FlowAt
  <2> QED
    BY <1>i, <2>1, <2>4 DEF Flow
<1>4. CASE WorkerDequeue
  <2>1. /\ lines = <<>> /\ stream_queue # <<>>
        /\ lines' = Taken(stream_queue) /\ stream_queue' = Behind(stream_queue)
        /\ UNCHANGED <<read, bulks, data, result_queue, senderVars>>
    BY <1>4 DEF WorkerDequeue
  <2>2. d3 = d4
    BY <1>s, <2>1, SpansEmpty
  <2>3. PICK mid \in Nat : Spans(lines', d4, mid) /\ Spans(stream_queue', mid, d5)
    BY <1>0, <1>s, <2>1, SpansBatch
  <2>4. Settled' = Settled
    BY <2>1 DEF Settled
  <2>5. FlowAt(d0, d1, d2, d3, mid, d5)'
    BY <1>s, <2>1, <2>2, <2>3, <2>4 DEF FlowAt
  <2> QED
    BY <1>i, <2>1, <2>5 DEF Flow
<1>5. CASE Collect
  <2>1. /\ lines # <<>> /\ Head(lines) # NULL /\ lines' = Tail(lines)
        /\ UNCHANGED <<read, bulks, stream_queue, senderVars>>
    BY <1>5 DEF Collect, Ready
  <2>2. PICK mid \in Nat : /\ d3 <= mid /\ Spans(lines', mid, d4)
                           /\ Head(lines) = Records(d3, mid)
    BY <1>0, <1>s, <2>1, SpansHead
  <2>3. data \o Head(lines) = Records(d2, mid) /\ d2 <= mid
    <3>1. d2 <= d3 /\ d3 <= mid /\ data = Records(d2, d3) /\ Head(lines) = Records(d3, mid)
      BY <1>s, <2>2
    <3>2. Records(d2, d3) \o Records(d3, mid) = Records(d2, mid)
      BY <3>1, RecordsConcat
    <3>3. d2 <= mid
      BY <3>1
    <3> QED
      BY <3>1, <3>2, <3>3
  <2>4. Settled' = Settled
    BY <2>1 DEF Settled
  <2>5. CASE data' = data \o Head(lines) /\ result_queue' = result_queue
    <3>1. FlowAt(d0, d1, d2, mid, d4, d5)'
      BY <1>s, <2>1, <2>2, <2>3, <2>4, <2>5 DEF FlowAt
    <3> QED
      BY <1>i, <2>1, <3>1 DEF Flow
  <2>6. CASE data' = <<>> /\ result_queue' = Append(result_queue, data \o Head(lines))
    <3>1. Spans(result_queue', d1, mid)
      BY <1>0, <1>s, <2>3, <2>6, SpansAppend
    <3>2. data' = Records(mid, mid)
      BY <2>6, EmptyRecords
    <3>3. FlowAt(d0, d1, mid, mid, d4, d5)'
      BY <1>s, <2>1, <2>2, <2>4, <3>1, <3>2 DEF FlowAt
    <3> QED
      BY <1>i, <2>1, <3>3 DEF Flow
  <2>7. \/ data' = data \o Head(lines) /\ result_queue' = result_queue
        \/ data' = <<>> /\ result_queue' = Append(result_queue, data \o Head(lines))
    BY <1>5 DEF Collect, Ready
  <2> QED
    BY <2>5, <2>6, <2>7
<1>6. CASE FlushLastPack
  <2>1. /\ lines # <<>> /\ Head(lines) = NULL /\ lines' = <<>> /\ data' = <<>>
        /\ result_queue' = IF data = <<>> THEN result_queue ELSE Append(result_queue, data)
        /\ worker = "run"
        /\ UNCHANGED <<read, bulks, stream_queue, senderVars>>
    BY <1>6 DEF FlushLastPack
  (* Nothing but nullptr was left in the worker's array. *)
  <2>2. d3 = d4
    <3>1. EndIsLast(lines)
      BY <2>1 DEF Ends
    <3>2. Tail(lines) = <<>>
      BY <1>0, <2>1, <3>1, EndsTail
    <3>3. lines \in Seq(Bulks) /\ lines # <<>> /\ Spans(lines, d3, d4)
      BY <1>0, <1>s, <2>1
    <3>4. PICK mid \in Nat :
             /\ d3 <= mid /\ mid <= d4
             /\ Spans(Tail(lines), mid, d4)
             /\ (Head(lines) = NULL /\ mid = d3) \/ Head(lines) = Records(d3, mid)
      BY <3>3, SpansHead
    <3>5. Records(d3, mid) # NULL
      BY <3>4, RecordsIsMessage
    <3>6. mid = d3
      BY <2>1, <3>4, <3>5
    <3>7. Spans(<<>>, d3, d4)
      BY ONLY <3>2, <3>4, <3>6
    <3> QED
      BY ONLY <3>7, SpansEmpty, d3 \in Nat, d4 \in Nat
  <2>3. Spans(result_queue', d1, d3)
    <3>1. CASE data = <<>>
      <4>1. d2 = d3
        BY <1>s, <3>1, EmptyRecords
      <4> QED
        BY <1>s, <2>1, <3>1, <4>1
    <3>2. CASE data # <<>>
      BY <1>0, <1>s, <2>1, <3>2, SpansAppend
    <3> QED
      BY <3>1, <3>2
  <2>4. data' = Records(d3, d3) /\ Spans(lines', d3, d4)
    BY <2>1, <2>2, EmptyRecords, SpansEmpty
  <2>5. Settled' = Settled
    BY <2>1 DEF Settled
  <2>6. FlowAt(d0, d1, d3, d3, d4, d5)'
    BY <1>s, <2>1, <2>3, <2>4, <2>5 DEF FlowAt
  <2> QED
    BY <1>i, <2>1, <2>6 DEF Flow
<1>7. CASE EndResults
  <2>1. /\ result_queue' = Append(result_queue, NULL)
        /\ UNCHANGED <<read, bulks, stream_queue, lines, data, senderVars>>
    BY <1>7 DEF EndResults
  <2>2. Spans(result_queue', d1, d2)
    BY <1>0, <1>s, <2>1, SpansAppend
  <2>3. Settled' = Settled
    BY <2>1 DEF Settled
  <2>4. FlowAt(d0, d1, d2, d3, d4, d5)'
    BY <1>s, <2>1, <2>2, <2>3 DEF FlowAt
  <2> QED
    BY <1>i, <2>1, <2>4 DEF Flow
<1>8. CASE SenderDequeue
  <2>1. /\ events = <<>> /\ result_queue # <<>>
        /\ events' = Taken(result_queue) /\ result_queue' = Behind(result_queue)
        /\ UNCHANGED <<read, bulks, stream_queue, lines, data, delivered, lost>>
    BY <1>8 DEF SenderDequeue
  <2>2. d0 = d1
    BY <1>s, <2>1, SpansEmpty
  <2>3. PICK mid \in Nat : Spans(events', d1, mid) /\ Spans(result_queue', mid, d2)
    BY <1>0, <1>s, <2>1, SpansBatch
  <2>4. Settled' = Settled
    BY <2>1 DEF Settled
  <2>5. FlowAt(d0, mid, d2, d3, d4, d5)'
    BY <1>s, <2>1, <2>2, <2>3, <2>4 DEF FlowAt
  <2> QED
    BY <1>i, <2>1, <2>5 DEF Flow
<1>9. CASE Dispatch
  <2>1. /\ events # <<>> /\ Head(events) # NULL /\ events' = Tail(events)
        /\ delivered' = delivered \o Head(events)
        /\ UNCHANGED <<read, bulks, stream_queue, lines, data, result_queue, lost>>
    BY <1>9 DEF Dispatch
  <2>2. PICK mid \in Nat : /\ d0 <= mid /\ Spans(events', mid, d1)
                           /\ Head(events) = Records(d0, mid)
    BY <1>0, <1>s, <2>1, SpansHead
  <2>3. Settled' = 1..mid
    <3>1. RecordsOf(delivered \o Head(events)) = RecordsOf(delivered) \cup ((d0 + 1)..mid)
      BY <1>0, <2>2, RecordsOfConcat
    <3>2. Settled' = Settled \cup ((d0 + 1)..mid)
      BY <2>1, <3>1 DEF Settled
    <3>3. 1..mid = 1..d0 \cup ((d0 + 1)..mid)
      BY <2>2
    <3> QED
      BY <1>s, <3>2, <3>3
  <2>4. Increasing(delivered')
    <3>1. ASSUME NEW i \in 1..Len(delivered)
          PROVE  delivered[i] <= d0
      <4>1. delivered[i] \in RecordsOf(delivered)
        BY <1>0, SensorPipelineAssumption DEF RecordsOf
      <4>2. delivered[i] \in 1..d0
        BY <1>s, <4>1 DEF Settled
      <4> QED
        BY <4>2
    <3> QED
      BY <1>0, <1>i, <2>1, <2>2, <3>1, IncreasingConcat
  <2>5. FlowAt(mid, d1, d2, d3, d4, d5)'
    BY <1>s, <2>1, <2>2, <2>3 DEF FlowAt
  <2> QED
    BY <2>4, <2>5 DEF Flow
<1>10. CASE DispatchThrows
  <2>1. /\ events' = <<>> /\ lost' = lost \cup RecordsIn(events)
        /\ UNCHANGED <<read, bulks, stream_queue, lines, data, result_queue, delivered>>
    BY <1>10 DEF DispatchThrows
  <2>2. d0 <= d1 /\ RecordsIn(events) = (d0 + 1)..d1
    BY <1>0, <1>s, SpansForward, SpansRecords
  <2>3. Settled' = 1..d1
    <3>1. Settled' = Settled \cup ((d0 + 1)..d1)
      BY <2>1, <2>2 DEF Settled
    <3>2. 1..d1 = 1..d0 \cup ((d0 + 1)..d1)
      BY <2>2
    <3> QED
      BY <1>s, <3>1, <3>2
  <2>4. Spans(events', d1, d1)
    BY <2>1, SpansEmpty
  <2>5. FlowAt(d1, d1, d2, d3, d4, d5)'
    BY <1>s, <2>1, <2>3, <2>4 DEF FlowAt
  <2> QED
    BY <1>i, <2>1, <2>5 DEF Flow
<1>11. CASE Finish
  <2>1. /\ events # <<>> /\ Head(events) = NULL /\ events' = Tail(events)
        /\ UNCHANGED <<read, bulks, stream_queue, lines, data, result_queue, delivered, lost>>
    BY <1>11 DEF Finish
  <2>2. Spans(events', d0, d1)
    <3>1. PICK mid \in Nat : /\ Spans(events', mid, d1)
                             /\ (Head(events) = NULL /\ mid = d0)
                                \/ (Head(events) = Records(d0, mid) /\ d0 <= mid)
      BY <1>0, <1>s, <2>1, SpansHead
    <3>2. mid = d0
      BY <2>1, <3>1, RecordsIsMessage
    <3> QED
      BY <3>1, <3>2
  <2>3. Settled' = Settled
    BY <2>1 DEF Settled
  <2>4. FlowAt(d0, d1, d2, d3, d4, d5)'
    BY <1>s, <2>1, <2>2, <2>3 DEF FlowAt
  <2> QED
    BY <1>i, <2>1, <2>4 DEF Flow
<1>12. CASE \/ ReaderReturns \/ WorkerReturns \/ Main \/ Client \/ TracingStopped
            \/ UNCHANGED vars
  <2>1. UNCHANGED <<read, bulks, stream_queue, lines, data, result_queue, events,
                    delivered, lost>>
    BY <1>12 DEF ReaderReturns, WorkerReturns, Main, Start, TraceOn, JoinReader,
                 JoinSender, JoinWorker, Join, TestAgain, SeeFinished, TraceOff,
                 Client, ClientConnects, ClientGone, TracingStopped, vars
  <2>2. Settled' = Settled
    BY <2>1 DEF Settled
  <2>3. FlowAt(d0, d1, d2, d3, d4, d5)'
    BY <1>s, <2>1, <2>2 DEF FlowAt
  <2> QED
    BY <1>i, <2>1, <2>3 DEF Flow
<1>13. CASE Reader
  BY <1>1, <1>2, <1>3, <1>12, <1>13 DEF Reader
<1>14. CASE Worker
  BY <1>3, <1>4, <1>5, <1>6, <1>7, <1>12, <1>14 DEF Worker
<1>15. CASE Sender
  BY <1>8, <1>9, <1>10, <1>11, <1>15 DEF Sender
<1> QED
  BY <1>12, <1>13, <1>14, <1>15 DEF Next, AtRest

-----------------------------------------------------------------------------
(* The invariant, and what follows from it *)

IInv == Sizes /\ Control /\ Ends /\ Flow

(* multithreaded_sensor.h:81-214: every step of run(), of the threads and  *)
(* of the clients preserves the four parts together.                       *)
LEMMA Invariance == Spec => []IInv
<1>1. Init => IInv
  BY InitSizes, InitControl, InitEnds, InitFlow DEF IInv
<1>2. IInv /\ [Next]_vars => IInv'
  <2> SUFFICES ASSUME IInv, [Next]_vars
               PROVE  IInv'
    OBVIOUS
  <2>1. Sizes /\ Control /\ Ends /\ Flow /\ TypeOK
    BY DEF IInv, Sizes
  <2> QED
    BY <2>1, NextSizes, NextControl, NextEnds, NextFlow DEF IInv
<1> QED
  BY <1>1, <1>2, PTL DEF Spec

(* The variables keep their types: multithreaded_sensor.h:31-45.           *)
THEOREM TypeCorrect == Spec => []TypeOK
<1>1. IInv => TypeOK
  BY DEF IInv, Sizes
<1> QED
  BY <1>1, Invariance, PTL

-----------------------------------------------------------------------------
(* Order and loss *)

(* multithreaded_sensor.h:134-214: the stream is given the records in the  *)
(* order of the trace, none twice, however the threads interleave.         *)
THEOREM OrderKept == Spec => []DeliveredInOrder
<1>1. IInv => DeliveredInOrder
  BY DEF IInv, Flow, Increasing, DeliveredInOrder
<1> QED
  BY <1>1, Invariance, PTL

(* The containers of the pipeline as queues of messages. *)
LEMMA QueuesOfMessages ==
    ASSUME TypeOK
    PROVE  /\ bulks \in Seq(Bulks) /\ stream_queue \in Seq(Bulks)
           /\ lines \in Seq(Bulks) /\ result_queue \in Seq(Bulks)
           /\ events \in Seq(Bulks) /\ read \in Nat
<1>1. Seq(Nat) \subseteq Bulks
  BY DEF Bulks
<1>2. bulks \in Seq(Bulks)
  BY <1>1, SeqMonotonic DEF TypeOK
<1> QED
  BY <1>2 DEF TypeOK

(* Where Flow puts the records, each container has those of its stretch.   *)
LEMMA Stretches ==
    ASSUME TypeOK,
           NEW d0 \in Nat, NEW d1 \in Nat, NEW d2 \in Nat,
           NEW d3 \in Nat, NEW d4 \in Nat, NEW d5 \in Nat,
           FlowAt(d0, d1, d2, d3, d4, d5)
    PROVE  /\ d0 <= d1 /\ d1 <= d2 /\ d2 <= d3 /\ d3 <= d4 /\ d4 <= d5 /\ d5 <= read
           /\ RecordsIn(events) = (d0 + 1)..d1
           /\ RecordsIn(result_queue) = (d1 + 1)..d2
           /\ RecordsOf(data) = (d2 + 1)..d3
           /\ RecordsIn(lines) = (d3 + 1)..d4
           /\ RecordsIn(stream_queue) = (d4 + 1)..d5
           /\ RecordsIn(bulks) = (d5 + 1)..read
<1>1. /\ Spans(events, d0, d1) /\ Spans(result_queue, d1, d2)
      /\ d2 <= d3 /\ data = Records(d2, d3)
      /\ Spans(lines, d3, d4) /\ Spans(stream_queue, d4, d5) /\ Spans(bulks, d5, read)
  BY DEF FlowAt
<1>2. RecordsIn(events) = (d0 + 1)..d1 /\ d0 <= d1
  BY <1>1, QueuesOfMessages, SpansRecords, SpansForward
<1>3. RecordsIn(result_queue) = (d1 + 1)..d2 /\ d1 <= d2
  BY <1>1, QueuesOfMessages, SpansRecords, SpansForward
<1>4. RecordsOf(data) = (d2 + 1)..d3
  BY <1>1, RecordsIsMessage
<1>5. RecordsIn(lines) = (d3 + 1)..d4 /\ d3 <= d4
  BY <1>1, QueuesOfMessages, SpansRecords, SpansForward
<1>6. RecordsIn(stream_queue) = (d4 + 1)..d5 /\ d4 <= d5
  BY <1>1, QueuesOfMessages, SpansRecords, SpansForward
<1>7. RecordsIn(bulks) = (d5 + 1)..read /\ d5 <= read
  BY <1>1, QueuesOfMessages, SpansRecords, SpansForward
<1> QED
  BY <1>1, <1>2, <1>3, <1>4, <1>5, <1>6, <1>7

(* The records up to one place and those from there to another. *)
LEMMA StretchesJoin ==
    ASSUME NEW lo \in Nat, NEW hi \in Nat, lo <= hi
    PROVE  1..lo \cup (lo + 1)..hi = 1..hi
  OBVIOUS

(* multithreaded_sensor.h:134-214: no hand-over between two threads drops  *)
(* a record or invents one; only a dispatch that throws loses records.     *)
THEOREM NothingDropped == Spec => []EveryRecordAccountedFor
<1>1. IInv => EveryRecordAccountedFor
  <2> SUFFICES ASSUME IInv
               PROVE  EveryRecordAccountedFor
    OBVIOUS
  <2>1. TypeOK
    BY DEF IInv, Sizes
  <2>2. PICK d0 \in Nat, d1 \in Nat, d2 \in Nat, d3 \in Nat, d4 \in Nat, d5 \in Nat :
           FlowAt(d0, d1, d2, d3, d4, d5)
    BY DEF IInv, Flow
  <2>3. Settled = 1..d0
    BY <2>2 DEF FlowAt
  <2>4. /\ d0 <= d1 /\ d1 <= d2 /\ d2 <= d3 /\ d3 <= d4 /\ d4 <= d5 /\ d5 <= read
        /\ RecordsIn(events) = (d0 + 1)..d1
        /\ RecordsIn(result_queue) = (d1 + 1)..d2
        /\ RecordsOf(data) = (d2 + 1)..d3
        /\ RecordsIn(lines) = (d3 + 1)..d4
        /\ RecordsIn(stream_queue) = (d4 + 1)..d5
        /\ RecordsIn(bulks) = (d5 + 1)..read
    BY <2>1, <2>2, Stretches
  <2>5. InFlight = (d0 + 1)..d1 \cup (d1 + 1)..d2 \cup (d2 + 1)..d3
                   \cup (d3 + 1)..d4 \cup (d4 + 1)..d5 \cup (d5 + 1)..read
    BY <2>4 DEF InFlight
  <2>6. read \in Nat
    BY <2>1, QueuesOfMessages
  <2>7. 1..d0 \cup InFlight = 1..read
    <3>1. 1..d0 \cup (d0 + 1)..d1 = 1..d1 /\ 1..d1 \cup (d1 + 1)..d2 = 1..d2
      BY <2>4, StretchesJoin
    <3>2. 1..d2 \cup (d2 + 1)..d3 = 1..d3 /\ 1..d3 \cup (d3 + 1)..d4 = 1..d4
      BY <2>4, StretchesJoin
    <3>3. 1..d4 \cup (d4 + 1)..d5 = 1..d5 /\ 1..d5 \cup (d5 + 1)..read = 1..read
      BY <2>4, <2>6, StretchesJoin
    <3> QED
      BY <2>5, <3>1, <3>2, <3>3, Zenon
  <2> QED
    BY <2>3, <2>7 DEF EveryRecordAccountedFor
<1> QED
  BY <1>1, Invariance, PTL

(* A stretch without records ends where it begins.                         *)
LEMMA EmptyStretch ==
    ASSUME NEW lo \in Nat, NEW hi \in Nat, lo <= hi, (lo + 1)..hi = {}
    PROVE  lo = hi
<1>1. lo # hi => lo + 1 \in (lo + 1)..hi
  OBVIOUS
<1> QED
  BY <1>1

(* Queues that hold nothing but nullptr hold no record.                    *)
LEMMA OnlyEndsNoRecords ==
    ASSUME NEW queue, OnlyEnds(queue)
    PROVE  RecordsIn(queue) = {}
  BY DEF OnlyEnds, RecordsIn, RecordsOf

(* Once the sender has returned, the threads before it have nothing left.  *)
LEMMA SenderIsLast ==
    ASSUME IInv, sender = "returned"
    PROVE  /\ worker \in {"stop_watch", "returned"}
           /\ reader \in {"stop_watch", "returned"}
           /\ events = <<>> /\ result_queue = <<>> /\ data = <<>> /\ lines = <<>>
           /\ bulks = <<>> /\ OnlyEnds(stream_queue)
<1>1. TypeOK /\ Ends
  BY DEF IInv, Sizes
<1>2. worker \in {"stop_watch", "returned"}
  BY <1>1 DEF TypeOK, Ends
<1>3. lines = <<>> /\ data = <<>> /\ OnlyEnds(stream_queue)
  BY <1>1, <1>2 DEF Ends
<1>4. reader \in {"stop_watch", "returned"}
  BY <1>1, <1>2 DEF TypeOK, Ends
<1>5. bulks = <<>> /\ events = <<>> /\ result_queue = <<>>
  BY <1>1, <1>4 DEF Ends
<1> QED
  BY <1>2, <1>3, <1>4, <1>5

(* multithreaded_sensor.h:173-180, 203-207: finished is not set before     *)
(* each record read is delivered or lost with a dispatch that threw.       *)
THEOREM FinishedIsSettled == Spec => []FinishedMeansSettled
<1>1. IInv => FinishedMeansSettled
  <2> SUFFICES ASSUME IInv, finished
               PROVE  Settled = 1..read
    BY DEF FinishedMeansSettled
  <2>1. TypeOK /\ sender = "returned"
    BY DEF IInv, Sizes, Control
  <2>2. PICK d0 \in Nat, d1 \in Nat, d2 \in Nat, d3 \in Nat, d4 \in Nat, d5 \in Nat :
           FlowAt(d0, d1, d2, d3, d4, d5)
    BY DEF IInv, Flow
  <2>3. /\ events = <<>> /\ result_queue = <<>> /\ data = <<>> /\ lines = <<>>
        /\ bulks = <<>> /\ RecordsIn(stream_queue) = {}
    BY <2>1, SenderIsLast, OnlyEndsNoRecords
  <2>4. read \in Nat
    BY <2>1, QueuesOfMessages
  <2>5. d0 = d1 /\ d1 = d2 /\ d3 = d4 /\ d5 = read
    BY <2>2, <2>3, <2>4, SpansEmpty DEF FlowAt
  <2>6. d2 = d3
    BY <2>2, <2>3, EmptyRecords DEF FlowAt
  <2>7. d4 <= d5 /\ RecordsIn(stream_queue) = (d4 + 1)..d5
    BY <2>1, <2>2, Stretches
  <2>8. d4 = d5
    BY <2>3, <2>7, EmptyStretch
  <2> QED
    BY <2>2, <2>5, <2>6, <2>8 DEF FlowAt
<1> QED
  BY <1>1, Invariance, PTL

-----------------------------------------------------------------------------
(* Packs and the end of run() *)

(* data_aggregator.h:26-41, multithreaded_sensor.h:182-185: a pack is      *)
(* never empty and passes PackSize by less than one bulk.                  *)
THEOREM PacksBounded == Spec => []PackSizeBound
<1>1. IInv => PackSizeBound
  <2> SUFFICES ASSUME IInv, NEW queue \in {result_queue, events},
                      NEW i \in 1..Len(queue), queue[i] # NULL
               PROVE  Len(queue[i]) \in 1..(PackSize + MaxChunk - 1)
    BY DEF PackSizeBound
  <2>1. queue \in Seq({NULL} \cup Packs)
    BY DEF IInv, Sizes
  <2>2. queue[i] \in {NULL} \cup Packs
    BY <2>1, ElementOfSeq
  <2> QED
    BY <2>2 DEF Packs
<1> QED
  BY <1>1, Invariance, PTL

(* multithreaded_sensor.h:89-114, parallel_worker.h:18-24: when run()      *)
(* returns, no thread will use a queue, the aggregator or the stream.      *)
THEOREM SafeReturn == Spec => []ReturnIsSafe
<1>1. IInv => ReturnIsSafe
  <2> SUFFICES ASSUME IInv, main = "returned"
               PROVE  /\ sender = "returned"
                      /\ {reader, worker} \subseteq
                             IF logging THEN {"stop_watch", "returned"} ELSE {"returned"}
    BY DEF ReturnIsSafe
  <2>1. sender = "returned"
    BY DEF IInv, Control
  <2>2. ~logging => reader = "returned" /\ worker = "returned"
    BY DEF IInv, Control
  <2>3. worker \in {"stop_watch", "returned"} /\ reader \in {"stop_watch", "returned"}
    BY <2>1, SenderIsLast
  <2> QED
    BY <2>1, <2>2, <2>3
<1> QED
  BY <1>1, Invariance, PTL

-----------------------------------------------------------------------------
(* The pipeline implements TraceDelivery *)

(* The abstract module counts as settled what the pipeline does.           *)
LEMMA SameSettled ==
    ASSUME TypeOK
    PROVE  Delivery!Settled = Settled
  BY SensorPipelineAssumption DEF TypeOK, Settled, Delivery!Settled, RecordsOf

(* multithreaded_sensor.h:203-207: when the sender takes nullptr from its  *)
(* array, each record read is settled.                                     *)
LEMMA LastMessage ==
    ASSUME IInv, Finish
    PROVE  Settled = 1..read
<1>1. TypeOK /\ Ends
  BY DEF IInv, Sizes
<1>2. events # <<>> /\ Head(events) = NULL /\ events \in Seq(Bulks)
  BY <1>1 DEF Finish, TypeOK
<1>3. 1 \in 1..Len(events) /\ events[1] = NULL
  BY <1>2, EmptySeq, HeadTailProperties
<1>4. ~NoEnd(events)
  BY <1>3 DEF NoEnd
<1>5. worker \in {"stop_watch", "returned"} /\ result_queue = <<>> /\ EndIsLast(events)
  BY <1>1, <1>4 DEF TypeOK, Ends
<1>6. lines = <<>> /\ data = <<>> /\ OnlyEnds(stream_queue)
  BY <1>1, <1>5 DEF Ends
<1>7. bulks = <<>>
  BY <1>1, <1>5 DEF TypeOK, Ends
<1>8. OnlyEnds(events)
  BY <1>2, <1>3, <1>5, LenProperties DEF EndIsLast, OnlyEnds
<1>9. RecordsIn(events) = {} /\ RecordsIn(stream_queue) = {}
  BY <1>6, <1>8, OnlyEndsNoRecords
<1>10. PICK d0 \in Nat, d1 \in Nat, d2 \in Nat, d3 \in Nat, d4 \in Nat, d5 \in Nat :
          FlowAt(d0, d1, d2, d3, d4, d5)
  BY DEF IInv, Flow
<1>11. /\ d0 <= d1 /\ RecordsIn(events) = (d0 + 1)..d1
       /\ d4 <= d5 /\ RecordsIn(stream_queue) = (d4 + 1)..d5
  BY <1>1, <1>10, Stretches
<1>12. d0 = d1 /\ d4 = d5
  BY <1>9, <1>11, EmptyStretch
<1>13. read \in Nat
  BY <1>1, QueuesOfMessages
<1>14. d1 = d2 /\ d3 = d4 /\ d5 = read
  BY <1>5, <1>6, <1>7, <1>10, <1>13, SpansEmpty DEF FlowAt
<1>15. d2 = d3
  BY <1>6, <1>10, EmptyRecords DEF FlowAt
<1> QED
  BY <1>10, <1>12, <1>14, <1>15 DEF FlowAt

(* multithreaded_sensor.h:199: a dispatch of Records(lo, hi) is an         *)
(* abstract delivery of lo + 1 up to hi, or of nothing.                    *)
LEMMA DispatchDelivers ==
    ASSUME NEW s \in Seq(Nat), NEW lo \in Nat, NEW hi \in Nat, lo <= hi
    PROVE  /\ lo = hi => s \o Records(lo, hi) = s
           /\ Records(lo, hi) = [i \in 1..(hi - (lo + 1) + 1) |-> (lo + 1) + i - 1]
<1>1. lo = hi => Records(lo, hi) = <<>>
  BY EmptyRecords
<1>2. s \o <<>> = s
  BY ConcatEmptySeq
<1>3. hi - (lo + 1) + 1 = hi - lo
  OBVIOUS
<1>4. \A i \in 1..(hi - lo) : (lo + 1) + i - 1 = lo + i
  OBVIOUS
<1>5. [i \in 1..(hi - lo) |-> (lo + 1) + i - 1] = [i \in 1..(hi - lo) |-> lo + i]
  BY <1>4
<1> QED
  BY <1>1, <1>2, <1>3, <1>5 DEF Records

(* multithreaded_sensor.h:81-214: seen from the stream, the three threads  *)
(* and their queues are TraceDelivery: reading accepts records, a dispatch *)
(* delivers the oldest outstanding ones, a dispatch that throws loses a    *)
(* run of the oldest and finished is set with none outstanding.            *)
THEOREM ImplementsTraceDelivery == Spec => DeliversTheTrace
<1>1. Init => Delivery!Init
  BY DEF Init, Delivery!Init
<1>2. IInv /\ [Next]_vars => [Delivery!Next]_(Delivery!vars)
  <2> SUFFICES ASSUME IInv, [Next]_vars
               PROVE  Delivery!Next \/ UNCHANGED <<read, delivered, lost, finished>>
    BY DEF Delivery!vars
  <2>1. TypeOK /\ read \in Nat /\ delivered \in Seq(Nat)
    BY DEF IInv, Sizes, TypeOK
  <2>2. Delivery!Settled = Settled
    BY <2>1, SameSettled
  <2>3. PICK d0 \in Nat, d1 \in Nat, d2 \in Nat, d3 \in Nat, d4 \in Nat, d5 \in Nat :
           FlowAt(d0, d1, d2, d3, d4, d5)
    BY DEF IInv, Flow
  <2>4. /\ Settled = 1..d0 /\ Spans(events, d0, d1)
        /\ events \in Seq(Bulks)
    BY <2>1, <2>3, QueuesOfMessages DEF FlowAt
  <2>5. d0 <= d1 /\ d1 <= read
    <3>1. TypeOK /\ FlowAt(d0, d1, d2, d3, d4, d5)
      BY <2>1, <2>3
    <3>2. d0 <= d1 /\ d1 <= d2 /\ d2 <= d3 /\ d3 <= d4 /\ d4 <= d5 /\ d5 <= read
      BY <3>1, Stretches, SMTT(60)
    <3> QED
      BY <2>1, <3>2
  <2> USE DEF mainVars, readerVars, workerVars, senderVars
  <2>6. ASSUME NEW n \in 0..MaxChunk, ReadChunk(n) \/ ReadEnd(n)
        PROVE  Delivery!Next \/ UNCHANGED <<read, delivered, lost, finished>>
    <3>1. read' = read + n /\ UNCHANGED <<delivered, lost, finished>> /\ reader = "run"
      BY <2>6 DEF ReadChunk, ReadEnd
    <3>2. ~finished
      BY <2>1, <3>1, SenderIsLast DEF IInv, Control, TypeOK
    <3>3. CASE n = 0
      BY <2>1, <3>1, <3>3
    <3>4. CASE n # 0
      <4>1. n \in 1..MaxChunk
        BY <3>4, SensorPipelineAssumption
      <4> QED
        BY <3>1, <3>2, <4>1 DEF Delivery!Next, Delivery!Accept
    <3> QED
      BY <3>3, <3>4
  <2>7. CASE Dispatch
    <3>1. /\ events # <<>> /\ Head(events) # NULL
          /\ delivered' = delivered \o Head(events)
          /\ UNCHANGED <<read, lost, finished>>
      BY <2>7 DEF Dispatch
    <3>2. PICK mid \in Nat : /\ d0 <= mid /\ mid <= d1
                             /\ Head(events) = Records(d0, mid)
      BY <2>4, <3>1, SpansHead
    <3>3. /\ d0 = mid => delivered' = delivered
          /\ Records(d0, mid) = [i \in 1..(mid - (d0 + 1) + 1) |-> (d0 + 1) + i - 1]
      <4>1. /\ d0 = mid => delivered \o Records(d0, mid) = delivered
            /\ Records(d0, mid) = [i \in 1..(mid - (d0 + 1) + 1) |-> (d0 + 1) + i - 1]
        BY <2>1, <3>2, DispatchDelivers
      <4>2. delivered' = delivered \o Records(d0, mid)
        BY <3>1, <3>2
      <4> QED
        BY <4>1, <4>2
    <3>4. CASE d0 = mid
      BY <3>1, <3>3, <3>4
    <3>5. CASE d0 # mid
      <4> DEFINE a == d0 + 1
      <4>1. a \in 1..read /\ mid \in 1..read /\ a <= mid /\ a - 1 = d0
        BY <2>1, <2>5, <3>2, <3>5
      <4>2. Delivery!OldestOutstanding(a, mid)
        BY <2>2, <2>4, <4>1 DEF Delivery!OldestOutstanding
      <4>3. delivered' = delivered \o [i \in 1..(mid - a + 1) |-> a + i - 1]
        BY <3>1, <3>2, <3>3
      <4> HIDE DEF a
      <4>4. Delivery!Deliver(a, mid)
        BY <3>1, <4>2, <4>3 DEF Delivery!Deliver
      <4> QED
        BY <4>1, <4>4 DEF Delivery!Next
    <3> QED
      BY <3>4, <3>5
  <2>8. CASE DispatchThrows
    <3>1. lost' = lost \cup RecordsIn(events) /\ UNCHANGED <<read, delivered, finished>>
      BY <2>8 DEF DispatchThrows
    <3>2. RecordsIn(events) = (d0 + 1)..d1
      BY <2>4, SpansRecords
    <3>3. CASE d0 = d1
      <4>1. RecordsIn(events) = {}
        BY <3>2, <3>3
      <4> QED
        BY <3>1, <4>1
    <3>4. CASE d0 # d1
      <4> DEFINE a == d0 + 1
      <4>1. a \in 1..read /\ d1 \in 1..read /\ a <= d1 /\ a - 1 = d0
        BY <2>1, <2>5, <3>4
      <4>2. Delivery!OldestOutstanding(a, d1)
        BY <2>2, <2>4, <4>1 DEF Delivery!OldestOutstanding
      <4>3. lost' = lost \cup (a..d1)
        BY <3>1, <3>2
      <4> HIDE DEF a
      <4>4. Delivery!Lose(a, d1)
        BY <3>1, <4>2, <4>3 DEF Delivery!Lose
      <4> QED
        BY <4>1, <4>4 DEF Delivery!Next
    <3> QED
      BY <3>3, <3>4
  <2>9. CASE Finish
    <3>1. finished' = TRUE /\ UNCHANGED <<read, delivered, lost>>
      BY <2>9 DEF Finish
    <3>2. Settled = 1..read
      BY <2>9, LastMessage
    <3> QED
      BY <2>2, <3>1, <3>2 DEF Delivery!Next, Delivery!Finish
  <2>10. CASE \/ EnqueueBulk \/ EnqueueEnd \/ ReaderReturns \/ Worker \/ SenderDequeue
              \/ Main \/ Client \/ TracingStopped \/ UNCHANGED vars
    BY <2>10 DEF EnqueueBulk, EnqueueEnd, ReaderReturns, Worker, WorkerDequeue, Collect,
                 FlushLastPack, RelayEnd, EndResults, WorkerReturns, SenderDequeue,
                 Main, Start, TraceOn, JoinReader, JoinSender, JoinWorker, Join,
                 TestAgain, SeeFinished, TraceOff, Client, ClientConnects, ClientGone,
                 TracingStopped, vars
  <2>11. CASE Reader
    BY <2>6, <2>10, <2>11 DEF Reader
  <2>12. CASE Sender
    BY <2>7, <2>8, <2>9, <2>10, <2>12 DEF Sender
  <2> QED
    BY <2>10, <2>11, <2>12 DEF Next, AtRest
<1> QED
  BY <1>1, <1>2, Invariance, PTL DEF Spec, DeliversTheTrace, Delivery!Spec
=============================================================================
