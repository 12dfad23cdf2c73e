------------------------- MODULE SocketStreamProofs -------------------------
(***************************************************************************)
(* Theorems about Base64 and SocketStream, for any packets, any number of  *)
(* descriptors and of clients: what the server closes two and three times  *)
(* is nobody else's unless the reader opened trace_pipe after a client had *)
(* gone, no client gets a packet or a text unless listen() has leaked a    *)
(* socket or the reader opened trace_pipe too late, and the collector      *)
(* reads the packets that were sent.                                       *)
(*                                                                         *)
(* The inductive invariant adds to the types                               *)
(*   Linked    that a connection that holds is on descriptor 3, which no   *)
(*             number names that anybody else closes;                      *)
(*   Owned     that every thread has open what it believes, except when    *)
(*             the run ends after trace_pipe was opened too late;          *)
(*   Numbers   what the two numbers of the server name;                    *)
(*   Stack     which descriptors the main thread has open, and where the   *)
(*             connection of a client is;                                  *)
(*   Low       that trace_pipe or the oldest descriptor of the main thread *)
(*             keeps 0, and 1 when trace_pipe has 0;                       *)
(*   NoLeak    that without a leak the three lowest descriptors are held   *)
(*             by nobody else, so that 3 is never a client's;              *)
(*   Carried   what is on the wire: the frames of the packets dispatched.  *)
(***************************************************************************)
EXTENDS SocketStream, FlattenTheorems

(* How many descriptors the main thread has open at a place. *)
Depth(at) ==
    IF at \in {"get_pids", "add_filter", "set_trace", "socket", "left",
              "again", "clear", "destroy", "exit"} THEN 0
    ELSE IF at \in {"popen", "ls", "filter", "tracing_on", "bind", "leave", "end", "clearing"}
    THEN 1 ELSE 2

(* From the last client on. *)
Ending == {"end", "again", "clear", "clearing", "destroy", "exit"}

Stack ==
    /\ Len(mine) = Depth(main)
    /\ \A i, j \in 1..Len(mine) : mine[i] = mine[j] => i = j
    /\ \A fd \in Fds : file[fd] \in Clients => main = "serve" /\ fd = mine[2]

(* As long as the main thread has something open, fd is taken, and it is   *)
(* not one of those that are closed first.                                 *)
Held(fd) ==
    mine # <<>> => file[fd] # "free" /\ \A i \in 2..Len(mine) : mine[i] # fd

Low ==
    main \notin Ending => /\ reader = "new" => Held(0)
                          /\ trace_fd = 0 => Held(1)

NoLeak ==
    leaks = 0 =>
        /\ \A fd \in 0..2 : \/ file[fd] = "free" \/ fd = trace_fd
                            \/ \E i \in 1..Len(mine) : mine[i] = fd
        /\ file[3] \notin Clients
        /\ \A c \in Clients : <<c, "packet">> \notin strays

Linked ==
    /\ link = "up" => socket_id = 3 /\ file[3] = "collector"
    /\ \A fd \in Fds : file[fd] = "collector" =>
           /\ fd # server_id /\ fd # client_id /\ fd # trace_fd
           /\ \A i \in 1..Len(mine) : mine[i] # fd

Holds ==
    /\ trace_fd # NoFd => file[trace_fd] = "trace_pipe"
    /\ \A i \in 1..Len(mine) : file[mine[i]] \in {"file", "socket"} \cup Clients

Owned == ~late \/ main \notin Ending => Holds

Numbers ==
    /\ reader = "new" => ~late /\ trace_fd = NoFd
    /\ reader = "ended" => trace_fd # NoFd
    /\ ~late /\ trace_fd # NoFd => trace_fd # server_id /\ trace_fd # client_id
    /\ main \in {"bind", "serve", "leave", "end"} => mine[1] = server_id
    /\ main = "serve" => mine[2] = client_id

IInv == TypeOK /\ Linked /\ Owned /\ Numbers /\ Stack /\ Low /\ NoLeak

-----------------------------------------------------------------------------
(* Bytes and descriptors *)

Bytes == 0..255

LEMMA Constants ==
    /\ Packets \in Seq(Seq(Bytes))
    /\ 0 \in Fds /\ 1 \in Fds /\ 2 \in Fds /\ 3 \in Fds
    /\ Fds \subseteq Nat /\ NoFd \notin Fds /\ MaxLeaks \in Nat
    /\ \A c \in Clients : c \notin Kinds
BY SocketStreamAssumption DEF Bytes

(* Bytes past the end are taken for zeros.                                 *)
ByteAt(bytes, n) == IF n <= Len(bytes) THEN bytes[n] ELSE 0

CharOf(bytes, i, q) ==
    IF i + q > Len(bytes) THEN Pad
    ELSE CASE q = 0 -> ByteAt(bytes, i + 1) \div 4
           [] q = 1 -> (ByteAt(bytes, i + 1) % 4) * 16 + ByteAt(bytes, i + 2) \div 16
           [] q = 2 -> (ByteAt(bytes, i + 2) % 16) * 4 + ByteAt(bytes, i + 3) \div 64
           [] q = 3 -> ByteAt(bytes, i + 3) % 64

LEMMA ByteAtType ==
    ASSUME NEW bytes \in Seq(Bytes), NEW n \in Nat \ {0}
    PROVE  ByteAt(bytes, n) \in Bytes
<1>1. n <= Len(bytes) => n \in 1..Len(bytes)
  OBVIOUS
<1>2. n <= Len(bytes) => bytes[n] \in Bytes
  BY <1>1, ElementOfSeq
<1>3. 0 \in Bytes
  BY DEF Bytes
<1> QED BY <1>2, <1>3 DEF ByteAt

(* A character but Pad has six bits.                                       *)
LEMMA CharType ==
    ASSUME NEW bytes \in Seq(Bytes), NEW i \in Nat, NEW q \in 0..3, i + q <= Len(bytes)
    PROVE  CharOf(bytes, i, q) \in 0..63
<1> DEFINE a == ByteAt(bytes, i + 1)
           b == ByteAt(bytes, i + 2)
           c == ByteAt(bytes, i + 3)
<1>1. a \in Bytes /\ b \in Bytes /\ c \in Bytes
  BY ByteAtType
<1>2. ~ (i + q > Len(bytes))
  OBVIOUS
<1>3. CharOf(bytes, i, q) = CASE q = 0 -> a \div 4
                              [] q = 1 -> (a % 4) * 16 + b \div 16
                              [] q = 2 -> (b % 16) * 4 + c \div 64
                              [] q = 3 -> c % 64
  BY <1>2 DEF CharOf
<1> HIDE DEF a, b, c
<1>4. /\ a \div 4 \in 0..63 /\ (a % 4) * 16 + b \div 16 \in 0..63
      /\ (b % 16) * 4 + c \div 64 \in 0..63 /\ c % 64 \in 0..63
  BY <1>1, SMT DEF Bytes
<1>5. q = 0 \/ q = 1 \/ q = 2 \/ q = 3
  OBVIOUS
<1> QED BY <1>3, <1>4, <1>5

LEMMA EncodeIs ==
    ASSUME NEW bytes \in Seq(Bytes)
    PROVE  /\ Len(Encode(bytes)) = 4 * ((Len(bytes) + 2) \div 3)
           /\ Encode(bytes) \in Seq(Bytes)
           /\ \A k \in 1..Len(Encode(bytes)) :
                  Encode(bytes)[k] = CharOf(bytes, 3 * ((k - 1) \div 4), (k - 1) % 4)
<1> DEFINE end == 4 * ((Len(bytes) + 2) \div 3)
           char(k) == CharOf(bytes, 3 * ((k - 1) \div 4), (k - 1) % 4)
<1>1. end \in Nat
  BY SMT
<1>2. ASSUME NEW k \in 1..end PROVE char(k) \in Bytes
  <2> DEFINE i == 3 * ((k - 1) \div 4)
             q == (k - 1) % 4
  <2>1. i \in Nat /\ q \in 0..3
    BY <1>1, SMT
  <2> HIDE DEF i, q
  <2>2. CASE i + q <= Len(bytes)
    <3>1. CharOf(bytes, i, q) \in 0..63
      BY <2>1, <2>2, CharType
    <3>2. CharOf(bytes, i, q) \in Bytes
      BY <3>1, SMT DEF Bytes
    <3> QED BY <3>2 DEF i, q
  <2>3. CASE ~ (i + q <= Len(bytes))
    <3>1. CharOf(bytes, i, q) = Pad
      BY <2>1, <2>3 DEF CharOf
    <3>2. Pad \in Bytes
      BY SMT DEF Pad, Bytes
    <3> QED BY <3>1, <3>2 DEF i, q
  <2> QED BY <2>2, <2>3
<1>3. Encode(bytes) = [k \in 1..end |-> char(k)]
  BY DEF Encode, CharOf, ByteAt
<1> HIDE DEF char, end
<1>4. Encode(bytes) \in Seq(Bytes) /\ Len(Encode(bytes)) = end
  BY <1>1, <1>2, <1>3
<1>5. \A k \in 1..end : Encode(bytes)[k] = char(k)
  BY <1>3
<1> QED BY <1>4, <1>5 DEF char, end

(* The text is groups of four characters, and of the last one those after  *)
(* the r + 1 that r bytes give are Pad.                                     *)
LEMMA GroupsOfFour ==
    ASSUME NEW bytes \in Seq(Bytes), NEW m \in Nat, NEW r \in 0..2, Len(bytes) = 3 * m + r
    PROVE  /\ Len(Encode(bytes)) = 4 * m + (IF r = 0 THEN 0 ELSE 4)
           /\ \A a \in Nat, q \in 0..3 :
                  4 * a + q + 1 <= Len(Encode(bytes)) =>
                      /\ 4 * a + q + 1 \in 1..Len(Encode(bytes))
                      /\ Encode(bytes)[4 * a + q + 1] = CharOf(bytes, 3 * a, q)
<1>1. 4 * ((3 * m + r + 2) \div 3) = 4 * m + (IF r = 0 THEN 0 ELSE 4)
  BY SMT
<1>2. Len(Encode(bytes)) = 4 * m + (IF r = 0 THEN 0 ELSE 4)
  BY <1>1, EncodeIs
<1>3. ASSUME NEW a \in Nat, NEW q \in 0..3, 4 * a + q + 1 <= Len(Encode(bytes))
      PROVE  /\ 4 * a + q + 1 \in 1..Len(Encode(bytes))
             /\ Encode(bytes)[4 * a + q + 1] = CharOf(bytes, 3 * a, q)
  <2> DEFINE k == 4 * a + q + 1
  <2>1. (k - 1) \div 4 = a /\ (k - 1) % 4 = q
    BY SMT
  <2>2. k \in 1..Len(Encode(bytes))
    <3>1. k \in Nat /\ k >= 1
      BY SMT
    <3>2. Len(Encode(bytes)) \in Nat
      BY <1>2, SMT
    <3> QED BY <1>3, <3>1, <3>2
  <2> HIDE DEF k
  <2>3. Encode(bytes)[k] = CharOf(bytes, 3 * ((k - 1) \div 4), (k - 1) % 4)
    BY <2>2, EncodeIs
  <2>4. Encode(bytes)[k] = CharOf(bytes, 3 * a, q)
    BY <2>1, <2>3
  <2> QED BY <2>2, <2>4 DEF k
<1> QED BY <1>2, <1>3

(* Where base64_decode stops.                                              *)
Taken(chars) ==
    LET ends == { k \in 1..Len(chars) : chars[k] = Pad }
    IN IF ends = {} THEN Len(chars) ELSE (CHOOSE k \in ends : \A l \in ends : k <= l) - 1

LEMMA TakenOfEncode ==
    ASSUME NEW bytes \in Seq(Bytes), NEW m \in Nat, NEW r \in 0..2, Len(bytes) = 3 * m + r
    PROVE  Taken(Encode(bytes)) = 4 * m + (IF r = 0 THEN 0 ELSE r + 1)
<1> DEFINE chars == Encode(bytes)
           size == 4 * m + (IF r = 0 THEN 0 ELSE r + 1)
           ends == { k \in 1..Len(chars) : chars[k] = Pad }
<1>1. /\ Len(chars) = 4 * m + (IF r = 0 THEN 0 ELSE 4) /\ Len(chars) \in Nat
      /\ size \in Nat /\ size <= Len(chars)
  BY GroupsOfFour
<1>2. ASSUME NEW k \in 1..Len(chars)
      PROVE  chars[k] = Pad <=> k > size
  <2> DEFINE a == (k - 1) \div 4
             q == (k - 1) % 4
  <2>1. a \in Nat /\ q \in 0..3 /\ k = 4 * a + q + 1
    BY SMT
  <2> HIDE DEF a, q
  <2>2. chars[k] = CharOf(bytes, 3 * a, q)
    <3>1. \A b \in Nat, p \in 0..3 :
              4 * b + p + 1 <= Len(chars) => chars[4 * b + p + 1] = CharOf(bytes, 3 * b, p)
      BY GroupsOfFour
    <3>2. 4 * a + q + 1 <= Len(chars)
      BY <1>1, <2>1
    <3> HIDE DEF chars
    <3>3. chars[4 * a + q + 1] = CharOf(bytes, 3 * a, q)
      BY ONLY <2>1, <3>1, <3>2
    <3> QED BY ONLY <2>1, <3>3
  <2>3. k > size <=> 3 * a + q > Len(bytes)
    BY <1>1, <2>1, SMT
  <2>4. CASE 3 * a + q > Len(bytes)
    BY <2>2, <2>3, <2>4 DEF CharOf
  <2>5. CASE ~ (3 * a + q > Len(bytes))
    <3>1. 3 * a \in Nat /\ 3 * a + q <= Len(bytes)
      BY <2>1, <2>5
    <3>2. CharOf(bytes, 3 * a, q) \in 0..63
      BY <2>1, <3>1, CharType
    <3>3. Pad \notin 0..63
      BY SMT DEF Pad
    <3> QED BY <2>2, <2>3, <2>5, <3>2, <3>3
  <2> QED BY <2>4, <2>5
<1> HIDE DEF chars, size
<1>3. CASE r = 0
  <2>1. size = Len(chars)
    BY <1>1, <1>3 DEF size
  <2>2. ends = {}
    BY <1>1, <1>2, <2>1
  <2> QED BY <2>1, <2>2 DEF Taken, chars, size
<1>4. CASE r # 0
  <2>1. size + 1 \in 1..Len(chars)
    BY <1>1, <1>4 DEF size
  <2>2. size + 1 \in ends /\ \A l \in ends : size + 1 <= l
    BY <1>1, <1>2, <2>1
  <2>3. (CHOOSE k \in ends : \A l \in ends : k <= l) = size + 1
    BY <1>1, <2>2
  <2> HIDE DEF ends
  <2>4. ends # {}
    BY <2>2
  <2>5. Taken(chars) = (size + 1) - 1
    BY <2>3, <2>4 DEF Taken, ends
  <2> QED BY <1>1, <2>5 DEF chars, size
<1> QED BY <1>3, <1>4

(* Six bits of a byte and the rest of them, put together again.            *)
LEMMA BitsJoin ==
    \A a, b, c \in Bytes :
        /\ ((a \div 4) * 4 + ((a % 4) * 16 + b \div 16) \div 16) % 256 = a
        /\ ((((a % 4) * 16 + b \div 16) % 16) * 16 + ((b % 16) * 4 + c \div 64) \div 4) % 256 = b
        /\ ((((b % 16) * 4 + c \div 64) % 4) * 64 + (c % 64)) % 256 = c
BY SMTT(60) DEF Bytes

(* encoding.h:15-107: base64_decode gives back what base64_encode was      *)
(* given, whatever its length.                                             *)
THEOREM DecodeOfEncode ==
    ASSUME NEW bytes \in Seq(Bytes)
    PROVE  Decode(Encode(bytes)) = bytes
<1> DEFINE m == Len(bytes) \div 3
           r == Len(bytes) % 3
           chars == Encode(bytes)
           size == Taken(chars)
           rest == IF size % 4 = 0 THEN 0 ELSE (size % 4) - 1
           place(j) == 4 * ((j - 1) \div 3) + ((j - 1) % 3) + 1
           value(j) == CASE j % 3 = 1 -> (chars[place(j)] * 4 + chars[place(j) + 1] \div 16) % 256
                         [] j % 3 = 2 -> ((chars[place(j)] % 16) * 16 + chars[place(j) + 1] \div 4) % 256
                         [] j % 3 = 0 -> ((chars[place(j)] % 4) * 64 + chars[place(j) + 1]) % 256
<1>1. m \in Nat /\ r \in 0..2 /\ Len(bytes) = 3 * m + r
  BY SMT
<1> HIDE DEF m, r
<1>2. size = 4 * m + (IF r = 0 THEN 0 ELSE r + 1)
  BY <1>1, TakenOfEncode
<1>3. Decode(chars) = [j \in 1..(3 * (size \div 4) + rest) |-> value(j)]
  BY DEF Decode, Taken
<1> HIDE DEF size
<1>4. 3 * (size \div 4) + rest = Len(bytes)
  <2>1. size \div 4 = m /\ size % 4 = (IF r = 0 THEN 0 ELSE r + 1)
    BY <1>1, <1>2, SMT
  <2> QED BY <1>1, <2>1
<1>5. ASSUME NEW j \in 1..Len(bytes) PROVE value(j) = bytes[j]
  <2> DEFINE a == (j - 1) \div 3
             b == (j - 1) % 3
  <2>1. a \in Nat /\ b \in 0..2 /\ j = 3 * a + b + 1 /\ place(j) = 4 * a + b + 1
    BY SMT
  <2>2. j % 3 = IF b = 2 THEN 0 ELSE b + 1
    <3> HIDE DEF a, b
    <3> QED BY <2>1, SMT
  <2> HIDE DEF a, b, place, chars
  <2>3. 3 * a \in Nat /\ 3 * a + b + 1 <= Len(bytes)
    BY <2>1
  <2>4. 4 * a + b + 2 <= Len(chars)
    <3>1. Len(chars) = 4 * m + (IF r = 0 THEN 0 ELSE 4)
      BY <1>1, GroupsOfFour DEF chars
    <3> QED BY <1>1, <2>1, <2>3, <3>1
  <2>5. chars[place(j)] = CharOf(bytes, 3 * a, b)
    <3>1. b \in 0..3 /\ 4 * a + b + 1 <= Len(chars)
      <4>1. Len(chars) \in Nat
        BY <1>1, GroupsOfFour DEF chars
      <4> QED BY <2>1, <2>4, <4>1
    <3>2. chars[4 * a + b + 1] = CharOf(bytes, 3 * a, b)
      BY <1>1, <2>1, <3>1, GroupsOfFour DEF chars
    <3> QED BY <2>1, <3>2
  <2>6. chars[place(j) + 1] = CharOf(bytes, 3 * a, b + 1)
    <3>1. b + 1 \in 0..3 /\ 4 * a + (b + 1) + 1 <= Len(chars)
      <4>1. Len(chars) \in Nat
        BY <1>1, GroupsOfFour DEF chars
      <4> QED BY <2>1, <2>4, <4>1
    <3>2. chars[4 * a + (b + 1) + 1] = CharOf(bytes, 3 * a, b + 1)
      BY <1>1, <2>1, <3>1, GroupsOfFour DEF chars
    <3>3. place(j) + 1 = 4 * a + (b + 1) + 1
      BY <2>1
    <3> QED BY <3>2, <3>3
  <2> DEFINE x == ByteAt(bytes, 3 * a + 1)
             y == ByteAt(bytes, 3 * a + 2)
             z == ByteAt(bytes, 3 * a + 3)
  <2>7. x \in Bytes /\ y \in Bytes /\ z \in Bytes
    <3>1. 3 * a + 1 \in Nat \ {0} /\ 3 * a + 2 \in Nat \ {0} /\ 3 * a + 3 \in Nat \ {0}
      BY <2>1
    <3> QED BY <3>1, ByteAtType
  <2>8. bytes[j] = ByteAt(bytes, 3 * a + b + 1)
    BY <2>1, <2>3 DEF ByteAt
  <2>9. CASE b = 0
    <3>1. CharOf(bytes, 3 * a, 0) = x \div 4
      BY <2>3, <2>9 DEF CharOf
    <3>2. CharOf(bytes, 3 * a, 1) = (x % 4) * 16 + y \div 16
      BY <2>3, <2>9 DEF CharOf
    <3>3. bytes[j] = x
      BY <2>1, <2>8, <2>9
    <3> HIDE DEF x, y, z
    <3>4. value(j) = (chars[place(j)] * 4 + chars[place(j) + 1] \div 16) % 256
      BY <2>2, <2>9
    <3> QED BY <2>5, <2>6, <2>7, <2>9, <3>1, <3>2, <3>3, <3>4, BitsJoin
  <2>10. CASE b = 1
    <3>1. CharOf(bytes, 3 * a, 1) = (x % 4) * 16 + y \div 16
      BY <2>3, <2>10 DEF CharOf
    <3>2. CharOf(bytes, 3 * a, 2) = (y % 16) * 4 + z \div 64
      BY <2>3, <2>10 DEF CharOf
    <3>3. bytes[j] = y
      BY <2>1, <2>8, <2>10
    <3> HIDE DEF x, y, z
    <3>4. value(j) = ((chars[place(j)] % 16) * 16 + chars[place(j) + 1] \div 4) % 256
      BY <2>2, <2>10
    <3> QED BY <2>5, <2>6, <2>7, <2>10, <3>1, <3>2, <3>3, <3>4, BitsJoin
  <2>11. CASE b = 2
    <3>1. CharOf(bytes, 3 * a, 2) = (y % 16) * 4 + z \div 64
      BY <2>3, <2>11 DEF CharOf
    <3>2. CharOf(bytes, 3 * a, 3) = z % 64
      BY <2>3, <2>11 DEF CharOf
    <3>3. bytes[j] = z
      BY <2>1, <2>8, <2>11
    <3> HIDE DEF x, y, z
    <3>4. value(j) = ((chars[place(j)] % 4) * 64 + chars[place(j) + 1]) % 256
      BY <2>2, <2>11
    <3> QED BY <2>5, <2>6, <2>7, <2>11, <3>1, <3>2, <3>3, <3>4, BitsJoin
  <2>12. b = 0 \/ b = 1 \/ b = 2
    BY <2>1
  <2> QED BY <2>9, <2>10, <2>11, <2>12
<1>6. bytes = [j \in 1..Len(bytes) |-> bytes[j]]
  OBVIOUS
<1> HIDE DEF value, rest, chars
<1>7. Decode(chars) = [j \in 1..Len(bytes) |-> value(j)]
  BY <1>3, <1>4
<1>8. [j \in 1..Len(bytes) |-> value(j)] = [j \in 1..Len(bytes) |-> bytes[j]]
  BY <1>5
<1> QED BY <1>6, <1>7, <1>8 DEF chars

(* Four bytes hold any length below 2^32, the highest byte first.          *)
LEMMA FourBytes ==
    ASSUME NEW n \in Nat, n < 2^32
    PROVE  ((((n \div 2^24) % 256) * 256 + ((n \div 2^16) % 256)) * 256
               + ((n \div 2^8) % 256)) * 256 + (n % 256) = n
<1> DEFINE x == n \div 2^8
           y == n \div 2^16
           z == n \div 2^24
<1>1. x \in Nat /\ y \in Nat /\ z \in Nat /\ z % 256 = z
  BY SMT
<1>2. y = x \div 256 /\ z = y \div 256
  BY SMT
<1>3. n = x * 256 + (n % 256)
  BY SMT
<1> HIDE DEF x, y, z
<1>4. x = y * 256 + (x % 256) /\ y = z * 256 + (y % 256)
  BY <1>1, <1>2, SMT
<1>5. (((z % 256) * 256 + (y % 256)) * 256 + (x % 256)) * 256 + (n % 256) = n
  BY <1>1, <1>3, <1>4
<1> QED BY <1>5 DEF x, y, z

(* socket_stream.h:57-69: the four bytes of a frame give the length of the *)
(* text, and the text follows.                                             *)
LEMMA FrameIs ==
    ASSUME NEW packet \in Seq(Bytes), Len(packet) < 2^30
    PROVE  /\ Frame(packet) \in Seq(Bytes) /\ Len(Frame(packet)) = 4 + Len(Encode(packet))
           /\ ((Frame(packet)[1] * 256 + Frame(packet)[2]) * 256 + Frame(packet)[3]) * 256
                  + Frame(packet)[4] = Len(Encode(packet))
           /\ \A i \in 1..Len(Encode(packet)) : Frame(packet)[4 + i] = Encode(packet)[i]
<1> DEFINE text == Encode(packet)
           n == Len(text)
           b1 == (n \div 2^24) % 256
           b2 == (n \div 2^16) % 256
           b3 == (n \div 2^8) % 256
           b4 == n % 256
           head == <<b1, b2, b3, b4>>
<1>1. text \in Seq(Bytes) /\ n \in Nat
  BY EncodeIs
<1>2. n < 2^32
  <2>1. n = 4 * ((Len(packet) + 2) \div 3)
    BY EncodeIs
  <2>2. Len(packet) \in Nat
    OBVIOUS
  <2> HIDE DEF text, n
  <2> QED BY <2>1, <2>2, SMT
<1>3. ((b1 * 256 + b2) * 256 + b3) * 256 + b4 = n
  <2> HIDE DEF text, n
  <2> QED BY <1>1, <1>2, FourBytes
<1>4. Frame(packet) = head \o text
  BY Zenon DEF Frame
<1>5. b1 \in Bytes /\ b2 \in Bytes /\ b3 \in Bytes /\ b4 \in Bytes
  <2> HIDE DEF text, n
  <2> QED BY <1>1, SMT DEF Bytes
<1> HIDE DEF b1, b2, b3, b4, text
<1>6. /\ head \in Seq(Bytes) /\ Len(head) = 4
      /\ head[1] = b1 /\ head[2] = b2 /\ head[3] = b3 /\ head[4] = b4
  BY <1>5
<1> HIDE DEF head
<1>7. /\ head \o text \in Seq(Bytes) /\ Len(head \o text) = 4 + n
      /\ \A i \in 1..(4 + n) : (head \o text)[i] = IF i <= 4 THEN head[i] ELSE text[i - 4]
  <2>1. /\ head \o text \in Seq(Bytes) /\ Len(head \o text) = Len(head) + Len(text)
        /\ \A i \in 1..(Len(head) + Len(text)) :
               (head \o text)[i] = IF i <= Len(head) THEN head[i] ELSE text[i - Len(head)]
    BY <1>1, <1>6, ConcatProperties
  <2> QED BY <1>6, <2>1
<1>8. 1 \in 1..(4 + n) /\ 2 \in 1..(4 + n) /\ 3 \in 1..(4 + n) /\ 4 \in 1..(4 + n)
  BY <1>1
<1>9. /\ (head \o text)[1] = b1 /\ (head \o text)[2] = b2
      /\ (head \o text)[3] = b3 /\ (head \o text)[4] = b4
  BY <1>6, <1>7, <1>8
<1>10. ASSUME NEW i \in 1..n PROVE (head \o text)[4 + i] = text[i]
  <2>1. 4 + i \in 1..(4 + n) /\ ~(4 + i <= 4) /\ (4 + i) - 4 = i
    BY <1>1
  <2> QED BY <1>7, <2>1
<1> QED BY <1>3, <1>4, <1>7, <1>9, <1>10 DEF text

LEMMA PacketIs ==
    ASSUME NEW k \in 1..Len(Packets)
    PROVE  Packets[k] \in Seq(Bytes) /\ Len(Packets[k]) < 2^30
BY Constants, ElementOfSeq, SocketStreamAssumption

(* What open(), socket() and accept() give.                                *)
LEMMA LowestIsFree ==
    ASSUME TypeOK, Free # {}
    PROVE  /\ Lowest(Free) \in Fds /\ file[Lowest(Free)] = "free"
           /\ \A fd \in Fds : fd < Lowest(Free) => file[fd] # "free"
<1>1. Free \in SUBSET Nat
  BY Constants DEF Free
<1>2. \E m \in Free : \A fd \in Free : m <= fd
  BY <1>1, LeastElement
<1>3. Lowest(Free) \in Free /\ \A fd \in Free : Lowest(Free) <= fd
  BY <1>2 DEF Lowest, Min
<1>4. ASSUME NEW fd \in Fds, fd < Lowest(Free) PROVE file[fd] # "free"
  <2>1. Lowest(Free) \in Nat /\ fd \in Nat
    BY <1>1, <1>3, Constants
  <2>2. ~ (Lowest(Free) <= fd)
    <3> HIDE DEF Lowest
    <3> QED BY <1>4, <2>1
  <2> QED BY <1>3, <2>2 DEF Free
<1> QED BY <1>3, <1>4 DEF Free

-----------------------------------------------------------------------------
(* The invariant is kept *)

(* The parts of TypeOK.                                                    *)
Wires ==
    sent \in 0..Len(Packets) /\ wire \in Seq(Bytes) /\ got \in 0..Len(wire)

Tables ==
    /\ file \in [Fds -> Kinds \cup Clients]
    /\ socket_id \in {3, NoFd} /\ link \in {"up", "down"}
    /\ trace_fd \in Fds \cup {NoFd} /\ late \in BOOLEAN
    /\ mine \in Seq(Fds) /\ Len(mine) <= 2
    /\ server_id \in Fds \cup {NoFd} /\ client_id \in Fds \cup {NoFd}

PlacesOfMain ==
    {"get_pids", "popen", "fork", "ls", "add_filter", "filter", "set_trace",
     "tracing_on", "socket", "bind", "serve", "leave", "left",
     "end", "again", "clear", "clearing", "destroy", "exit"}

Places ==
    /\ reader \in {"new", "reading", "ended", "returned"}
    /\ main \in PlacesOfMain
    /\ leaks \in 0..MaxLeaks
    /\ strays \subseteq Clients \X {"packet", "text"}

LEMMA TypeParts == TypeOK <=> Wires /\ Tables /\ Places
BY Zenon DEF TypeOK, Wires, Tables, Places, PlacesOfMain, Bytes

LEMMA LowParts ==
    ASSUME IInv, main \notin Ending
    PROVE  (reader = "new" => Held(0)) /\ (trace_fd = 0 => Held(1))
BY Zenon DEF IInv, Low

LEMMA InitIInv == Init => IInv
<1> SUFFICES ASSUME Init PROVE IInv
  OBVIOUS
<1>1. /\ file \in [Fds -> Kinds \cup Clients]
      /\ \A fd \in Fds : file[fd] \in {"collector", "free"}
      /\ \A fd \in 0..2 : file[fd] = "free"
      /\ link = "up" => file[3] = "collector"
  BY Constants DEF Init, Inherited, Kinds
<1>2. mine = <<>> /\ Len(mine) = 0 /\ mine \in Seq(Fds)
  BY EmptySeq DEF Init
<1>3. Wires
  BY EmptySeq, Constants DEF Init, Wires
<1>4. Tables
  <2>1. socket_id \in {3, NoFd} /\ link \in {"up", "down"}
    BY DEF Init
  <2>2. trace_fd = NoFd /\ late = FALSE /\ server_id = NoFd /\ client_id = NoFd
    BY DEF Init
  <2>3. Len(mine) <= 2
    BY <1>2
  <2>4. late \in BOOLEAN
    BY <2>2, Zenon
  <2> QED BY <1>1, <1>2, <2>1, <2>2, <2>3, <2>4, Zenon DEF Tables
<1>5. Places
  BY Constants DEF Init, Places, PlacesOfMain
<1>6. \A fd \in Fds : file[fd] \notin Clients
  BY <1>1, Constants DEF Kinds
<1>7. Stack
  BY <1>2, <1>6 DEF Init, Stack, Depth
<1>8. Low
  BY <1>2, Constants DEF Init, Low, Held
<1>9. NoLeak
  BY <1>1, <1>6, Constants DEF Init, NoLeak
<1>10. Linked
  BY <1>1, <1>2, Constants DEF Init, Linked
<1>11. Owned /\ Numbers
  BY <1>2 DEF Init, Owned, Holds, Numbers
<1> QED BY <1>3, <1>4, <1>5, <1>7, <1>8, <1>9, <1>10, <1>11, TypeParts DEF IInv

(* No descriptor changes, and no client is sent a packet unless 3 is his.  *)
LEMMA SameFiles ==
    ASSUME IInv, Wires', link' \in {link, "down"}, strays' \subseteq Clients \X {"packet", "text"},
           UNCHANGED <<file, socket_id, readerVars, mainVars>>,
           leaks = 0 => \A c \in Clients : <<c, "packet">> \in strays' => <<c, "packet">> \in strays
    PROVE  IInv'
<1> USE DEF mainVars, readerVars, idVars
<1>1. Tables'
  BY TypeParts DEF IInv, Tables
<1>2. Places'
  BY TypeParts DEF IInv, Places
<1>3. TypeOK'
  BY <1>1, <1>2, TypeParts, PTL
<1>4. Stack'
  BY DEF IInv, Stack
<1>5. Low'
  BY DEF IInv, Low, Held
<1>6. NoLeak'
  BY DEF IInv, NoLeak
<1>7. Linked'
  BY DEF IInv, Linked
<1>8. Owned' /\ Numbers'
  BY DEF IInv, Owned, Holds, Numbers
<1> QED BY <1>3, <1>4, <1>5, <1>6, <1>7, <1>8 DEF IInv

(* socket_stream.h:55-71: 3, if it is not the collector's, is no client's  *)
(* unless a socket was leaked.                                             *)
LEMMA DispatchIInv == IInv /\ Dispatch => IInv'
<1> SUFFICES ASSUME IInv, Dispatch PROVE IInv'
  OBVIOUS
<1>1. Wires
  BY TypeParts DEF IInv
<1>2. /\ sent + 1 \in 1..Len(Packets)
      /\ Packets[sent + 1] \in Seq(Bytes) /\ Len(Packets[sent + 1]) < 2^30
  <2>1. sent + 1 \in 1..Len(Packets)
    BY <1>1, Constants DEF Wires, Dispatch
  <2> QED BY <2>1, PacketIs
<1> DEFINE frame == Frame(Packets[sent + 1])
<1>3. wire \o frame \in Seq(Bytes) /\ Len(wire \o frame) >= Len(wire) /\ Len(wire) \in Nat
  <2>1. frame \in Seq(Bytes)
    BY <1>2, FrameIs
  <2> HIDE DEF frame
  <2> QED BY <1>1, <2>1, ConcatProperties DEF Wires
<1>4. Wires'
  <2>1. sent' = sent + 1 /\ got' = got /\ (wire' = wire \o frame \/ wire' = wire)
    BY DEF Dispatch
  <2> HIDE DEF frame
  <2>2. sent' \in 0..Len(Packets)
    BY <1>2, <2>1
  <2>3. wire' \in Seq(Bytes)
    BY <1>1, <1>3, <2>1 DEF Wires
  <2>4. got' \in 0..Len(wire')
    BY <1>1, <1>3, <2>1 DEF Wires
  <2> QED BY <2>2, <2>3, <2>4 DEF Wires
<1>5. /\ strays' \subseteq Clients \X {"packet", "text"}
      /\ strays' = IF Target \in Clients THEN strays \cup {<<Target, "packet">>} ELSE strays
  BY TypeParts DEF IInv, Places, Dispatch
<1>6. leaks = 0 => Target \notin Clients
  <2>1. socket_id \in {3, NoFd}
    BY TypeParts DEF IInv, Tables
  <2> QED BY <2>1, Constants DEF IInv, NoLeak, Target, Kinds
<1> QED BY <1>4, <1>5, <1>6, SameFiles DEF Dispatch

LEMMA ReceiveIInv == IInv /\ Receive => IInv'
<1> SUFFICES ASSUME IInv, Receive PROVE IInv'
  OBVIOUS
<1>1. Wires'
  BY TypeParts DEF IInv, Wires, Receive
<1> QED BY <1>1, TypeParts, SameFiles DEF IInv, Places, Receive

LEMMA BreakIInv == IInv /\ Break => IInv'
<1> SUFFICES ASSUME IInv, Break PROVE IInv'
  OBVIOUS
<1>1. /\ Wires /\ wire' = SubSeq(wire, 1, got) /\ got' = got /\ sent' = sent /\ link' = "down"
  BY TypeParts DEF IInv, Break
<1>2. wire' \in Seq(Bytes) /\ Len(wire') = got
  BY <1>1 DEF Wires
<1>3. Wires'
  BY <1>1, <1>2 DEF Wires
<1> QED BY <1>1, <1>3, TypeParts, SameFiles DEF IInv, Places, Break

(* The text goes to descriptor 1.                                          *)
LEMMA TextIInv == IInv /\ Text => IInv'
<1> SUFFICES ASSUME IInv, Text PROVE IInv'
  OBVIOUS
<1>1. UNCHANGED <<sent, wire, got, socket_id, link, readerVars>> /\ file[1] \in Clients
  BY DEF Text, linkVars
<1>2. Wires'
  BY <1>1, TypeParts DEF IInv, Wires
<1>3. strays' \subseteq Clients \X {"packet", "text"}
  BY <1>1, TypeParts DEF IInv, Places, Text
<1>4. \A c : <<c, "packet">> \in strays' => <<c, "packet">> \in strays
  BY DEF Text
<1> QED BY <1>1, <1>2, <1>3, <1>4, SameFiles DEF Text

(* A descriptor that was free is opened, and no other changes.             *)
LEMMA OpenedFile ==
    ASSUME IInv, Free # {}, NEW fd, fd = Lowest(Free),
           NEW what \in Kinds \cup Clients, what # "free",
           file' = [file EXCEPT ![fd] = what]
    PROVE  /\ fd \in Fds /\ file[fd] = "free" /\ file'[fd] = what
           /\ \A other \in Fds : other < fd => file[other] # "free"
           /\ file' \in [Fds -> Kinds \cup Clients]
           /\ \A other \in Fds : other # fd => file'[other] = file[other]
           /\ link = "up" => file'[3] = "collector"
           /\ Holds /\ trace_fd # NoFd => trace_fd # fd /\ file'[trace_fd] = "trace_pipe"
           /\ mine \in Seq(Fds)
           /\ Holds => \A i \in 1..Len(mine) :
                  /\ mine[i] # fd
                  /\ file'[mine[i]] \in {"file", "socket"} \cup Clients
<1>1. /\ fd \in Fds /\ file[fd] = "free"
      /\ \A other \in Fds : other < fd => file[other] # "free"
  BY LowestIsFree DEF IInv
<1>2. Tables
  BY TypeParts DEF IInv
<1>3. file'[fd] = what /\ \A other \in Fds : other # fd => file'[other] = file[other]
  BY <1>1, <1>2 DEF Tables
<1>4. file' \in [Fds -> Kinds \cup Clients]
  BY <1>1, <1>2 DEF Tables
<1>5. ASSUME NEW other \in Fds, file[other] # "free"
      PROVE  other # fd /\ file'[other] = file[other]
  BY <1>1, <1>3, <1>5
<1>6. link = "up" => file'[3] = "collector"
  <2>1. link = "up" => file[3] = "collector" /\ 3 \in Fds
    BY Constants DEF IInv, Linked
  <2> QED BY <1>5, <2>1
<1>7. Holds /\ trace_fd # NoFd => trace_fd # fd /\ file'[trace_fd] = "trace_pipe"
  <2>1. Holds /\ trace_fd # NoFd => trace_fd \in Fds /\ file[trace_fd] = "trace_pipe"
    BY <1>2 DEF Tables, Holds
  <2> QED BY <1>5, <2>1
<1>8. ASSUME Holds, NEW i \in 1..Len(mine)
      PROVE  mine[i] # fd /\ file'[mine[i]] \in {"file", "socket"} \cup Clients
  <2>1. mine \in Seq(Fds) /\ file[mine[i]] \in {"file", "socket"} \cup Clients
    BY <1>2, <1>8 DEF Tables, Holds
  <2>2. mine[i] \in Fds
    BY <2>1, ElementOfSeq
  <2>3. file[mine[i]] # "free"
    BY <2>1, Constants DEF Kinds
  <2> QED BY <1>5, <2>1, <2>2, <2>3
<1>9. mine \in Seq(Fds)
  BY <1>2 DEF Tables
<1> HIDE DEF Tables, IInv, Holds
<1> QED BY <1>1, <1>3, <1>4, <1>6, <1>7, <1>8, <1>9

(* Where trace_pipe comes to lie: at 0 only when the main thread has       *)
(* nothing open, since otherwise it has 0 itself.                          *)
LEMMA OpenTraceIInv == IInv /\ OpenTrace => IInv'
<1> SUFFICES ASSUME IInv, OpenTrace PROVE IInv'
  OBVIOUS
<1>1. /\ reader = "new" /\ reader' = "reading" /\ trace_fd = NoFd /\ late = FALSE
      /\ UNCHANGED <<sent, wire, got, socket_id, link, main, mine, server_id, client_id,
                     leaks, strays>>
  BY TypeParts DEF IInv, Tables, Numbers, OpenTrace, linkVars, mainVars, idVars
<1>2. Wires' /\ Places' /\ Holds
  BY <1>1, TypeParts DEF IInv, Wires, Places, Owned
<1>3. CASE UNCHANGED <<trace_fd, file, late>>
  <2>1. Tables'
    BY <1>1, <1>3, TypeParts DEF IInv, Tables
  <2>2. TypeOK'
    BY <1>2, <2>1, TypeParts, PTL
  <2>3. Stack' /\ NoLeak'
    BY <1>1, <1>3 DEF IInv, Stack, NoLeak
  <2>4. Low'
    BY <1>1, <1>3, Constants DEF Low
  <2>5. Linked' /\ Owned' /\ Numbers'
    BY <1>1, <1>3 DEF IInv, Linked, Owned, Holds, Numbers
  <2> QED BY <1>2, <2>2, <2>3, <2>4, <2>5 DEF IInv
<1>4. ASSUME Free # {}, NEW fd, fd = Lowest(Free), trace_fd' = fd,
             file' = [file EXCEPT ![fd] = "trace_pipe"],
             late' = (fd \in {server_id, client_id})
      PROVE  IInv'
  <2>1. "trace_pipe" \in Kinds \cup Clients /\ "trace_pipe" \notin Clients
    BY Constants DEF Kinds
  <2> DEFINE what == "trace_pipe"
  <2>2. /\ IInv /\ Free # {} /\ fd = Lowest(Free)
        /\ what \in Kinds \cup Clients /\ what # "free"
        /\ file' = [file EXCEPT ![fd] = what]
    BY <1>4, <2>1
  <2> HIDE DEF what
  <2>3. /\ fd \in Fds /\ file[fd] = "free" /\ file'[fd] = what
        /\ \A other \in Fds : other # fd => file'[other] = file[other]
        /\ file' \in [Fds -> Kinds \cup Clients]
        /\ link = "up" => file'[3] = "collector"
    BY ONLY <2>2, OpenedFile
  <2>4. /\ mine \in Seq(Fds)
        /\ \A i \in 1..Len(mine) :
               mine[i] # fd /\ file'[mine[i]] \in {"file", "socket"} \cup Clients
    BY ONLY <1>2, <2>2, OpenedFile
  <2> USE DEF what
  <2>5. Tables'
    <3>1. Tables
      BY TypeParts DEF IInv
    <3>2. fd \in Fds \cup {NoFd} /\ late' \in BOOLEAN
      BY <1>4, <2>3
    <3> QED BY <1>1, <1>4, <2>3, <3>1, <3>2 DEF Tables
  <2>6. TypeOK'
    BY <1>2, <2>5, TypeParts, PTL
  <2>7. Stack'
    BY <1>1, <2>1, <2>3 DEF IInv, Stack
  <2>8. Low'
    <3>1. main \notin Ending /\ fd = 0 => mine = <<>>
      BY <1>1, <2>3, LowParts DEF Held
    <3> QED BY <1>1, <1>4, <3>1 DEF Low, Held
  <2>9. NoLeak'
    <3>1. \A other \in 0..2 : other \in Fds
      BY Constants
    <3> QED BY <1>1, <1>4, <2>1, <2>3, <3>1, Constants DEF IInv, NoLeak
  <2>10. Linked'
    <3>1. link = "up" => socket_id = 3 /\ file'[3] = "collector"
      BY <2>3 DEF IInv, Linked
    <3>2. ASSUME NEW other \in Fds, file'[other] = "collector"
          PROVE  /\ other # server_id /\ other # client_id /\ other # fd
                 /\ \A i \in 1..Len(mine) : mine[i] # other
      <4>1. other # fd
        BY <2>3, <3>2
      <4>2. file[other] = "collector"
        BY <2>3, <3>2, <4>1
      <4> QED BY <4>1, <4>2 DEF IInv, Linked
    <3> QED BY <1>1, <1>4, <3>1, <3>2 DEF Linked
  <2>11. Owned'
    BY <1>1, <1>4, <2>3, <2>4 DEF Owned, Holds
  <2>12. Numbers'
    BY <1>1, <1>4 DEF IInv, Numbers
  <2> QED BY <2>6, <2>7, <2>8, <2>9, <2>10, <2>11, <2>12 DEF IInv
<1> QED BY <1>3, <1>4 DEF OpenTrace

LEMMA EndTraceIInv == IInv /\ EndTrace => IInv'
<1> SUFFICES ASSUME IInv, EndTrace PROVE IInv'
  OBVIOUS
<1>1. /\ reader = "reading" /\ reader' = "ended" /\ trace_fd # NoFd
      /\ UNCHANGED <<file, sent, wire, got, socket_id, link, trace_fd, late, main, mine,
                     server_id, client_id, leaks, strays>>
  BY DEF EndTrace, linkVars, mainVars, idVars
<1>2. Wires' /\ Tables' /\ Places'
  BY <1>1, TypeParts DEF IInv, Wires, Tables, Places
<1>3. TypeOK'
  BY <1>2, TypeParts, PTL
<1>4. Stack' /\ NoLeak'
  BY <1>1 DEF IInv, Stack, NoLeak
<1>5. Low'
  BY <1>1 DEF IInv, Low, Held
<1>6. Linked' /\ Owned'
  BY <1>1 DEF IInv, Linked, Owned, Holds
<1>7. Numbers'
  BY <1>1 DEF IInv, Numbers
<1> QED BY <1>3, <1>4, <1>5, <1>6, <1>7 DEF IInv

(* The number may be another's by now, but not the collector's.            *)
LEMMA CloseTraceIInv == IInv /\ CloseTrace => IInv'
<1> SUFFICES ASSUME IInv, CloseTrace PROVE IInv'
  OBVIOUS
<1>1. /\ reader = "ended" /\ reader' = "returned" /\ trace_fd # NoFd /\ trace_fd' = NoFd
      /\ file' = [file EXCEPT ![trace_fd] = "free"]
      /\ UNCHANGED <<sent, wire, got, socket_id, link, late, main, mine, server_id, client_id,
                     leaks, strays>>
  BY DEF IInv, Numbers, CloseTrace, linkVars, mainVars, idVars
<1>2. Wires' /\ Places' /\ Tables
  BY <1>1, TypeParts DEF IInv, Wires, Places
<1>3. /\ file \in [Fds -> Kinds \cup Clients] /\ mine \in Seq(Fds) /\ trace_fd \in Fds
  BY <1>1, <1>2 DEF Tables
<1>4. /\ file'[trace_fd] = "free" /\ \A fd \in Fds : fd # trace_fd => file'[fd] = file[fd]
      /\ file' \in [Fds -> Kinds \cup Clients]
  BY <1>1, <1>3 DEF Kinds
<1>5. Holds => \A i \in 1..Len(mine) : mine[i] \in Fds /\ mine[i] # trace_fd
  BY <1>1, <1>3, ElementOfSeq, Constants DEF Holds, Kinds
<1>6. Tables'
  BY <1>1, <1>2, <1>4 DEF Tables
<1>7. TypeOK'
  BY <1>2, <1>6, TypeParts, PTL
<1>8. "free" \notin Clients
  BY Constants DEF Kinds
<1>9. Stack'
  BY <1>1, <1>3, <1>4, <1>8 DEF IInv, Stack
<1>10. Low'
  BY <1>1, Constants DEF Low
<1>11. NoLeak'
  <2>1. \A fd \in 0..2 : fd \in Fds
    BY Constants
  <2> QED BY <1>1, <1>3, <1>4, <1>8, <2>1, Constants DEF IInv, NoLeak
<1>12. Linked'
  <2>1. link = "up" => 3 # trace_fd
    BY Constants DEF IInv, Linked
  <2>2. \A fd \in Fds : fd # NoFd
    BY Constants
  <2> QED BY <1>1, <1>4, <2>1, <2>2, Constants DEF IInv, Linked
<1>13. Owned'
  <2>1. Holds => Holds'
    BY <1>1, <1>4, <1>5 DEF Holds
  <2> QED BY <1>1, <2>1 DEF IInv, Owned
<1>14. Numbers'
  BY <1>1 DEF IInv, Numbers
<1> QED BY <1>2, <1>7, <1>9, <1>10, <1>11, <1>12, <1>13, <1>14 DEF IInv

(* What listen() does to the numbers of the server; nothing else does.     *)
Renumbers(to) ==
    \/ UNCHANGED <<late, idVars>> /\ to \notin {"bind", "serve", "leave", "end"}
    \/ to = "bind" /\ server_id' = Lowest(Free) /\ UNCHANGED <<late, client_id>>
    \/ to = "serve" /\ client_id' = Lowest(Free) /\ late' = FALSE /\ UNCHANGED server_id

(* One descriptor more: the lowest that is free.                           *)
LEMMA OpensIInv ==
    ASSUME IInv, NEW from, NEW what, NEW to \in PlacesOfMain, Opens(from, what, to),
           Renumbers(to),
           what \in {"file", "socket"} \cup Clients, Depth(to) = Depth(from) + 1,
           from # "serve", what \in Clients => from = "bind" /\ to = "serve",
           to \in Ending => from \in Ending /\ Depth(from) = 0, from \in Ending => to \in Ending,
           to = "serve" => from = "bind"
    PROVE  IInv'
<1> DEFINE fd == Lowest(Free)
<1>1. /\ main = from /\ main' = to /\ Free # {}
      /\ mine' = Append(mine, fd) /\ file' = [file EXCEPT ![fd] = what]
      /\ UNCHANGED <<sent, wire, got, socket_id, link, reader, trace_fd, leaks, strays>>
  BY DEF Opens, linkVars
<1>2. what \in Kinds \cup Clients /\ what # "free"
  BY Constants DEF Kinds
<1>3. /\ fd \in Fds /\ file[fd] = "free" /\ file'[fd] = what
      /\ \A other \in Fds : other < fd => file[other] # "free"
      /\ \A other \in Fds : other # fd => file'[other] = file[other]
  <2> HIDE DEF fd
  <2> QED BY <1>1, <1>2, OpenedFile DEF fd
<1>4. /\ file' \in [Fds -> Kinds \cup Clients]
      /\ link = "up" => file'[3] = "collector"
      /\ Holds /\ trace_fd # NoFd => trace_fd # fd /\ file'[trace_fd] = "trace_pipe"
  <2> HIDE DEF fd
  <2> QED BY <1>1, <1>2, OpenedFile DEF fd
<1>5. /\ mine \in Seq(Fds)
      /\ Holds => \A i \in 1..Len(mine) :
             mine[i] # fd /\ file'[mine[i]] \in {"file", "socket"} \cup Clients
  <2> HIDE DEF fd
  <2> QED BY <1>1, <1>2, OpenedFile DEF fd
<1>r. \/ UNCHANGED <<late, server_id, client_id>> /\ to \notin {"bind", "serve", "leave", "end"}
      \/ to = "bind" /\ server_id' = fd /\ UNCHANGED <<late, client_id>>
      \/ to = "serve" /\ client_id' = fd /\ late' = FALSE /\ UNCHANGED server_id
  BY DEF Renumbers, idVars
<1> HIDE DEF fd
<1>6. /\ mine' \in Seq(Fds) /\ Len(mine') = Len(mine) + 1 /\ Len(mine) \in Nat
      /\ \A i \in 1..Len(mine) : mine'[i] = mine[i]
      /\ mine'[Len(mine) + 1] = fd
  BY <1>1, <1>3, <1>5
<1>7. \A i \in 1..Len(mine') : i \in 1..Len(mine) \/ i = Len(mine) + 1
  BY <1>6
<1>8. Len(mine) = Depth(from) /\ Len(mine') = Depth(to)
  BY <1>1, <1>6 DEF IInv, Stack
<1>9. TypeOK'
  <2>1. Wires' /\ Places' /\ Tables
    BY <1>1, TypeParts DEF IInv, Wires, Places
  <2>2. Len(mine') <= 2
    BY <1>8 DEF Depth
  <2>3. /\ late' \in BOOLEAN /\ server_id' \in Fds \cup {NoFd}
        /\ client_id' \in Fds \cup {NoFd}
    BY <1>3, <1>r, <2>1 DEF Tables
  <2>4. Tables'
    BY <1>1, <1>4, <1>6, <2>1, <2>2, <2>3 DEF Tables
  <2> QED BY <2>1, <2>4, TypeParts, PTL
<1>h. from \notin Ending => Holds
  BY <1>1 DEF IInv, Owned
<1>10. Stack'
  <2>1. \A i, j \in 1..Len(mine') : mine'[i] = mine'[j] => i = j
    <3>1. CASE Len(mine) = 0
      BY <1>6, <3>1
    <3>2. CASE Len(mine) # 0
      <4>1. Holds
        BY <1>8, <1>h, <3>2
      <4> QED BY <1>5, <1>6, <1>7, <4>1 DEF IInv, Stack
    <3> QED BY <3>1, <3>2
  <2>2. ASSUME NEW other \in Fds, file'[other] \in Clients
        PROVE  main' = "serve" /\ other = mine'[2]
    <3>1. file[other] \notin Clients
      BY <1>1 DEF IInv, Stack
    <3>2. other = fd /\ what \in Clients
      BY <1>3, <2>2, <3>1
    <3>3. Len(mine) = 1
      BY <1>8, <3>2 DEF Depth
    <3> QED BY <1>1, <1>6, <3>2, <3>3
  <2> QED BY <1>1, <1>8, <2>1, <2>2 DEF Stack
<1>11. ASSUME NEW low \in {0, 1}, Held(low), low = 1 => file[0] # "free"
       PROVE  Held(low)'
  <2>1. low \in Fds /\ fd \in Nat /\ 0 \in Fds
    BY <1>3, Constants
  <2>2. CASE mine = <<>>
    <3>1. Len(mine) = 0
      BY <2>2
    <3>2. file[low] = "free" => fd = low
      <4> SUFFICES ASSUME file[low] = "free" PROVE fd = low
        OBVIOUS
      <4>1. ~ (low < fd)
        BY <1>3, <2>1
      <4>2. low = 1 => fd # 0
        BY <1>3, <1>11
      <4> QED BY <2>1, <4>1, <4>2
    <3>3. file'[low] # "free"
      BY <1>2, <1>3, <2>1, <3>2
    <3>4. \A i \in 2..Len(mine') : FALSE
      BY <1>6, <3>1
    <3> QED BY <3>3, <3>4 DEF Held
  <2>3. CASE mine # <<>>
    <3>1. file[low] # "free" /\ \A i \in 2..Len(mine) : mine[i] # low
      BY <1>11, <2>3 DEF Held
    <3>2. low # fd /\ file'[low] # "free"
      BY <1>3, <2>1, <3>1
    <3>3. ASSUME NEW i \in 2..Len(mine') PROVE mine'[i] # low
      <4>1. i \in 2..Len(mine) \/ i = Len(mine) + 1
        BY <1>6
      <4> QED BY <1>6, <3>1, <3>2, <4>1
    <3> QED BY <3>2, <3>3 DEF Held
  <2> QED BY <2>2, <2>3
<1>12. Low'
  <2> SUFFICES ASSUME to \notin Ending
               PROVE  (reader = "new" => Held(0)') /\ (trace_fd = 0 => Held(1)')
    BY <1>1 DEF Low
  <2>1. from \notin Ending /\ Holds
    BY <1>h
  <2>h. (reader = "new" => Held(0)) /\ (trace_fd = 0 => Held(1))
    BY <1>1, <2>1, LowParts
  <2>2. reader = "new" => Held(0)'
    BY <1>11, <2>h
  <2>3. trace_fd = 0 => Held(1)'
    <3>1. trace_fd = 0 => file[0] # "free"
      BY <2>1, Constants DEF Holds
    <3> QED BY <1>11, <2>h, <3>1
  <2> QED BY <2>2, <2>3
<1>13. NoLeak'
  <2> SUFFICES ASSUME leaks = 0
               PROVE  /\ \A other \in 0..2 :
                             \/ file'[other] = "free" \/ other = trace_fd
                             \/ \E i \in 1..Len(mine') : mine'[i] = other
                      /\ file'[3] \notin Clients
                      /\ \A c \in Clients : <<c, "packet">> \notin strays
    BY <1>1 DEF NoLeak
  <2>1. /\ \A other \in 0..2 : \/ file[other] = "free" \/ other = trace_fd
                               \/ \E i \in 1..Len(mine) : mine[i] = other
        /\ file[3] \notin Clients
        /\ \A c \in Clients : <<c, "packet">> \notin strays
    BY DEF IInv, NoLeak
  <2>2. ASSUME NEW other \in 0..2
        PROVE  \/ file'[other] = "free" \/ other = trace_fd
               \/ \E i \in 1..Len(mine') : mine'[i] = other
    <3>1. other \in Fds
      BY Constants
    <3>2. CASE other = fd
      <4>1. Len(mine) + 1 \in 1..Len(mine')
        BY <1>6
      <4> QED BY <1>6, <3>2, <4>1
    <3>3. CASE other # fd
      <4>1. \A i \in 1..Len(mine) : i \in 1..Len(mine')
        BY <1>6
      <4> QED BY <1>3, <1>6, <2>1, <3>1, <3>3, <4>1
    <3> QED BY <3>2, <3>3
  <2>3. fd = 3 => what \notin Clients
    <3> SUFFICES ASSUME fd = 3, what \in Clients PROVE FALSE
      OBVIOUS
    <3>1. Len(mine) = 1
      BY <1>8 DEF Depth
    <3>2. \A other \in 0..2 : other = trace_fd \/ other = mine[1]
      <4>1. \A other \in 0..2 : file[other] # "free"
        BY <1>3, Constants
      <4> QED BY <2>1, <3>1, <4>1
    <3>3. 0 \in 0..2 /\ 1 \in 0..2 /\ 2 \in 0..2
      OBVIOUS
    <3> QED BY <3>2, <3>3
  <2>4. file'[3] \notin Clients
    BY <1>3, <2>1, <2>3, Constants
  <2> QED BY <2>1, <2>2, <2>4
<1>14. Linked'
  <2>1. link = "up" => socket_id = 3 /\ file'[3] = "collector"
    BY <1>4 DEF IInv, Linked
  <2>2. ASSUME NEW other \in Fds, file'[other] = "collector"
        PROVE  /\ other # server_id' /\ other # client_id' /\ other # trace_fd
               /\ \A i \in 1..Len(mine') : mine'[i] # other
    <3>1. other # fd
      BY <1>3, <2>2, Constants DEF Kinds
    <3>2. file[other] = "collector"
      BY <1>3, <2>2, <3>1
    <3>3. /\ other # server_id /\ other # client_id /\ other # trace_fd
          /\ \A i \in 1..Len(mine) : mine[i] # other
      BY <3>2 DEF IInv, Linked
    <3> QED BY <1>6, <1>7, <1>r, <3>1, <3>3
  <2> QED BY <1>1, <2>1, <2>2 DEF Linked
<1>15. Owned'
  <2> SUFFICES ASSUME ~late' \/ to \notin Ending PROVE Holds'
    BY <1>1 DEF Owned
  <2>1. "serve" \notin Ending
    BY DEF Ending
  <2>2. Holds
    BY <1>1, <1>h, <1>r, <2>1 DEF IInv, Owned
  <2>3. \A i \in 1..Len(mine') : file'[mine'[i]] \in {"file", "socket"} \cup Clients
    BY <1>3, <1>5, <1>6, <1>7, <2>2
  <2> QED BY <1>1, <1>4, <2>2, <2>3 DEF Holds
<1>16. Numbers'
  <2>1. CASE to = "serve"
    <3>1. client_id' = fd /\ late' = FALSE /\ server_id' = server_id
      BY <1>r, <2>1
    <3>2. from = "bind" /\ mine[1] = server_id /\ Len(mine) = 1 /\ Holds
      BY <1>1, <1>8, <1>h, <2>1 DEF IInv, Numbers, Depth, Ending
    <3>3. mine'[1] = server_id /\ mine'[2] = fd
      BY <1>6, <3>2
    <3>4. trace_fd # NoFd => trace_fd # server_id /\ trace_fd # fd
      <4>1. file[mine[1]] \in {"file", "socket"} \cup Clients
        BY <3>2 DEF Holds
      <4>2. trace_fd # NoFd => file[trace_fd] = "trace_pipe" /\ trace_fd # fd
        BY <1>4, <3>2 DEF Holds
      <4> QED BY <3>2, <4>1, <4>2, Constants DEF Kinds
    <3> QED BY <1>1, <2>1, <3>1, <3>3, <3>4 DEF IInv, Numbers
  <2>2. CASE to = "bind"
    <3>1. server_id' = fd /\ late' = late /\ client_id' = client_id
      BY <1>r, <2>2
    <3>2. Len(mine) = 0 /\ Holds
      BY <1>8, <1>h, <2>2 DEF Depth, Ending
    <3>3. mine'[1] = fd
      BY <1>6, <3>2
    <3>4. trace_fd # NoFd => trace_fd # fd
      BY <1>4, <3>2
    <3> QED BY <1>1, <2>2, <3>1, <3>3, <3>4 DEF IInv, Numbers
  <2>3. CASE to \notin {"bind", "serve"}
    BY <1>1, <1>r, <2>3 DEF IInv, Numbers
  <2> QED BY <2>1, <2>2, <2>3
<1> QED BY <1>9, <1>10, <1>12, <1>13, <1>14, <1>15, <1>16 DEF IInv

(* The main thread keeps the first n it has open, and everything else of a *)
(* set of numbers is closed: its own, and others only when the run ends.   *)
Closing(S, n, from, to) ==
    /\ main = from /\ main' = to /\ mine' = SubSeq(mine, 1, n)
    /\ file' = [fd \in Fds |-> IF fd \in S THEN "free" ELSE file[fd]]
    /\ UNCHANGED <<linkVars, readerVars, idVars, leaks, strays>>
    /\ \A i \in (n + 1)..Len(mine) : mine[i] \in S
    /\ \A fd \in S : \/ \E i \in (n + 1)..Len(mine) : mine[i] = fd
                     \/ n = 0 /\ fd \in {server_id, client_id} /\ to \in Ending

LEMMA ClosedFiles ==
    ASSUME IInv, NEW n \in {0, 1}, NEW from, NEW to \in PlacesOfMain, NEW S \in SUBSET Fds,
           Closing(S, n, from, to),
           Depth(to) = n, n <= Depth(from), to # "serve",
           from \in Ending => to \in Ending,
           to \in {"bind", "leave", "end"} => from = "serve"
    PROVE  IInv'
<1> USE DEF Closing
<1>1. UNCHANGED <<sent, wire, got, socket_id, link, reader, trace_fd, late,
                  server_id, client_id, leaks, strays>>
  BY DEF linkVars, readerVars, idVars
<1>2. Tables /\ file \in [Fds -> Kinds \cup Clients] /\ mine \in Seq(Fds)
  BY TypeParts DEF IInv, Tables
<1>3. Len(mine) = Depth(from) /\ Len(mine) \in Nat /\ n <= Len(mine) /\ n \in Nat
  BY <1>2 DEF IInv, Stack
<1>4. /\ mine' \in Seq(Fds) /\ Len(mine') = n
      /\ \A i \in 1..n : mine'[i] = mine[i] /\ i \in 1..Len(mine)
  BY <1>2, <1>3
<1>5. file' \in [Fds -> Kinds \cup Clients]
  BY <1>2 DEF Kinds
<1>6. \A fd \in Fds : /\ fd \in S => file'[fd] = "free"
                      /\ fd \notin S => file'[fd] = file[fd]
  OBVIOUS
<1>7. "free" \notin Clients
  BY Constants DEF Kinds
<1>8. ASSUME NEW i \in 1..n PROVE mine[i] \in Fds /\ mine[i] \notin S
  <2>1. n = 1 /\ i \in 1..Len(mine) /\ mine[i] \in Fds
    BY <1>2, <1>3, <1>4, ElementOfSeq
  <2>2. \A j \in (n + 1)..Len(mine) : mine[j] # mine[i]
    BY <1>3, <2>1 DEF IInv, Stack
  <2> QED BY <2>1, <2>2
<1>9. TypeOK'
  <2>1. Wires' /\ Places'
    BY <1>1, TypeParts DEF IInv, Wires, Places
  <2>2. Tables'
    BY <1>1, <1>2, <1>4, <1>5 DEF Tables
  <2> QED BY <2>1, <2>2, TypeParts, PTL
<1>10. Stack'
  <2>1. \A i, j \in 1..Len(mine') : mine'[i] = mine'[j] => i = j
    BY <1>3, <1>4 DEF IInv, Stack
  <2>2. ASSUME NEW fd \in Fds, file'[fd] \in Clients PROVE FALSE
    <3>1. file[fd] \in Clients /\ fd \notin S
      BY <1>6, <1>7, <2>2
    <3>2. from = "serve" /\ fd = mine[2]
      BY <3>1 DEF IInv, Stack
    <3>3. 2 \in (n + 1)..Len(mine)
      BY <1>3, <3>2 DEF Depth
    <3> QED BY <3>1, <3>2, <3>3
  <2> QED BY <1>4, <2>1, <2>2 DEF Stack
<1>11. ASSUME NEW low \in {0, 1}, Held(low), to \notin Ending PROVE Held(low)'
  <2> SUFFICES ASSUME n = 1
               PROVE  file'[low] # "free" /\ \A i \in 2..Len(mine') : mine'[i] # low
    BY <1>3, <1>4 DEF Held
  <2>1. mine # <<>>
    BY <1>3
  <2>2. file[low] # "free" /\ \A i \in 2..Len(mine) : mine[i] # low
    BY <1>11, <2>1 DEF Held
  <2>3. low \in Fds /\ low \notin S
    BY <2>2, Constants
  <2> QED BY <1>4, <1>6, <2>2, <2>3
<1>12. Low'
  <2> SUFFICES ASSUME to \notin Ending
               PROVE  (reader = "new" => Held(0)') /\ (trace_fd = 0 => Held(1)')
    BY <1>1 DEF Low
  <2>1. (reader = "new" => Held(0)) /\ (trace_fd = 0 => Held(1))
    BY LowParts
  <2> QED BY <1>11, <2>1
<1>13. NoLeak'
  <2> SUFFICES ASSUME leaks = 0
               PROVE  /\ \A fd \in 0..2 :
                             \/ file'[fd] = "free" \/ fd = trace_fd
                             \/ \E i \in 1..Len(mine') : mine'[i] = fd
                      /\ file'[3] \notin Clients
                      /\ \A c \in Clients : <<c, "packet">> \notin strays
    BY <1>1 DEF NoLeak
  <2>1. /\ \A fd \in 0..2 : \/ file[fd] = "free" \/ fd = trace_fd
                            \/ \E i \in 1..Len(mine) : mine[i] = fd
        /\ file[3] \notin Clients
        /\ \A c \in Clients : <<c, "packet">> \notin strays
    BY DEF IInv, NoLeak
  <2>2. ASSUME NEW fd \in 0..2
        PROVE  \/ file'[fd] = "free" \/ fd = trace_fd
               \/ \E i \in 1..Len(mine') : mine'[i] = fd
    <3>1. fd \in Fds
      BY Constants
    <3>2. CASE \E i \in 1..Len(mine) : mine[i] = fd
      <4>1. PICK i \in 1..Len(mine) : mine[i] = fd
        BY <3>2
      <4>2. i \in 1..n \/ i \in (n + 1)..Len(mine)
        BY <1>3
      <4> QED BY <1>4, <1>6, <3>1, <4>1, <4>2
    <3>3. CASE file[fd] = "free"
      BY <1>6, <3>1, <3>3
    <3> QED BY <2>1, <3>2, <3>3
  <2>3. file'[3] \notin Clients
    BY <1>6, <1>7, <2>1, Constants
  <2> QED BY <2>1, <2>2, <2>3
<1>14. Linked'
  <2>1. ASSUME NEW fd \in Fds, file[fd] = "collector" PROVE fd \notin S
    <3>1. /\ fd # server_id /\ fd # client_id
          /\ \A i \in 1..Len(mine) : mine[i] # fd
      BY <2>1 DEF IInv, Linked
    <3>2. \A i \in (n + 1)..Len(mine) : i \in 1..Len(mine)
      BY <1>3
    <3> QED BY <3>1, <3>2
  <2>2. link = "up" => socket_id = 3 /\ file'[3] = "collector"
    BY <1>6, <2>1, Constants DEF IInv, Linked
  <2>3. ASSUME NEW fd \in Fds, file'[fd] = "collector"
        PROVE  /\ fd # server_id /\ fd # client_id /\ fd # trace_fd
               /\ \A i \in 1..Len(mine') : mine'[i] # fd
    <3>1. file[fd] = "collector"
      BY <1>6, <2>3
    <3> QED BY <1>4, <3>1 DEF IInv, Linked
  <2> QED BY <1>1, <2>2, <2>3 DEF Linked
<1>15. Owned'
  <2> SUFFICES ASSUME ~late \/ to \notin Ending PROVE Holds'
    BY <1>1 DEF Owned
  <2>1. Holds
    BY DEF IInv, Owned
  <2>2. trace_fd # NoFd => trace_fd \in Fds /\ trace_fd \notin S
    <3> SUFFICES ASSUME trace_fd # NoFd PROVE trace_fd \in Fds /\ trace_fd \notin S
      OBVIOUS
    <3>1. trace_fd \in Fds /\ file[trace_fd] = "trace_pipe"
      BY <1>2, <2>1 DEF Tables, Holds
    <3>2. ~ \E i \in (n + 1)..Len(mine) : mine[i] = trace_fd
      <4>1. \A i \in (n + 1)..Len(mine) : i \in 1..Len(mine)
        BY <1>3
      <4> QED BY <2>1, <3>1, <4>1, Constants DEF Holds, Kinds
    <3>3. to \in Ending => trace_fd \notin {server_id, client_id}
      BY DEF IInv, Numbers
    <3> QED BY <3>1, <3>2, <3>3
  <2>3. trace_fd # NoFd => file'[trace_fd] = "trace_pipe"
    BY <1>6, <2>1, <2>2 DEF Holds
  <2>4. \A i \in 1..Len(mine') : file'[mine'[i]] \in {"file", "socket"} \cup Clients
    BY <1>4, <1>6, <1>8, <2>1 DEF Holds
  <2> QED BY <1>1, <2>3, <2>4 DEF Holds
<1>16. Numbers'
  <2>1. to \in {"bind", "serve", "leave", "end"} => mine'[1] = server_id
    <3> SUFFICES ASSUME to \in {"bind", "leave", "end"} PROVE mine'[1] = server_id
      OBVIOUS
    <3>1. n = 1 /\ mine[1] = server_id
      BY DEF IInv, Numbers, Depth
    <3> QED BY <1>4, <3>1
  <2> QED BY <1>1, <2>1 DEF IInv, Numbers
<1> QED BY <1>9, <1>10, <1>12, <1>13, <1>14, <1>15, <1>16 DEF IInv

(* The files of get_pids and of write_to.                                  *)
LEMMA ClosesIInv ==
    ASSUME IInv, NEW n \in {0, 1}, NEW from, NEW to \in PlacesOfMain,
           ClosesAllBut(n, from, to),
           Depth(to) = n, n <= Depth(from), to \notin {"bind", "serve", "leave", "end"},
           from \in Ending => to \in Ending
    PROVE  IInv'
<1> DEFINE S == { fd \in Fds : \E i \in (n + 1)..Len(mine) : mine[i] = fd }
<1>1. /\ main = from /\ main' = to /\ mine' = SubSeq(mine, 1, n)
      /\ UNCHANGED <<linkVars, readerVars, idVars, leaks, strays>>
      /\ file' = [fd \in Fds |-> IF fd \in S THEN "free" ELSE file[fd]]
  BY DEF ClosesAllBut
<1>2. mine \in Seq(Fds) /\ Len(mine) \in Nat
  BY TypeParts DEF IInv, Tables
<1>3. \A i \in (n + 1)..Len(mine) : mine[i] \in S
  <2>1. \A i \in (n + 1)..Len(mine) : i \in 1..Len(mine)
    BY <1>2
  <2> QED BY <1>2, <2>1, ElementOfSeq
<1>4. S \in SUBSET Fds /\ \A fd \in S : \E i \in (n + 1)..Len(mine) : mine[i] = fd
  OBVIOUS
<1> HIDE DEF S
<1>5. Closing(S, n, from, to)
  BY <1>1, <1>3, <1>4, Zenon DEF Closing
<1> QED BY <1>4, <1>5, ClosedFiles

(* linux_server_socket.h:85-88, 110-113: a number of the server, which is  *)
(* the last descriptor the main thread has open, or was before.            *)
LEMMA ClosesNumberIInv ==
    ASSUME IInv, NEW fd \in {server_id, client_id}, NEW n \in {0, 1}, NEW from,
           NEW to \in PlacesOfMain,
           ClosesNumber(fd, n, from, to),
           \/ Depth(from) = n + 1 /\ mine[n + 1] = fd
           \/ Depth(from) = n /\ n = 0 /\ to \in Ending,
           Depth(to) = n, to \notin {"bind", "serve"},
           from \in Ending => to \in Ending,
           to \in {"leave", "end"} => from = "serve"
    PROVE  IInv'
<1> DEFINE S == {fd} \cap Fds
<1>1. /\ main = from /\ main' = to /\ mine' = SubSeq(mine, 1, n)
      /\ UNCHANGED <<linkVars, readerVars, idVars, leaks, strays>>
  BY DEF ClosesNumber
<1>2. mine \in Seq(Fds) /\ Len(mine) = Depth(from) /\ file \in [Fds -> Kinds \cup Clients]
  BY <1>1, TypeParts DEF IInv, Tables, Stack
<1>3. file' = [other \in Fds |-> IF other \in S THEN "free" ELSE file[other]]
  BY <1>2 DEF ClosesNumber
<1>4. \A i \in (n + 1)..Len(mine) : mine[i] \in S
  <2>1. ASSUME NEW i \in (n + 1)..Len(mine) PROVE i = n + 1 /\ mine[i] = fd /\ i \in 1..Len(mine)
    BY <1>2
  <2> QED BY <1>2, <2>1, ElementOfSeq
<1>5. \A other \in S : \/ \E i \in (n + 1)..Len(mine) : mine[i] = other
                       \/ n = 0 /\ other \in {server_id, client_id} /\ to \in Ending
  <2>1. CASE Depth(from) = n + 1 /\ mine[n + 1] = fd
    <3>1. n + 1 \in (n + 1)..Len(mine)
      BY <1>2, <2>1
    <3> QED BY <2>1, <3>1
  <2>2. CASE n = 0 /\ to \in Ending
    BY <2>2
  <2> QED BY <2>1, <2>2
<1>6. S \in SUBSET Fds /\ n <= Depth(from)
  OBVIOUS
<1>7. to # "serve" /\ (to \in {"bind", "leave", "end"} => from = "serve") /\ Depth(to) = n
  OBVIOUS
<1> HIDE DEF S
<1>8. Closing(S, n, from, to)
  BY <1>1, <1>3, <1>4, <1>5, Zenon DEF Closing
<1> QED BY <1>6, <1>7, <1>8, ClosedFiles

(* linux_server_socket.h:40-57: the descriptor stays open, but who has it  *)
(* is forgotten.                                                           *)
LEMMA LeakIInv == IInv /\ Leak => IInv'
<1> SUFFICES ASSUME IInv, Leak PROVE IInv'
  OBVIOUS
<1>1. /\ main = "bind" /\ main' = "socket" /\ mine' = <<>> /\ leaks' = leaks + 1
      /\ leaks < MaxLeaks /\ client_id' \in {client_id, NoFd}
      /\ UNCHANGED <<file, sent, wire, got, socket_id, link, reader, trace_fd, late, server_id,
                     strays>>
  BY DEF Leak, linkVars, readerVars
<1>2. mine' \in Seq(Fds) /\ Len(mine') = 0
  BY <1>1, EmptySeq
<1>3. leaks \in Nat /\ leaks' \in 0..MaxLeaks
  BY <1>1, TypeParts, Constants DEF IInv, Places
<1>4. Wires' /\ Places'
  BY <1>1, <1>3, TypeParts DEF IInv, Wires, Places, PlacesOfMain
<1>5. Tables'
  BY <1>1, <1>2, TypeParts DEF IInv, Tables
<1>6. TypeOK'
  BY <1>4, <1>5, TypeParts, PTL
<1>7. Stack'
  BY <1>1, <1>2 DEF IInv, Stack, Depth
<1>8. Low'
  BY <1>1 DEF Low, Held
<1>9. NoLeak'
  BY <1>1, <1>3 DEF NoLeak
<1>10. Linked'
  BY <1>1, <1>2, Constants DEF IInv, Linked
<1>11. Owned'
  BY <1>1, <1>2 DEF IInv, Owned, Holds, Ending
<1>12. Numbers'
  BY <1>1 DEF IInv, Numbers
<1> QED BY <1>6, <1>7, <1>8, <1>9, <1>10, <1>11, <1>12 DEF IInv

LEMMA ReturnIInv == IInv /\ Return => IInv'
<1> SUFFICES ASSUME IInv, Return PROVE IInv'
  OBVIOUS
<1>1. /\ main = "left" /\ main' = "socket"
      /\ UNCHANGED <<file, sent, wire, got, socket_id, link, reader, trace_fd, late, mine,
                     server_id, client_id, leaks, strays>>
  BY DEF Return, linkVars, readerVars, idVars
<1>2. Wires' /\ Tables' /\ Places'
  BY <1>1, TypeParts DEF IInv, Wires, Tables, Places, PlacesOfMain
<1>3. TypeOK'
  BY <1>2, TypeParts, PTL
<1>4. Stack' /\ NoLeak'
  BY <1>1 DEF IInv, Stack, NoLeak, Depth
<1>5. Low'
  BY <1>1 DEF IInv, Low, Held, Ending
<1>6. Linked' /\ Owned'
  BY <1>1 DEF IInv, Linked, Owned, Holds, Ending
<1>7. Numbers'
  BY <1>1 DEF IInv, Numbers
<1> QED BY <1>3, <1>4, <1>5, <1>6, <1>7 DEF IInv

LEMMA StepIInv == IInv /\ [Next]_vars => IInv'
<1> SUFFICES ASSUME IInv, [Next]_vars PROVE IInv'
  OBVIOUS
<1> USE DEF PlacesOfMain, Depth, Ending
<1>0. "file" \notin Clients /\ "socket" \notin Clients
  BY Constants DEF Kinds
<1>o. ASSUME NEW from, NEW to \in PlacesOfMain, OpensFile(from, to),
             to \notin {"bind", "serve", "leave", "end"}, Depth(to) = Depth(from) + 1,
             from # "serve", to \in Ending => from \in Ending /\ Depth(from) = 0,
             from \in Ending => to \in Ending
      PROVE  IInv'
  <2>1. Opens(from, "file", to) /\ Renumbers(to)
    BY <1>o DEF OpensFile, Renumbers
  <2> QED BY <1>0, <1>o, <2>1, OpensIInv
<1>1. CASE Popen
  <2>1. CASE OpensFile("get_pids", "popen")
    BY <2>1, <1>o
  <2>2. CASE OpensFile("popen", "fork")
    BY <2>2, <1>o
  <2>3. CASE ClosesAllBut(1, "fork", "ls")
    BY <2>3, ClosesIInv
  <2>4. CASE ClosesAllBut(0, "ls", "add_filter")
    BY <2>4, ClosesIInv
  <2> QED BY <1>1, <2>1, <2>2, <2>3, <2>4 DEF Popen
<1>2. CASE WriteTo
  <2>1. CASE OpensFile("add_filter", "filter")
    BY <2>1, <1>o
  <2>2. CASE ClosesAllBut(0, "filter", "set_trace")
    BY <2>2, ClosesIInv
  <2>3. CASE OpensFile("set_trace", "tracing_on")
    BY <2>3, <1>o
  <2>4. CASE ClosesAllBut(0, "tracing_on", "socket")
    BY <2>4, ClosesIInv
  <2>5. CASE OpensFile("clear", "clearing")
    BY <2>5, <1>o
  <2>6. CASE ClosesAllBut(0, "clearing", "clear")
    BY <2>6, ClosesIInv
  <2> QED BY <1>2, <2>1, <2>2, <2>3, <2>4, <2>5, <2>6 DEF WriteTo
<1>3. CASE Listen
  <2>1. CASE /\ Opens("socket", "socket", "bind") /\ server_id' = Lowest(Free)
             /\ UNCHANGED <<late, client_id>>
    <3>1. Renumbers("bind")
      BY <2>1 DEF Renumbers
    <3> QED BY <1>0, <2>1, <3>1, OpensIInv
  <2>2. ASSUME NEW c \in Clients, Opens("bind", c, "serve"), client_id' = Lowest(Free),
               late' = FALSE, UNCHANGED server_id
        PROVE  IInv'
    <3>1. Renumbers("serve")
      BY <2>2 DEF Renumbers
    <3> QED BY <2>2, <3>1, OpensIInv
  <2> QED BY <1>3, <2>1, <2>2 DEF Listen
<1>4. CASE Close
  <2>1. CASE ClosesNumber(client_id, 1, "serve", "leave")
    <3>1. mine[1 + 1] = client_id
      BY <2>1 DEF ClosesNumber, IInv, Numbers
    <3> QED BY <2>1, <3>1, ClosesNumberIInv
  <2>2. CASE ClosesNumber(server_id, 0, "leave", "left")
    <3>1. mine[0 + 1] = server_id
      BY <2>2 DEF ClosesNumber, IInv, Numbers
    <3> QED BY <2>2, <3>1, ClosesNumberIInv
  <2> QED BY <1>4, <2>1, <2>2 DEF Close
<1>5. CASE End
  <2>1. CASE ClosesNumber(client_id, 1, "serve", "end")
    <3>1. mine[1 + 1] = client_id
      BY <2>1 DEF ClosesNumber, IInv, Numbers
    <3> QED BY <2>1, <3>1, ClosesNumberIInv
  <2>2. CASE ClosesNumber(server_id, 0, "end", "clear")
    <3>1. mine[0 + 1] = server_id
      BY <2>2 DEF ClosesNumber, IInv, Numbers
    <3> QED BY <2>2, <3>1, ClosesNumberIInv
  <2>3. CASE ClosesNumber(client_id, 0, "left", "again")
    BY <2>3, ClosesNumberIInv
  <2>4. CASE ClosesNumber(server_id, 0, "again", "clear")
    BY <2>4, ClosesNumberIInv
  <2>5. CASE ClosesNumber(client_id, 0, "clear", "destroy")
    BY <2>5, ClosesNumberIInv
  <2>6. CASE ClosesNumber(server_id, 0, "destroy", "exit")
    BY <2>6, ClosesNumberIInv
  <2> QED BY <1>5, <2>1, <2>2, <2>3, <2>4, <2>5, <2>6 DEF End
<1>6. CASE UNCHANGED vars
  <2>1. UNCHANGED <<file, sent, wire, got, socket_id, link, readerVars, mainVars, strays>>
    BY <1>6 DEF vars, linkVars
  <2>2. Wires' /\ strays' \subseteq Clients \X {"packet", "text"}
    BY <2>1, TypeParts DEF IInv, Wires, Places
  <2> QED BY <2>1, <2>2, SameFiles
<1> QED
  BY <1>1, <1>2, <1>3, <1>4, <1>5, <1>6, DispatchIInv, ReceiveIInv, BreakIInv, OpenTraceIInv,
     EndTraceIInv, CloseTraceIInv, LeakIInv, ReturnIInv, TextIInv DEF Next

LEMMA Invariance == Spec => []IInv
BY InitIInv, StepIInv, PTL DEF Spec

-----------------------------------------------------------------------------
(* What is on the wire *)

(* The frames of the first k packets, one after the other.                 *)
Frames(k) == FlattenSeq([i \in 1..k |-> Frame(Packets[i])])

LEMMA FramesType ==
    ASSUME NEW k \in 0..Len(Packets)
    PROVE  /\ [i \in 1..k |-> Frame(Packets[i])] \in Seq(Seq(Bytes))
           /\ Frames(k) \in Seq(Bytes) /\ Len(Frames(k)) \in Nat
<1>1. k \in Nat /\ Len(Packets) \in Nat
  BY Constants
<1>2. ASSUME NEW i \in 1..k PROVE Frame(Packets[i]) \in Seq(Bytes)
  <2>1. i \in 1..Len(Packets)
    BY <1>1
  <2> QED BY <2>1, PacketIs, FrameIs
<1>3. [i \in 1..k |-> Frame(Packets[i])] \in Seq(Seq(Bytes))
  BY <1>1, <1>2
<1>4. Frames(k) \in Seq(Bytes)
  BY <1>3, FlattenType DEF Frames
<1> QED BY <1>3, <1>4, LenProperties

LEMMA FramesNone == Frames(0) = <<>> /\ Len(Frames(0)) = 0
<1>1. [i \in 1..0 |-> Frame(Packets[i])] = <<>>
  OBVIOUS
<1>2. Frames(0) = <<>>
  BY <1>1, FlattenEmpty DEF Frames
<1> QED BY <1>2, EmptySeq

LEMMA FramesNext ==
    ASSUME NEW k \in Nat, k + 1 <= Len(Packets)
    PROVE  Frames(k + 1) = Frames(k) \o Frame(Packets[k + 1])
<1> DEFINE frame(i) == Frame(Packets[i])
           seqs == [i \in 1..k |-> frame(i)]
           more == [i \in 1..(k + 1) |-> frame(i)]
<1>1. k \in 0..Len(Packets) /\ k + 1 \in 1..Len(Packets)
  BY Constants
<1>2. seqs \in Seq(Seq(Bytes)) /\ frame(k + 1) \in Seq(Bytes)
  BY <1>1, FramesType, PacketIs, FrameIs
<1>3. more = Append(seqs, frame(k + 1))
  <2> HIDE DEF frame
  <2> QED OBVIOUS
<1> HIDE DEF seqs, more
<1>4. FlattenSeq(more) = FlattenSeq(seqs) \o frame(k + 1)
  BY <1>2, <1>3, FlattenAppend
<1> QED BY <1>4 DEF Frames, seqs, more

(* What was sent does not change when more is sent.                        *)
LEMMA FramesGrow ==
    ASSUME NEW j \in Nat, NEW k \in Nat, j <= k, k <= Len(Packets)
    PROVE  /\ Len(Frames(j)) <= Len(Frames(k))
           /\ \A i \in 1..Len(Frames(j)) : Frames(k)[i] = Frames(j)[i]
<1> DEFINE Grown(m) == /\ Len(Frames(j)) <= Len(Frames(m))
                       /\ \A i \in 1..Len(Frames(j)) : Frames(m)[i] = Frames(j)[i]
           S == { d \in Nat : j + d <= Len(Packets) => Grown(j + d) }
<1>1. Len(Packets) \in Nat /\ j \in 0..Len(Packets) /\ Len(Frames(j)) \in Nat
  BY Constants, FramesType
<1>2. 0 \in S
  BY <1>1
<1>3. ASSUME NEW d \in Nat, d \in S PROVE d + 1 \in S
  <2> SUFFICES ASSUME j + (d + 1) <= Len(Packets) PROVE Grown(j + (d + 1))
    OBVIOUS
  <2> DEFINE m == j + d
             frame == Frame(Packets[m + 1])
  <2>1. m \in Nat /\ m + 1 = j + (d + 1) /\ m \in 0..Len(Packets) /\ m + 1 \in 1..Len(Packets)
    BY <1>1
  <2>2. Grown(m)
    BY <1>1, <1>3, <2>1
  <2> HIDE DEF m
  <2>3. Frames(m + 1) = Frames(m) \o frame
    BY <1>1, <2>1, FramesNext
  <2>4. Frames(m) \in Seq(Bytes) /\ frame \in Seq(Bytes) /\ Len(Frames(m)) \in Nat /\ Len(frame) \in Nat
    BY <2>1, FramesType, PacketIs, FrameIs, LenProperties
  <2> HIDE DEF frame
  <2>5. /\ Len(Frames(m + 1)) = Len(Frames(m)) + Len(frame)
        /\ \A i \in 1..Len(Frames(m)) : Frames(m + 1)[i] = Frames(m)[i]
    BY <2>3, <2>4, ConcatProperties
  <2>6. Len(Frames(j)) <= Len(Frames(m + 1))
    BY <1>1, <2>2, <2>4, <2>5
  <2>7. \A i \in 1..Len(Frames(j)) : Frames(m + 1)[i] = Frames(j)[i]
    BY <1>1, <2>2, <2>4, <2>5
  <2> QED BY <2>1, <2>6, <2>7
<1>4. Nat \subseteq S
  <2> HIDE DEF S
  <2> QED BY <1>2, <1>3, EveryNumber
<1>5. k - j \in S /\ j + (k - j) = k
  BY <1>4
<1> QED BY <1>5

(* What has reached the collector, and as long as the connection holds what *)
(* is under way, are the frames of the packets dispatched.                  *)
Carried ==
    /\ link = "up" => wire = Frames(sent)
    /\ got <= Len(Frames(sent))
    /\ \A i \in 1..got : wire[i] = Frames(sent)[i]

LEMMA InitCarried == Init => Carried
BY FramesNone DEF Init, Carried

LEMMA DispatchCarried ==
    ASSUME IInv, Carried, Dispatch
    PROVE  Carried'
<1> DEFINE frame == Frame(Packets[sent + 1])
<1>1. /\ sent \in Nat /\ sent + 1 \in Nat /\ sent + 1 <= Len(Packets) /\ sent <= sent + 1
      /\ sent \in 0..Len(Packets) /\ sent + 1 \in 0..Len(Packets)
      /\ got \in Nat /\ got <= Len(wire) /\ Len(wire) \in Nat
  BY TypeParts, Constants DEF IInv, Wires, Dispatch
<1>2. Frames(sent + 1) = Frames(sent) \o frame
  BY <1>1, FramesNext
<1>3. /\ Len(Frames(sent)) <= Len(Frames(sent + 1))
      /\ Len(Frames(sent)) \in Nat /\ Len(Frames(sent + 1)) \in Nat
      /\ \A i \in 1..Len(Frames(sent)) : Frames(sent + 1)[i] = Frames(sent)[i]
  BY <1>1, FramesGrow, FramesType
<1>4. /\ sent' = sent + 1 /\ got' = got /\ link' = link
      /\ wire' = IF link = "up" THEN wire \o frame ELSE wire
  BY DEF Dispatch
<1>5. Frames(sent)' = Frames(sent + 1)
  BY <1>4 DEF Frames
<1> HIDE DEF frame
<1>6. CASE link = "up"
  <2>1. wire' = Frames(sent + 1)
    BY <1>2, <1>4, <1>6 DEF Carried
  <2>2. got <= Len(Frames(sent + 1))
    BY <1>1, <1>3 DEF Carried
  <2>3. wire' = Frames(sent)' /\ got' <= Len(Frames(sent)')
    BY <1>4, <1>5, <2>1, <2>2
  <2>4. \A i \in 1..got' : wire'[i] = Frames(sent)'[i]
    BY <2>3
  <2> QED BY <2>3, <2>4 DEF Carried
<1>7. CASE link # "up"
  <2>1. \A i \in 1..got : wire[i] = Frames(sent + 1)[i]
    BY <1>1, <1>3 DEF Carried
  <2> QED BY <1>1, <1>3, <1>4, <1>5, <1>7, <2>1 DEF Carried
<1> QED BY <1>6, <1>7

LEMMA StepCarried == IInv /\ Carried /\ [Next]_vars => Carried'
<1> SUFFICES ASSUME IInv, Carried, [Next]_vars PROVE Carried'
  OBVIOUS
<1>1. CASE Dispatch
  BY <1>1, DispatchCarried
<1>2. CASE Receive
  <2>1. link = "up" /\ got' \in (got + 1)..Len(wire) /\ UNCHANGED <<link, sent, wire>>
    BY <1>2 DEF Receive
  <2>2. wire = Frames(sent) /\ Frames(sent)' = Frames(sent)
    BY <2>1 DEF Carried, Frames
  <2>3. got \in Nat /\ Len(wire) \in Nat
    BY TypeParts DEF IInv, Wires
  <2> QED BY <2>1, <2>2, <2>3 DEF Carried
<1>3. CASE Break
  <2>1. link' = "down" /\ wire' = SubSeq(wire, 1, got) /\ UNCHANGED <<sent, got>>
    BY <1>3 DEF Break
  <2>2. Frames(sent)' = Frames(sent)
    BY <2>1 DEF Frames
  <2>3. wire \in Seq(Bytes) /\ got \in 0..Len(wire)
    BY TypeParts DEF IInv, Wires
  <2>4. \A i \in 1..got : wire'[i] = wire[i]
    BY <2>1, <2>3
  <2> QED BY <2>1, <2>2, <2>4 DEF Carried
<1>4. CASE ~(Dispatch \/ Receive \/ Break)
  <2>1. UNCHANGED <<link, sent, wire, got>>
    BY <1>4 DEF Next, vars, linkVars, OpenTrace, EndTrace, CloseTrace, Popen, WriteTo, Listen,
                Leak, Close, Return, End, Text, Opens, OpensFile, ClosesAllBut, ClosesNumber
  <2>2. Frames(sent)' = Frames(sent)
    BY <2>1 DEF Frames
  <2> QED BY <2>1, <2>2 DEF Carried
<1> QED BY <1>1, <1>2, <1>3, <1>4

LEMMA CarriedInvariance == Spec => []Carried
BY InitCarried, StepCarried, Invariance, PTL DEF Spec

-----------------------------------------------------------------------------
(* What the collector reads *)

(* The length at i, and where the frame after it starts.                   *)
LengthAt(i) == ((wire[i] * 256 + wire[i + 1]) * 256 + wire[i + 2]) * 256 + wire[i + 3]

Torn(i) == i + 3 > got \/ i + 3 + LengthAt(i) > got

PacketAt(i) == Decode(SubSeq(wire, i + 4, i + 3 + LengthAt(i)))

Reads(f) ==
    f = [i \in 1..(got + 1) |-> IF Torn(i) THEN <<>>
                                ELSE <<PacketAt(i)>> \o f[i + 4 + LengthAt(i)]]

LEMMA ReceivedIs == Received = (CHOOSE f : Reads(f))[1]
BY DEF Received, Reads, Torn, PacketAt, LengthAt

LEMMA NextFrame ==
    ASSUME Wires, NEW i \in 1..(got + 1), ~Torn(i)
    PROVE  /\ LengthAt(i) \in Nat /\ i + 4 + LengthAt(i) \in 1..(got + 1)
           /\ i + 4 + LengthAt(i) > i
<1>1. got \in Nat /\ wire \in Seq(Bytes) /\ got <= Len(wire) /\ Len(wire) \in Nat
  BY DEF Wires
<1>2. i + 3 <= got
  BY <1>1 DEF Torn
<1>3. \A k \in 0..3 : wire[i + k] \in Nat
  <2> SUFFICES ASSUME NEW k \in 0..3 PROVE wire[i + k] \in Nat
    OBVIOUS
  <2>1. i + k \in 1..Len(wire)
    BY <1>1, <1>2
  <2>2. wire[i + k] \in Bytes
    BY <1>1, <2>1, ElementOfSeq
  <2> QED BY <2>2 DEF Bytes
<1>4. wire[i] \in Nat /\ wire[i + 1] \in Nat /\ wire[i + 2] \in Nat /\ wire[i + 3] \in Nat
  <2>1. i + 0 = i
    OBVIOUS
  <2> QED BY <1>3, <2>1
<1>5. LengthAt(i) \in Nat
  BY <1>4 DEF LengthAt
<1>6. i + 3 + LengthAt(i) <= got
  <2>1. ~ (i + 3 + LengthAt(i) > got)
    BY DEF Torn
  <2> QED BY <1>1, <1>5, <2>1
<1> QED BY <1>1, <1>5, <1>6

(* There is such a function: by induction from the end of the wire.        *)
LEMMA ReadsExists ==
    ASSUME Wires
    PROVE  \E f : Reads(f)
<1> DEFINE end == got + 1
           Step(f, i) == f[i] = IF Torn(i) THEN <<>> ELSE <<PacketAt(i)>> \o f[i + 4 + LengthAt(i)]
           Whole(f) == f = [i \in 1..end |-> f[i]]
           Back(f, d) == \A i \in 1..end : i + d > end => Step(f, i)
           S == { d \in Nat : \E f : Whole(f) /\ Back(f, d) }
<1>1. end \in Nat
  BY DEF Wires
<1> HIDE DEF end
<1>2. 0 \in S
  <2> DEFINE f == [i \in 1..end |-> <<>>]
  <2>1. Whole(f)
    OBVIOUS
  <2>2. Back(f, 0)
    <3> HIDE DEF f
    <3>1. \A i \in 1..end : ~(i + 0 > end)
      BY <1>1
    <3> HIDE DEF Step
    <3> QED BY <3>1
  <2> HIDE DEF f, Whole, Back
  <2> QED BY <2>1, <2>2
<1>3. ASSUME NEW d \in Nat, d \in S PROVE d + 1 \in S
  <2>1. PICK f : Whole(f) /\ Back(f, d)
    BY <1>3
  <2> DEFINE at == end - d
             value == IF Torn(at) THEN <<>> ELSE <<PacketAt(at)>> \o f[at + 4 + LengthAt(at)]
             g == [i \in 1..end |-> IF i = at THEN value ELSE f[i]]
  <2>2. at \in Int /\ \A i \in 1..end : i + (d + 1) > end <=> i + d > end \/ i = at
    BY <1>1
  <2>3. \A i \in 1..end : g[i] = IF i = at THEN value ELSE f[i]
    <3> HIDE DEF value
    <3> QED OBVIOUS
  <2>4. Whole(g)
    <3> HIDE DEF value
    <3> QED BY <2>3
  <2>5. ASSUME NEW i \in 1..end, i + (d + 1) > end PROVE Step(g, i)
    <3> HIDE DEF value, g, at
    <3> DEFINE next == i + 4 + LengthAt(i)
    <3>1. ~Torn(i) => next \in 1..end /\ next > i /\ LengthAt(i) \in Nat
      BY NextFrame DEF end
    <3>2. ~Torn(i) => g[next] = f[next]
      <4>1. i >= at
        BY <1>1, <2>2, <2>5 DEF at
      <4>2. ~Torn(i) => next # at
        <5> HIDE DEF next
        <5> QED BY <1>1, <2>2, <3>1, <4>1
      <4> HIDE DEF next
      <4> QED BY <2>3, <3>1, <4>2
    <3> HIDE DEF next
    <3>3. g[i] = IF Torn(i) THEN <<>> ELSE <<PacketAt(i)>> \o f[next]
      <4>1. CASE i = at
        <5>1. g[i] = value
          BY <2>3, <4>1
        <5> QED BY <4>1, <5>1 DEF value, next
      <4>2. CASE i # at
        <5>1. i + d > end
          BY <2>2, <2>5, <4>2
        <5>2. Step(f, i)
          BY <2>1, <5>1
        <5> QED BY <2>3, <4>2, <5>2 DEF next
      <4> QED BY <4>1, <4>2
    <3> QED BY <3>2, <3>3 DEF next
  <2> HIDE DEF Step, Whole, g
  <2>6. Back(g, d + 1)
    BY <2>5
  <2> HIDE DEF Back
  <2> QED BY <2>4, <2>6
<1>4. Nat \subseteq S
  <2> HIDE DEF S
  <2> QED BY <1>2, <1>3, EveryNumber
<1>5. PICK f : Whole(f) /\ Back(f, end)
  BY <1>1, <1>4
<1>6. \A i \in 1..end : Step(f, i)
  <2>1. \A i \in 1..end : i + end > end
    BY <1>1
  <2> HIDE DEF Step
  <2> QED BY <1>5, <2>1
<1>7. f = [i \in 1..end |-> IF Torn(i) THEN <<>> ELSE <<PacketAt(i)>> \o f[i + 4 + LengthAt(i)]]
  BY <1>5, <1>6
<1> QED BY <1>7 DEF Reads, end

(* Where the frame of packet j + 1 starts is the end of the j before it.   *)
Start(j) == Len(Frames(j))

LEMMA StartNext ==
    ASSUME NEW j \in Nat, j + 1 <= Len(Packets)
    PROVE  /\ Start(j) \in Nat /\ Start(j + 1) = Start(j) + 4 + Len(Encode(Packets[j + 1]))
           /\ Len(Encode(Packets[j + 1])) \in Nat
           /\ \A i \in 1..(4 + Len(Encode(Packets[j + 1]))) :
                  Frames(j + 1)[Start(j) + i] = Frame(Packets[j + 1])[i]
<1> DEFINE frame == Frame(Packets[j + 1])
           n == Len(Encode(Packets[j + 1]))
<1>1. j \in 0..Len(Packets) /\ j + 1 \in 1..Len(Packets)
  BY Constants
<1>2. Frames(j + 1) = Frames(j) \o frame
  BY FramesNext
<1>3. /\ Frames(j) \in Seq(Bytes) /\ Start(j) \in Nat
      /\ frame \in Seq(Bytes) /\ Len(frame) = 4 + n /\ n \in Nat
  BY <1>1, FramesType, PacketIs, FrameIs, EncodeIs, LenProperties DEF Start
<1> HIDE DEF frame, n
<1>4. /\ Len(Frames(j + 1)) = Start(j) + Len(frame)
      /\ \A i \in 1..(Start(j) + Len(frame)) :
             Frames(j + 1)[i] = IF i <= Start(j) THEN Frames(j)[i] ELSE frame[i - Start(j)]
  BY <1>2, <1>3, ConcatProperties DEF Start
<1>5. ASSUME NEW i \in 1..(4 + n) PROVE Frames(j + 1)[Start(j) + i] = frame[i]
  <2>1. Start(j) + i \in 1..(Start(j) + Len(frame)) /\ ~(Start(j) + i <= Start(j))
        /\ (Start(j) + i) - Start(j) = i
    BY <1>3
  <2> QED BY <1>4, <2>1
<1>6. Start(j + 1) = Start(j) + 4 + n
  BY <1>3, <1>4 DEF Start
<1> QED BY <1>3, <1>5, <1>6 DEF frame, n

(* What the collector finds where the frame of packet j + 1 starts: of the *)
(* length it makes sense when the length has come, and then of the text.   *)
LEMMA AtStart ==
    ASSUME IInv, Carried, NEW j \in Nat, j < sent
    PROVE  /\ Start(j) + 4 <= got =>
                  LengthAt(Start(j) + 1) = Len(Encode(Packets[j + 1]))
           /\ Torn(Start(j) + 1) <=> Start(j + 1) > got
           /\ Start(j + 1) <= got => PacketAt(Start(j) + 1) = Packets[j + 1]
<1> DEFINE at == Start(j)
           text == Encode(Packets[j + 1])
           n == Len(text)
<1>1. /\ sent \in 0..Len(Packets) /\ sent \in Nat /\ Len(Packets) \in Nat
      /\ wire \in Seq(Bytes) /\ got \in Nat /\ got <= Len(wire) /\ Len(wire) \in Nat
  BY TypeParts, Constants DEF IInv, Wires
<1>2. /\ j + 1 \in Nat /\ j + 1 <= sent /\ sent <= Len(Packets) /\ j + 1 <= Len(Packets)
      /\ j + 1 \in 1..Len(Packets) /\ j + 1 \in 0..Len(Packets)
  BY <1>1
<1>3. /\ at \in Nat /\ Start(j + 1) = at + 4 + n /\ n \in Nat
      /\ \A i \in 1..(4 + n) : Frames(j + 1)[at + i] = Frame(Packets[j + 1])[i]
  BY <1>2, StartNext
<1>4. \A i \in 1..(at + 4 + n) : Frames(sent)[i] = Frames(j + 1)[i]
  BY <1>1, <1>2, <1>3, FramesGrow DEF Start
<1>5. /\ ((Frame(Packets[j + 1])[1] * 256 + Frame(Packets[j + 1])[2]) * 256
             + Frame(Packets[j + 1])[3]) * 256 + Frame(Packets[j + 1])[4] = n
      /\ \A i \in 1..n : Frame(Packets[j + 1])[4 + i] = text[i]
  BY <1>2, PacketIs, FrameIs
<1>6. text \in Seq(Bytes) /\ Decode(text) = Packets[j + 1]
  BY <1>2, PacketIs, EncodeIs, DecodeOfEncode
<1> HIDE DEF at, text, n
<1>7. ASSUME NEW i \in 1..(4 + n), at + i <= got
      PROVE  wire[at + i] = Frame(Packets[j + 1])[i]
  <2>1. at + i \in 1..got /\ at + i \in 1..(at + 4 + n)
    BY <1>1, <1>3, <1>7
  <2>2. wire[at + i] = Frames(sent)[at + i]
    BY <2>1 DEF Carried
  <2> QED BY <1>3, <1>4, <2>1, <2>2
<1>8. ASSUME at + 4 <= got PROVE LengthAt(at + 1) = n
  <2>1. \A i \in 1..4 : i \in 1..(4 + n) /\ at + i <= got
    BY <1>1, <1>3, <1>8
  <2>2. \A i \in 1..4 : wire[at + i] = Frame(Packets[j + 1])[i]
    BY <1>7, <2>1
  <2>3. /\ wire[at + 1] = Frame(Packets[j + 1])[1] /\ wire[at + 2] = Frame(Packets[j + 1])[2]
        /\ wire[at + 3] = Frame(Packets[j + 1])[3] /\ wire[at + 4] = Frame(Packets[j + 1])[4]
    BY <2>2
  <2>4. (at + 1) + 1 = at + 2 /\ (at + 1) + 2 = at + 3 /\ (at + 1) + 3 = at + 4
    BY <1>3
  <2> QED BY <1>5, <2>3, <2>4 DEF LengthAt
<1>9. Torn(at + 1) <=> at + 4 + n > got
  <2>1. CASE at + 4 <= got
    <3>1. Torn(at + 1) <=> at + 1 + 3 > got \/ at + 1 + 3 + n > got
      BY <1>8, <2>1 DEF Torn
    <3> QED BY <1>1, <1>3, <2>1, <3>1
  <2>2. CASE ~(at + 4 <= got)
    <3>1. at + 1 + 3 > got /\ at + 4 + n > got
      BY <1>1, <1>3, <2>2
    <3> QED BY <3>1 DEF Torn
  <2> QED BY <2>1, <2>2
<1>10. ASSUME at + 4 + n <= got PROVE PacketAt(at + 1) = Packets[j + 1]
  <2>1. LengthAt(at + 1) = n
    BY <1>1, <1>3, <1>8, <1>10
  <2> DEFINE cut == SubSeq(wire, at + 5, at + 4 + n)
  <2>2. PacketAt(at + 1) = Decode(cut)
    <3>1. (at + 1) + 4 = at + 5 /\ (at + 1) + 3 + n = at + 4 + n
      BY <1>3
    <3> QED BY <2>1, <3>1 DEF PacketAt
  <2>3. /\ cut \in Seq(Bytes) /\ Len(cut) = n
        /\ \A i \in 1..n : cut[i] = wire[at + 4 + i]
    <3>1. at + 5 \in 1..(Len(wire) + 1) /\ at + 4 + n \in 0..Len(wire) /\ at + 5 <= at + 4 + n + 1
      BY <1>1, <1>3, <1>10
    <3> DEFINE p == at + 5
               q == at + 4 + n
    <3>2. p \in Int /\ q \in Int
      BY <1>3
    <3>3. \A i \in p..q : wire[i] \in Bytes
      BY <1>1, <1>3, <3>1
    <3>4. cut = SubSeq(wire, p, q)
      OBVIOUS
    <3>5. /\ (IF p <= q THEN q - p + 1 ELSE 0) = n /\ q - p + 1 = n
          /\ \A i \in 1..n : p + i - 1 = at + 4 + i
      BY <1>3
    <3> HIDE DEF p, q, cut
    <3>6. /\ cut \in Seq(Bytes)
          /\ Len(cut) = IF p <= q THEN q - p + 1 ELSE 0
          /\ \A i \in 1..(q - p + 1) : cut[i] = wire[p + i - 1]
      BY ONLY <3>2, <3>3, <3>4, SubSeqProperties
    <3>7. ASSUME NEW i \in 1..n PROVE cut[i] = wire[at + 4 + i]
      BY ONLY <3>5, <3>6, i \in 1..n
    <3> QED BY ONLY <3>5, <3>6, <3>7
  <2> HIDE DEF cut
  <2>4. ASSUME NEW i \in 1..n PROVE cut[i] = text[i]
    <3>1. 4 + i \in 1..(4 + n) /\ at + (4 + i) <= got /\ at + (4 + i) = at + 4 + i
      <4>1. /\ i \in Nat /\ 1 <= i /\ i <= n /\ n \in Nat /\ at \in Nat /\ got \in Nat
            /\ at + 4 + n <= got
        BY <1>1, <1>3, <1>10
      <4> QED BY <4>1
    <3>2. wire[at + (4 + i)] = Frame(Packets[j + 1])[4 + i]
      BY <1>7, <3>1
    <3> QED BY <1>5, <2>3, <3>1, <3>2
  <2>5. cut = text
    BY <1>6, <2>3, <2>4, SeqEqual DEF n
  <2> QED BY <1>6, <2>2, <2>5
<1> QED BY <1>3, <1>8, <1>9, <1>10 DEF at, text, n

(* The first of some packets, and the others.                              *)
LEMMA FirstAndRest ==
    ASSUME NEW V, NEW s \in Seq(V), NEW k \in 0..Len(s), NEW j \in Nat, j + 1 <= k
    PROVE  <<s[j + 1]>> \o SubSeq(s, j + 2, k) = SubSeq(s, j + 1, k)
<1> DEFINE rest == SubSeq(s, j + 2, k)
           whole == SubSeq(s, j + 1, k)
<1>1. k \in Nat /\ Len(s) \in Nat /\ j + 1 \in 1..Len(s) /\ \A i \in (j + 1)..k : s[i] \in V
  OBVIOUS
<1>2. whole \in Seq(V) /\ Len(whole) = k - j /\ \A i \in 1..(k - j) : whole[i] = s[j + i]
  OBVIOUS
<1>3. rest \in Seq(V) /\ Len(rest) = k - j - 1 /\ \A i \in 1..(k - j - 1) : rest[i] = s[j + 1 + i]
  OBVIOUS
<1> DEFINE one == <<s[j + 1]>>
<1>4. one \in Seq(V) /\ Len(one) = 1 /\ one[1] = s[j + 1]
  BY <1>1
<1> HIDE DEF rest, whole, one
<1>5. /\ one \o rest \in Seq(V) /\ Len(one \o rest) = Len(one) + Len(rest)
      /\ \A i \in 1..(Len(one) + Len(rest)) :
             (one \o rest)[i] = IF i <= Len(one) THEN one[i] ELSE rest[i - Len(one)]
  <2>1. one \in Seq(V) /\ rest \in Seq(V)
    BY <1>3, <1>4
  <2> QED BY ONLY <2>1, ConcatProperties
<1>6. Len(one) + Len(rest) = k - j
  BY <1>1, <1>3, <1>4
<1>7. ASSUME NEW i \in 1..(k - j) PROVE (one \o rest)[i] = whole[i]
  <2>1. (one \o rest)[i] = IF i <= 1 THEN one[i] ELSE rest[i - 1]
    BY <1>4, <1>5, <1>6
  <2>2. CASE i = 1
    BY <1>2, <1>4, <2>1, <2>2
  <2>3. CASE i # 1
    <3>1. i - 1 \in 1..(k - j - 1) /\ ~(i <= 1) /\ j + 1 + (i - 1) = j + i
      BY <1>1, <2>3
    <3> QED BY <1>2, <1>3, <2>1, <3>1
  <2> QED BY <2>2, <2>3
<1>8. one \o rest = whole
  BY <1>2, <1>5, <1>6, <1>7, SeqEqual
<1> QED BY <1>8 DEF one, rest, whole

(* socket_stream.h:55-71, encoding.h, linux_socket.h:40-42: as many        *)
(* packets as have come whole, in the order of dispatch.                   *)
LEMMA ReceivedPackets ==
    ASSUME IInv, Carried
    PROVE  \E k \in 0..sent :
               /\ k = sent \/ Start(k + 1) > got
               /\ Received = SubSeq(Packets, 1, k)
<1>1. /\ sent \in Nat /\ sent <= Len(Packets) /\ Len(Packets) \in Nat
      /\ Wires /\ got \in Nat /\ Packets \in Seq(Seq(Bytes))
  BY TypeParts, Constants DEF IInv, Wires
<1>2. /\ \A j \in 0..sent : Start(j) \in Nat
      /\ Start(0) = 0 /\ got <= Start(sent)
  <2>1. \A j \in 0..sent : Start(j) \in Nat
    BY <1>1, FramesType DEF Start
  <2> QED BY <2>1, FramesNone DEF Start, Carried
<1> DEFINE S == { k \in 0..sent : k = sent \/ Start(k + 1) > got }
<1>3. PICK k \in S : \A other \in S : k <= other
  <2>1. S \in SUBSET Nat /\ sent \in S
    BY <1>1
  <2> HIDE DEF S
  <2> QED BY <2>1, LeastElement
<1>4. k \in 0..sent /\ k \in Nat /\ (k = sent \/ Start(k + 1) > got)
  BY <1>1, <1>3
(* The k packets have come whole.                                          *)
<1>5. ASSUME NEW j \in 1..k PROVE Start(j) <= got
  <2>1. j - 1 \in 0..sent /\ ~(k <= j - 1) /\ (j - 1) + 1 = j /\ j \in 0..sent
    BY <1>1, <1>4
  <2>2. j - 1 \notin S
    BY <1>3, <2>1
  <2>3. ~(Start(j) > got)
    BY <2>1, <2>2
  <2> QED BY <1>1, <1>2, <2>1, <2>3
<1> HIDE DEF S
<1>6. PICK f : Reads(f) /\ Received = f[1]
  <2>1. \E f : Reads(f)
    BY <1>1, ReadsExists
  <2>2. Reads(CHOOSE f : Reads(f))
    BY <2>1
  <2> QED BY <2>2, ReceivedIs
<1>7. ASSUME NEW i \in 1..(got + 1)
      PROVE  f[i] = IF Torn(i) THEN <<>> ELSE <<PacketAt(i)>> \o f[i + 4 + LengthAt(i)]
  <2> DEFINE value(l) == IF Torn(l) THEN <<>> ELSE <<PacketAt(l)>> \o f[l + 4 + LengthAt(l)]
  <2>1. f = [l \in 1..(got + 1) |-> value(l)]
    BY <1>6 DEF Reads
  <2> HIDE DEF value
  <2>2. f[i] = value(i)
    BY <2>1
  <2> QED BY <2>2 DEF value
(* From the first frame that has not come whole back to the first.         *)
<1> DEFINE Rest(j) == f[Start(j) + 1] = SubSeq(Packets, j + 1, k)
           D == { d \in Nat : d <= k => Rest(k - d) }
<1>8. 0 \in D
  <2>1. SubSeq(Packets, k + 1, k) = <<>>
    BY <1>4, SubSeqEmpty
  <2>2. Start(k) <= got /\ Start(k) + 1 \in 1..(got + 1)
    <3>1. Start(k) <= got
      <4>1. CASE k = 0
        BY <1>1, <1>2, <4>1
      <4>2. CASE k # 0
        <5>1. k \in 1..k
          BY <1>4, <4>2
        <5> QED BY <1>5, <5>1
      <4> QED BY <4>1, <4>2
    <3>2. Start(k) \in Nat
      BY <1>2, <1>4
    <3> QED BY <1>1, <3>1, <3>2
  <2>3. Torn(Start(k) + 1)
    <3>1. CASE k = sent
      <4>1. Start(k) + 1 + 3 > got
        BY <1>1, <1>2, <1>4, <2>2, <3>1
      <4> QED BY <4>1 DEF Torn
    <3>2. CASE k # sent
      <4>1. k < sent /\ Start(k + 1) > got
        BY <1>1, <1>4, <3>2
      <4> QED BY <1>4, <4>1, AtStart
    <3> QED BY <3>1, <3>2
  <2>4. f[Start(k) + 1] = <<>>
    BY <1>7, <2>2, <2>3
  <2>5. k - 0 = k
    BY <1>4
  <2> QED BY <2>1, <2>4, <2>5
<1>9. ASSUME NEW d \in Nat, d \in D PROVE d + 1 \in D
  <2> SUFFICES ASSUME d + 1 <= k PROVE Rest(k - (d + 1))
    OBVIOUS
  <2> DEFINE j == k - (d + 1)
             at == Start(j) + 1
  <2>1. /\ j \in Nat /\ j < sent /\ j + 1 = k - d /\ j + 1 \in 1..k /\ j \in 0..sent
        /\ j + 1 <= Len(Packets) /\ j + 1 \in 1..Len(Packets) /\ j + 1 \in Nat /\ d <= k
    BY <1>1, <1>4
  <2>2. Rest(j + 1)
    <3>1. Rest(k - d)
      BY <1>9, <2>1
    <3> QED BY <2>1, <3>1
  <2> HIDE DEF j
  <2>3. Start(j) \in Nat /\ Start(j + 1) = Start(j) + 4 + Len(Encode(Packets[j + 1]))
        /\ Len(Encode(Packets[j + 1])) \in Nat /\ Start(j + 1) <= got
    BY <1>5, <2>1, StartNext
  <2>4. Start(j) + 4 <= got /\ ~(Start(j + 1) > got) /\ at \in 1..(got + 1)
    BY <1>1, <2>3
  <2>5. /\ LengthAt(at) = Len(Encode(Packets[j + 1])) /\ ~Torn(at)
        /\ PacketAt(at) = Packets[j + 1]
    BY <2>1, <2>3, <2>4, AtStart
  <2>6. f[at] = <<Packets[j + 1]>> \o f[Start(j + 1) + 1]
    <3>1. at + 4 + LengthAt(at) = Start(j + 1) + 1
      BY <2>3, <2>5
    <3> HIDE DEF at
    <3>2. f[at] = <<PacketAt(at)>> \o f[at + 4 + LengthAt(at)]
      BY <1>7, <2>4, <2>5
    <3> QED BY <2>5, <3>1, <3>2
  <2>7. <<Packets[j + 1]>> \o SubSeq(Packets, j + 2, k) = SubSeq(Packets, j + 1, k)
    BY <1>1, <1>4, <2>1, FirstAndRest
  <2>8. (j + 1) + 1 = j + 2
    BY <2>1
  <2>9. f[at] = SubSeq(Packets, j + 1, k)
    BY <2>2, <2>6, <2>7, <2>8
  <2> QED BY <2>9 DEF j
<1>10. Nat \subseteq D
  <2> HIDE DEF D
  <2> QED BY <1>8, <1>9, EveryNumber
<1>11. Rest(0)
  <2>1. k \in D /\ k <= k /\ k - k = 0
    BY <1>4, <1>10
  <2> QED BY <2>1
<1>12. f[1] = SubSeq(Packets, 1, k)
  <2>1. Start(0) + 1 = 1 /\ 0 + 1 = 1
    BY <1>2
  <2> QED BY <1>11, <2>1
<1> QED BY <1>4, <1>6, <1>12

-----------------------------------------------------------------------------
(* Theorems *)

(* linux_server_socket.h:115-116, linux_socket.h:64: the types, and that   *)
(* the main thread has at most two descriptors open.                       *)
THEOREM TypeCorrect == Spec => []TypeOK
<1>1. IInv => TypeOK
  BY DEF IInv
<1> QED BY <1>1, Invariance, PTL

(* multithreaded_sensor.h:101, 109-110, linux_server_socket.h:85-88,       *)
(* 101-113: however often the server closes its numbers, it closes nothing *)
(* of another thread, unless trace_pipe was opened at one of them; and the *)
(* connection to the collector not even then.                              *)
THEOREM RepeatedCloses == Spec => []NobodyLosesADescriptor
<1>1. IInv => NobodyLosesADescriptor
  BY DEF IInv, Linked, Owned, Holds, NobodyLosesADescriptor
<1> QED BY <1>1, Invariance, PTL

(* linux_socket.h:30-34, linux_daemon.h:48-50, linux_server_socket.h:60-64 *)
(* The number socket_id keeps after a failed connect() and the number 1 of *)
(* the closed standard output are not given to a client, but for a leaked  *)
(* socket or a trace_pipe that is not at 0.                                *)
THEOREM ClientsAreSafe == Spec => []ClientsGetOnlyStatuses
<1>1. ASSUME IInv PROVE ClientsGetOnlyStatuses
  <2>1. leaks = 0 => \A c \in Clients : <<c, "packet">> \notin strays
    BY <1>1 DEF IInv, NoLeak
  <2>2. ASSUME trace_fd = 0 PROVE file[1] \notin Clients
    <3> SUFFICES ASSUME file[1] \in Clients PROVE FALSE
      OBVIOUS
    <3>1. main = "serve" /\ mine[2] = 1 /\ Len(mine) = 2
      BY <1>1, Constants DEF IInv, Stack, Depth
    <3>2. mine # <<>> /\ 2 \in 2..Len(mine)
      BY <3>1
    <3>3. Held(1)
      BY <1>1, <2>2, <3>1, LowParts DEF Ending
    <3> QED BY <3>1, <3>2, <3>3 DEF Held
  <2> QED BY <2>1, <2>2 DEF ClientsGetOnlyStatuses
<1> QED BY <1>1, Invariance, PTL
(* socket_stream.h:55-71, encoding.h, linux_socket.h:40-42: whatever has   *)
(* reached the collector, and however it was cut, he reads the packets in  *)
(* the order of dispatch; all of them when nothing is under way.           *)
THEOREM CollectorIsServed == Spec => []CollectorReadsThePackets
<1>1. ASSUME IInv, Carried PROVE CollectorReadsThePackets
  <2>1. PICK k \in 0..sent : /\ k = sent \/ Start(k + 1) > got
                             /\ Received = SubSeq(Packets, 1, k)
    BY <1>1, ReceivedPackets
  <2>2. /\ sent \in Nat /\ sent <= Len(Packets) /\ Len(Packets) \in Nat /\ k \in Nat /\ k <= sent
        /\ got \in Nat /\ Packets \in Seq(Seq(Bytes))
    BY <1>1, TypeParts, Constants DEF IInv, Wires
  <2>3. Len(SubSeq(Packets, 1, k)) = k
    BY <2>2
  <2>4. ASSUME link = "up", got = Len(wire) PROVE k = sent
    <3>1. got = Start(sent)
      BY <1>1, <2>4 DEF Carried, Start
    <3>2. k # sent => k + 1 <= sent /\ k + 1 \in 0..Len(Packets) /\ k + 1 \in Nat
      BY <2>2
    <3>3. k # sent => Start(k + 1) <= Start(sent) /\ Start(k + 1) \in Nat
      BY <2>2, <3>2, FramesGrow, FramesType DEF Start
    <3> QED BY <2>1, <2>2, <3>1, <3>3
  <2> QED BY <2>1, <2>2, <2>3, <2>4 DEF CollectorReadsThePackets
<1> QED BY <1>1, Invariance, CarriedInvariance, PTL
=============================================================================
