------------------------- MODULE StatusServerProofs ------------------------
(***************************************************************************)
(* Theorems about StatusServer, for any clients, descriptors and backlog.  *)
(*                                                                         *)
(* The inductive invariant adds to the types                               *)
(*   Queues      each client is in one place of one backlog until it is    *)
(*               accepted;                                                 *)
(*   Connection  from then on it is at the other end of the one connection *)
(*               the server has, which is closed before the next accept(): *)
(*               there is none after a status threw, as the socket that    *)
(*               was lost goes on listening;                               *)
(*   Informed    who has been let go after finished was set was told;      *)
(*   OneListens  at most one socket listens, however many are leaked.      *)
(***************************************************************************)
EXTENDS StatusServer, SequenceTheorems, FiniteSetTheorems, WellFoundedInduction, TLAPS

-----------------------------------------------------------------------------
(* The lowest free descriptor *)

(* Every set of naturals has a least element. *)
LEMMA LeastElement ==
    ASSUME NEW S \in SUBSET Nat, S # {}
    PROVE  \E m \in S : \A n \in S : m <= n
  <1> DEFINE R == OpToRel(<, Nat)
  <1>1. \A x, y \in Nat : <<y, x>> \in R <=> y < x
    BY DEF OpToRel
  <1>2. IsWellFoundedOn(R, Nat)
    BY NatLessThanWellFounded
  <1> HIDE DEF R
  <1>3. PICK m \in S : \A n \in S : <<n, m>> \notin R
    BY <1>2, WFMin
  <1>4. ASSUME NEW n \in S PROVE m <= n
    <2>1. ~ (n < m)
      BY <1>1, <1>3
    <2> QED BY <2>1
  <1> QED BY <1>4

LEMMA LowestIsOne ==
    ASSUME NEW S \in SUBSET Fds, S # {}
    PROVE  Lowest(S) \in S
  <1>1. \E fd \in S : \A other \in S : fd <= other
    BY LeastElement, StatusServerAssumption
  <1> QED BY <1>1 DEF Lowest

-----------------------------------------------------------------------------
(* The inductive invariant *)

Types ==
    /\ main \in {"socket", "bind", "accept", "test", "send", "close", "summary",
                 "close_last", "return", "exited"}
    /\ socket_id \in Fds \cup {NoFd} /\ socket_client_id \in Fds \cup {NoFd}
    /\ main \in {"bind", "accept"} => socket_id \in Fds
    /\ file \in [Fds -> {"free", "socket", "listening", "connection"}]
    /\ backlog \in [Fds -> Seq(Clients)]
    /\ peer \in [Fds -> SUBSET Clients]
    /\ reset \subseteq Fds
    /\ client \in [Clients -> {"new", "queued", "served", "refused", "released", "left"}]
    /\ informed \subseteq Clients
    /\ finished \in BOOLEAN /\ port \in {"free", "taken", "given_up"}
    /\ aborts \in 0..MaxAborts /\ throws \in 0..MaxThrows

At(c, fd, i) == i \in 1..Len(backlog[fd]) /\ backlog[fd][i] = c

(* A client is in one place of one backlog, and has not been served yet.   *)
Queues ==
    \A c \in Clients, fd \in Fds, i \in Nat : At(c, fd, i) =>
        /\ client[c] \in {"queued", "left"}
        /\ \A other \in Fds, j \in Nat : At(c, other, j) => other = fd /\ j = i

Serving == {"test", "send", "close", "summary", "close_last"}

(* A status threw: the server tries to listen beside a socket of its own.  *)
Lost == main \in {"socket", "bind"} /\ Listening # {}

(* One connection at a time: it is the client's, who is served or has      *)
(* left; it is found broken, and closed, only when he has.                 *)
Connection ==
    /\ \A fd \in Fds : peer[fd] # {} => fd = socket_client_id /\ (main \in Serving \/ Lost)
    /\ main \in {"accept", "test", "send"} => Listening # {}
    /\ \A fd \in Fds : \A c \in peer[fd] : client[c] \in {"served", "left"}
    /\ \A c \in Clients : client[c] = "served" => \E fd \in Fds : c \in peer[fd]
    /\ \A fd \in reset : peer[fd] # {} /\ Gone(fd)
    /\ main \in {"test", "send", "close"} =>
           socket_client_id \in Fds /\ peer[socket_client_id] # {}
    /\ main = "close" => socket_client_id \in reset

(* The summary is sent when finished is set, and before the client is let  *)
(* go.                                                                     *)
Informed ==
    /\ main \in {"summary", "close_last", "return", "exited"} => finished
    /\ \A c \in Clients :
           client[c] = "released" \/ (client[c] = "served" /\ main = "close_last") =>
               c \in informed /\ finished

OneListens == \A fd, other \in Listening : fd = other

IInv == Types /\ Queues /\ Connection /\ Informed /\ OneListens

LEMMA InitIInv == Init => IInv
  <1> SUFFICES ASSUME Init PROVE IInv
    OBVIOUS
  <1>1. <<>> \in Seq(Clients) /\ Len(<<>>) = 0
    BY EmptySeq
  <1>2. Types
    <2>1. backlog \in [Fds -> Seq(Clients)]
      BY <1>1 DEF Init
    <2>2. aborts \in 0..MaxAborts /\ throws \in 0..MaxThrows
      BY StatusServerAssumption DEF Init
    <2> QED BY <2>1, <2>2 DEF Init, Types
  <1>3. Queues
    BY <1>1 DEF Init, Queues, At
  <1>4. Connection /\ Informed /\ OneListens
    BY DEF Init, Connection, Informed, OneListens, Listening
  <1> QED BY <1>2, <1>3, <1>4 DEF IInv

(* A step that leaves the sockets and the clients alone.                   *)
LEMMA SameQueues ==
    ASSUME Queues, OneListens, UNCHANGED <<file, backlog, client>>
    PROVE  Queues' /\ OneListens'
  <1>1. Queues'
    BY DEF Queues, At
  <1>2. OneListens'
    BY DEF OneListens, Listening
  <1> QED BY <1>1, <1>2

-----------------------------------------------------------------------------
(* close() *)

(* What closing descriptors does to the clients. *)
LEMMA ClosedClients ==
    ASSUME Types, NEW S \in SUBSET Fds, Closed(S), NEW c \in Clients
    PROVE  /\ client'[c] \in {client[c], "released", "refused"}
           /\ client[c] \notin {"queued", "served"} => client'[c] = client[c]
           /\ client'[c] = "refused" => client[c] \in {"queued", "refused"}
           /\ client'[c] = "released" => client[c] \in {"served", "released"}
           /\ client[c] = "served" /\ (\E fd \in S : c \in peer[fd]) => client'[c] = "released"
           /\ (\A fd \in S : c \notin peer[fd] /\ \A i \in Nat : ~At(c, fd, i))
                  => client'[c] = client[c]
  <1> DEFINE dropped == UNION { peer[fd] \cup { backlog[fd][i] : i \in 1..Len(backlog[fd]) } :
                                fd \in S }
  <1>1. client'[c] = IF c \in dropped /\ client[c] \in {"queued", "served"}
                     THEN IF client[c] = "served" THEN "released" ELSE "refused"
                     ELSE client[c]
    BY DEF Closed
  <1>2. ASSUME c \in dropped PROVE \E fd \in S : c \in peer[fd] \/ \E i \in Nat : At(c, fd, i)
    <2>1. PICK fd \in S : c \in peer[fd] \cup { backlog[fd][i] : i \in 1..Len(backlog[fd]) }
      BY <1>2
    <2>2. Len(backlog[fd]) \in Nat
      BY DEF Types
    <2> QED BY <2>1, <2>2 DEF At
  <1>3. (\E fd \in S : c \in peer[fd]) => c \in dropped
    OBVIOUS
  <1> HIDE DEF dropped
  <1> QED BY <1>1, <1>2, <1>3 DEF Types

(* Closing keeps what was true of the descriptors that stay open, as long  *)
(* as the one connection is not left open.                                 *)
LEMMA ClosedKeeps ==
    ASSUME Types, Queues, Connection, OneListens,
           NEW S \in SUBSET Fds, Closed(S), {socket_client_id} \cap Fds \subseteq S
    PROVE  /\ Queues'
           /\ OneListens'
           /\ \A fd \in Fds : peer'[fd] = {}
           /\ reset' = {}
           /\ \A c \in Clients : client'[c] # "served"
           /\ \A c \in Clients : client'[c] = "released" => client[c] \in {"served", "released"}
           /\ file' \in [Fds -> {"free", "socket", "listening", "connection"}]
           /\ backlog' \in [Fds -> Seq(Clients)]
           /\ peer' \in [Fds -> SUBSET Clients]
           /\ client' \in [Clients -> {"new", "queued", "served", "refused", "released", "left"}]
  <1>1. /\ file' = [fd \in Fds |-> IF fd \in S THEN "free" ELSE file[fd]]
        /\ backlog' = [fd \in Fds |-> IF fd \in S THEN <<>> ELSE backlog[fd]]
        /\ peer' = [fd \in Fds |-> IF fd \in S THEN {} ELSE peer[fd]]
        /\ reset' = reset \ S
        /\ DOMAIN client' = Clients
    BY DEF Closed
  <1>2. \A fd \in Fds : peer'[fd] = {}
    BY <1>1 DEF Connection
  <1>3. reset' = {}
    BY <1>1 DEF Connection, Types
  <1>4. \A c \in Clients : client'[c] # "served"
    <2> SUFFICES ASSUME NEW c \in Clients, client'[c] = "served" PROVE FALSE
      OBVIOUS
    <2>1. client[c] = "served"
      BY ClosedClients
    <2>2. \E fd \in S : c \in peer[fd]
      BY <2>1 DEF Connection
    <2> QED BY <2>1, <2>2, ClosedClients
  <1>5. ASSUME NEW c \in Clients, NEW fd \in Fds, NEW i \in Nat, At(c, fd, i)'
        PROVE  At(c, fd, i) /\ fd \notin S
    BY <1>1, <1>5, EmptySeq DEF At
  <1>6. Queues'
    <2> SUFFICES ASSUME NEW c \in Clients, NEW fd \in Fds, NEW i \in Nat, At(c, fd, i)'
                 PROVE  /\ client'[c] \in {"queued", "left"}
                        /\ \A other \in Fds, j \in Nat :
                               At(c, other, j)' => other = fd /\ j = i
      BY DEF Queues
    <2>1. At(c, fd, i) /\ fd \notin S
      BY <1>5
    <2>2. client[c] \in {"queued", "left"}
      BY <2>1 DEF Queues
    <2>3. CASE client[c] = "left"
      BY <1>5, <2>1, <2>3, ClosedClients DEF Queues
    <2>4. CASE client[c] = "queued"
      <3>1. \A other \in S : c \notin peer[other] /\ \A j \in Nat : ~At(c, other, j)
        BY <2>1, <2>4 DEF Queues, Connection
      <3> QED BY <1>5, <2>1, <2>4, <3>1, ClosedClients DEF Queues
    <2> QED BY <2>2, <2>3, <2>4
  <1>7. OneListens'
    BY <1>1 DEF OneListens, Listening
  <1>8. /\ file' \in [Fds -> {"free", "socket", "listening", "connection"}]
        /\ backlog' \in [Fds -> Seq(Clients)]
        /\ peer' \in [Fds -> SUBSET Clients]
    <2>1. <<>> \in Seq(Clients)
      BY EmptySeq
    <2> QED BY <1>1, <2>1 DEF Types
  <1>9. client' \in [Clients -> {"new", "queued", "served", "refused", "released", "left"}]
    <2>1. \A c \in Clients :
              client'[c] \in {"new", "queued", "served", "refused", "released", "left"}
      BY ClosedClients DEF Types
    <2>2. client' = [c \in Clients |-> client'[c]]
      BY DEF Closed
    <2> QED BY <2>1, <2>2
  <1> QED BY <1>2, <1>3, <1>4, <1>6, <1>7, <1>8, <1>9, ClosedClients

-----------------------------------------------------------------------------
(* The steps *)

LEMMA StepIInv == IInv /\ [Next]_vars => IInv'
  <1> SUFFICES ASSUME IInv, [Next]_vars PROVE IInv'
    OBVIOUS
  <1> USE StatusServerAssumption DEF IInv
  <1>1. CASE Socket
    <2>1. /\ Lowest(Free) \in Fds /\ file[Lowest(Free)] = "free"
      BY <1>1, LowestIsOne DEF Socket, Free
    <2>2. Types'
      BY <1>1, <2>1 DEF Types, Socket, clientVars, otherVars
    <2>3. Listening' = Listening
      BY <1>1, <2>1 DEF Types, Listening, Socket
    <2>4. Queues' /\ Informed' /\ OneListens'
      BY <1>1, <2>3 DEF Queues, At, Informed, OneListens, Socket, clientVars, otherVars
    <2>5. Connection'
      BY <1>1, <2>3 DEF Connection, Serving, Lost, Gone, Socket, clientVars
    <2> QED BY <2>2, <2>4, <2>5
  <1>2. CASE Bind
    <2>1. Types'
      BY <1>2 DEF Types, Bind, socketVars, clientVars, otherVars
    <2>2. Queues' /\ Informed'
      BY <1>2 DEF Queues, At, Informed, Bind, socketVars, clientVars, otherVars
    <2>3. OneListens'
      BY <1>2 DEF Types, OneListens, Listening, Bind
    <2>4. \/ main' = "socket" /\ Listening' = Listening
          \/ main' = "accept" /\ Listening = {} /\ socket_id \in Listening'
      BY <1>2 DEF Types, Listening, Bind
    <2>5. /\ main = "bind"
          /\ UNCHANGED <<socket_client_id, peer, reset, client>>
      BY <1>2 DEF Bind, socketVars, clientVars
    <2>6. main \notin Serving
      BY <2>5 DEF Serving
    <2>7. Connection'
      BY <2>4, <2>5, <2>6 DEF Connection, Serving, Lost, Gone
    <2> QED BY <2>1, <2>2, <2>3, <2>7
  <1>3. CASE Accept
    <2> DEFINE fd == Lowest(Free)
               c  == Head(backlog[socket_id])
    <2>1. fd \in Fds /\ file[fd] = "free"
      BY <1>3, LowestIsOne DEF Accept, Free
    <2>2. socket_id \in Fds /\ backlog[socket_id] \in Seq(Clients) /\ backlog[socket_id] # <<>>
      BY <1>3 DEF Accept, Types
    <2>3. c \in Clients /\ At(c, socket_id, 1)
      BY <2>2, HeadTailProperties DEF At
    <2>4. /\ main = "accept" /\ main' = "test"
          /\ socket_client_id' = fd
          /\ file' = [file EXCEPT ![fd] = "connection"]
          /\ peer' = [peer EXCEPT ![fd] = {c}]
          /\ client' = IF client[c] = "queued" THEN [client EXCEPT ![c] = "served"] ELSE client
          /\ backlog' = [backlog EXCEPT ![socket_id] = Tail(@)]
          /\ UNCHANGED <<socket_id, reset, informed, finished, port, aborts, throws>>
      BY <1>3 DEF Accept, otherVars
    <2> HIDE DEF fd, c
    <2>5. /\ Tail(backlog[socket_id]) \in Seq(Clients)
          /\ Len(Tail(backlog[socket_id])) = Len(backlog[socket_id]) - 1
          /\ \A i \in 1..Len(Tail(backlog[socket_id])) :
                 Tail(backlog[socket_id])[i] = backlog[socket_id][i + 1]
          /\ Len(backlog[socket_id]) \in Nat
      BY <2>2, HeadTailProperties, LenProperties
    <2>6. Types'
      BY <2>1, <2>2, <2>3, <2>4, <2>5 DEF Types
    <2>7. Queues'
      <3>1. ASSUME NEW d \in Clients, NEW other \in Fds, NEW i \in Nat, At(d, other, i)'
            PROVE  /\ At(d, other, IF other = socket_id THEN i + 1 ELSE i)
                   /\ d # c
        <4>1. CASE other = socket_id
          <5>1. i \in 1..Len(Tail(backlog[socket_id])) /\ Tail(backlog[socket_id])[i] = d
            BY <2>2, <2>4, <3>1, <4>1 DEF At, Types
          <5>2. At(d, socket_id, i + 1)
            BY <2>5, <5>1 DEF At
          <5>3. d # c
            BY <2>2, <2>3, <5>1, <5>2 DEF Queues
          <5> QED BY <4>1, <5>2, <5>3
        <4>2. CASE other # socket_id
          <5>1. At(d, other, i)
            BY <2>2, <2>4, <3>1, <4>2 DEF At, Types
          <5> QED BY <2>2, <2>3, <4>2, <5>1 DEF Queues
        <4> QED BY <4>1, <4>2
      <3>2. \A d \in Clients : d # c => client'[d] = client[d]
        BY <2>3, <2>4
      <3> SUFFICES ASSUME NEW d \in Clients, NEW other \in Fds, NEW i \in Nat, At(d, other, i)'
                   PROVE  /\ client'[d] \in {"queued", "left"}
                          /\ \A another \in Fds, j \in Nat :
                                 At(d, another, j)' => another = other /\ j = i
        BY DEF Queues
      <3>3. client'[d] \in {"queued", "left"}
        <4> DEFINE x == IF other = socket_id THEN i + 1 ELSE i
        <4>1. At(d, other, x) /\ d # c /\ x \in Nat
          BY <3>1
        <4>2. client[d] \in {"queued", "left"}
          BY <4>1 DEF Queues
        <4> QED BY <3>2, <4>1, <4>2
      <3>4. ASSUME NEW another \in Fds, NEW j \in Nat, At(d, another, j)'
            PROVE  another = other /\ j = i
        <4> DEFINE x == IF other = socket_id THEN i + 1 ELSE i
                   y == IF another = socket_id THEN j + 1 ELSE j
        <4>1. At(d, other, x) /\ At(d, another, y) /\ x \in Nat /\ y \in Nat
          BY <3>1, <3>4
        <4>2. another = other /\ y = x
          BY <4>1 DEF Queues
        <4> QED BY <4>2
      <3> QED BY <3>3, <3>4
    <2>8. Connection'
      <3>1. \A other \in Fds : peer[other] = {}
        BY <2>4 DEF Connection, Serving, Lost
      <3>2. \A d \in Clients : client[d] # "served"
        BY <3>1 DEF Connection
      <3>3. reset = {}
        BY <3>1 DEF Connection, Types
      <3>4. client[c] \in {"queued", "left"}
        BY <2>2, <2>3 DEF Queues
      <3>5. \A other \in Fds : peer'[other] = IF other = fd THEN {c} ELSE {}
        BY <2>1, <2>4, <3>1 DEF Types
      <3>6. /\ client'[c] \in {"served", "left"}
            /\ \A d \in Clients : d # c => client'[d] = client[d]
        BY <2>3, <2>4, <3>4 DEF Types
      <3>7. Listening' # {}
        <4>1. PICK other \in Fds : file[other] = "listening"
          BY <2>4 DEF Connection, Listening
        <4>2. file'[other] = "listening"
          BY <2>1, <2>4, <4>1 DEF Types
        <4> QED BY <4>2 DEF Listening
      <3> QED BY <2>1, <2>4, <3>2, <3>3, <3>5, <3>6, <3>7 DEF Connection, Serving
    <2>9. Informed'
      BY <2>3, <2>4 DEF Informed, Types
    <2>10. OneListens'
      BY <2>1, <2>4 DEF OneListens, Listening, Types
    <2> QED BY <2>6, <2>7, <2>8, <2>9, <2>10
  <1>4. CASE AcceptNoFd \/ AcceptAborted
    <2>1. AcceptFails /\ aborts' \in 0..MaxAborts
      BY <1>4 DEF AcceptNoFd, AcceptAborted, Types
    <2>2. Types'
      BY <2>1 DEF Types, AcceptFails, kernelVars, clientVars
    <2>3. Queues' /\ OneListens'
      <3>1. UNCHANGED <<file, backlog, client>>
        BY <2>1 DEF AcceptFails, kernelVars, clientVars
      <3> QED BY <3>1, SameQueues
    <2>4. Connection' /\ Informed'
      <3>1. /\ main = "accept" /\ main' = "socket"
            /\ UNCHANGED <<peer, reset, client, informed, finished>>
        BY <2>1 DEF AcceptFails, kernelVars, clientVars
      <3>2. \A fd \in Fds : peer[fd] = {}
        BY <3>1 DEF Connection, Serving, Lost
      <3>3. reset = {}
        BY <3>2 DEF Connection, Types
      <3> QED BY <3>1, <3>2, <3>3 DEF Connection, Informed
    <2> QED BY <2>2, <2>3, <2>4
  <1>5. CASE Test
    <2>1. Types'
      BY <1>5 DEF Types, Test, socketVars, kernelVars, clientVars, otherVars
    <2>2. Queues' /\ OneListens'
      <3>1. UNCHANGED <<file, backlog, client>>
        BY <1>5 DEF Test, kernelVars, clientVars
      <3> QED BY <3>1, SameQueues
    <2>3. Connection'
      BY <1>5 DEF Connection, Serving, Lost, Listening, Gone, Test, socketVars, kernelVars, clientVars
    <2>4. Informed'
      BY <1>5 DEF Informed, Test, clientVars, otherVars
    <2> QED BY <2>1, <2>2, <2>3, <2>4
  <1>6. CASE SendStatus
    <2>1. Types'
      BY <1>6 DEF Types, Connection, SendStatus, socketVars, clientVars, otherVars
    <2>2. Connection'
      BY <1>6 DEF Connection, Serving, Lost, Listening, Gone, SendStatus, socketVars,
                  clientVars
    <2>3. Queues' /\ OneListens'
      <3>1. UNCHANGED <<file, backlog, client>>
        BY <1>6 DEF SendStatus, clientVars
      <3> QED BY <3>1, SameQueues
    <2>4. Informed'
      BY <1>6 DEF Informed, SendStatus, clientVars, otherVars
    <2> QED BY <2>1, <2>2, <2>3, <2>4
  <1>7. CASE Close
    <2>1. /\ main = "close" /\ Closed(Both) /\ main' = IF finished THEN "summary" ELSE "socket"
          /\ UNCHANGED <<socket_id, socket_client_id, informed, finished, port, aborts, throws>>
      BY <1>7 DEF Close, socketVars, otherVars
    <2>2. Both \in SUBSET Fds /\ {socket_client_id} \cap Fds \subseteq Both
      BY DEF Both
    <2>3. \A c \in Clients : client[c] # "served"
      BY <2>1 DEF Connection, Lost, Gone
    <2>4. Types'
      BY <2>1, <2>2, ClosedKeeps DEF Types
    <2>5. Connection'
      BY <2>1, <2>2, ClosedKeeps DEF Connection, Types
    <2>6. Informed'
      BY <2>1, <2>2, <2>3, ClosedKeeps DEF Informed
    <2> QED BY <2>1, <2>2, <2>4, <2>5, <2>6, ClosedKeeps
  <1>8. CASE Summary
    <2>1. Types'
      BY <1>8 DEF Types, Summary, socketVars, kernelVars, otherVars
    <2>2. Connection'
      BY <1>8 DEF Connection, Serving, Lost, Gone, Summary, socketVars, kernelVars
    <2>3. Informed'
      <3>1. ASSUME NEW c \in Clients, client[c] = "served" PROVE c \in informed'
        <4>1. PICK fd \in Fds : c \in peer[fd]
          BY <3>1 DEF Connection
        <4>2. socket_client_id = fd
          BY <4>1 DEF Connection
        <4> QED BY <1>8, <3>1, <4>1, <4>2 DEF Summary
      <3>2. informed \subseteq informed' /\ UNCHANGED <<client, finished>> /\ finished
        BY <1>8 DEF Summary, Informed, otherVars
      <3> QED BY <3>1, <3>2 DEF Informed
    <2>4. Queues' /\ OneListens'
      <3>1. UNCHANGED <<file, backlog, client>>
        BY <1>8 DEF Summary, kernelVars
      <3> QED BY <3>1, SameQueues
    <2> QED BY <2>1, <2>2, <2>3, <2>4
  <1>9. CASE CloseLast
    <2>1. /\ main = "close_last" /\ Closed(Both) /\ main' = "return"
          /\ UNCHANGED <<socket_id, socket_client_id, informed, finished, port, aborts, throws>>
      BY <1>9 DEF CloseLast, socketVars, otherVars
    <2>2. Both \in SUBSET Fds /\ {socket_client_id} \cap Fds \subseteq Both
      BY DEF Both
    <2>3. Types'
      BY <2>1, <2>2, ClosedKeeps DEF Types
    <2>4. Connection'
      BY <2>1, <2>2, ClosedKeeps DEF Connection, Types
    <2>5. Informed'
      BY <2>1, <2>2, ClosedKeeps DEF Informed
    <2> QED BY <2>1, <2>2, <2>3, <2>4, <2>5, ClosedKeeps
  <1>10. CASE Return
    <2>1. /\ main = "return" /\ Closed(Fds) /\ main' = "exited"
          /\ UNCHANGED <<socket_id, socket_client_id, informed, finished, port, aborts, throws>>
      BY <1>10 DEF Return, socketVars, otherVars
    <2>2. \A c \in Clients : client[c] # "served"
      BY <2>1 DEF Connection, Serving, Lost
    <2>3. Types'
      BY <2>1, ClosedKeeps DEF Types
    <2>4. Connection'
      BY <2>1, ClosedKeeps DEF Connection, Types
    <2>5. Informed'
      BY <2>1, <2>2, ClosedKeeps DEF Informed
    <2> QED BY <2>1, <2>3, <2>4, <2>5, ClosedKeeps
  <1>11. ASSUME NEW c \in Clients, Connect(c) PROVE IInv'
    <2>1. CASE Listening = {}
      <3>1. client[c] = "new" /\ client' = [client EXCEPT ![c] = "refused"]
            /\ UNCHANGED <<main, socket_id, socket_client_id, file, backlog, peer, reset,
                           informed, finished, port, aborts, throws>>
        BY <1>11, <2>1 DEF Connect, socketVars, otherVars
      <3>2. Types'
        BY <3>1 DEF Types
      <3>3. Queues' /\ Informed' /\ OneListens'
        BY <3>1 DEF Types, Queues, At, Informed, OneListens, Listening
      <3>4. Connection'
        BY <3>1 DEF Types, Connection, Serving, Lost, Listening, Gone
      <3> QED BY <3>2, <3>3, <3>4
    <2>2. CASE Listening # {}
      <3>1. PICK fd \in Fds : backlog' = [backlog EXCEPT ![fd] = Append(@, c)]
        BY <1>11, <2>2 DEF Connect, Listening
      <3>2. client[c] = "new" /\ client' = [client EXCEPT ![c] = "queued"]
            /\ UNCHANGED <<main, socket_id, socket_client_id, file, peer, reset,
                           informed, finished, port, aborts, throws>>
        BY <1>11, <2>2 DEF Connect, socketVars, otherVars
      <3>3. backlog[fd] \in Seq(Clients)
        BY DEF Types
      <3>4. /\ Append(backlog[fd], c) \in Seq(Clients)
            /\ Len(backlog[fd]) \in Nat
            /\ Len(Append(backlog[fd], c)) = Len(backlog[fd]) + 1
            /\ \A i \in 1..Len(backlog[fd]) : Append(backlog[fd], c)[i] = backlog[fd][i]
            /\ Append(backlog[fd], c)[Len(backlog[fd]) + 1] = c
        BY <3>3, AppendProperties, LenProperties
      <3>5. Types'
        BY <3>1, <3>2, <3>4 DEF Types
      <3>6. ASSUME NEW d \in Clients, NEW other \in Fds, NEW i \in Nat, At(d, other, i)'
            PROVE  \/ At(d, other, i) /\ d # c
                   \/ d = c /\ other = fd /\ i = Len(backlog[fd]) + 1
        <4>1. \A another \in Fds, j \in Nat : ~At(c, another, j)
          BY <3>2 DEF Queues
        <4>2. CASE other = fd
          <5>1. i \in 1..(Len(backlog[fd]) + 1) /\ Append(backlog[fd], c)[i] = d
            BY <3>1, <3>4, <3>6, <4>2 DEF At, Types
          <5>2. CASE i = Len(backlog[fd]) + 1
            BY <3>4, <4>2, <5>1, <5>2
          <5>3. CASE i # Len(backlog[fd]) + 1
            <6>1. i \in 1..Len(backlog[fd])
              BY <3>4, <5>1, <5>3
            <6>2. At(d, other, i)
              BY <3>4, <4>2, <5>1, <6>1 DEF At
            <6> QED BY <4>1, <6>2
          <5> QED BY <5>2, <5>3
        <4>3. CASE other # fd
          <5>1. At(d, other, i)
            BY <3>1, <3>6, <4>3 DEF At, Types
          <5> QED BY <4>1, <5>1
        <4> QED BY <4>2, <4>3
      <3>7. \A d \in Clients : client'[d] = IF d = c THEN "queued" ELSE client[d]
        BY <3>2 DEF Types
      <3>8. Queues'
        <4> SUFFICES ASSUME NEW d \in Clients, NEW other \in Fds, NEW i \in Nat,
                            At(d, other, i)'
                     PROVE  /\ client'[d] \in {"queued", "left"}
                            /\ \A another \in Fds, j \in Nat :
                                   At(d, another, j)' => another = other /\ j = i
          BY DEF Queues
        <4>1. CASE d = c
          BY <3>6, <3>7, <4>1
        <4>2. CASE d # c
          BY <3>6, <3>7, <4>2 DEF Queues
        <4> QED BY <4>1, <4>2
      <3>9. Connection'
        BY <3>2, <3>7 DEF Types, Connection, Serving, Lost, Listening, Gone
      <3>10. Informed' /\ OneListens'
        BY <3>2, <3>7 DEF Informed, OneListens, Listening
      <3> QED BY <3>5, <3>8, <3>9, <3>10
    <2> QED BY <2>1, <2>2
  <1>12. ASSUME NEW c \in Clients, Leave(c) PROVE IInv'
    <2>1. client[c] \in {"queued", "served"} /\ client' = [client EXCEPT ![c] = "left"]
          /\ UNCHANGED <<main, socket_id, socket_client_id, file, backlog, peer, reset,
                         informed, finished, port, aborts, throws>>
      BY <1>12 DEF Leave, socketVars, kernelVars, otherVars
    <2>2. \A d \in Clients : client'[d] = IF d = c THEN "left" ELSE client[d]
      BY <2>1 DEF Types
    <2>3. Types'
      BY <2>1 DEF Types
    <2>4. Queues'
      <3>1. \A d \in Clients, fd \in Fds, i \in Nat : At(d, fd, i)' <=> At(d, fd, i)
        BY <2>1 DEF At
      <3> QED BY <2>1, <2>2, <3>1 DEF Queues
    <2>5. Connection'
      BY <2>1, <2>2 DEF Types, Connection, Serving, Lost, Listening, Gone
    <2>6. Informed' /\ OneListens'
      BY <2>1, <2>2 DEF Informed, OneListens, Listening
    <2> QED BY <2>3, <2>4, <2>5, <2>6
  <1>13. CASE Finish \/ PortFreed \/ UNCHANGED vars
    <2>1. /\ UNCHANGED <<main, socketVars, kernelVars, clientVars, aborts, throws>>
          /\ finished => finished'
          /\ finished' \in BOOLEAN /\ port' \in {"free", "taken", "given_up"}
      BY <1>13 DEF Types, Finish, PortFreed, vars, otherVars
    <2>2. Types'
      BY <2>1 DEF Types, socketVars, kernelVars, clientVars
    <2>3. Queues' /\ OneListens'
      <3>1. UNCHANGED <<file, backlog, client>>
        BY <2>1 DEF kernelVars, clientVars
      <3> QED BY <3>1, SameQueues
    <2>4. Connection' /\ Informed'
      BY <2>1 DEF Connection, Serving, Lost, Listening, Gone, Informed, socketVars,
                  kernelVars, clientVars
    <2> QED BY <2>2, <2>3, <2>4
  <1>14. CASE SocketFails
    <2>1. /\ main = "socket" /\ socket_id' = NoFd
          /\ UNCHANGED <<main, socket_client_id, file, backlog, peer, reset, client, informed,
                         finished, port, aborts, throws>>
      BY <1>14 DEF SocketFails, kernelVars, clientVars, otherVars
    <2>2. Types'
      BY <2>1 DEF Types
    <2>3. Queues' /\ OneListens' /\ Informed'
      BY <2>1, SameQueues DEF Informed
    <2>4. Connection'
      BY <2>1 DEF Connection, Serving, Lost, Listening, Gone
    <2> QED BY <2>2, <2>3, <2>4
  <1>15. CASE StatusThrows
    <2>1. /\ main = "send" /\ main' = IF finished THEN "summary" ELSE "socket"
          /\ UNCHANGED <<socket_id, socket_client_id, file, backlog, peer, reset, client,
                         informed, finished, port, aborts>>
      BY <1>15 DEF StatusThrows, socketVars, kernelVars, clientVars
    <2>2. throws' \in 0..MaxThrows
      BY <1>15 DEF Types, StatusThrows
    <2>3. Types'
      BY <2>1, <2>2 DEF Types
    <2>4. Queues' /\ OneListens' /\ Informed'
      BY <2>1, SameQueues DEF Informed
    <2>5. Connection'
      BY <2>1 DEF Connection, Serving, Lost, Listening, Gone
    <2> QED BY <2>3, <2>4, <2>5
  <1> QED
    BY <1>1, <1>2, <1>3, <1>4, <1>5, <1>6, <1>7, <1>8, <1>9, <1>10, <1>11, <1>12, <1>13,
       <1>14, <1>15
    DEF Next, Main, World

LEMMA Invariance == Spec => []IInv
  BY InitIInv, StepIInv, PTL DEF Spec

(* linux_server_socket.h:36-66: the types; above all, however many sockets *)
(* are leaked, no two of them listen.                                      *)
THEOREM TypeCorrect == Spec => []TypeOK
  <1>1. ASSUME IInv PROVE Cardinality(Listening) <= 1
    <2>1. CASE Listening = {}
      BY <2>1, FS_EmptySet
    <2>2. CASE Listening # {}
      <3>1. PICK fd : fd \in Listening
        BY <2>2
      <3>2. Listening = {fd}
        BY <1>1, <3>1 DEF IInv, OneListens
      <3> QED BY <3>2, FS_Singleton
    <2> QED BY <2>1, <2>2
  <1>2. IInv => TypeOK
    BY <1>1 DEF IInv, Types, TypeOK
  <1> QED BY <1>2, Invariance, PTL

(* multithreaded_sensor.h:96-110: a client that is being served is cut off *)
(* only after it was sent the summary.                                     *)
THEOREM SummaryBeforeClose == Spec => []ServedGetTheSummary
  <1>1. IInv => ServedGetTheSummary
    BY DEF IInv, Informed, ServedGetTheSummary
  <1> QED BY <1>1, Invariance, PTL
=============================================================================
