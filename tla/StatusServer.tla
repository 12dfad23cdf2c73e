---------------------------- MODULE StatusServer ----------------------------
(***************************************************************************)
(* The status server of start -l: the loop of multithreaded_sensor::run    *)
(* with logging, linux_server_socket, and the status commands of main.cpp  *)
(* that connect to it with linux_socket. The kernel's part is the table of *)
(* the server's descriptors, the backlog of a listening socket and what a  *)
(* send to a client that is gone returns.                                  *)
(*                                                                         *)
(* The contents of the statuses are left out. SIGPIPE is ignored: start()  *)
(* calls disable_seg_pipe before the loop. The other threads open no       *)
(* descriptor once they run; the table has the ones that are left.         *)
(***************************************************************************)
EXTENDS Naturals, Sequences, FiniteSets

CONSTANTS
    Clients,        \* status commands
    Fds,            \* descriptors the process can still open, numbers
    NoFd,           \* -1, and what an uninitialised id is taken for
    MaxBacklog,     \* connections the kernel queues for listen(.., 3)
    MaxAborts,      \* bound of the model: accepts that fail on their own
    MaxThrows       \* bound of the model: statuses that throw

ASSUME StatusServerAssumption ==
    /\ Fds \subseteq Nat /\ IsFiniteSet(Fds) /\ NoFd \notin Fds
    /\ MaxBacklog \in Nat \ {0}
    /\ MaxAborts \in Nat /\ MaxThrows \in Nat

VARIABLES
    main,               \* where the main thread stands in run(true)
    socket_id,          \* linux_server_socket::socket_id
    socket_client_id,   \* linux_server_socket::socket_client_id
    file,               \* what each descriptor is open for
    backlog,            \* clients a listening socket has not accepted
    peer,               \* the client at the other end of a connection
    reset,              \* connections known to be broken
    client,             \* where each status command stands
    informed,           \* clients that were sent the summary
    finished,           \* the flag the sender sets
    port,               \* "free", or "taken" by another program until "given_up"
    aborts,             \* accepts that failed on their own
    throws              \* statuses that threw before finished was set

socketVars == <<socket_id, socket_client_id>>
kernelVars == <<file, backlog, peer, reset>>
clientVars == <<client, informed>>
otherVars  == <<finished, port, aborts, throws>>
vars == <<main, socketVars, kernelVars, clientVars, otherVars>>

Free == { fd \in Fds : file[fd] = "free" }
Lowest(S) == CHOOSE fd \in S : \A other \in S : fd <= other
Listening == { fd \in Fds : file[fd] = "listening" }

(* Each id names an open descriptor, or one that is closed already.        *)
Both == {socket_id, socket_client_id} \cap Fds

Init ==
    /\ main = "socket"
    /\ socket_id = NoFd /\ socket_client_id = NoFd
    /\ file = [fd \in Fds |-> "free"]
    /\ backlog = [fd \in Fds |-> <<>>]
    /\ peer = [fd \in Fds |-> {}]
    /\ reset = {}
    /\ client = [c \in Clients |-> "new"]
    /\ informed = {}
    /\ finished = FALSE /\ port \in {"free", "taken"}
    /\ aborts = 0 /\ throws = 0

(* close() of the descriptors in S: queued clients are refused after all,  *)
(* and a client that was being served reads the end of the connection.     *)
Closed(S) ==
    LET dropped == UNION { peer[fd] \cup { backlog[fd][i] : i \in 1..Len(backlog[fd]) } :
                           fd \in S }
    IN /\ file' = [fd \in Fds |-> IF fd \in S THEN "free" ELSE file[fd]]
       /\ backlog' = [fd \in Fds |-> IF fd \in S THEN <<>> ELSE backlog[fd]]
       /\ peer' = [fd \in Fds |-> IF fd \in S THEN {} ELSE peer[fd]]
       /\ reset' = reset \ S
       /\ client' = [c \in Clients |->
              IF c \in dropped /\ client[c] \in {"queued", "served"}
              THEN IF client[c] = "served" THEN "released" ELSE "refused"
              ELSE client[c]]

-----------------------------------------------------------------------------
(* listen() *)

(* socket() gives the lowest descriptor that is free. *)
Socket ==
    /\ main = "socket" /\ Free # {}
    /\ socket_id' = Lowest(Free)
    /\ file' = [file EXCEPT ![Lowest(Free)] = "socket"]
    /\ main' = "bind"
    /\ UNCHANGED <<socket_client_id, backlog, peer, reset, clientVars, otherVars>>

(* Without a free descriptor listen() fails and is tried again.            *)
SocketFails ==
    /\ main = "socket" /\ Free = {}
    /\ socket_id' = NoFd
    /\ UNCHANGED <<main, socket_client_id, kernelVars, clientVars, otherVars>>

(* Mutant of Bind: two sockets may listen on the port. *)
BindShared ==
    /\ main = "bind"
    /\ IF port = "taken"
       THEN main' = "socket" /\ file' = file
       ELSE main' = "accept" /\ file' = [file EXCEPT ![socket_id] = "listening"]
    /\ UNCHANGED <<socketVars, backlog, peer, reset, clientVars, otherVars>>

(* bind() and listen(). When bind() fails listen() returns false, is tried *)
(* again a second later, and the socket is never closed.                   *)
Bind ==
    /\ main = "bind"
    /\ IF port = "taken" \/ Listening # {}
       THEN main' = "socket" /\ file' = file
       ELSE main' = "accept" /\ file' = [file EXCEPT ![socket_id] = "listening"]
    /\ UNCHANGED <<socketVars, backlog, peer, reset, clientVars, otherVars>>

(* accept() returns the first client of the backlog. *)
Accept ==
    /\ main = "accept" /\ backlog[socket_id] # <<>> /\ Free # {}
    /\ LET fd == Lowest(Free)
           c  == Head(backlog[socket_id])
       IN /\ socket_client_id' = fd
          /\ file' = [file EXCEPT ![fd] = "connection"]
          /\ peer' = [peer EXCEPT ![fd] = {c}]
          /\ client' = IF client[c] = "queued" THEN [client EXCEPT ![c] = "served"]
                       ELSE client
    /\ backlog' = [backlog EXCEPT ![socket_id] = Tail(@)]
    /\ main' = "test"
    /\ UNCHANGED <<socket_id, reset, informed, otherVars>>

(* accept() fails: listen() is called again a second later, and the socket *)
(* that listens stays open.                                                *)
AcceptFails ==
    /\ main = "accept"
    /\ socket_client_id' = NoFd
    /\ main' = "socket"
    /\ UNCHANGED <<socket_id, kernelVars, clientVars, finished, port, throws>>

(* For want of a descriptor it fails at once, without waiting for clients. *)
AcceptNoFd == AcceptFails /\ Free = {} /\ aborts' = aborts

AcceptAborted == AcceptFails /\ aborts < MaxAborts /\ aborts' = aborts + 1

-----------------------------------------------------------------------------
(* The loop over the statuses *)

(* Mutant of Test: finished is not looked at. *)
TestNothing ==
    /\ main = "test"
    /\ main' = "send"
    /\ UNCHANGED <<socketVars, kernelVars, clientVars, otherVars>>

Test ==
    /\ main = "test"
    /\ main' = IF finished THEN "summary" ELSE "send"
    /\ UNCHANGED <<socketVars, kernelVars, clientVars, otherVars>>

(* The client that is connected through fd has gone. *)
Gone(fd) == \A c \in peer[fd] : client[c] = "left"

(* Mutant of SendStatus: the test for -1 is the wrong way round. *)
SendStatusInverted ==
    /\ main = "send"
    /\ main' = IF socket_client_id \in reset THEN "test" ELSE "close"
    /\ reset' = IF Gone(socket_client_id) THEN reset \cup {socket_client_id} ELSE reset
    /\ UNCHANGED <<socketVars, file, backlog, peer, clientVars, otherVars>>

(* The first status to a client that is gone is sent; it comes back with a *)
(* reset, and the next send() returns -1.                                  *)
SendStatus ==
    /\ main = "send"
    /\ main' = IF socket_client_id \in reset THEN "close" ELSE "test"
    /\ reset' = IF Gone(socket_client_id) THEN reset \cup {socket_client_id} ELSE reset
    /\ UNCHANGED <<socketVars, file, backlog, peer, clientVars, otherVars>>

(* get_status() throws. The catch closes nothing: unless finished is set   *)
(* listen() is called again, with a client connected and on a port that is *)
(* in use by the socket that is lost now.                                  *)
StatusThrows ==
    /\ main = "send" /\ throws < MaxThrows
    /\ main' = IF finished THEN "summary" ELSE "socket"
    /\ throws' = IF finished THEN throws ELSE throws + 1
    /\ UNCHANGED <<socketVars, kernelVars, clientVars, finished, port, aborts>>

(* Mutant of Close: the listening socket stays open. *)
CloseClientOnly ==
    /\ main = "close"
    /\ Closed({socket_client_id} \cap Fds)
    /\ main' = IF finished THEN "summary" ELSE "socket"
    /\ UNCHANGED <<socketVars, informed, otherVars>>

(* close(), and the test of the outer loop. *)
Close ==
    /\ main = "close"
    /\ Closed(Both)
    /\ main' = IF finished THEN "summary" ELSE "socket"
    /\ UNCHANGED <<socketVars, informed, otherVars>>

(* The summary goes to the client, or to a descriptor closed just before.  *)
Summary ==
    /\ main = "summary"
    /\ informed' = IF socket_client_id \in Fds
                   THEN informed \cup { c \in peer[socket_client_id] : client[c] = "served" }
                   ELSE informed
    /\ main' = "close_last"
    /\ UNCHANGED <<socketVars, kernelVars, client, otherVars>>

CloseLast ==
    /\ main = "close_last"
    /\ Closed(Both)
    /\ main' = "return"
    /\ UNCHANGED <<socketVars, informed, otherVars>>

(* The sensor is destroyed and the process ends, closing what it leaked.   *)
Return ==
    /\ main = "return"
    /\ Closed(Fds)
    /\ main' = "exited"
    /\ UNCHANGED <<socketVars, informed, otherVars>>

-----------------------------------------------------------------------------
(* The status commands and the rest of the world *)

(* connect(): "The sensor is not running in logging mode." when it fails;  *)
(* a full backlog makes it wait.                                           *)
Connect(c) ==
    /\ client[c] = "new"
    /\ IF Listening = {}
       THEN client' = [client EXCEPT ![c] = "refused"] /\ backlog' = backlog
       ELSE \E fd \in Listening :
                /\ Len(backlog[fd]) < MaxBacklog
                /\ backlog' = [backlog EXCEPT ![fd] = Append(@, c)]
                /\ client' = [client EXCEPT ![c] = "queued"]
    /\ UNCHANGED <<main, socketVars, file, peer, reset, informed, otherVars>>

(* The user interrupts the command. *)
Leave(c) ==
    /\ client[c] \in {"queued", "served"}
    /\ client' = [client EXCEPT ![c] = "left"]
    /\ UNCHANGED <<main, socketVars, kernelVars, informed, otherVars>>

Finish ==
    /\ ~finished
    /\ finished' = TRUE
    /\ UNCHANGED <<main, socketVars, kernelVars, clientVars, port, aborts, throws>>

(* The other program gives up the port. *)
PortFreed ==
    /\ port = "taken"
    /\ port' = "given_up"
    /\ UNCHANGED <<main, socketVars, kernelVars, clientVars, finished, aborts, throws>>

-----------------------------------------------------------------------------
Main == Socket \/ SocketFails \/ Bind \/ Accept \/ AcceptNoFd \/ Test \/ SendStatus \/ Close
        \/ Summary \/ CloseLast \/ Return

World == (\E c \in Clients : Connect(c) \/ Leave(c)) \/ Finish \/ PortFreed

Next == Main \/ AcceptAborted \/ StatusThrows \/ World

(* The main thread runs; clients, the trace and other programs may not.    *)
Fairness == WF_vars(Main)

Spec == Init /\ [][Next]_vars /\ Fairness
-----------------------------------------------------------------------------
(* Properties *)

TypeOK ==
    /\ main \in {"socket", "bind", "accept", "test", "send", "close", "summary",
                 "close_last", "return", "exited"}
    /\ socket_id \in Fds \cup {NoFd} /\ socket_client_id \in Fds \cup {NoFd}
    /\ file \in [Fds -> {"free", "socket", "listening", "connection"}]
    /\ backlog \in [Fds -> Seq(Clients)]
    /\ peer \in [Fds -> SUBSET Clients]
    /\ reset \subseteq Fds
    /\ client \in [Clients -> {"new", "queued", "served", "refused", "released", "left"}]
    /\ informed \subseteq Clients
    /\ finished \in BOOLEAN /\ port \in {"free", "taken", "given_up"}
    /\ aborts \in 0..MaxAborts /\ throws \in 0..MaxThrows
    /\ Cardinality(Listening) <= 1

(* linux_server_socket.h:43-83, multithreaded_sensor.h:105-107: another    *)
(* program has the port, or had it long enough for the binds that failed   *)
(* to leave no descriptor; or an accept() failed, or a status threw: the   *)
(* lost socket listens and every bind() fails.                             *)
Wedged == \/ port = "taken"
          \/ port = "given_up" /\ Free = {}
          \/ aborts > 0 \/ throws > 0

(* multithreaded_sensor.h:94-103: after each client the server gets back   *)
(* to accepting clients, unless a failure before has wedged it.            *)
ServerComesBack == (main = "socket") ~> (main = "accept" \/ Wedged)

(* multithreaded_sensor.h:96-110: a client that is being served is cut off *)
(* only after it was sent the summary.                                     *)
ServedGetTheSummary ==
    \A c \in Clients : client[c] = "released" => c \in informed /\ finished

(* multithreaded_sensor.h:108-114: once the sensor has finished, no status *)
(* command goes on waiting, unless the server is wedged.                   *)
ClientsAreReleased ==
    \A c \in Clients :
        (finished /\ client[c] \in {"queued", "served"})
            ~> (client[c] \in {"released", "refused", "left"} \/ Wedged)
=============================================================================
