---------------------------- MODULE SocketStream ----------------------------
(***************************************************************************)
(* start -l -h: the packets that stream/socket_stream.h sends to the       *)
(* collector through socket/linux_socket.h, and the descriptors it shares  *)
(* with the other threads of the daemon: the trace_pipe of the reader, the *)
(* files and the status sockets of the main thread, and the standard       *)
(* output, which setup_daemon has closed and to which all go on writing.   *)
(*                                                                         *)
(* A packet is a sequence of bytes; the wire carries it as four bytes of   *)
(* length and the characters of Base64. What StatusServer says of clients  *)
(* that come and go is left out here, and so are a send() that blocks and  *)
(* a status that throws, after which the main thread serves nobody.        *)
(***************************************************************************)
EXTENDS Base64, FiniteSets, FiniteSetsExt

CONSTANTS
    Packets,        \* the packets the sender dispatches, in order
    Clients,        \* status commands
    Fds,            \* descriptors
    NoFd,           \* -1, no descriptor
    MaxLeaks        \* bound of the model: sockets that listen() leaks

(* What a descriptor may be open on, besides the connection of a client. *)
Kinds == {"terminal", "free", "collector", "trace_pipe", "file", "socket"}

(* socket_stream.h:60: the length of the text is an int.                   *)
ASSUME SocketStreamAssumption ==
    /\ Packets \in Seq(Seq(0..255))
    /\ \A k \in 1..Len(Packets) : Len(Packets[k]) < 2^30
    /\ Clients \cap Kinds = {}
    /\ 0..3 \subseteq Fds /\ Fds \subseteq Nat /\ NoFd \notin Fds
    /\ MaxLeaks \in Nat

VARIABLES
    file,           \* what each descriptor is open on
    socket_id,      \* the descriptor of linux_socket
    link,           \* the connection to the collector
    sent,           \* packets dispatched
    wire,           \* what was put on the connection
    got,            \* how much of it has reached the collector
    reader,         \* where the reader stands
    trace_fd,       \* the descriptor of trace_pipe
    main,           \* where the main thread stands
    mine,           \* the descriptors it has open, the oldest first
    server_id,      \* socket_id of linux_server_socket,
    client_id,      \* and its socket_client_id: they outlive close()
    leaks,          \* sockets it has lost
    late,           \* history: trace_pipe was opened at one of the two
    strays          \* history: what clients were sent but a status

linkVars == <<socket_id, link, sent, wire, got>>
readerVars == <<reader, trace_fd, late>>
idVars == <<server_id, client_id>>
mainVars == <<main, mine, idVars, leaks>>
vars == <<file, linkVars, readerVars, mainVars, strays>>

Free == { fd \in Fds : file[fd] = "free" }
Lowest(S) == Min(S)

(* Mutant of Inherited: the standard descriptors stay open. *)
InheritedAll == 0..2

(* setup_daemon has closed the standard descriptors. *)
Inherited == {}

(* socket_stream's constructor ran in the start command, where these were  *)
(* open: socket() gave 3. When connect() fails, 3 is closed, but it stays  *)
(* in socket_id.                                                           *)
Init ==
    /\ link \in {"up", "down"}
    /\ socket_id \in IF link = "up" THEN {3} ELSE {3, NoFd}
    /\ file = [fd \in Fds |-> IF fd \in Inherited THEN "terminal"
                              ELSE IF fd = 3 /\ link = "up" THEN "collector" ELSE "free"]
    /\ sent = 0 /\ wire = <<>> /\ got = 0
    /\ reader = "new" /\ trace_fd = NoFd
    /\ main = "get_pids" /\ mine = <<>> /\ leaks = 0
    /\ server_id = NoFd /\ client_id = NoFd
    /\ late = FALSE /\ strays = {}

-----------------------------------------------------------------------------
(* The sender and the collector *)

(* Mutant of Frame: the length is that of the packet. *)
FrameOfPacketLength(packet) ==
    LET n == Len(packet)
    IN <<(n \div 2^24) % 256, (n \div 2^16) % 256, (n \div 2^8) % 256, n % 256>>
           \o Encode(packet)

(* The length of the text, the highest byte first, and the text. *)
Frame(packet) ==
    LET n == Len(Encode(packet))
    IN <<(n \div 2^24) % 256, (n \div 2^16) % 256, (n \div 2^8) % 256, n % 256>>
           \o Encode(packet)

Target == IF socket_id \in Fds THEN file[socket_id] ELSE "free"

(* Mutant of Dispatch: a send() that fails closes the socket again. *)
DispatchAndCleanUp ==
    /\ sent < Len(Packets)
    /\ sent' = sent + 1
    /\ wire' = IF link = "up" THEN wire \o Frame(Packets[sent + 1]) ELSE wire
    /\ strays' = IF Target \in Clients THEN strays \cup {<<Target, "packet">>} ELSE strays
    /\ file' = IF link = "up" \/ socket_id = NoFd THEN file
               ELSE [file EXCEPT ![socket_id] = "free"]
    /\ UNCHANGED <<socket_id, link, got, readerVars, mainVars>>

(* dispatch: the frame goes to whatever socket_id is open on. The result   *)
(* of send() is not looked at, and nobody connects again.                  *)
Dispatch ==
    /\ sent < Len(Packets)
    /\ sent' = sent + 1
    /\ wire' = IF link = "up" THEN wire \o Frame(Packets[sent + 1]) ELSE wire
    /\ strays' = IF Target \in Clients THEN strays \cup {<<Target, "packet">>} ELSE strays
    /\ UNCHANGED <<file, socket_id, link, got, readerVars, mainVars>>

Receive ==
    /\ link = "up"
    /\ got' \in (got + 1)..Len(wire)
    /\ UNCHANGED <<file, socket_id, link, sent, wire, readerVars, mainVars, strays>>

(* The connection breaks, with what was under way on it. *)
Break ==
    /\ link = "up"
    /\ link' = "down"
    /\ wire' = SubSeq(wire, 1, got)
    /\ UNCHANGED <<file, socket_id, sent, got, readerVars, mainVars, strays>>

(* The packets the collector finds in the first got bytes.                 *)
Received ==
    LET from[i \in 1..(got + 1)] ==
            LET n == ((wire[i] * 256 + wire[i + 1]) * 256 + wire[i + 2]) * 256 + wire[i + 3]
            IN IF i + 3 > got \/ i + 3 + n > got THEN <<>>
               ELSE <<Decode(SubSeq(wire, i + 4, i + 3 + n))>> \o from[i + 4 + n]
    IN from[1]

-----------------------------------------------------------------------------
(* The reader *)

(* trace_pipe is opened, which may fail and then never ends, ... *)
OpenTrace ==
    /\ reader = "new"
    /\ reader' = "reading"
    /\ \/ /\ Free # {}
          /\ trace_fd' = Lowest(Free)
          /\ file' = [file EXCEPT ![trace_fd'] = "trace_pipe"]
          /\ late' = (trace_fd' \in {server_id, client_id})
       \/ UNCHANGED <<trace_fd, file, late>>
    /\ UNCHANGED <<linkVars, mainVars, strays>>

(* ... read to its end, of which a nullptr tells the others, ... *)
EndTrace ==
    /\ reader = "reading" /\ trace_fd # NoFd
    /\ reader' = "ended"
    /\ UNCHANGED <<file, linkVars, trace_fd, late, mainVars, strays>>

(* ... and closed when the reader returns. *)
CloseTrace ==
    /\ reader = "ended"
    /\ reader' = "returned"
    /\ trace_fd' = NoFd
    /\ file' = [file EXCEPT ![trace_fd] = "free"]
    /\ UNCHANGED <<linkVars, late, mainVars, strays>>

-----------------------------------------------------------------------------
(* The main thread *)

(* A descriptor is opened on what, ... *)
Opens(from, what, to) ==
    /\ main = from /\ Free # {}
    /\ main' = to
    /\ mine' = Append(mine, Lowest(Free))
    /\ file' = [file EXCEPT ![Lowest(Free)] = what]
    /\ UNCHANGED <<linkVars, reader, trace_fd, leaks, strays>>

(* ... and all but the first n are closed. *)
ClosesAllBut(n, from, to) ==
    /\ main = from
    /\ main' = to
    /\ mine' = SubSeq(mine, 1, n)
    /\ file' = [fd \in Fds |-> IF \E i \in (n + 1)..Len(mine) : mine[i] = fd THEN "free"
                               ELSE file[fd]]
    /\ UNCHANGED <<linkVars, readerVars, idVars, leaks, strays>>

(* A file that is opened, whatever the server's numbers are. *)
OpensFile(from, to) == Opens(from, "file", to) /\ UNCHANGED <<late, idVars>>

(* get_pids: popen() makes a pipe and keeps the end it reads from.         *)
Popen == OpensFile("get_pids", "popen") \/ OpensFile("popen", "fork")
         \/ ClosesAllBut(1, "fork", "ls") \/ ClosesAllBut(0, "ls", "add_filter")

(* add_filter and set_trace write to a file each; at the end set_trace and *)
(* clear_filters write to four, one after the other (any number, here).    *)
WriteTo == OpensFile("add_filter", "filter") \/ ClosesAllBut(0, "filter", "set_trace")
           \/ OpensFile("set_trace", "tracing_on")
           \/ ClosesAllBut(0, "tracing_on", "socket")
           \/ OpensFile("clear", "clearing") \/ ClosesAllBut(0, "clearing", "clear")

(* listen(): a socket, and the connection of a client. *)
Listen == \/ /\ Opens("socket", "socket", "bind")
             /\ server_id' = Lowest(Free)
             /\ UNCHANGED <<late, client_id>>
          \/ /\ \E c \in Clients : Opens("bind", c, "serve")
             /\ client_id' = Lowest(Free) /\ late' = FALSE
             /\ UNCHANGED server_id

(* bind() or accept() fails and the socket is not closed. *)
Leak ==
    /\ main = "bind" /\ leaks < MaxLeaks
    /\ main' = "socket"
    /\ mine' = <<>>
    /\ leaks' = leaks + 1
    /\ client_id' \in {client_id, NoFd}
    /\ UNCHANGED <<file, linkVars, readerVars, server_id, strays>>

(* ::close(fd), whoever has fd by now: main keeps the first n of its own.  *)
ClosesNumber(fd, n, from, to) ==
    /\ main = from
    /\ main' = to
    /\ mine' = SubSeq(mine, 1, n)
    /\ file' = [file EXCEPT ![fd] = "free"]
    /\ UNCHANGED <<linkVars, readerVars, idVars, leaks, strays>>

(* Mutant of Close: the listening socket stays open. *)
CloseClientOnly == ClosesNumber(client_id, 1, "serve", "left")

(* The client has gone: both numbers are closed ... *)
Close == ClosesNumber(client_id, 1, "serve", "leave") \/ ClosesNumber(server_id, 0, "leave", "left")

(* ... and listen() is called again.                                       *)
Return ==
    /\ main = "left"
    /\ main' = "socket"
    /\ UNCHANGED <<file, linkVars, readerVars, mine, idVars, leaks, strays>>

(* The sender sets finished after the last packet, told by the nullptr.    *)
Finished == sent = Len(Packets) /\ reader \in {"ended", "returned"}

(* The loops end with a client or without one: the summary is sent to      *)
(* client_id, and both numbers are closed, for the second time if the      *)
(* client had gone; what the filters were is written, and the sensor's     *)
(* destructor closes both once more.                                       *)
End ==
    \/ Finished /\ ClosesNumber(client_id, 1, "serve", "end")
    \/ ClosesNumber(server_id, 0, "end", "clear")
    \/ Finished /\ ClosesNumber(client_id, 0, "left", "again")
    \/ ClosesNumber(server_id, 0, "again", "clear")
    \/ ClosesNumber(client_id, 0, "clear", "destroy")
    \/ ClosesNumber(server_id, 0, "destroy", "exit")

(* The buffer of the standard output is full: what printf and cout left in *)
(* it is written to descriptor 1.                                          *)
Text ==
    /\ file[1] \in Clients
    /\ strays' = strays \cup {<<file[1], "text">>}
    /\ UNCHANGED <<file, linkVars, readerVars, mainVars>>

-----------------------------------------------------------------------------
Next == \/ Dispatch \/ Receive \/ Break
        \/ OpenTrace \/ EndTrace \/ CloseTrace
        \/ Popen \/ WriteTo \/ Listen \/ Leak \/ Close \/ Return \/ End \/ Text

Spec == Init /\ [][Next]_vars
-----------------------------------------------------------------------------
(* Properties *)

(* linux_server_socket.h:115-116, linux_socket.h:64: types, and the main   *)
(* thread has never more than two descriptors open.                        *)
TypeOK ==
    /\ file \in [Fds -> Kinds \cup Clients]
    /\ socket_id \in {3, NoFd} /\ link \in {"up", "down"}
    /\ sent \in 0..Len(Packets) /\ wire \in Seq(0..255) /\ got \in 0..Len(wire)
    /\ reader \in {"new", "reading", "ended", "returned"}
    /\ trace_fd \in Fds \cup {NoFd} /\ late \in BOOLEAN
    /\ main \in {"get_pids", "popen", "fork", "ls", "add_filter", "filter", "set_trace",
                 "tracing_on", "socket", "bind", "serve", "leave", "left",
                 "end", "again", "clear", "clearing", "destroy", "exit"}
    /\ mine \in Seq(Fds) /\ Len(mine) <= 2
    /\ server_id \in Fds \cup {NoFd} /\ client_id \in Fds \cup {NoFd}
    /\ leaks \in 0..MaxLeaks
    /\ strays \subseteq Clients \X {"packet", "text"}

(* multithreaded_sensor.h:101, 109-110, linux_server_socket.h:85-88,       *)
(* 101-113: the server closes its two numbers up to three times and sends  *)
(* the summary to one of them, without looking whether they are open. None *)
(* of this ever reaches the connection to the collector; and no thread     *)
(* finds a descriptor it has open closed or given to another, unless the   *)
(* reader has opened trace_pipe after a client had gone, at a number the   *)
(* server still keeps.                                                     *)
NobodyLosesADescriptor ==
    /\ link = "up" => file[socket_id] = "collector"
    /\ \A fd \in Fds : file[fd] = "collector" => fd # server_id /\ fd # client_id
    /\ ~late => /\ trace_fd # NoFd => file[trace_fd] = "trace_pipe"
                /\ \A i \in 1..Len(mine) : file[mine[i]] \in {"file", "socket"} \cup Clients

(* socket_stream.h:55-71, encoding.h, linux_socket.h:40-42: the collector  *)
(* finds in what has reached it the packets in the order of dispatch, none *)
(* missing and none torn but those after a break; all of them as long as   *)
(* the connection holds.                                                   *)
CollectorReadsThePackets ==
    /\ Len(Received) <= sent
    /\ Received = SubSeq(Packets, 1, Len(Received))
    /\ link = "up" /\ got = Len(wire) => Len(Received) = sent

(* linux_socket.h:30-34, linux_daemon.h:48-50, linux_server_socket.h:60-64 *)
(* A status client is sent no packet, although socket_id may name a        *)
(* descriptor that was closed, unless listen() has leaked a socket and the *)
(* client's connection came to lie there. And descriptor 1, where the text *)
(* meant for the standard output goes, is never a client's as long as the  *)
(* reader has opened trace_pipe first, which gave it 0.                    *)
ClientsGetOnlyStatuses ==
    /\ leaks = 0 => \A c \in Clients : <<c, "packet">> \notin strays
    /\ trace_fd = 0 => file[1] \notin Clients
=============================================================================
