-------------------------------- MODULE Echo --------------------------------
(***************************************************************************)
(* The echo protocol end to end: clients (echoClient.cpp, net/Client.cpp)  *)
(* that send one message each, a worker reactor that runs echoServerRead   *)
(* (echoServer.cpp) on their connections, and readn and writen of          *)
(* net/Util.cpp on non-blocking, edge-triggered sockets.                   *)
(*                                                                         *)
(* A step is one read() or write(): bytes arrive between any two of them.  *)
(* EINTR repeats the call and is a stuttering step.                        *)
(***************************************************************************)
EXTENDS Integers, Sequences

CONSTANTS
  Clients,    \* one connection each, registered with the worker
  Message,    \* what each client sends: a length and that many bytes
  SndBuf,     \* bytes a socket can have on the way (bound)
  Segmented,  \* TRUE: TCP may deliver a message in pieces
  Server      \* the worker reactor

MAX_SIZE == 20   \* the bytes of data that echoContent has room for

ASSUME MessageAssumption ==
  /\ Server \notin Clients /\ SndBuf \in Nat
  /\ \A c \in Clients :
       /\ Message[c] \in Seq(Nat) /\ Message[c] # <<>>
       /\ Len(Message[c]) = Message[c][1] + 1
       /\ Message[c][1] <= MAX_SIZE /\ Len(Message[c]) <= SndBuf

Socks == Clients \X {"client", "server"}
Peer(s) == <<s[1], IF s[2] = "client" THEN "server" ELSE "client">>
Handlers == Clients \cup {Server}

VARIABLES
  wire,    \* of each socket: bytes under way to it
  rcv,     \*   its receive buffer
  edge,    \*   whether it is on its ready list
  closed,  \* the clients that have closed
  active,  \* of each loop: the sockets fetched by epoll_wait, not dispatched
  pc,      \*   where its message handler is
  sock,    \*   the socket it works on
  size,    \*   the handler's `size'
  buffer,  \*   the bytes it has read into `buffer'
  out,     \*   what writen has left to write
  heard    \* the message each client has read

vars == <<wire, rcv, edge, closed, active, pc, sock, size, buffer, out, heard>>

sockets == <<wire, rcv, edge>>
locals == <<sock, size, buffer, out>>

Bytes == 0 .. 127
Loop(s) == IF s[2] = "client" THEN s[1] ELSE Server

TypeOK ==
  /\ wire \in [Socks -> Seq(Bytes)]
  /\ \A s \in Socks : Len(wire[s]) <= SndBuf
  /\ rcv \in [Socks -> Seq(Bytes)]
  /\ edge \in [Socks -> BOOLEAN]
  /\ closed \subseteq Clients
  /\ active \in [Handlers -> SUBSET Socks]
  /\ pc \in [Handlers -> {"poll", "size", "body", "write"}]
  /\ sock \in [Handlers -> Socks]
  /\ size \in [Handlers -> Bytes]
  /\ buffer \in [Handlers -> Seq(Bytes)]
  /\ \A h \in Handlers : Len(buffer[h]) <= size[h]
  /\ out \in [Handlers -> Seq(Bytes)]
  /\ heard \in [Clients -> Seq(Bytes)]

\* Client::start: the channel is registered and the connection callback is
\* about to write the client's message.
Init ==
  /\ wire = [s \in Socks |-> <<>>]
  /\ rcv = [s \in Socks |-> <<>>]
  /\ edge = [s \in Socks |-> FALSE]
  /\ closed = {}
  /\ active = [h \in Handlers |-> {}]
  /\ pc = [h \in Handlers |-> IF h = Server THEN "poll" ELSE "write"]
  /\ \E first \in Clients :
       sock = [h \in Handlers |-> IF h = Server THEN <<first, "server">>
                                                ELSE <<h, "client">>]
  /\ size = [h \in Handlers |-> 0]
  /\ buffer = [h \in Handlers |-> <<>>]
  /\ out = [h \in Handlers |-> IF h = Server THEN <<>> ELSE Message[h]]
  /\ heard = [c \in Clients |-> <<>>]

-----------------------------------------------------------------------------
(* TCP and the kernel. *)

\* Bytes arrive at socket s: all that are under way, or a part of them.
Deliver(s) ==
  \E n \in 1 .. Len(wire[s]) :
    /\ Segmented \/ n = Len(wire[s])
    /\ rcv' = [rcv EXCEPT ![s] = @ \o SubSeq(wire[s], 1, n)]
    /\ wire' = [wire EXCEPT ![s] = SubSeq(@, n + 1, Len(@))]
    /\ edge' = [edge EXCEPT ![s] = TRUE]
    /\ UNCHANGED <<closed, active, pc, locals, heard>>

\* A client closes its descriptor, ~Client, and will not run any more: an
\* edge at the server.
Close(c) ==
  /\ c \notin closed
  /\ pc[c] = "poll"
  /\ closed' = closed \cup {c}
  /\ edge' = [edge EXCEPT ![<<c, "server">>] = TRUE]
  /\ UNCHANGED <<wire, rcv, active, pc, locals, heard>>

\* The peer has closed and everything it sent has arrived.
AtEof(s) == s[2] = "server" /\ s[1] \in closed /\ wire[s] = <<>>

-----------------------------------------------------------------------------
(* A reactor and its message handler, echoServerRead or echoClientRead. *)

\* Mutant: only one of the events of epoll_wait is looked at.
MutPoll(h) ==
  LET found == {s \in Socks : Loop(s) = h /\ edge[s] /\ (rcv[s] # <<>> \/ AtEof(s))}
  IN /\ pc[h] = "poll"
     /\ active[h] = {}
     /\ h \notin closed
     /\ \E s \in found : active' = [active EXCEPT ![h] = {s}]
     /\ edge' = [s \in Socks |-> edge[s] /\ s \notin found]
     /\ UNCHANGED <<wire, rcv, closed, pc, locals, heard>>

\* epoll_wait: it reports the sockets on the ready list that can be read.
Poll(h) ==
  LET found == {s \in Socks : Loop(s) = h /\ edge[s] /\ (rcv[s] # <<>> \/ AtEof(s))}
  IN /\ pc[h] = "poll"
     /\ active[h] = {}
     /\ h \notin closed
     /\ found # {}
     /\ active' = [active EXCEPT ![h] = found]
     /\ edge' = [s \in Socks |-> edge[s] /\ s \notin found]
     /\ UNCHANGED <<wire, rcv, closed, pc, locals, heard>>

\* Channel::handleEvents calls the message handler: size = 0.
Dispatch(h) ==
  \E s \in active[h] :
    /\ pc[h] = "poll"
    /\ h \notin closed
    /\ active' = [active EXCEPT ![h] = @ \ {s}]
    /\ pc' = [pc EXCEPT ![h] = "size"]
    /\ sock' = [sock EXCEPT ![h] = s]
    /\ size' = [size EXCEPT ![h] = 0]
    /\ buffer' = [buffer EXCEPT ![h] = <<>>]
    /\ UNCHANGED <<sockets, closed, out, heard>>

\* readn(fd, &size, 1): a byte, or none (EAGAIN, end of file).
ReadSize(h) ==
  LET s == sock[h]
  IN /\ pc[h] = "size"
     /\ pc' = [pc EXCEPT ![h] = "body"]
     /\ IF rcv[s] = <<>>
          THEN UNCHANGED <<rcv, size>>
          ELSE /\ size' = [size EXCEPT ![h] = Head(rcv[s])]
               /\ rcv' = [rcv EXCEPT ![s] = Tail(@)]
     /\ UNCHANGED <<wire, edge, closed, active, sock, buffer, out, heard>>

\* readn(fd, buffer, size): one read() that returns bytes.
ReadBody(h) ==
  LET s == sock[h]
      nleft == size[h] - Len(buffer[h])
      n == IF nleft < Len(rcv[s]) THEN nleft ELSE Len(rcv[s])
  IN /\ pc[h] = "body"
     /\ n > 0
     /\ buffer' = [buffer EXCEPT ![h] = @ \o SubSeq(rcv[s], 1, n)]
     /\ rcv' = [rcv EXCEPT ![s] = SubSeq(@, n + 1, Len(@))]
     /\ UNCHANGED <<wire, edge, closed, active, pc, sock, size, out, heard>>

\* The message as the handler has it: the length, the bytes read and the
\* zeros of memset.
Content(h) ==
  <<size[h]>> \o buffer[h] \o [i \in 1 .. size[h] - Len(buffer[h]) |-> 0]

\* Mutant: the length byte is not sent back.
MutReadReturns(h) ==
  /\ pc[h] = "body"
  /\ Len(buffer[h]) = size[h] \/ rcv[sock[h]] = <<>>
  /\ IF h = Server
       THEN /\ out' = [out EXCEPT ![h] = Tail(Content(h))]
            /\ pc' = [pc EXCEPT ![h] = "write"]
            /\ UNCHANGED heard
       ELSE /\ heard' = [heard EXCEPT ![h] = @ \o Content(h)]
            /\ pc' = [pc EXCEPT ![h] = "poll"]
            /\ UNCHANGED out
  /\ UNCHANGED <<sockets, closed, active, sock, size, buffer>>

\* readn returns, with all bytes or short (EAGAIN, end of file): the server
\* goes on to write the message back, the client is done.
ReadReturns(h) ==
  /\ pc[h] = "body"
  /\ Len(buffer[h]) = size[h] \/ rcv[sock[h]] = <<>>
  /\ IF h = Server
       THEN /\ out' = [out EXCEPT ![h] = Content(h)]
            /\ pc' = [pc EXCEPT ![h] = "write"]
            /\ UNCHANGED heard
       ELSE /\ heard' = [heard EXCEPT ![h] = @ \o Content(h)]
            /\ pc' = [pc EXCEPT ![h] = "poll"]
            /\ UNCHANGED out
  /\ UNCHANGED <<sockets, closed, active, sock, size, buffer>>

\* writen: a write() that takes as many bytes as the socket has room for.
\* The kernel throws away what is sent to a client that has closed.
Write(h) ==
  LET p == Peer(sock[h])
      room == SndBuf - Len(wire[p])
      n == IF Len(out[h]) < room THEN Len(out[h]) ELSE room
  IN /\ pc[h] = "write"
     /\ n > 0
     /\ out' = [out EXCEPT ![h] = SubSeq(@, n + 1, Len(@))]
     /\ wire' = IF h = Server /\ p[1] \in closed THEN wire
                ELSE [wire EXCEPT ![p] = @ \o SubSeq(out[h], 1, n)]
     /\ UNCHANGED <<rcv, edge, closed, active, pc, sock, size, buffer, heard>>

\* writen returns: all is written, or EAGAIN and the rest is forgotten.
WriteReturns(h) ==
  /\ pc[h] = "write"
  /\ out[h] = <<>> \/ Len(wire[Peer(sock[h])]) = SndBuf
  /\ out' = [out EXCEPT ![h] = <<>>]
  /\ pc' = [pc EXCEPT ![h] = "poll"]
  /\ UNCHANGED <<sockets, closed, active, sock, size, buffer, heard>>

-----------------------------------------------------------------------------
HandlerStep(h) ==
  \/ Poll(h) \/ Dispatch(h) \/ ReadSize(h) \/ ReadBody(h) \/ ReadReturns(h)
  \/ Write(h) \/ WriteReturns(h)

Next ==
  \/ \E h \in Handlers : HandlerStep(h)
  \/ \E s \in Socks : Deliver(s)
  \/ \E c \in Clients : Close(c)

SafeSpec == Init /\ [][Next]_vars

\* TCP delivers and the loops run; nobody has to close.
Spec ==
  /\ SafeSpec
  /\ \A h \in Handlers : WF_vars(HandlerStep(h))
  /\ \A s \in Socks : WF_vars(Deliver(s))

-----------------------------------------------------------------------------
(* Properties. *)

\* What client c has got back so far and what is on its way, in order.
Echoed(c) ==
  LET s == <<c, "client">>
      reading == IF pc[c] = "body" THEN <<size[c]>> \o buffer[c] ELSE <<>>
      writing == IF pc[Server] = "write" /\ sock[Server] = Peer(s)
                   THEN out[Server] ELSE <<>>
  IN heard[c] \o reading \o rcv[s] \o wire[s] \o writing

\* echoServerRead sends each client its own message back, whole and once:
\* what comes back is nothing yet, or exactly what the client sent.
EchoIntact == \A c \in Clients \ closed : Echoed(c) \in {<<>>, Message[c]}

\* Every client that has sent its message and stays gets it back.
EchoReturns ==
  \A c \in Clients : (pc[c] = "poll") ~> (heard[c] = Message[c] \/ c \in closed)
=============================================================================
