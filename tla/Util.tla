-------------------------------- MODULE Util --------------------------------
(***************************************************************************)
(* The socket helpers of net/Util.cpp: readn and writen on a std::string,  *)
(* called again and again on a non-blocking connection, and the set-up of  *)
(* the socket in the constructors of Server and of Client.                 *)
(*                                                                         *)
(* A step is one read() or write(); EINTR repeats the call and is a        *)
(* stuttering step.  The bytes of each direction are 1, 2, 3, ...          *)
(***************************************************************************)
EXTENDS Integers, Sequences

CONSTANTS
  MAX_BUFF,    \* what one read() asks for
  SendRoom,    \* bytes the socket takes before it answers EAGAIN
  StreamLen,   \* bound: bytes of each direction
  Ports        \* the ports Server is asked to listen on

ASSUME UtilAssumption ==
  /\ MAX_BUFF \in Nat \ {0} /\ SendRoom \in Nat \ {0} /\ StreamLen \in Nat
  /\ Ports \subseteq Int

VARIABLES
  call,        \* the helper that runs: "none", "readn_zero", "readn", "writen"
  readSum,     \* its local readSum or writeSum
  rest,        \* writen: the bytes from `ptr' on
  inBuffer,    \* the caller's string, and
  zero,        \*   its flag
  sbuff,       \* the string to be written
  queued,      \* how many bytes the caller has put into it so far
  failed,      \* a helper has returned -1
  socketIn,    \* bytes in the receive buffer
  socketOut,   \* bytes in the send buffer
  peerGot,     \* bytes that have left for the peer
  link,        \* "none", "up", "eof" (the peer has shut down) or "broken"
  server       \* whether Server has been constructed, the port it was given
               \*   and the port its socket is bound to

receiving == <<inBuffer, zero, socketIn>>
sending == <<rest, sbuff, queued, socketOut, peerGot>>
utilVars == <<call, readSum, receiving, sending, failed, link, server>>

Numbers(a, b) == [i \in 1 .. b - a + 1 |-> a + i - 1]
Lesser(a, b) == IF a < b THEN a ELSE b

UtilInit ==
  /\ call = "none" /\ readSum = 0 /\ rest = <<>> /\ failed = FALSE
  /\ inBuffer = <<>> /\ zero = FALSE /\ socketIn = <<>>
  /\ sbuff = <<>> /\ queued = 0 /\ socketOut = <<>> /\ peerGot = <<>>
  /\ link = "none" /\ server = [state |-> "none", asked |-> -1, port |-> -1]

-----------------------------------------------------------------------------
(* The peer and the network. *)

Arrived == Len(inBuffer) + Len(socketIn)

PeerSends ==
  /\ link = "up" /\ Arrived < StreamLen
  /\ \E n \in 1 .. StreamLen - Arrived :
       socketIn' = socketIn \o Numbers(Arrived + 1, Arrived + n)
  /\ UNCHANGED <<call, readSum, inBuffer, zero, sending, failed, link, server>>

PeerTakes ==
  /\ link # "broken"
  /\ socketOut # <<>>
  /\ peerGot' = peerGot \o socketOut
  /\ socketOut' = <<>>
  /\ UNCHANGED <<call, readSum, receiving, rest, sbuff, queued, failed, link, server>>

LinkEnds ==
  /\ link = "up"
  /\ link' \in {"eof", "broken"}
  /\ UNCHANGED <<call, readSum, receiving, sending, failed, server>>

-----------------------------------------------------------------------------
(* readn(fd, inBuffer, zero) and readn(fd, inBuffer). *)

BeginRead ==
  /\ call = "none" /\ link # "none" /\ ~failed
  /\ call' \in {"readn_zero", "readn"}
  /\ readSum' = 0
  /\ UNCHANGED <<receiving, sending, failed, link, server>>

ReadBytes ==
  LET n == Lesser(MAX_BUFF, Len(socketIn))
  IN /\ n > 0 /\ link # "broken"
     /\ inBuffer' = inBuffer \o SubSeq(socketIn, 1, n)
     /\ socketIn' = SubSeq(socketIn, n + 1, Len(socketIn))
     /\ readSum' = readSum + n
     /\ UNCHANGED <<call, zero, failed>>

ReadEAGAIN ==
  /\ socketIn = <<>> /\ link = "up"
  /\ call' = "none"
  /\ UNCHANGED <<readSum, receiving, failed>>

ReadError ==
  /\ link = "broken"
  /\ call' = "none" /\ failed' = TRUE
  /\ UNCHANGED <<readSum, receiving>>

AtEnd == socketIn = <<>> /\ link = "eof"

readn_zero ==
  /\ call = "readn_zero"
  /\ \/ ReadBytes \/ ReadEAGAIN \/ ReadError
     \/ AtEnd /\ call' = "none" /\ zero' = TRUE
        /\ UNCHANGED <<readSum, inBuffer, socketIn, failed>>
  /\ UNCHANGED <<sending, link, server>>

readn ==
  /\ call = "readn"
  /\ \/ ReadBytes \/ ReadEAGAIN \/ ReadError
     \/ AtEnd /\ call' = "none" /\ UNCHANGED <<readSum, receiving, failed>>
  /\ UNCHANGED <<sending, link, server>>

-----------------------------------------------------------------------------
(* writen(fd, sbuff). *)

\* The caller adds to what is left of the string and calls writen.
BeginWrite ==
  /\ call = "none" /\ link # "none" /\ ~failed
  /\ \E n \in 0 .. StreamLen - queued :
       /\ sbuff' = sbuff \o Numbers(queued + 1, queued + n)
       /\ queued' = queued + n
  /\ rest' = sbuff'
  /\ call' = "writen"
  /\ readSum' = 0
  /\ UNCHANGED <<receiving, socketOut, peerGot, failed, link, server>>

WriteBytes ==
  /\ rest # <<>> /\ link # "broken"
  /\ \E n \in 1 .. Lesser(Len(rest), SendRoom - Len(socketOut)) :
       /\ socketOut' = socketOut \o SubSeq(rest, 1, n)
       /\ rest' = SubSeq(rest, n + 1, Len(rest))
       /\ readSum' = readSum + n
  /\ UNCHANGED <<call, sbuff, failed>>

WriteError ==
  /\ rest # <<>> /\ link = "broken"
  /\ call' = "none" /\ failed' = TRUE
  /\ UNCHANGED <<readSum, rest, sbuff, socketOut>>

WriteEnds == rest = <<>> \/ (link # "broken" /\ Len(socketOut) = SendRoom)

\* Mutant: the string is cleared although the socket did not take all of it.
MutWriten ==
  /\ call = "writen"
  /\ \/ WriteBytes \/ WriteError
     \/ WriteEnds /\ call' = "none" /\ sbuff' = <<>>
        /\ UNCHANGED <<readSum, rest, socketOut, failed>>
  /\ UNCHANGED <<receiving, queued, peerGot, link, server>>

writen ==
  /\ call = "writen"
  /\ \/ WriteBytes \/ WriteError
     \/ /\ WriteEnds /\ call' = "none"
        /\ sbuff' = IF readSum = Len(sbuff) THEN <<>> ELSE SubSeq(sbuff, readSum + 1, Len(sbuff))
        /\ UNCHANGED <<readSum, rest, socketOut, failed>>
  /\ UNCHANGED <<receiving, queued, peerGot, link, server>>

-----------------------------------------------------------------------------
(* The listening socket, and that of a client. *)

\* What can come of it: the call that fails may leave a descriptor behind.
socket_bind_listen(port) ==
  IF port < 0 \/ port > 65535 THEN {[fd |-> -1, port |-> -1]}
  ELSE {[fd |-> -1, port |-> -1], [fd |-> 3, port |-> port]}

setSocketNonBlocking(fd) == IF fd = -1 THEN {-1} ELSE {-1, 0}

\* What the socket of a client is: nobody looks at the result of connect.
socket_connect == {"up", "broken"}

\* The constructor of Client, which aborts or has a socket, connected or not.
ConstructClient ==
  /\ link = "none" /\ server.state = "none"
  /\ link' \in socket_connect
  /\ UNCHANGED <<call, readSum, receiving, sending, failed, server>>

\* The constructor of Server.  The connection of the rest is one it accepts.
ConstructServer ==
  /\ server.state = "none" /\ link = "none"
  /\ \E port \in Ports : \E listener \in socket_bind_listen(port) :
       \E result \in setSocketNonBlocking(listener.fd) :
         /\ server' = [state |-> IF result < 0 THEN "aborted" ELSE "constructed",
                        asked |-> port, port |-> listener.port]
         /\ link' = IF result < 0 THEN "none" ELSE "up"
  /\ UNCHANGED <<call, readSum, receiving, sending, failed>>

-----------------------------------------------------------------------------
UtilNext ==
  \/ PeerSends \/ PeerTakes \/ LinkEnds \/ ConstructServer \/ ConstructClient
  \/ BeginRead \/ readn_zero \/ readn \/ BeginWrite \/ writen

UtilSpec == UtilInit /\ [][UtilNext]_utilVars

-----------------------------------------------------------------------------
(* Properties. *)

\* Every byte that readn has taken from the socket is in inBuffer, in order,
\* over any number of calls, short reads and whatever ends them; an error too.
ReadInOrder == inBuffer = Numbers(1, Len(inBuffer))

\* `zero' tells the caller that nothing will ever come again.
ZeroIsTheEnd == zero => link = "eof" /\ socketIn = <<>>

\* Between calls, what has been sent and what writen has left in the string
\* is what the caller wanted to send: nothing is lost, repeated or reordered
\* when the socket is full.  (After -1 the string still holds what was sent.)
RestIsKept ==
  call # "writen" /\ ~failed =>
    peerGot \o socketOut \o sbuff = Numbers(1, queued)

\* A Server that has been constructed listens on the port it was given (for 0
\* bind finds a free one): every failure of the set-up reaches the test in the
\* constructor.
ListensWhereAsked == server.state = "constructed" => server.port = server.asked

\* The helpers lose nothing and claim nothing that is not so: in the bytes
\* received, in the end they report, in what is left to send and in the socket
\* they set up.
HelpersKeepTheirWord == ReadInOrder /\ ZeroIsTheEnd /\ RestIsKept /\ ListensWhereAsked
=============================================================================
