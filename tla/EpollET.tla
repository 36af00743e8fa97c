------------------------------ MODULE EpollET ------------------------------
(***************************************************************************)
(* The edge-triggered server of Examples/epoll_ET.cpp, which accepts one   *)
(* connection and reads one byte per edge and never answers, with the      *)
(* level-triggered client of Examples/epoll_client.cpp and other clients.  *)
(***************************************************************************)
EXTENDS Integers, Sequences

CONSTANTS
  EpollClients,  \* runs of epoll_client
  OtherClients,  \* any other client of the server
  MaxBytes,      \* bound: bytes a client sends; epoll_client sends 2 or more
  MaxTries       \* bound: the times an epoll_client tries to write

ASSUME MaxBytesAssumption == MaxBytes \in Nat

VARIABLES
  etMain,      \* the server: "start", "deaf" (the set-up failed), "wait", "events"
               \*   or "dead"
  etEvents,    \* the events of the batch that are left: clients, or "listenfd"
  listenEdge,  \* listenfd is on the ready list
  etBacklog,   \* the accept queue
  connState,   \* of each connection: "none", "queued", "registered", "open" (not
               \*   registered), "closed" by the server or "lost" with it
  connEdge,    \* it is on the ready list
  unread,      \* bytes that the server has not read
  ended,       \* "no", "fin" or "reset" by the client
  clientPc,    \* epoll_client: "start", "wait" or "dead"
  asks,        \* what its epoll set asks of sockfd: "out", "in" or "none"
  count,       \* its global count: the writes it has tried
  wrote        \* history: those that succeeded

Cs == EpollClients \cup OtherClients

connVars == <<connState, connEdge, unread, ended>>
clientVars == <<clientPc, asks, count, wrote>>
etVars == <<etMain, etEvents, listenEdge, etBacklog, connVars, clientVars>>

EtInit ==
  /\ etMain = "start" /\ etEvents = {} /\ listenEdge = FALSE /\ etBacklog = <<>>
  /\ connState = [c \in Cs |-> "none"] /\ connEdge = [c \in Cs |-> FALSE]
  /\ unread = [c \in Cs |-> 0] /\ ended = [c \in Cs |-> "no"]
  /\ clientPc = [c \in EpollClients |-> "start"]
  /\ asks = [c \in EpollClients |-> "none"]
  /\ count = [c \in EpollClients |-> 0] /\ wrote = [c \in EpollClients |-> 0]

-----------------------------------------------------------------------------
(* The network: bytes, the end or a reset make an edge. *)

Handshake(c) ==
  /\ connState' = [connState EXCEPT ![c] = "queued"]
  /\ etBacklog' = Append(etBacklog, c)
  /\ listenEdge' = TRUE

Connected(c) == connState[c] \in {"queued", "registered", "open"} /\ ended[c] = "no"

ArriveAt(c, n) ==
  /\ unread' = [unread EXCEPT ![c] = @ + n]
  /\ connEdge' = [connEdge EXCEPT ![c] = connState[c] = "registered"]

\* close() or the end of the process; with bytes unread by the client it would
\* be a reset, but the server sends none.
EndOf(c) ==
  /\ ended' = [ended EXCEPT ![c] = "fin"]
  /\ connEdge' = [connEdge EXCEPT ![c] = connState[c] = "registered"]

OtherConnects(c) ==
  /\ etMain \in {"wait", "events"} /\ connState[c] = "none"
  /\ Handshake(c)
  /\ UNCHANGED <<etMain, etEvents, connEdge, unread, ended, clientVars>>

OtherSends(c) ==
  /\ Connected(c) /\ unread[c] < MaxBytes
  /\ \E n \in 1 .. MaxBytes - unread[c] : ArriveAt(c, n)
  /\ UNCHANGED <<etMain, etEvents, listenEdge, etBacklog, connState, ended, clientVars>>

OtherEnds(c) ==
  /\ Connected(c)
  /\ \/ EndOf(c) /\ UNCHANGED unread
     \/ /\ ended' = [ended EXCEPT ![c] = "reset"]
        /\ unread' = [unread EXCEPT ![c] = 0]
        /\ connEdge' = [connEdge EXCEPT ![c] = connState[c] = "registered"]
  /\ UNCHANGED <<etMain, etEvents, listenEdge, etBacklog, connState, clientVars>>

-----------------------------------------------------------------------------
(* epoll_client. *)

\* EPOLL_CTL_ADD.
add_event(c, events) == asks' = [asks EXCEPT ![c] = events]

\* main and handle_connection up to the loop.  A refused connection goes
\* unnoticed; the socket then reports EPOLLOUT and EPOLLHUP.
ClientStarts(c) ==
  /\ clientPc[c] = "start"
  /\ clientPc' = [clientPc EXCEPT ![c] = "wait"]
  /\ add_event(c, "out")
  /\ IF etMain \in {"wait", "events"} THEN Handshake(c)
     ELSE UNCHANGED <<connState, etBacklog, listenEdge>>
  /\ UNCHANGED <<etMain, etEvents, connEdge, unread, ended, count, wrote>>

modify_event(c) == asks' = [asks EXCEPT ![c] = "in"]

\* The memset of do_write starts at the pointer, not at what it points to, and
\* overwrites the stack: the process dies, or the compiler has left it out.
AfterMemset(c) ==
  \/ UNCHANGED <<clientPc, ended>>
  \/ clientPc' = [clientPc EXCEPT ![c] = "dead"] /\ ended' = [ended EXCEPT ![c] = "fin"]

\* What do_write does before the write, of "_" and the count after whatever the
\* buffer held.
TryWrite(c) ==
  /\ clientPc[c] = "wait" /\ asks[c] = "out" /\ count[c] < MaxTries
  /\ count' = [count EXCEPT ![c] = @ + 1]
  /\ UNCHANGED <<etMain, etEvents, listenEdge, etBacklog, connState>>

\* do_write: the write succeeds (the server may be gone without the client's
\* knowing), and the client waits for an answer; or it fails with an error, like
\* ECONNRESET, which is only reported.  EAGAIN does not come: the socket blocks.
do_write(c) ==
  /\ TryWrite(c)
  /\ \/ /\ \/ Connected(c) /\ (\E n \in 2 .. MaxBytes : ArriveAt(c, n))
           \/ connState[c] = "lost" /\ UNCHANGED <<unread, connEdge>>
        /\ wrote' = [wrote EXCEPT ![c] = @ + 1]
        /\ modify_event(c)
     \/ connState[c] = "lost" /\ UNCHANGED <<unread, connEdge, wrote, asks>>
  /\ AfterMemset(c)

\* On a socket that is not connected, or is known not to be any more and has
\* reported it, the write raises SIGPIPE.
WriteUnconnected(c) ==
  /\ connState[c] \in {"none", "lost"}
  /\ TryWrite(c)
  /\ clientPc' = [clientPc EXCEPT ![c] = "dead"]
  /\ UNCHANGED <<connEdge, unread, ended, asks, wrote>>

\* do_read: the end or an error, and close(fd), which leaves the epoll set
\* empty; the branch that writes again needs a byte from the server.
do_read(c) ==
  /\ clientPc[c] = "wait" /\ asks[c] = "in" /\ connState[c] = "lost"
  /\ asks' = [asks EXCEPT ![c] = "none"]
  /\ UNCHANGED <<etMain, etEvents, listenEdge, etBacklog, connVars, clientPc, count, wrote>>

\* One event of the only descriptor.
handle_events(c) == do_read(c) \/ do_write(c) \/ WriteUnconnected(c)

Killed(c) ==
  /\ clientPc[c] = "wait"
  /\ clientPc' = [clientPc EXCEPT ![c] = "dead"]
  /\ IF Connected(c) THEN EndOf(c) ELSE UNCHANGED <<ended, connEdge>>
  /\ UNCHANGED <<etMain, etEvents, listenEdge, etBacklog, connState, unread, asks, count, wrote>>

-----------------------------------------------------------------------------
(* The server. *)

\* main up to the loop: a call that fails is reported and the rest goes on.
EtSetup ==
  /\ etMain = "start"
  /\ etMain' \in {"wait", "deaf"}
  /\ UNCHANGED <<etEvents, listenEdge, etBacklog, connVars, clientVars>>

\* epoll_wait.
EtWait ==
  LET found == {c \in Cs : connEdge[c]} \cup (IF listenEdge THEN {"listenfd"} ELSE {})
  IN /\ etMain = "wait" /\ found # {}
     /\ etMain' = "events"
     /\ etEvents' = found
     /\ listenEdge' = FALSE
     /\ connEdge' = [c \in Cs |-> FALSE]
     /\ UNCHANGED <<etBacklog, connState, unread, ended, clientVars>>

\* One connection per edge of listenfd; the connection is registered, which
\* reports what has arrived, or EPOLL_CTL_ADD fails, or accept does.
EtAccept ==
  /\ etMain = "events" /\ "listenfd" \in etEvents
  /\ etEvents' = etEvents \ {"listenfd"}
  /\ \/ /\ etBacklog # <<>>
        /\ LET c == Head(etBacklog)
           IN \E s \in {"registered", "open"} :
                /\ connState' = [connState EXCEPT ![c] = s]
                /\ connEdge' = [connEdge EXCEPT ![c] =
                                  s = "registered" /\ (unread[c] > 0 \/ ended[c] # "no")]
        /\ etBacklog' = Tail(etBacklog)
     \/ UNCHANGED <<etBacklog, connState, connEdge>>
  /\ UNCHANGED <<etMain, listenEdge, unread, ended, clientVars>>

\* Mutant: the end of the connection is acted on before the bytes that are left.
MutReadOne(c) ==
  IF ended[c] = "fin"
    THEN connState' = [connState EXCEPT ![c] = "closed"] /\ UNCHANGED unread
    ELSE unread' = [unread EXCEPT ![c] = IF @ > 0 THEN @ - 1 ELSE 0] /\ UNCHANGED connState

\* One byte; or the end, and close(fd); or an error, which is reported.
ReadOne(c) ==
  \/ unread[c] > 0 /\ unread' = [unread EXCEPT ![c] = @ - 1] /\ UNCHANGED connState
  \/ /\ unread[c] = 0 /\ ended[c] = "fin"
     /\ connState' = [connState EXCEPT ![c] = "closed"] /\ UNCHANGED unread
  \/ unread[c] = 0 /\ ended[c] # "fin" /\ UNCHANGED <<unread, connState>>

EtRead(c) ==
  /\ etMain = "events" /\ c \in etEvents
  /\ etEvents' = etEvents \ {c}
  /\ ReadOne(c)
  /\ UNCHANGED <<etMain, listenEdge, etBacklog, connEdge, ended, clientVars>>

EtBatchDone ==
  /\ etMain = "events" /\ etEvents = {}
  /\ etMain' = "wait"
  /\ UNCHANGED <<etEvents, listenEdge, etBacklog, connVars, clientVars>>

\* Somebody stops the server.
EtKilled ==
  /\ etMain \in {"wait", "events"}
  /\ etMain' = "dead" /\ etEvents' = {} /\ listenEdge' = FALSE /\ etBacklog' = <<>>
  /\ connState' = [c \in Cs |-> IF connState[c] \in {"none", "closed"} THEN connState[c]
                                ELSE "lost"]
  /\ connEdge' = [c \in Cs |-> FALSE]
  /\ UNCHANGED <<unread, ended, clientVars>>

-----------------------------------------------------------------------------
EtNext ==
  \/ EtSetup \/ EtKilled \/ EtWait \/ EtAccept \/ EtBatchDone \/ \E c \in Cs : EtRead(c)
  \/ \E c \in EpollClients :
       ClientStarts(c) \/ handle_events(c) \/ Killed(c)
  \/ \E c \in OtherClients : OtherConnects(c) \/ OtherSends(c) \/ OtherEnds(c)

EtSpec == EtInit /\ [][EtNext]_etVars

-----------------------------------------------------------------------------
(* Properties. *)

\* The server closes a connection only when its client has sent the last byte
\* and the server has read it: an edge that comes with bytes still unread does
\* not end it.
ClosedIsReadOut ==
  \A c \in Cs : connState[c] = "closed" => ended[c] # "no" /\ unread[c] = 0

\* epoll_client gets one message out, and waits for an answer, which this server
\* never sends.  It tries again only once the server has gone: no message that
\* the server reads carries a number other than 1.
WritesOnce ==
  \A c \in EpollClients :
    /\ wrote[c] <= 1
    /\ count[c] > 1 => connState[c] = "lost" /\ etMain = "dead"

\* Neither end acts on an event that says less than it seems to.
EventsMeanWhatTheySay == ClosedIsReadOut /\ WritesOnce
=============================================================================
