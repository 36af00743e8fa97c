---------------------------- MODULE SimpleEpoll ----------------------------
(***************************************************************************)
(* The level-triggered server of Examples/SimpleEpoll_1.cpp: it reads a    *)
(* request, waits until it can write, answers and closes the connection.   *)
(* Each registration in the epoll set owns a block of memory, fd_buf.      *)
(***************************************************************************)
EXTENDS Integers

CONSTANTS
  Peers,       \* the clients, each of which connects at most once (bound)
  ListenSock,  \* the listening socket
  Requests,    \* bound: requests a client sends
  BufSize      \* sizeof(fdp->buf), in requests

ASSUME ListenSockAssumption == ListenSock \notin Peers
ASSUME BufSizeAssumption == BufSize \in Nat \ {0}

VARIABLES
  seMain,      \* "start", "wait", "events" or "exit"
  evts,        \* the events of the batch that are left: <<socket, mask>>
  fd_buf,      \* the allocated blocks, by socket
  interest,    \* what the epoll set asks of each socket; "none": not in it
  peer,        \* "none", "pending" (not accepted), "open", "closed" or "reset"
  arrived,     \* unread bytes, in requests
  requests,    \* how many requests the client has sent
  answered,    \* how many answers the client has got
  unwatched,   \* history: the sockets that epoll_ctl did not add
  cutOff       \* history: the clients whose connection was closed over unread bytes

simpleVars ==
  <<seMain, evts, fd_buf, interest, peer, arrived, requests, answered, unwatched, cutOff>>
peerVars == <<peer, arrived, requests>>
history == <<unwatched, cutOff>>

Sockets == Peers \cup {ListenSock}

SimpleInit ==
  /\ seMain = "start" /\ evts = {} /\ fd_buf = {}
  /\ interest = [s \in Sockets |-> "none"]
  /\ peer = [p \in Peers |-> "none"]
  /\ arrived = [p \in Peers |-> 0] /\ requests = [p \in Peers |-> 0]
  /\ answered = [p \in Peers |-> 0]
  /\ unwatched = {} /\ cutOff = {}

-----------------------------------------------------------------------------
(* The clients. *)

PeerConnect(p) ==
  /\ seMain \in {"wait", "events"} /\ peer[p] = "none"
  /\ peer' = [peer EXCEPT ![p] = "pending"]
  /\ UNCHANGED <<seMain, evts, fd_buf, interest, arrived, requests, answered, history>>

PeerSend(p) ==
  /\ peer[p] \in {"pending", "open"} /\ requests[p] < Requests
  /\ arrived' = [arrived EXCEPT ![p] = @ + 1]
  /\ requests' = [requests EXCEPT ![p] = @ + 1]
  /\ UNCHANGED <<seMain, evts, fd_buf, interest, peer, answered, history>>

PeerClose(p) ==
  /\ peer[p] = "open"
  /\ peer' = [peer EXCEPT ![p] = "closed"]
  /\ UNCHANGED <<seMain, evts, fd_buf, interest, arrived, requests, answered, history>>

\* What the server has not read is lost.
PeerReset(p) ==
  /\ peer[p] = "open"
  /\ peer' = [peer EXCEPT ![p] = "reset"]
  /\ arrived' = [arrived EXCEPT ![p] = 0]
  /\ UNCHANGED <<seMain, evts, fd_buf, interest, requests, answered, history>>

-----------------------------------------------------------------------------
(* The server. *)

\* EPOLL_CTL_ADD for reading, which may fail; its result is not looked at, and
\* the block has been allocated either way.
Watch(s) ==
  /\ fd_buf' = fd_buf \cup {s}
  /\ \/ interest' = [interest EXCEPT ![s] = "in"] /\ UNCHANGED unwatched
     \/ unwatched' = unwatched \cup {s} /\ UNCHANGED interest

\* main and run_getsockfd: the socket, bind and listen may each fail; then
\* run_epoll up to its loop.
run_getsockfd ==
  /\ seMain = "start"
  /\ \/ seMain' = "exit" /\ UNCHANGED <<fd_buf, interest, unwatched>>
     \/ seMain' = "wait" /\ Watch(ListenSock)
  /\ UNCHANGED <<evts, peerVars, answered, cutOff>>

Ready(s) ==
  \/ s = ListenSock /\ interest[s] = "in" /\ \E p \in Peers : peer[p] = "pending"
  \/ s # ListenSock /\ interest[s] = "in" /\ (arrived[s] > 0 \/ peer[s] \in {"closed", "reset"})
  \/ s # ListenSock /\ interest[s] = "out"

\* run_epoll: epoll_wait returns everything that is ready (a timeout or an error
\* changes nothing).
run_epoll ==
  /\ seMain = "wait"
  /\ \E s \in Sockets : Ready(s)
  /\ evts' = {<<s, interest[s]>> : s \in {x \in Sockets : Ready(x)}}
  /\ seMain' = "events"
  /\ UNCHANGED <<fd_buf, interest, peerVars, answered, history>>

\* One connection is accepted; the others make the next epoll_wait return.
run_accept ==
  /\ seMain = "events" /\ <<ListenSock, "in">> \in evts
  /\ \E p \in Peers :
       /\ peer[p] = "pending"
       /\ peer' = [peer EXCEPT ![p] = "open"]
       /\ Watch(p)
  /\ evts' = evts \ {<<ListenSock, "in">>}
  /\ UNCHANGED <<seMain, arrived, requests, answered, cutOff>>

\* accept fails, with EMFILE perhaps.
AcceptError ==
  /\ seMain = "events" /\ <<ListenSock, "in">> \in evts
  /\ evts' = evts \ {<<ListenSock, "in">>}
  /\ UNCHANGED <<seMain, fd_buf, interest, peerVars, answered, history>>

\* close, EPOLL_CTL_DEL and free.
Cleanup(p) ==
  /\ interest' = [interest EXCEPT ![p] = "none"]
  /\ fd_buf' = fd_buf \ {p}

\* One read, of one buffer at most; then the socket waits to be written to.
ReadRequest(p) ==
  /\ arrived' = [arrived EXCEPT ![p] = IF @ <= BufSize THEN 0 ELSE @ - BufSize]
  /\ interest' = [interest EXCEPT ![p] = "out"]

\* write, whose result is not looked at, before close: it fails on a connection
\* the client has reset, and close over unread bytes resets the connection, in
\* which case the answer may or may not have got through.
Answer(p) ==
  /\ cutOff' = IF arrived[p] > 0 THEN cutOff \cup {p} ELSE cutOff
  /\ \/ peer[p] # "reset" /\ answered' = [answered EXCEPT ![p] = @ + 1]
     \/ (peer[p] = "reset" \/ arrived[p] > 0) /\ UNCHANGED answered

\* Mutant: the block is freed, but the socket stays registered for writing.
MutRun_action(p) ==
  \/ /\ <<p, "in">> \in evts /\ ReadRequest(p)
     /\ fd_buf' = fd_buf \ {p}
     /\ UNCHANGED <<answered, cutOff>>
  \/ <<p, "out">> \in evts /\ Cleanup(p) /\ UNCHANGED <<arrived, answered, cutOff>>

\* Mutant: a connection the client has closed is given up unread.
MutRun_actionHup(p) ==
  \/ <<p, "in">> \in evts /\ peer[p] = "open" /\ ReadRequest(p) /\ UNCHANGED <<fd_buf, answered, cutOff>>
  \/ <<p, "in">> \in evts /\ peer[p] # "open" /\ Cleanup(p) /\ UNCHANGED <<arrived, answered, cutOff>>
  \/ <<p, "out">> \in evts /\ Cleanup(p) /\ Answer(p) /\ UNCHANGED arrived

\* run_action: read and wait to write, or give up the connection; or answer and
\* give it up.
run_action(p) ==
  \/ /\ <<p, "in">> \in evts /\ arrived[p] > 0 /\ ReadRequest(p)
     /\ UNCHANGED <<fd_buf, answered, cutOff>>
  \/ /\ <<p, "in">> \in evts /\ arrived[p] = 0 /\ Cleanup(p)
     /\ UNCHANGED <<arrived, answered, cutOff>>
  \/ <<p, "out">> \in evts /\ Cleanup(p) /\ Answer(p) /\ UNCHANGED arrived

HandleEvent(p) ==
  /\ seMain = "events"
  /\ run_action(p)
  /\ evts' = evts \ {<<p, "in">>, <<p, "out">>}
  /\ UNCHANGED <<seMain, peer, requests, unwatched>>

BatchDone ==
  /\ seMain = "events" /\ evts = {}
  /\ seMain' = "wait"
  /\ UNCHANGED <<evts, fd_buf, interest, peerVars, answered, history>>

SimpleServer == run_getsockfd \/ run_epoll \/ run_accept \/ BatchDone \/ \E p \in Peers : HandleEvent(p)

SimpleNext ==
  \/ SimpleServer \/ AcceptError
  \/ \E p \in Peers : PeerConnect(p) \/ PeerSend(p) \/ PeerClose(p) \/ PeerReset(p)

SimpleSpec == SimpleInit /\ [][SimpleNext]_simpleVars

-----------------------------------------------------------------------------
(* Properties. *)

\* An event never leads to a block that has been freed: what the epoll set can
\* report, or has reported in this batch, has its fd_buf.  The only blocks
\* besides, which nothing will ever free, are those of the sockets that
\* epoll_ctl failed to add.
BlocksLive ==
  /\ {s \in Sockets : interest[s] # "none"} = fd_buf \ unwatched
  /\ unwatched \subseteq fd_buf
  /\ {e[1] : e \in evts} \subseteq fd_buf \ unwatched

\* A client that has sent something and does not reset the connection is answered
\* once, whether or not it closes its end meanwhile, and however many connections
\* are waiting; unless epoll_ctl failed to add it (or the listening socket), or
\* the server closes over bytes that its one read left or that came after it.
SentIsAnswered ==
  \A p \in Peers :
    (requests[p] > 0) ~>
      [](\/ answered[p] = 1 \/ peer[p] = "reset"
         \/ unwatched \cap {p, ListenSock} # {} \/ p \in cutOff)
=============================================================================
