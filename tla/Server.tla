------------------------------- MODULE Server -------------------------------
(***************************************************************************)
(* A started Server (net/Server.cpp): the main reactor's accept handler,   *)
(* the worker reactors it hands connections to (EventLoopThreadPool), their*)
(* tables and interest lists (net/Epoll.cpp) and the clients.              *)
(*                                                                         *)
(* Sockets are edge-triggered: an arrival puts the descriptor on a ready   *)
(* list once, and epoll_wait takes it off.  The message callbacks of the   *)
(* repository's servers never close a descriptor, and neither does the     *)
(* library once the connection is registered.                              *)
(*                                                                         *)
(* handNewConn is several steps: a worker can poll between any two of the  *)
(* calls that accept, enter the table and extend the interest list.        *)
(***************************************************************************)
EXTENDS Integers, Sequences, FiniteSets

CONSTANTS
  Conns,       \* client connections of a run, each made at most once (bound)
  NumThreads,  \* numThreads_ of the pool
  MaxFds,      \* MAXFDS
  FdLimit,     \* RLIMIT_NOFILE: accept returns descriptors 1 .. FdLimit
  OtherFds,    \* descriptors that other code (log files) may hold for a while
  NoConn       \* a null SP_Channel

ASSUME NumThreadsAssumption == NumThreads \in Nat \ {0}
ASSUME FdsAssumption == MaxFds \in Nat /\ FdLimit \in Nat
ASSUME NoConnAssumption == NoConn \notin Conns

Loops == 0 .. NumThreads - 1
Fds == 1 .. FdLimit

VARIABLES
  peer,        \* what the client of each connection has done
  arrived,     \* connections with bytes, an end or an error that no callback
               \* has been called for
  backlog,     \* the accept queue of listenFd_
  acceptEdge,  \* acceptChannel_ is on the main loop's ready list
  acceptPc,    \* where handNewConn is
  conn,        \* accept_fd of the current iteration: the connection,
  fd,          \*   its descriptor
  loop,        \*   and the worker chosen for it
  next_,       \* round-robin index of the pool
  fdOf,        \* descriptor of each accepted connection, 0 if none
  fd2chan_,    \* per worker: descriptor -> channel
  interest,    \* per worker: descriptors in its epoll set
  ready,       \* per worker: its ready list
  active,      \* per worker: events fetched and not yet dispatched
  stalled      \* history: handNewConn last returned before EAGAIN

vars == <<peer, arrived, backlog, acceptEdge, acceptPc, conn, fd, loop, next_,
          fdOf, fd2chan_, interest, ready, active, stalled>>

clients == <<peer, arrived>>
iteration == <<conn, fd, loop>>
workers == <<interest, ready, active>>

PeerStates == {"new", "open", "closed", "reset"}

AcceptPcs == {"idle",      \* the main loop is elsewhere
              "accept",    \* about to call accept
              "accepted",  \* descriptor and worker known
              "table",     \* about to set fd2chan_[fd]
              "ctl"}       \* about to call epoll_ctl

TypeOK ==
  /\ peer \in [Conns -> PeerStates]
  /\ arrived \subseteq Conns
  /\ backlog \in Seq(Conns)
  /\ acceptEdge \in BOOLEAN
  /\ acceptPc \in AcceptPcs
  /\ conn \in Conns \cup {NoConn}
  /\ fd \in Fds \cup {0}
  /\ loop \in Loops
  /\ next_ \in Loops
  /\ fdOf \in [Conns -> Fds \cup {0}]
  /\ fd2chan_ \in [Loops -> [Fds -> Conns \cup {NoConn}]]
  /\ interest \in [Loops -> SUBSET Fds]
  /\ ready \in [Loops -> SUBSET Fds]
  /\ active \in [Loops -> SUBSET (Fds \X {"in", "err"})]
  /\ stalled \in BOOLEAN

\* Server::start has returned and the main loop runs.
Init ==
  /\ peer = [c \in Conns |-> "new"]
  /\ arrived = {}
  /\ backlog = <<>>
  /\ acceptEdge = FALSE
  /\ acceptPc = "idle"
  /\ conn = NoConn
  /\ fd = 0
  /\ loop = 0
  /\ next_ = 0
  /\ fdOf = [c \in Conns |-> 0]
  /\ fd2chan_ = [l \in Loops |-> [n \in Fds |-> NoConn]]
  /\ interest = [l \in Loops |-> {}]
  /\ ready = [l \in Loops |-> {}]
  /\ active = [l \in Loops |-> {}]
  /\ stalled = FALSE

-----------------------------------------------------------------------------
(* Clients and the kernel. *)

\* The handshake completes: an edge on the listening socket.
Connect(c) ==
  /\ peer[c] = "new"
  /\ peer' = [peer EXCEPT ![c] = "open"]
  /\ backlog' = Append(backlog, c)
  /\ acceptEdge' = TRUE
  /\ UNCHANGED <<arrived, acceptPc, iteration, next_, fdOf, fd2chan_, workers,
                 stalled>>

\* An edge on the socket of c, wherever it is registered.
EdgeOn(c) ==
  ready' = [l \in Loops |-> ready[l] \cup ({fdOf[c]} \cap interest[l])]

\* Bytes arrive (s = "open"), the client closes, or it resets the connection.
PeerEvent(c, s) ==
  /\ peer[c] = "open"
  /\ peer' = [peer EXCEPT ![c] = s]
  /\ arrived' = arrived \cup {c}
  /\ EdgeOn(c)
  /\ UNCHANGED <<backlog, acceptEdge, acceptPc, iteration, next_, fdOf,
                 fd2chan_, interest, active, stalled>>

-----------------------------------------------------------------------------
(* The main reactor: handNewConn. *)

\* The main loop dispatches the edge of acceptChannel_.
EnterHandNewConn ==
  /\ acceptPc = "idle"
  /\ acceptEdge
  /\ acceptEdge' = FALSE
  /\ acceptPc' = "accept"
  /\ stalled' = FALSE
  /\ UNCHANGED <<clients, backlog, iteration, next_, fdOf, fd2chan_, workers>>

FreeFds == Fds \ {fdOf[c] : c \in Conns}

\* The descriptor accept returns: the lowest one that is free, and not held by
\* other code just now.
LowestFree == {n \in FreeFds : \A k \in FreeFds \ OtherFds : n <= k}

\* Mutant: the round robin does not wrap.
MutAccept ==
  /\ acceptPc = "accept"
  /\ backlog # <<>>
  /\ fd' \in LowestFree
  /\ fdOf' = [fdOf EXCEPT ![Head(backlog)] = fd']
  /\ conn' = Head(backlog)
  /\ backlog' = Tail(backlog)
  /\ loop' = next_
  /\ next_' = next_ + 1
  /\ acceptPc' = "accepted"
  /\ UNCHANGED <<clients, acceptEdge, fd2chan_, workers, stalled>>

\* The workers take turns.
getNextLoop ==
  /\ loop' = next_
  /\ next_' = (next_ + 1) % NumThreads

\* accept succeeds, and the connection gets a worker.
Accept ==
  /\ acceptPc = "accept"
  /\ backlog # <<>>
  /\ fd' \in LowestFree
  /\ fdOf' = [fdOf EXCEPT ![Head(backlog)] = fd']
  /\ conn' = Head(backlog)
  /\ backlog' = Tail(backlog)
  /\ getNextLoop
  /\ acceptPc' = "accepted"
  /\ UNCHANGED <<clients, acceptEdge, fd2chan_, workers, stalled>>

\* accept returns -1: EAGAIN when the queue is empty, or EMFILE, ENFILE,
\* ENOBUFS or ENOMEM, at any time, with connections still queued.
AcceptFails ==
  /\ acceptPc = "accept"
  /\ acceptPc' = "idle"
  /\ stalled' = (backlog # <<>>)
  /\ UNCHANGED <<clients, backlog, acceptEdge, iteration, next_, fdOf,
                 fd2chan_, workers>>

\* accept_fd >= MAXFDS: close and continue.
TooManyFds ==
  /\ acceptPc = "accepted"
  /\ fd >= MaxFds
  /\ fdOf' = [fdOf EXCEPT ![conn] = 0]
  /\ acceptPc' = "accept"
  /\ UNCHANGED <<clients, backlog, acceptEdge, iteration, next_, fd2chan_,
                 workers, stalled>>

\* Mutant: epoll_ctl comes before the table.
MutNewChannel ==
  /\ acceptPc = "accepted"
  /\ fd < MaxFds
  /\ interest' = [interest EXCEPT ![loop] = @ \cup {fd}]
  /\ ready' = [ready EXCEPT ![loop] = IF conn \in arrived THEN @ \cup {fd} ELSE @]
  /\ acceptPc' = "table"
  /\ UNCHANGED <<clients, backlog, acceptEdge, iteration, next_, fdOf,
                 fd2chan_, active, stalled>>

\* setSocketNonBlocking succeeds; the new channel gets its events and
\* handlers.
NewChannel ==
  /\ acceptPc = "accepted"
  /\ fd < MaxFds
  /\ acceptPc' = "table"
  /\ UNCHANGED <<clients, backlog, acceptEdge, iteration, next_, fdOf,
                 fd2chan_, workers, stalled>>

\* setSocketNonBlocking fails: handNewConn returns, the descriptor stays open.
NonBlockingFails ==
  /\ acceptPc = "accepted"
  /\ fd < MaxFds
  /\ acceptPc' = "idle"
  /\ stalled' = TRUE
  /\ UNCHANGED <<clients, backlog, acceptEdge, iteration, next_, fdOf,
                 fd2chan_, workers>>

\* Mutant: the table entry goes to the worker that is next in turn.
MutEnterTable ==
  /\ acceptPc = "table"
  /\ fd2chan_' = [fd2chan_ EXCEPT ![next_][fd] = conn]
  /\ acceptPc' = "ctl"
  /\ UNCHANGED <<clients, backlog, acceptEdge, iteration, next_, fdOf, workers,
                 stalled>>

\* epoll_add: fd2chan_[fd] = request.
EnterTable ==
  /\ acceptPc = "table"
  /\ fd2chan_' = [fd2chan_ EXCEPT ![loop][fd] = conn]
  /\ acceptPc' = "ctl"
  /\ UNCHANGED <<clients, backlog, acceptEdge, iteration, next_, fdOf, workers,
                 stalled>>

\* Mutant: one connection per event, `if' for `while'.
MutEpollAdd ==
  /\ acceptPc = "ctl"
  /\ interest' = [interest EXCEPT ![loop] = @ \cup {fd}]
  /\ ready' = [ready EXCEPT ![loop] = IF conn \in arrived THEN @ \cup {fd} ELSE @]
  /\ acceptPc' = "idle"
  /\ UNCHANGED <<clients, backlog, acceptEdge, iteration, next_, fdOf,
                 fd2chan_, active, stalled>>

\* epoll_add: epoll_ctl succeeds and reports what has arrived so far.  The
\* empty functor that handNewConn then queues is EventLoop's subject.
EpollAdd ==
  /\ acceptPc = "ctl"
  /\ interest' = [interest EXCEPT ![loop] = @ \cup {fd}]
  /\ ready' = [ready EXCEPT ![loop] = IF conn \in arrived THEN @ \cup {fd} ELSE @]
  /\ acceptPc' = "accept"
  /\ UNCHANGED <<clients, backlog, acceptEdge, iteration, next_, fdOf,
                 fd2chan_, active, stalled>>

\* epoll_add: epoll_ctl fails and the table entry is reset.
EpollAddFails ==
  /\ acceptPc = "ctl"
  /\ fd2chan_' = [fd2chan_ EXCEPT ![loop][fd] = NoConn]
  /\ acceptPc' = "accept"
  /\ UNCHANGED <<clients, backlog, acceptEdge, iteration, next_, fdOf, workers,
                 stalled>>

-----------------------------------------------------------------------------
(* A worker reactor. *)

\* The events of a worker's ready list that have a channel, with the part of
\* their mask that handleEvents looks at: a reset sets EPOLLERR.
Events(l) ==
  {<<n, IF peer[fd2chan_[l][n]] = "reset" THEN "err" ELSE "in">> :
     n \in {k \in ready[l] : fd2chan_[l][k] # NoConn}}

\* Mutant: only one event of the batch is looked at.
MutPoll(l) ==
  /\ active[l] = {}
  /\ ready[l] # {}
  /\ \E e \in Events(l) : active' = [active EXCEPT ![l] = {e}]
  /\ ready' = [ready EXCEPT ![l] = {}]
  /\ UNCHANGED <<clients, backlog, acceptEdge, acceptPc, iteration, next_,
                 fdOf, fd2chan_, interest, stalled>>

\* epoll_wait and getEventsRequest, which skips an event without a channel.
Poll(l) ==
  /\ active[l] = {}
  /\ ready[l] # {}
  /\ active' = [active EXCEPT ![l] = Events(l)]
  /\ ready' = [ready EXCEPT ![l] = {}]
  /\ UNCHANGED <<clients, backlog, acceptEdge, acceptPc, iteration, next_,
                 fdOf, fd2chan_, interest, stalled>>

\* handleEvents: on EPOLLERR no callback is called (errorHandler_ is never
\* set), on EPOLLIN messageCallback is.
HandleEvents(l, n, mask) ==
  /\ <<n, mask>> \in active[l]
  /\ active' = [active EXCEPT ![l] = @ \ {<<n, mask>>}]
  /\ arrived' = IF mask = "err" THEN arrived ELSE arrived \ {fd2chan_[l][n]}
  /\ UNCHANGED <<peer, backlog, acceptEdge, acceptPc, iteration, next_, fdOf,
                 fd2chan_, interest, ready, stalled>>

-----------------------------------------------------------------------------
MainStep ==
  \/ EnterHandNewConn \/ Accept \/ AcceptFails \/ TooManyFds \/ NewChannel
  \/ NonBlockingFails \/ EnterTable \/ EpollAdd \/ EpollAddFails

WorkerStep(l) ==
  Poll(l) \/ \E n \in Fds, mask \in {"in", "err"} : HandleEvents(l, n, mask)

ClientStep ==
  \E c \in Conns :
    Connect(c) \/ \E s \in {"open", "closed", "reset"} : PeerEvent(c, s)

Next == MainStep \/ ClientStep \/ \E l \in Loops : WorkerStep(l)

SafeSpec == Init /\ [][Next]_vars

\* The reactors keep running: nothing in their loops blocks but epoll_wait,
\* and that returns while its ready list is not empty.
Spec == SafeSpec /\ WF_vars(MainStep) /\ \A l \in Loops : WF_vars(WorkerStep(l))

-----------------------------------------------------------------------------
(* Properties. *)

\* Every event a worker will fetch finds its channel in fd2chan_, although
\* another thread fills the table while the worker polls: epoll_add writes
\* the table before it extends the interest list.  (An edge that getEvents-
\* Request skipped would never come again.)
EventFindsChannel ==
  \A l \in Loops : \A n \in ready[l] : fd2chan_[l][n] # NoConn

\* A connection belongs to one worker: a descriptor is in one table only and
\* its entry is the connection the kernel has under that descriptor, across
\* rejected descriptors and their reuse.
OneOwner ==
  \A l \in Loops : \A n \in Fds : fd2chan_[l][n] # NoConn =>
    /\ fdOf[fd2chan_[l][n]] = n
    /\ \A k \in Loops \ {l} : fd2chan_[k][n] = NoConn /\ n \notin interest[k]

\* When handNewConn has returned, connections wait in the accept queue only
\* if another edge is due, or handNewConn returned on an error other than
\* EAGAIN: the accept loop drains the queue.
QueueDrained == acceptPc = "idle" /\ backlog # <<>> => acceptEdge \/ stalled

\* The message callback is called for whatever arrives on a registered
\* connection, even if it arrived before the registration or while another
\* event of the connection was being handled; unless the client resets it.
ArrivalIsHandled ==
  \A c \in Conns :
    (c \in arrived /\ \E l \in Loops : fdOf[c] \in interest[l])
      ~> (c \notin arrived \/ peer[c] = "reset")

\* The connections that hold a descriptor; not one whose end the message
\* callback has been called for.
InUse == {c \in Conns : fdOf[c] # 0 /\ (peer[c] = "closed" => c \in arrived)}

\* accept returns a descriptor that the test against MAXFDS turns away only
\* while all the others are in use: the limit is on concurrent connections.
LimitIsOnConcurrent ==
  [][acceptPc = "accept" /\ acceptPc' = "accepted" /\ fd' >= MaxFds =>
       Cardinality(InUse) >= MaxFds - 1]_vars
=============================================================================
