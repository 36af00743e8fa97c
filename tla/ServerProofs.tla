---------------------------- MODULE ServerProofs ----------------------------
(***************************************************************************)
(* Theorems about Server, for any number of clients, workers and           *)
(* descriptors.                                                            *)
(***************************************************************************)
EXTENDS Server, SequenceTheorems, TLAPS

\* A connection is in the accept queue once, before it has a descriptor.
QueueIsFresh ==
  /\ \A i \in DOMAIN backlog : fdOf[backlog[i]] = 0 /\ peer[backlog[i]] # "new"
  /\ \A i, j \in DOMAIN backlog : backlog[i] = backlog[j] => i = j
  /\ \A c \in Conns : peer[c] = "new" => fdOf[c] = 0

\* No two connections have the same descriptor.
FdsDistinct ==
  \A c, d \in Conns : fdOf[c] = fdOf[d] /\ fdOf[c] # 0 => c = d

\* A table entry is the connection that has the descriptor.
TableMatches ==
  \A l \in Loops : \A n \in Fds :
    fd2chan_[l][n] # NoConn => fdOf[fd2chan_[l][n]] = n

\* A descriptor is in the table of one worker, and in its interest list or
\* ready list only with its table entry.
InterestInTable ==
  /\ \A l \in Loops : ready[l] \subseteq interest[l]
  /\ \A l \in Loops : \A n \in interest[l] : fd2chan_[l][n] # NoConn
  /\ \A l, k \in Loops : \A n \in Fds :
       fd2chan_[l][n] # NoConn /\ fd2chan_[k][n] # NoConn => l = k

\* What handNewConn knows about the descriptor it is working on.
Iteration ==
  /\ acceptPc \in {"accepted", "table", "ctl"} =>
       /\ conn \in Conns /\ fd \in Fds
       /\ fdOf[conn] = fd
       /\ peer[conn] # "new"
       /\ \A i \in DOMAIN backlog : backlog[i] # conn
       /\ \A l \in Loops : fd \notin interest[l]
  /\ acceptPc \in {"accepted", "table"} =>
       \A l \in Loops : fd2chan_[l][fd] = NoConn
  /\ acceptPc = "ctl" =>
       fd2chan_[loop][fd] = conn

\* The inductive invariant: OneOwner and EventFindsChannel follow from
\* TableMatches and InterestInTable, which are kept because accept returns
\* a descriptor that no table knows (FdsDistinct, QueueIsFresh, Iteration).
IInv ==
  /\ TypeOK
  /\ QueueIsFresh
  /\ FdsDistinct
  /\ TableMatches
  /\ InterestInTable
  /\ Iteration

-----------------------------------------------------------------------------
\* The started server satisfies the invariant.
LEMMA InitIInv == Init => IInv
PROOF
<1>1. SUFFICES ASSUME Init PROVE IInv
  OBVIOUS
<1>2. 0 \in Loops
  BY NumThreadsAssumption DEF Loops
<1>3. backlog \in Seq(Conns) /\ DOMAIN backlog = {}
  BY <1>1, EmptySeq, LenProperties DEF Init
<1>4. TypeOK
  BY <1>1, <1>2, <1>3 DEF Init, TypeOK, PeerStates, AcceptPcs
<1>5. QueueIsFresh /\ FdsDistinct
  BY <1>1, <1>3 DEF Init, QueueIsFresh, FdsDistinct
<1>6. TableMatches /\ InterestInTable /\ Iteration
  BY <1>1 DEF Init, TableMatches, InterestInTable, Iteration
<1>7. QED
  BY <1>4, <1>5, <1>6 DEF IInv

\* The type invariant is inductive, given the facts about the iteration.
LEMMA StepTypeOK == TypeOK /\ Iteration /\ [Next]_vars => TypeOK'
PROOF
<1>1. SUFFICES ASSUME TypeOK, Iteration, [Next]_vars PROVE TypeOK'
  OBVIOUS
<1> USE <1>1 DEF TypeOK, PeerStates, AcceptPcs, clients, iteration, workers
<1>2. ASSUME NEW c \in Conns, Connect(c) PROVE TypeOK'
  <2>1. Append(backlog, c) \in Seq(Conns)
    BY AppendProperties
  <2>2. QED
    BY <1>2, <2>1 DEF Connect
<1>3. ASSUME NEW c \in Conns, NEW s \in {"open", "closed", "reset"},
             PeerEvent(c, s)
      PROVE  TypeOK'
  BY <1>3 DEF PeerEvent, EdgeOn
<1>4. CASE EnterHandNewConn
  BY <1>4 DEF EnterHandNewConn
<1>5. CASE Accept
  <2>1. Head(backlog) \in Conns /\ Tail(backlog) \in Seq(Conns)
    BY <1>5, HeadTailProperties DEF Accept, getNextLoop
  <2>2. fd' \in Fds
    BY <1>5 DEF Accept, getNextLoop, LowestFree, FreeFds
  <2>3. (next_ + 1) % NumThreads \in Loops
    BY NumThreadsAssumption DEF Loops
  <2>4. QED
    BY <1>5, <2>1, <2>2, <2>3 DEF Accept, getNextLoop
<1>6. CASE AcceptFails
  BY <1>6 DEF AcceptFails
<1>7. CASE TooManyFds
  BY <1>7 DEF TooManyFds
<1>8. CASE NewChannel \/ NonBlockingFails
  BY <1>8 DEF NewChannel, NonBlockingFails
<1>9. CASE EnterTable
  BY <1>9 DEF EnterTable, Iteration
<1>10. CASE EpollAdd
  BY <1>10 DEF EpollAdd, Iteration
<1>11. CASE EpollAddFails
  BY <1>11 DEF EpollAddFails, Iteration
<1>12. ASSUME NEW l \in Loops, Poll(l) PROVE TypeOK'
  BY <1>12 DEF Poll, Events
<1>13. ASSUME NEW l \in Loops, NEW n \in Fds, NEW mask \in {"in", "err"},
              HandleEvents(l, n, mask)
       PROVE  TypeOK'
  BY <1>13 DEF HandleEvents
<1>14. CASE UNCHANGED vars
  BY <1>14 DEF vars
<1>15. QED
  BY <1>2, <1>3, <1>4, <1>5, <1>6, <1>7, <1>8, <1>9, <1>10, <1>11, <1>12,
     <1>13, <1>14 DEF Next, MainStep, ClientStep, WorkerStep

\* The steps of the clients preserve the rest of the invariant.
LEMMA ClientIInv ==
  ASSUME IInv, ClientStep
  PROVE  (QueueIsFresh /\ FdsDistinct /\ TableMatches /\ InterestInTable
          /\ Iteration)'
PROOF
<1> USE DEF IInv, TypeOK, PeerStates, clients, iteration, workers
<1>1. ASSUME NEW c \in Conns, Connect(c)
      PROVE  (QueueIsFresh /\ FdsDistinct /\ TableMatches /\ InterestInTable
              /\ Iteration)'
  <2>1. /\ Len(backlog) \in Nat /\ DOMAIN backlog = 1 .. Len(backlog)
        /\ \A i \in DOMAIN backlog : backlog[i] \in Conns
    BY LenProperties, ElementOfSeq
  <2>2. /\ DOMAIN backlog' = 1 .. Len(backlog) + 1
        /\ \A i \in 1 .. Len(backlog) : backlog'[i] = backlog[i]
        /\ backlog'[Len(backlog) + 1] = c
    BY <1>1, <2>1, AppendProperties, LenProperties DEF Connect
  <2>3. \A i \in DOMAIN backlog : backlog[i] # c
    BY <1>1 DEF Connect, QueueIsFresh
  <2>4. QueueIsFresh'
    BY <1>1, <2>1, <2>2, <2>3 DEF Connect, QueueIsFresh
  <2>5. (FdsDistinct /\ TableMatches /\ InterestInTable)'
    BY <1>1 DEF Connect, FdsDistinct, TableMatches, InterestInTable
  <2>6. acceptPc \in {"accepted", "table", "ctl"} => conn # c
    BY <1>1 DEF Connect, Iteration
  <2>7. Iteration'
    BY <1>1, <2>1, <2>2, <2>6 DEF Connect, Iteration
  <2>8. QED
    BY <2>4, <2>5, <2>7
<1>2. ASSUME NEW c \in Conns, NEW s \in {"open", "closed", "reset"},
             PeerEvent(c, s)
      PROVE  (QueueIsFresh /\ FdsDistinct /\ TableMatches /\ InterestInTable
              /\ Iteration)'
  <2>1. QueueIsFresh'
    <3>1. \A d \in Conns : peer'[d] = "new" <=> peer[d] = "new"
      BY <1>2 DEF PeerEvent
    <3>2. \A i \in DOMAIN backlog : backlog[i] \in Conns
      BY LenProperties, ElementOfSeq
    <3>3. QED
      BY <1>2, <3>1, <3>2 DEF PeerEvent, QueueIsFresh
  <2>2. (FdsDistinct /\ TableMatches)'
    BY <1>2 DEF PeerEvent, FdsDistinct, TableMatches
  <2>3. InterestInTable'
    BY <1>2 DEF PeerEvent, EdgeOn, InterestInTable
  <2>4. Iteration'
    BY <1>2 DEF PeerEvent, Iteration
  <2>5. QED
    BY <2>1, <2>2, <2>3, <2>4
<1>3. QED
  BY <1>1, <1>2 DEF ClientStep

\* accept returns a descriptor that no connection has, hence no table knows.
LEMMA AcceptIInv ==
  ASSUME IInv, Accept
  PROVE  (QueueIsFresh /\ FdsDistinct /\ TableMatches /\ InterestInTable
          /\ Iteration)'
PROOF
<1> USE DEF IInv, TypeOK, clients, workers
<1>1. /\ Len(backlog) \in Nat \ {0} /\ DOMAIN backlog = 1 .. Len(backlog)
      /\ \A i \in DOMAIN backlog : backlog[i] \in Conns
      /\ conn' = backlog[1] /\ conn' \in Conns
      /\ DOMAIN backlog' = 1 .. Len(backlog) - 1
      /\ \A i \in DOMAIN backlog' : backlog'[i] = backlog[i + 1]
  <2>1. /\ backlog \in Seq(Conns) /\ backlog # <<>>
        /\ conn' = Head(backlog) /\ backlog' = Tail(backlog)
    BY DEF Accept, getNextLoop
  <2>2. Len(backlog) \in Nat /\ DOMAIN backlog = 1 .. Len(backlog)
    BY <2>1, LenProperties
  <2>3. \A i \in DOMAIN backlog : backlog[i] \in Conns
    BY <2>1, <2>2, ElementOfSeq
  <2>4. Len(backlog) # 0
    BY <2>1, EmptySeq
  <2>5. /\ Head(backlog) = backlog[1] /\ Tail(backlog) \in Seq(Conns)
        /\ Len(Tail(backlog)) = Len(backlog) - 1
        /\ \A i \in 1 .. Len(Tail(backlog)) : Tail(backlog)[i] = backlog[i + 1]
    BY <2>1, <2>2, <2>4, HeadTailProperties
  <2>6. DOMAIN Tail(backlog) = 1 .. Len(Tail(backlog))
    BY <2>5, LenProperties
  <2>7. 1 \in DOMAIN backlog
    BY <2>2, <2>4
  <2>8. conn' = backlog[1] /\ conn' \in Conns
    BY <2>1, <2>3, <2>5, <2>7
  <2>9. /\ DOMAIN backlog' = 1 .. Len(backlog) - 1
        /\ \A i \in DOMAIN backlog' : backlog'[i] = backlog[i + 1]
    BY ONLY <2>1, <2>5, <2>6
  <2>10. QED
    BY ONLY <2>2, <2>3, <2>4, <2>8, <2>9
<1>2. /\ fd' \in Fds /\ fd' # 0
      /\ \A c \in Conns : fdOf[c] # fd'
  BY FdsAssumption DEF Accept, getNextLoop, LowestFree, FreeFds, Fds
<1>3. /\ fdOf[conn'] = 0 /\ peer[conn'] # "new"
      /\ \A i \in DOMAIN backlog' : backlog'[i] # conn'
  <2>1. 1 \in DOMAIN backlog /\ conn' = backlog[1]
    BY <1>1
  <2>2. fdOf[conn'] = 0 /\ peer[conn'] # "new"
    BY <2>1 DEF QueueIsFresh
  <2>3. ASSUME NEW i \in DOMAIN backlog'
        PROVE  backlog'[i] # conn'
    <3>1. /\ i + 1 \in DOMAIN backlog /\ i + 1 # 1
          /\ backlog'[i] = backlog[i + 1]
      BY ONLY <1>1, i \in DOMAIN backlog'
    <3>2. QED
      BY <2>1, <3>1 DEF QueueIsFresh
  <2>4. QED
    BY ONLY <2>2, <2>3
<1>4. \A c \in Conns : fdOf'[c] = IF c = conn' THEN fd' ELSE fdOf[c]
  BY <1>1 DEF Accept, getNextLoop
<1>5. QueueIsFresh'
  BY <1>1, <1>3, <1>4 DEF Accept, getNextLoop, QueueIsFresh
<1>6. FdsDistinct'
  BY <1>2, <1>4 DEF FdsDistinct
<1>7. TableMatches'
  <2>1. ASSUME NEW l \in Loops, NEW n \in Fds, fd2chan_[l][n] # NoConn
        PROVE  fdOf'[fd2chan_[l][n]] = n
    <3>1. fd2chan_[l][n] \in Conns /\ fdOf[fd2chan_[l][n]] = n
      BY <2>1 DEF TableMatches
    <3>2. n # 0
      BY FdsAssumption DEF Fds
    <3>3. QED
      BY <1>3, <1>4, <3>1, <3>2
  <2>2. QED
    BY <2>1 DEF Accept, getNextLoop, TableMatches
<1>8. InterestInTable'
  BY DEF Accept, getNextLoop, InterestInTable
<1>9. \A l \in Loops : fd2chan_[l][fd'] = NoConn /\ fd' \notin interest[l]
  BY <1>2 DEF TableMatches, InterestInTable
<1>10. Iteration'
  BY <1>1, <1>2, <1>3, <1>4, <1>9 DEF Accept, getNextLoop, Iteration
<1>11. QED
  BY <1>5, <1>6, <1>7, <1>8, <1>10

\* The other steps of handNewConn.
LEMMA MainIInv ==
  ASSUME IInv, MainStep, ~ Accept
  PROVE  (QueueIsFresh /\ FdsDistinct /\ TableMatches /\ InterestInTable
          /\ Iteration)'
PROOF
<1> USE DEF IInv, TypeOK, clients, iteration, workers
<1>1. CASE EnterHandNewConn \/ AcceptFails \/ NewChannel \/ NonBlockingFails
  <2>1. /\ acceptPc' \in {"accepted", "table", "ctl"} =>
             acceptPc = "accepted" /\ acceptPc' = "table"
        /\ UNCHANGED <<clients, backlog, iteration, fdOf, fd2chan_, workers>>
    BY <1>1 DEF EnterHandNewConn, AcceptFails, NewChannel, NonBlockingFails
  <2>2. QED
    BY <2>1 DEF QueueIsFresh, FdsDistinct, TableMatches, InterestInTable, Iteration
<1>2. CASE TooManyFds
  <2>1. /\ conn \in Conns /\ fd \in Fds
        /\ \A i \in DOMAIN backlog : backlog[i] # conn /\ backlog[i] \in Conns
        /\ \A c \in Conns : fdOf'[c] = IF c = conn THEN 0 ELSE fdOf[c]
    BY <1>2, LenProperties, ElementOfSeq DEF TooManyFds, Iteration
  <2>2. QueueIsFresh' /\ FdsDistinct'
    BY <1>2, <2>1 DEF TooManyFds, QueueIsFresh, FdsDistinct
  <2>3. TableMatches'
    <3>1. ASSUME NEW l \in Loops, NEW n \in Fds, fd2chan_[l][n] # NoConn
          PROVE  fdOf'[fd2chan_[l][n]] = n
      <4>1. fd2chan_[l][n] \in Conns /\ fdOf[fd2chan_[l][n]] = n
        BY <3>1 DEF TableMatches
      <4>2. fd2chan_[l][fd] = NoConn /\ fdOf[conn] = fd
        BY <1>2 DEF TooManyFds, Iteration
      <4>3. fd2chan_[l][n] # conn
        BY <3>1, <4>1, <4>2
      <4>4. QED
        BY <2>1, <4>1, <4>3
    <3>2. QED
      BY <1>2, <3>1 DEF TooManyFds, TableMatches
  <2>4. InterestInTable' /\ Iteration'
    BY <1>2 DEF TooManyFds, InterestInTable, Iteration
  <2>5. QED
    BY <2>2, <2>3, <2>4
<1>3. CASE EnterTable
  <2>1. /\ conn \in Conns /\ fd \in Fds /\ fdOf[conn] = fd /\ conn # NoConn
        /\ \A l \in Loops : fd2chan_[l][fd] = NoConn
        /\ \A l \in Loops : \A n \in Fds :
             fd2chan_'[l][n] = IF l = loop /\ n = fd THEN conn ELSE fd2chan_[l][n]
    BY <1>3, NoConnAssumption DEF EnterTable, Iteration
  <2>2. QueueIsFresh' /\ FdsDistinct'
    BY <1>3 DEF EnterTable, QueueIsFresh, FdsDistinct
  <2>3. TableMatches'
    BY <1>3, <2>1 DEF EnterTable, TableMatches
  <2>4. InterestInTable'
    BY <1>3, <2>1 DEF EnterTable, InterestInTable
  <2>5. Iteration'
    BY <1>3, <2>1 DEF EnterTable, Iteration
  <2>6. QED
    BY <2>2, <2>3, <2>4, <2>5
<1>4. CASE EpollAdd
  <2>1. /\ conn \in Conns /\ fd \in Fds /\ conn # NoConn
        /\ fd2chan_[loop][fd] = conn
        /\ \A l \in Loops :
             /\ interest'[l] = IF l = loop THEN interest[l] \cup {fd} ELSE interest[l]
             /\ ready'[l] \subseteq IF l = loop THEN ready[l] \cup {fd} ELSE ready[l]
    BY <1>4, NoConnAssumption DEF EpollAdd, Iteration
  <2>2. QueueIsFresh' /\ FdsDistinct' /\ TableMatches'
    BY <1>4 DEF EpollAdd, QueueIsFresh, FdsDistinct, TableMatches
  <2>3. InterestInTable'
    BY <1>4, <2>1 DEF EpollAdd, InterestInTable
  <2>4. Iteration'
    BY <1>4 DEF EpollAdd, Iteration
  <2>5. QED
    BY <2>2, <2>3, <2>4
<1>5. CASE EpollAddFails
  <2>1. /\ fd \in Fds
        /\ \A l \in Loops : fd \notin interest[l]
        /\ \A l \in Loops : \A n \in Fds :
             fd2chan_'[l][n] = IF l = loop /\ n = fd THEN NoConn ELSE fd2chan_[l][n]
    BY <1>5 DEF EpollAddFails, Iteration
  <2>2. QueueIsFresh' /\ FdsDistinct'
    BY <1>5 DEF EpollAddFails, QueueIsFresh, FdsDistinct
  <2>3. TableMatches'
    BY <1>5, <2>1 DEF EpollAddFails, TableMatches
  <2>4. InterestInTable'
    BY <1>5, <2>1 DEF EpollAddFails, InterestInTable
  <2>5. Iteration'
    BY <1>5 DEF EpollAddFails, Iteration
  <2>6. QED
    BY <2>2, <2>3, <2>4, <2>5
<1>6. QED
  BY <1>1, <1>2, <1>3, <1>4, <1>5 DEF MainStep

\* A worker only takes descriptors off its ready list.
LEMMA WorkerIInv ==
  ASSUME IInv, NEW l \in Loops, WorkerStep(l)
  PROVE  (QueueIsFresh /\ FdsDistinct /\ TableMatches /\ InterestInTable
          /\ Iteration)'
PROOF
<1>1. /\ UNCHANGED <<peer, backlog, acceptPc, iteration, fdOf, fd2chan_, interest>>
      /\ \A k \in Loops : ready'[k] \subseteq ready[k]
  BY DEF IInv, TypeOK, WorkerStep, Poll, HandleEvents, clients
<1>2. QED
  BY <1>1 DEF IInv, QueueIsFresh, FdsDistinct, TableMatches, InterestInTable,
              Iteration, iteration

\* Every step preserves the invariant.
LEMMA StepIInv == IInv /\ [Next]_vars => IInv'
PROOF
<1>1. SUFFICES ASSUME IInv, [Next]_vars PROVE IInv'
  OBVIOUS
<1>2. TypeOK'
  BY <1>1, StepTypeOK DEF IInv
<1>3. CASE ClientStep
  BY <1>1, <1>2, <1>3, ClientIInv DEF IInv
<1>4. CASE MainStep
  BY <1>1, <1>2, <1>4, AcceptIInv, MainIInv DEF IInv
<1>5. ASSUME NEW l \in Loops, WorkerStep(l) PROVE IInv'
  BY <1>1, <1>2, <1>5, WorkerIInv DEF IInv
<1>6. CASE UNCHANGED vars
  BY <1>1, <1>2, <1>6
     DEF IInv, vars, QueueIsFresh, FdsDistinct, TableMatches, InterestInTable,
         Iteration
<1>7. QED
  BY <1>1, <1>3, <1>4, <1>5, <1>6 DEF Next

-----------------------------------------------------------------------------
\* IInv holds in every reachable state of the server.
THEOREM Invariance == SafeSpec => []IInv
  BY InitIInv, StepIInv, PTL DEF SafeSpec

\* Every variable keeps its type; the round robin stays inside the pool.
THEOREM TypeCorrect == SafeSpec => []TypeOK
  BY Invariance, PTL DEF IInv

\* No event is fetched before its channel is in the table, for any number of
\* workers polling while connections are registered.
THEOREM NoEventSkipped == SafeSpec => []EventFindsChannel
<1>1. IInv => EventFindsChannel
  BY DEF IInv, InterestInTable, EventFindsChannel
<1>2. QED
  BY Invariance, <1>1, PTL

\* Each connection is owned by one worker.
THEOREM OwnedOnce == SafeSpec => []OneOwner
<1>1. IInv => OneOwner
  BY DEF IInv, TableMatches, InterestInTable, OneOwner
<1>2. QED
  BY Invariance, <1>1, PTL

\* The accept queue is emptied, or another edge is due, or the error that kept
\* handNewConn from emptying it is recorded: for any number of connections that
\* arrive while it accepts others.  The property is inductive as it stands.
THEOREM QueueIsDrained == SafeSpec => []QueueDrained
PROOF
<1>1. Init => QueueDrained
  BY DEF Init, QueueDrained
<1>2. QueueDrained /\ [Next]_vars => QueueDrained'
  <2>1. SUFFICES ASSUME QueueDrained, [Next]_vars PROVE QueueDrained'
    OBVIOUS
  <2> USE <2>1 DEF QueueDrained
  <2>2. CASE ClientStep
    BY <2>2 DEF ClientStep, Connect, PeerEvent
  <2>3. CASE Accept \/ TooManyFds \/ NewChannel \/ EnterTable \/ EpollAdd \/ EpollAddFails
    BY <2>3 DEF Accept, TooManyFds, NewChannel, EnterTable, EpollAdd, EpollAddFails
  <2>4. CASE EnterHandNewConn
    BY <2>4 DEF EnterHandNewConn
  <2>5. CASE AcceptFails \/ NonBlockingFails
    BY <2>5 DEF AcceptFails, NonBlockingFails
  <2>6. ASSUME NEW l \in Loops, WorkerStep(l) PROVE QueueDrained'
    BY <2>6 DEF WorkerStep, Poll, HandleEvents
  <2>7. CASE UNCHANGED vars
    BY <2>7 DEF vars
  <2>8. QED
    BY <2>1, <2>2, <2>3, <2>4, <2>5, <2>6, <2>7 DEF Next, MainStep
<1>3. QED
  BY <1>1, <1>2, PTL DEF SafeSpec
=============================================================================
