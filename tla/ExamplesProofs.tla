---------------------------- MODULE ExamplesProofs ----------------------------
(***************************************************************************)
(* Theorems about TimerManager and the programs of Examples/: the level-   *)
(* triggered and the edge-triggered server, and the echo protocol, for any *)
(* number of timers, clients and connections.                              *)
(***************************************************************************)
EXTENDS Echo, Timer, SimpleEpoll, EpollET, SequenceTheorems, TLAPS

-----------------------------------------------------------------------------
(* TimerManager. *)

\* A node that has been added is due as long after it was added as its expiry
\* time says, counted from the place of that moment in its cycle.
DuePerCycle ==
  \A n \in TimerNodes :
    addedAt[n] # -1 =>
      /\ 0 <= addedAt[n] /\ addedAt[n] <= clock
      /\ expiredTime_[n] - (addedAt[n] % Cycle) = dueAt[n] - addedAt[n]

\* The inductive invariant of TimerManager.
TimerIInv ==
  /\ clock \in Nat
  /\ timerNodeQueue \subseteq TimerNodes /\ expired \subseteq TimerNodes
  /\ expiredTime_ \in [TimerNodes -> Int]
  /\ addedAt \in [TimerNodes -> Int] /\ dueAt \in [TimerNodes -> Int]
  /\ \A n \in timerNodeQueue \cup expired : addedAt[n] # -1
  /\ DuePerCycle
  /\ NeverEarly

\* Division by the cycle.
LEMMA DivMod ==
  ASSUME NEW k \in Nat \ {0}, NEW a \in Nat
  PROVE  /\ a \div k \in Nat /\ a % k \in Nat /\ a % k < k
         /\ a = k * (a \div k) + (a % k)
PROOF
<1>1. a % k \in Nat
  OBVIOUS
<1>2. a % k < k
  OBVIOUS
<1>3. a \div k \in Nat
  OBVIOUS
<1>4. a = k * (a \div k) + (a % k)
  OBVIOUS
<1>5. QED
  BY <1>1, <1>2, <1>3, <1>4

\* Whole cycles are at least one cycle apart.
LEMMA CyclesApart ==
  ASSUME NEW k \in Nat \ {0}, NEW p \in Nat, NEW q \in Nat, p > q
  PROVE  k * p >= k * q + k /\ k * p \in Nat /\ k * q \in Nat
PROOF
<1>1. k * p >= k * q + k
  OBVIOUS
<1>2. k * p \in Nat
  OBVIOUS
<1>3. k * q \in Nat
  OBVIOUS
<1>4. QED
  BY <1>1, <1>2, <1>3

\* The clock modulo the cycle gains no more than the clock does.
LEMMA CycleGain ==
  ASSUME NEW k \in Nat \ {0}, NEW a \in Nat, NEW c \in Nat, a <= c
  PROVE  /\ (c % k) - (a % k) <= c - a
         /\ a \div k = c \div k => (c % k) - (a % k) = c - a
         /\ c % k \in Nat /\ a % k \in Nat
PROOF
<1>1. PICK qa \in Nat, ra \in Nat :
        qa = a \div k /\ ra = a % k /\ ra < k /\ a = k * qa + ra
  BY DivMod
<1>2. PICK qc \in Nat, rc \in Nat :
        qc = c \div k /\ rc = c % k /\ rc < k /\ c = k * qc + rc
  BY DivMod
<1>3. rc - ra <= c - a
  <2>1. PICK x \in Int : x = k * qa
    OBVIOUS
  <2>2. PICK y \in Int : y = k * qc
    OBVIOUS
  <2>3. CASE qa > qc
    <3>1. x >= y + k
      BY <2>1, <2>2, <2>3, CyclesApart
    <3>2. QED
      BY ONLY <1>1, <1>2, <2>1, <2>2, <3>1, x \in Int, y \in Int, k \in Nat, ra \in Nat,
              rc \in Nat, a <= c
  <2>4. CASE qa = qc
    BY <1>1, <1>2, <2>4
  <2>5. CASE qc > qa
    <3>1. y >= x + k
      BY <2>1, <2>2, <2>5, CyclesApart
    <3>2. QED
      BY <1>1, <1>2, <2>1, <2>2, <3>1
  <2>6. qa > qc \/ qa = qc \/ qc > qa
    OBVIOUS
  <2>7. QED
    BY <2>3, <2>4, <2>5, <2>6
<1>4. ASSUME qa = qc PROVE rc - ra = c - a
  <2>1. PICK x \in Int : x = k * qa
    OBVIOUS
  <2>2. a = x + ra /\ c = x + rc
    BY <1>1, <1>2, <1>4, <2>1
  <2>3. QED
    BY <2>2
<1>5. (c % k) - (a % k) = rc - ra /\ (a \div k = c \div k <=> qa = qc)
  BY ONLY <1>1, <1>2, Zenon
<1>6. QED
  BY <1>1, <1>2, <1>3, <1>4, <1>5, Zenon

\* No timer has been added.
LEMMA TimerInitIInv == TimerInit => TimerIInv
PROOF
<1>1. SUFFICES ASSUME TimerInit PROVE TimerIInv
  OBVIOUS
<1>2. clock \in Nat
  BY <1>1, TimerAssumption DEF TimerInit
<1>3. QED
  BY <1>1, <1>2 DEF TimerInit, TimerIInv, DuePerCycle, NeverEarly

\* A node that is popped because it is not valid is due.
LEMMA InvalidIsDue ==
  ASSUME TimerIInv, NEW n \in timerNodeQueue, ~isValid(n)
  PROVE  dueAt[n] <= clock
PROOF
<1>1. /\ n \in TimerNodes /\ addedAt[n] \in Int /\ dueAt[n] \in Int /\ expiredTime_[n] \in Int
      /\ clock \in Nat /\ addedAt[n] # -1
  BY DEF TimerIInv
<1>2. /\ addedAt[n] \in Nat /\ addedAt[n] <= clock
      /\ expiredTime_[n] - (addedAt[n] % Cycle) = dueAt[n] - addedAt[n]
  BY <1>1 DEF TimerIInv, DuePerCycle
<1>3. /\ (clock % Cycle) - (addedAt[n] % Cycle) <= clock - addedAt[n]
      /\ clock % Cycle \in Nat /\ addedAt[n] % Cycle \in Nat
  BY <1>1, <1>2, CycleGain, TimerAssumption
<1>4. expiredTime_[n] <= clock % Cycle
  BY <1>1, <1>3 DEF isValid
<1> DEFINE cm == clock % Cycle  am == addedAt[n] % Cycle
<1>5. cm \in Nat /\ am \in Nat /\ cm - am <= clock - addedAt[n]
      /\ expiredTime_[n] - am = dueAt[n] - addedAt[n] /\ expiredTime_[n] <= cm
  BY <1>1, <1>2, <1>3, <1>4, TimerAssumption
<1> HIDE DEF cm, am
<1>6. QED
  BY <1>1, <1>2, <1>5

\* Every step preserves the invariant.
LEMMA TimerStepIInv == TimerIInv /\ [TimerNext]_timerManagerVars => TimerIInv'
PROOF
<1>1. SUFFICES ASSUME TimerIInv, [TimerNext]_timerManagerVars PROVE TimerIInv'
  OBVIOUS
<1> USE <1>1
<1>2. CASE ClockTick
  <2>1. clock' \in Nat /\ clock <= clock'
    BY <1>2 DEF ClockTick, TimerIInv
  <2>2. DuePerCycle'
    <3>1. SUFFICES ASSUME NEW n \in TimerNodes, addedAt[n] # -1
                   PROVE  addedAt[n] <= clock'
      BY <1>2 DEF ClockTick, TimerIInv, DuePerCycle
    <3>2. addedAt[n] \in Int /\ addedAt[n] <= clock /\ clock \in Nat
      BY <3>1 DEF TimerIInv, DuePerCycle
    <3>3. QED
      BY <2>1, <3>2
  <2>3. NeverEarly'
    <3>1. SUFFICES ASSUME NEW n \in expired PROVE dueAt[n] <= clock'
      BY <1>2 DEF ClockTick, NeverEarly
    <3>2. dueAt[n] \in Int /\ dueAt[n] <= clock /\ clock \in Nat
      BY <3>1 DEF TimerIInv, NeverEarly
    <3>3. QED
      BY <2>1, <3>2
  <2>4. QED
    BY <1>2, <2>1, <2>2, <2>3 DEF ClockTick, TimerIInv
<1>3. ASSUME NEW n \in TimerNodes, NEW timeout \in Timeouts, addTimer(n, timeout)
      PROVE  TimerIInv'
  <2>1. timeout \in Nat /\ clock \in Nat /\ clock % Cycle \in Nat
    BY TimerAssumption DEF TimerIInv
  <2> DEFINE cm == clock % Cycle
  <2>2. /\ cm + timeout \in Int /\ clock + timeout \in Int /\ clock # -1 /\ 0 <= clock
        /\ (cm + timeout) - cm = (clock + timeout) - clock
    BY <2>1
  <2>3. /\ expiredTime_' = [expiredTime_ EXCEPT ![n] = cm + timeout]
        /\ addedAt' = [addedAt EXCEPT ![n] = clock]
        /\ dueAt' = [dueAt EXCEPT ![n] = clock + timeout]
        /\ timerNodeQueue' = timerNodeQueue \cup {n}
        /\ addedAt[n] = -1 /\ UNCHANGED <<clock, expired>>
    BY <1>3 DEF addTimer, ExpiryTime
  <2>4. /\ expiredTime_' \in [TimerNodes -> Int] /\ addedAt' \in [TimerNodes -> Int]
        /\ dueAt' \in [TimerNodes -> Int] /\ timerNodeQueue' \subseteq TimerNodes
    BY <2>1, <2>2, <2>3 DEF TimerIInv
  <2>5. DuePerCycle'
    <3>1. SUFFICES ASSUME NEW m \in TimerNodes, addedAt'[m] # -1
                   PROVE  /\ 0 <= addedAt'[m] /\ addedAt'[m] <= clock
                          /\ expiredTime_'[m] - (addedAt'[m] % Cycle) = dueAt'[m] - addedAt'[m]
      BY <2>3 DEF DuePerCycle
    <3>2. CASE m = n
      <4>1. addedAt'[m] = clock /\ expiredTime_'[m] = cm + timeout /\ dueAt'[m] = clock + timeout
        BY <2>3, <3>2 DEF TimerIInv
      <4>2. QED
        BY <2>1, <2>2, <4>1, TimerAssumption
    <3>3. CASE m # n
      <4>1. addedAt'[m] = addedAt[m] /\ expiredTime_'[m] = expiredTime_[m] /\ dueAt'[m] = dueAt[m]
        BY <2>3, <3>3 DEF TimerIInv
      <4>2. QED
        BY <3>1, <4>1 DEF TimerIInv, DuePerCycle
    <3>4. QED
      BY <3>2, <3>3
  <2>6. /\ \A m \in timerNodeQueue' \cup expired' : addedAt'[m] # -1
        /\ NeverEarly'
    BY <2>2, <2>3 DEF TimerIInv, NeverEarly
  <2>7. QED
    BY <2>1, <2>3, <2>4, <2>5, <2>6 DEF TimerIInv
<1>4. ASSUME NEW n \in TimerNodes, PopNode(n) PROVE TimerIInv'
  <2>1. n \in timerNodeQueue /\ timerNodeQueue' = timerNodeQueue \ {n}
        /\ UNCHANGED <<clock, expiredTime_, addedAt, dueAt>>
    BY <1>4 DEF PopNode, TopNode
  <2>2. expired' = expired \/ (~isValid(n) /\ expired' = expired \cup {n})
    BY <1>4 DEF PopNode
  <2>3. NeverEarly'
    BY <2>1, <2>2, InvalidIsDue DEF TimerIInv, NeverEarly
  <2>4. QED
    BY <2>1, <2>2, <2>3 DEF TimerIInv, DuePerCycle
<1>5. ASSUME NEW n \in TimerNodes, clearReq(n) PROVE TimerIInv'
  BY <1>5 DEF clearReq, TimerIInv, DuePerCycle, NeverEarly
<1>6. CASE handleExpiredEvent \/ HandleDone
  BY <1>6 DEF handleExpiredEvent, HandleDone, TimerIInv, DuePerCycle, NeverEarly
<1>7. CASE UNCHANGED timerManagerVars
  BY <1>7 DEF timerManagerVars, TimerIInv, DuePerCycle, NeverEarly
<1>8. QED
  BY <1>2, <1>3, <1>4, <1>5, <1>6, <1>7 DEF TimerNext

\* When handleExpiredEvent leaves a node of this cycle in the heap, the top of
\* the heap is valid, and so the node is not yet due.
LEMMA LeftIsNotDue == ASSUME TimerIInv PROVE DueAreGone
PROOF
<1>1. SUFFICES ASSUME HandleDone, NEW n \in timerNodeQueue,
                      addedAt[n] \div Cycle = clock \div Cycle
               PROVE  clock < dueAt[n]
  BY DEF DueAreGone
<1>2. PICK m \in TimerNodes : TopNode(m) /\ isValid(m)
  BY <1>1 DEF HandleDone
<1>3. /\ n \in TimerNodes /\ addedAt[n] \in Int /\ dueAt[n] \in Int /\ expiredTime_[n] \in Int
      /\ expiredTime_[m] \in Int /\ clock \in Nat /\ addedAt[n] # -1
  BY DEF TimerIInv
<1>4. /\ addedAt[n] \in Nat /\ addedAt[n] <= clock
      /\ expiredTime_[n] - (addedAt[n] % Cycle) = dueAt[n] - addedAt[n]
  BY <1>3 DEF TimerIInv, DuePerCycle
<1> DEFINE cm == clock % Cycle  am == addedAt[n] % Cycle
<1>5. cm \in Nat /\ am \in Nat /\ cm - am = clock - addedAt[n]
  BY ONLY <1>1, <1>3, <1>4, CycleGain, TimerAssumption
<1>6. cm < expiredTime_[m] /\ expiredTime_[m] <= expiredTime_[n]
  BY <1>2 DEF isValid, TopNode
<1>7. expiredTime_[n] - am = dueAt[n] - addedAt[n]
  BY <1>3, <1>4, TimerAssumption
<1> HIDE DEF cm, am
<1>8. QED
  BY <1>3, <1>4, <1>5, <1>6, <1>7

\* For any number of timers, any timeouts and any cycle: none runs out early,
\* and after handleExpiredEvent none added in this cycle is overdue.
THEOREM TimersRunInTime == TimerSpec => TimersInTime
PROOF
<1>1. TimerIInv /\ TimerIInv' /\ [TimerNext]_timerManagerVars
        => [NeverEarly' /\ DueAreGone]_timerManagerVars
  BY LeftIsNotDue DEF TimerIInv
<1>2. TimerSpec => []TimerIInv
  BY TimerInitIInv, TimerStepIInv, PTL DEF TimerSpec
<1>3. QED
  BY <1>1, <1>2, PTL DEF TimerSpec, TimersInTime

-----------------------------------------------------------------------------
(* SimpleEpoll_1. *)

\* The inductive invariant of SimpleEpoll: before the set-up nothing is
\* allocated, a client that has not been accepted has no block, and an event
\* that is left carries one of the two masks, so that handling it removes it.
SimpleIInv ==
  /\ interest \in [Sockets -> {"none", "in", "out"}]
  /\ evts \subseteq Sockets \X {"in", "out"}
  /\ peer \in [Peers -> {"none", "pending", "open", "closed", "reset"}]
  /\ seMain = "start" => evts = {} /\ fd_buf = {}
  /\ \A p \in Peers : peer[p] \in {"none", "pending"} => p \notin fd_buf
  /\ BlocksLive

\* Nothing is registered.
LEMMA SimpleInitIInv == SimpleInit => SimpleIInv
BY DEF SimpleInit, SimpleIInv, BlocksLive, Sockets

\* A block is allocated for a socket that had none, whether or not epoll_ctl adds
\* the socket.
LEMMA WatchKeeps ==
  ASSUME interest \in [Sockets -> {"none", "in", "out"}], BlocksLive,
         NEW s \in Sockets, s \notin fd_buf, Watch(s), evts' \subseteq evts
  PROVE  BlocksLive'
PROOF
<1>1. fd_buf' = fd_buf \cup {s} /\ s \notin unwatched
  BY DEF Watch, BlocksLive
<1>2. CASE interest' = [interest EXCEPT ![s] = "in"] /\ unwatched' = unwatched
  BY <1>1, <1>2 DEF BlocksLive
<1>3. CASE unwatched' = unwatched \cup {s} /\ interest' = interest
  BY <1>1, <1>3 DEF BlocksLive
<1>4. QED
  BY <1>2, <1>3 DEF Watch

\* Every step of the server and of its clients preserves the invariant.
LEMMA SimpleStepIInv == SimpleIInv /\ [SimpleNext]_simpleVars => SimpleIInv'
PROOF
<1>1. SUFFICES ASSUME SimpleIInv, [SimpleNext]_simpleVars PROVE SimpleIInv'
  OBVIOUS
<1> USE <1>1, ListenSockAssumption
<1>2. CASE run_getsockfd
  <2>1. ListenSock \in Sockets /\ ListenSock \notin Peers
    BY DEF Sockets
  <2>2. /\ evts = {} /\ evts' = {} /\ fd_buf = {} /\ seMain' \in {"exit", "wait"}
        /\ UNCHANGED peer
    BY <1>2 DEF run_getsockfd, SimpleIInv, peerVars
  <2>3. CASE UNCHANGED <<fd_buf, interest, unwatched>>
    BY <2>2, <2>3 DEF SimpleIInv, BlocksLive
  <2>4. CASE Watch(ListenSock)
    <3>1. ListenSock \notin fd_buf
      BY <2>2
    <3>2. BlocksLive'
      BY <2>1, <2>2, <2>4, <3>1, WatchKeeps DEF SimpleIInv
    <3>3. QED
      BY <2>1, <2>2, <2>4, <3>2 DEF Watch, SimpleIInv
  <2>5. QED
    BY <1>2, <2>3, <2>4 DEF run_getsockfd
<1>3. CASE run_epoll
  <2>1. \A s \in Sockets : Ready(s) => interest[s] \in {"in", "out"}
    BY <1>3 DEF run_epoll, Ready, SimpleIInv
  <2>2. evts' \subseteq Sockets \X {"in", "out"}
    BY <1>3, <2>1 DEF run_epoll
  <2>3. \A e \in evts' : e[1] \in Sockets /\ interest[e[1]] # "none"
    BY <1>3, <2>1 DEF run_epoll
  <2>4. BlocksLive'
    BY <1>3, <2>3 DEF run_epoll, history, SimpleIInv, BlocksLive
  <2>5. QED
    BY <1>3, <2>2, <2>4 DEF run_epoll, peerVars, SimpleIInv
<1>4. CASE run_accept
  <2>1. PICK p \in Peers : /\ peer[p] = "pending" /\ Watch(p)
                           /\ peer' = [peer EXCEPT ![p] = "open"]
    BY <1>4 DEF run_accept
  <2>2. p \in Sockets /\ evts' \subseteq evts /\ seMain' = seMain /\ seMain = "events"
    BY <1>4 DEF run_accept, Sockets
  <2>3. p \notin fd_buf
    BY <2>1 DEF SimpleIInv
  <2>4. BlocksLive'
    BY <2>1, <2>2, <2>3, WatchKeeps DEF SimpleIInv
  <2>5. QED
    BY <2>1, <2>2, <2>4 DEF Watch, SimpleIInv
<1>5. CASE AcceptError
  BY <1>5 DEF AcceptError, peerVars, history, SimpleIInv, BlocksLive
<1>6. ASSUME NEW p \in Peers, HandleEvent(p) PROVE SimpleIInv'
  <2>1. /\ p \in Sockets /\ seMain' = seMain /\ seMain = "events"
        /\ evts' = evts \ {<<p, "in">>, <<p, "out">>} /\ UNCHANGED <<peer, unwatched>>
    BY <1>6 DEF HandleEvent, Sockets
  <2>2. \A e \in evts' : e \in evts /\ e[1] # p
    BY <2>1 DEF SimpleIInv
  <2>3. p \in fd_buf /\ p \notin unwatched
    BY <1>6 DEF HandleEvent, run_action, SimpleIInv, BlocksLive
  <2>4. CASE interest' = [interest EXCEPT ![p] = "out"] /\ fd_buf' = fd_buf
    <3>1. BlocksLive'
      BY <2>1, <2>3, <2>4 DEF SimpleIInv, BlocksLive
    <3>2. QED
      BY <2>1, <2>4, <3>1 DEF SimpleIInv
  <2>5. CASE Cleanup(p)
    <3>1. interest' = [interest EXCEPT ![p] = "none"] /\ fd_buf' = fd_buf \ {p}
      BY <2>5 DEF Cleanup
    <3>2. BlocksLive'
      BY <2>1, <2>2, <2>3, <3>1 DEF SimpleIInv, BlocksLive
    <3>3. QED
      BY <2>1, <3>1, <3>2 DEF SimpleIInv
  <2>6. QED
    BY <1>6, <2>4, <2>5 DEF HandleEvent, run_action, ReadRequest
<1>7. CASE BatchDone
  BY <1>7 DEF BatchDone, peerVars, history, SimpleIInv, BlocksLive
<1>8. ASSUME NEW p \in Peers, PeerConnect(p) \/ PeerSend(p) \/ PeerClose(p) \/ PeerReset(p)
      PROVE  SimpleIInv'
  BY <1>8 DEF PeerConnect, PeerSend, PeerClose, PeerReset, history, SimpleIInv, BlocksLive
<1>9. CASE UNCHANGED simpleVars
  BY <1>9 DEF simpleVars, SimpleIInv, BlocksLive
<1>10. QED
  BY <1>2, <1>3, <1>4, <1>5, <1>6, <1>7, <1>8, <1>9 DEF SimpleNext, SimpleServer

\* For any number of clients and any size of the buffer, what the epoll set can
\* report and what it has reported in this batch has its block, and the only
\* other blocks are those of sockets that epoll_ctl failed to add.
THEOREM BlocksAlwaysLive == SimpleSpec => []BlocksLive
PROOF
<1>1. SimpleSpec => []SimpleIInv
  BY SimpleInitIInv, SimpleStepIInv, PTL DEF SimpleSpec
<1>2. QED
  BY <1>1, PTL DEF SimpleIInv

-----------------------------------------------------------------------------
(* epoll_ET and epoll_client. *)

EtTypeOK ==
  /\ connState \in [Cs -> {"none", "queued", "registered", "open", "closed", "lost"}]
  /\ unread \in [Cs -> Nat] /\ ended \in [Cs -> {"no", "fin", "reset"}]
  /\ clientPc \in [EpollClients -> {"start", "wait", "dead"}]
  /\ asks \in [EpollClients -> {"none", "out", "in"}]
  /\ count \in [EpollClients -> Nat] /\ wrote \in [EpollClients -> Nat]

\* A client that asks whether it can write has not written, and has tried to only
\* if the server has gone; a connection is lost only with the server.
AsksOnce ==
  /\ \A c \in EpollClients :
       /\ clientPc[c] = "start" => asks[c] = "none" /\ count[c] = 0 /\ wrote[c] = 0
       /\ asks[c] = "out" => wrote[c] = 0
       /\ asks[c] = "out" /\ clientPc[c] = "wait" /\ count[c] > 0 => connState[c] = "lost"
  /\ \A c \in Cs : connState[c] = "lost" => etMain = "dead"

\* The inductive invariant of EpollET.
EtIInv == EtTypeOK /\ AsksOnce /\ EventsMeanWhatTheySay

\* Nothing has been sent.
LEMMA EtInitIInv == EtInit => EtIInv
BY DEF EtInit, EtIInv, EtTypeOK, AsksOnce, EventsMeanWhatTheySay, ClosedIsReadOut, WritesOnce

\* Every step of the server, of epoll_client and of the other clients
\* preserves the invariant.
LEMMA EtStepIInv == EtIInv /\ [EtNext]_etVars => EtIInv'
PROOF
<1>1. SUFFICES ASSUME EtIInv, [EtNext]_etVars PROVE EtIInv'
  OBVIOUS
<1> USE <1>1, MaxBytesAssumption DEF EtIInv, EventsMeanWhatTheySay
<1>2. CASE EtSetup \/ EtBatchDone \/ EtWait
  BY <1>2 DEF EtSetup, EtBatchDone, EtWait, connVars, clientVars, EtTypeOK, AsksOnce,
              ClosedIsReadOut, WritesOnce
<1>3. CASE EtKilled
  <2>1. EtTypeOK'
    BY <1>3 DEF EtKilled, clientVars, EtTypeOK
  <2>2. ClosedIsReadOut'
    BY <1>3 DEF EtKilled, ClosedIsReadOut, EtTypeOK
  <2>3. \A c \in Cs : connState[c] = "lost" => connState'[c] = "lost"
    BY <1>3 DEF EtKilled
  <2>4. etMain' = "dead" /\ UNCHANGED <<clientPc, asks, count, wrote>>
    BY <1>3 DEF EtKilled, clientVars
  <2>5. EpollClients \subseteq Cs
    BY DEF Cs
  <2>6. AsksOnce' /\ WritesOnce'
    BY <2>3, <2>4, <2>5 DEF AsksOnce, WritesOnce
  <2>7. QED
    BY <2>1, <2>2, <2>6
<1>4. CASE EtAccept
  <2>1. connState' = connState \/ \E c, s : /\ s \in {"registered", "open"}
                                            /\ connState' = [connState EXCEPT ![c] = s]
    BY <1>4 DEF EtAccept
  <2>2. UNCHANGED <<unread, ended, clientPc, asks, count, wrote, etMain>>
    BY <1>4 DEF EtAccept, clientVars
  <2>3. EtTypeOK' /\ ClosedIsReadOut'
    BY <2>1, <2>2 DEF EtTypeOK, ClosedIsReadOut
  <2>4. etMain # "dead" /\ \A c \in Cs : connState[c] # "lost"
    BY <1>4 DEF EtAccept, AsksOnce
  <2>5. \A c \in Cs : connState'[c] # "lost"
    BY <2>1, <2>4 DEF EtTypeOK
  <2>6. EpollClients \subseteq Cs
    BY DEF Cs
  <2>7. AsksOnce' /\ WritesOnce'
    BY <2>2, <2>4, <2>5, <2>6 DEF AsksOnce, WritesOnce
  <2>8. QED
    BY <2>3, <2>7
<1>5. ASSUME NEW c \in Cs, EtRead(c) PROVE EtIInv'
  <2>1. ReadOne(c) /\ UNCHANGED <<ended, clientPc, asks, count, wrote, etMain>>
    BY <1>5 DEF EtRead, clientVars
  <2>2. unread[c] \in Nat
    BY DEF EtTypeOK
  <2>3. \A d \in Cs : connState[d] # "lost"
    BY <1>5 DEF EtRead, AsksOnce
  <2>4. connState' = connState \/ connState' = [connState EXCEPT ![c] = "closed"]
    BY <2>1 DEF ReadOne
  <2>5. \A d \in Cs : connState'[d] # "lost"
    BY <2>3, <2>4 DEF EtTypeOK
  <2>6. EpollClients \subseteq Cs
    BY DEF Cs
  <2>7. AsksOnce' /\ WritesOnce'
    BY <2>1, <2>3, <2>5, <2>6 DEF AsksOnce, WritesOnce
  <2>8. CASE unread[c] > 0 /\ unread' = [unread EXCEPT ![c] = @ - 1] /\ UNCHANGED connState
    <3>1. unread[c] - 1 \in Nat
      BY <2>2, <2>8
    <3>2. EtTypeOK'
      BY <2>1, <2>8, <3>1 DEF EtTypeOK
    <3>3. connState[c] # "closed"
      BY <2>8 DEF ClosedIsReadOut
    <3>4. ClosedIsReadOut'
      BY <2>1, <2>8, <3>3 DEF ClosedIsReadOut, EtTypeOK
    <3>5. QED
      BY <2>7, <3>2, <3>4
  <2>9. CASE /\ unread[c] = 0 /\ ended[c] = "fin"
             /\ connState' = [connState EXCEPT ![c] = "closed"] /\ UNCHANGED unread
    BY <2>1, <2>7, <2>9 DEF EtTypeOK, ClosedIsReadOut
  <2>10. CASE UNCHANGED <<unread, connState>>
    BY <2>1, <2>7, <2>10 DEF EtTypeOK, ClosedIsReadOut
  <2>11. QED
    BY <2>1, <2>8, <2>9, <2>10 DEF ReadOne
<1>6. ASSUME NEW c \in EpollClients, ClientStarts(c) PROVE EtIInv'
  <2>1. \/ connState' = connState
        \/ connState' = [connState EXCEPT ![c] = "queued"] /\ etMain # "dead"
    BY <1>6 DEF ClientStarts, Handshake
  <2>2. /\ clientPc' = [clientPc EXCEPT ![c] = "wait"] /\ asks' = [asks EXCEPT ![c] = "out"]
        /\ clientPc[c] = "start" /\ UNCHANGED <<unread, ended, count, wrote, etMain>>
    BY <1>6 DEF ClientStarts, add_event
  <2>3. EtTypeOK' /\ ClosedIsReadOut'
    BY <2>1, <2>2 DEF EtTypeOK, ClosedIsReadOut
  <2>4. count[c] = 0 /\ wrote[c] = 0 /\ EpollClients \subseteq Cs
    BY <2>2 DEF AsksOnce, Cs
  <2>5. \A d \in Cs : (connState[d] = "lost" => connState'[d] = "lost")
                      /\ (connState'[d] = "lost" => connState[d] = "lost")
    BY <2>1 DEF EtTypeOK, AsksOnce
  <2>6. AsksOnce'
    BY <2>2, <2>4, <2>5 DEF EtTypeOK, AsksOnce
  <2>7. WritesOnce'
    BY <2>2, <2>4, <2>5 DEF WritesOnce
  <2>8. QED
    BY <2>3, <2>6, <2>7
<1>7. ASSUME NEW c \in EpollClients, do_write(c) PROVE EtIInv'
  <2>1. /\ clientPc[c] = "wait" /\ asks[c] = "out" /\ wrote[c] = 0 /\ c \in Cs
        /\ count' = [count EXCEPT ![c] = @ + 1] /\ UNCHANGED <<connState, etMain>>
        /\ count[c] \in Nat /\ EpollClients \subseteq Cs
    BY <1>7 DEF do_write, TryWrite, AsksOnce, EtTypeOK, Cs
  <2>2. \/ UNCHANGED <<clientPc, ended>>
        \/ /\ clientPc' = [clientPc EXCEPT ![c] = "dead"]
           /\ ended' = [ended EXCEPT ![c] = "fin"]
    BY <1>7 DEF do_write, AfterMemset
  <2>3. \/ UNCHANGED unread
        \/ /\ Connected(c)
           /\ \E n \in 2 .. MaxBytes : unread' = [unread EXCEPT ![c] = @ + n]
    BY <1>7 DEF do_write, ArriveAt
  <2>4. \/ asks' = [asks EXCEPT ![c] = "in"] /\ wrote' = [wrote EXCEPT ![c] = 1]
        \/ connState[c] = "lost" /\ UNCHANGED <<asks, wrote>>
    BY <1>7, <2>1 DEF do_write, modify_event
  <2>5. count[c] > 0 => connState[c] = "lost"
    BY <2>1 DEF AsksOnce
  <2>6. unread' \in [Cs -> Nat]
    <3>1. \A n \in 2 .. MaxBytes : unread[c] + n \in Nat
      BY <2>1 DEF EtTypeOK
    <3>2. QED
      BY <2>3, <3>1 DEF EtTypeOK
  <2>7. EtTypeOK'
    BY <2>1, <2>2, <2>4, <2>6 DEF EtTypeOK
  <2>8. AsksOnce'
    BY <2>1, <2>2, <2>4 DEF EtTypeOK, AsksOnce
  <2>9. WritesOnce'
    BY <2>1, <2>4, <2>5 DEF EtTypeOK, WritesOnce, AsksOnce
  <2>10. ClosedIsReadOut'
    BY <2>1, <2>2, <2>3 DEF Connected, EtTypeOK, ClosedIsReadOut
  <2>11. QED
    BY <2>7, <2>8, <2>9, <2>10
<1>8. ASSUME NEW c \in EpollClients, WriteUnconnected(c) PROVE EtIInv'
  <2>1. /\ clientPc[c] = "wait" /\ asks[c] = "out" /\ c \in Cs
        /\ count' = [count EXCEPT ![c] = @ + 1] /\ count[c] \in Nat
        /\ clientPc' = [clientPc EXCEPT ![c] = "dead"]
        /\ UNCHANGED <<connState, unread, ended, asks, wrote, etMain>>
    BY <1>8 DEF WriteUnconnected, TryWrite, EtTypeOK, Cs
  <2>2. count[c] > 0 => connState[c] = "lost" /\ etMain = "dead"
    BY <2>1 DEF AsksOnce
  <2>3. EtTypeOK' /\ ClosedIsReadOut' /\ AsksOnce'
    BY <2>1 DEF EtTypeOK, ClosedIsReadOut, AsksOnce
  <2>4. WritesOnce'
    BY <2>1, <2>2 DEF EtTypeOK, WritesOnce
  <2>5. QED
    BY <2>3, <2>4
<1>9. ASSUME NEW c \in EpollClients, do_read(c) PROVE EtIInv'
  BY <1>9 DEF do_read, connVars, EtTypeOK, AsksOnce, ClosedIsReadOut, WritesOnce
<1>10. ASSUME NEW c \in EpollClients, Killed(c) PROVE EtIInv'
  <2>1. /\ clientPc[c] = "wait" /\ clientPc' = [clientPc EXCEPT ![c] = "dead"]
        /\ ended' = ended \/ ended' = [ended EXCEPT ![c] = "fin"]
        /\ UNCHANGED <<connState, unread, asks, count, wrote, etMain>>
    BY <1>10 DEF Killed, EndOf
  <2>2. QED
    BY <2>1 DEF EtTypeOK, AsksOnce, ClosedIsReadOut, WritesOnce
<1>11. ASSUME NEW c \in OtherClients, OtherConnects(c) PROVE EtIInv'
  <2>1. /\ connState' = [connState EXCEPT ![c] = "queued"] /\ c \in Cs
        /\ connState[c] = "none" /\ UNCHANGED <<unread, ended, clientPc, asks, count, wrote, etMain>>
    BY <1>11 DEF OtherConnects, Handshake, clientVars, Cs
  <2>2. EtTypeOK' /\ ClosedIsReadOut'
    BY <2>1 DEF EtTypeOK, ClosedIsReadOut
  <2>3. \A d \in Cs : connState[d] = "lost" <=> connState'[d] = "lost"
    BY <2>1 DEF EtTypeOK
  <2>4. EpollClients \subseteq Cs
    BY DEF Cs
  <2>5. AsksOnce' /\ WritesOnce'
    BY <2>1, <2>3, <2>4 DEF AsksOnce, WritesOnce
  <2>6. QED
    BY <2>2, <2>5
<1>12. ASSUME NEW c \in OtherClients, OtherSends(c) PROVE EtIInv'
  <2>1. c \in Cs /\ Connected(c) /\ UNCHANGED <<connState, ended, clientVars, etMain>>
    BY <1>12 DEF OtherSends, Cs
  <2>2. PICK n \in 1 .. MaxBytes - unread[c] : unread' = [unread EXCEPT ![c] = @ + n]
    BY <1>12 DEF OtherSends, ArriveAt
  <2>3. unread[c] + n \in Nat
    BY <2>1, <2>2 DEF EtTypeOK
  <2>4. EtTypeOK' /\ ClosedIsReadOut'
    BY <2>1, <2>2, <2>3 DEF EtTypeOK, ClosedIsReadOut, Connected, clientVars
  <2>5. QED
    BY <2>1, <2>4 DEF clientVars, AsksOnce, WritesOnce
<1>13. ASSUME NEW c \in OtherClients, OtherEnds(c) PROVE EtIInv'
  <2>1. c \in Cs /\ UNCHANGED <<connState, clientVars, etMain>>
    BY <1>13 DEF OtherEnds, Cs
  <2>2. \/ ended' = [ended EXCEPT ![c] = "fin"] /\ UNCHANGED unread
        \/ /\ ended' = [ended EXCEPT ![c] = "reset"]
           /\ unread' = [unread EXCEPT ![c] = 0]
    BY <1>13 DEF OtherEnds, EndOf
  <2>3. EtTypeOK' /\ ClosedIsReadOut'
    BY <2>1, <2>2 DEF EtTypeOK, ClosedIsReadOut, clientVars
  <2>4. QED
    BY <2>1, <2>3 DEF clientVars, AsksOnce, WritesOnce
<1>14. CASE UNCHANGED etVars
  BY <1>14 DEF etVars, connVars, clientVars, EtTypeOK, AsksOnce, ClosedIsReadOut, WritesOnce
<1>15. QED
  BY <1>2, <1>3, <1>4, <1>5, <1>6, <1>7, <1>8, <1>9, <1>10, <1>11, <1>12, <1>13, <1>14
     DEF EtNext, handle_events

\* For any number of clients: the server closes no connection with a byte of it
\* unread, and epoll_client gets at most one message out and tries again only when
\* the server has gone.
THEOREM EventsAreUnderstood == EtSpec => []EventsMeanWhatTheySay
PROOF
<1>1. EtSpec => []EtIInv
  BY EtInitIInv, EtStepIInv, PTL DEF EtSpec
<1>2. QED
  BY <1>1, PTL DEF EtIInv

-----------------------------------------------------------------------------
(* The echo protocol, when TCP delivers a message as a whole. *)

\* Every loop works on its own sockets only.
OwnSockets ==
  /\ DOMAIN wire = Socks /\ DOMAIN rcv = Socks
  /\ DOMAIN active = Handlers /\ DOMAIN pc = Handlers /\ DOMAIN sock = Handlers
  /\ DOMAIN size = Handlers /\ DOMAIN buffer = Handlers /\ DOMAIN out = Handlers
  /\ DOMAIN heard = Clients
  /\ sock[Server] \in Clients \X {"server"} /\ active[Server] \subseteq Clients \X {"server"}
  /\ \A c \in Clients : sock[c] = <<c, "client">> /\ active[c] \subseteq {<<c, "client">>}

\* Where the server is in its handler, as far as client c is concerned.
ServerPc(c) == IF sock[Server] = <<c, "server">> THEN pc[Server] ELSE "poll"

\* The places a message passes through, in this order; "take" is the state after
\* the length has been read, "body" that after the rest.
OnServer == {"takeS", "bodyS"}
OnClient == {"takeC", "bodyC"}
Answered == {"wireC", "rcvC", "takeC", "bodyC", "heard"}
Places == {"out", "wireS", "rcvS", "outS"} \cup OnServer \cup Answered

Whole(c, b) == IF b THEN Message[c] ELSE <<>>
Received(c, all, rest) == IF all THEN Message[c] ELSE IF rest THEN Tail(Message[c]) ELSE <<>>

\* The message of c is at place p, and nowhere else.
LiesOnWire(c, p) ==
  /\ out[c] = Whole(c, p = "out")
  /\ wire[<<c, "server">>] = Whole(c, p = "wireS")
  /\ rcv[<<c, "server">>] = Received(c, p = "rcvS", p = "takeS")
  /\ wire[<<c, "client">>] = Whole(c, p = "wireC")
  /\ rcv[<<c, "client">>] = Received(c, p = "rcvC", p = "takeC")
  /\ heard[c] = Whole(c, p = "heard")

\* What the server's handler and the events fetched for it say about p.
LiesWithServer(c, p) ==
  /\ ServerPc(c) = "size" => p = "rcvS" /\ buffer[Server] = <<>>
  /\ ServerPc(c) = "body" <=> p \in OnServer
  /\ p \in OnServer => /\ size[Server] = Head(Message[c])
                       /\ buffer[Server] = Received(c, FALSE, p = "bodyS")
  /\ ServerPc(c) = "write" =>
       p \in {"outS"} \cup Answered /\ out[Server] = Whole(c, p = "outS")
  /\ p = "outS" => ServerPc(c) = "write"
  /\ <<c, "server">> \in active[Server] => p = "rcvS" /\ ServerPc(c) = "poll"

\* What the client's do.
LiesWithClient(c, p) ==
  /\ p = "out" => pc[c] = "write"
  /\ pc[c] = "size" => p = "rcvC" /\ buffer[c] = <<>>
  /\ pc[c] = "body" <=> p \in OnClient
  /\ p \in OnClient => /\ size[c] = Head(Message[c])
                       /\ buffer[c] = Received(c, FALSE, p = "bodyC")
  /\ <<c, "client">> \in active[c] => p = "rcvC" /\ pc[c] = "poll"

Lies(c, p) == LiesOnWire(c, p) /\ LiesWithServer(c, p) /\ LiesWithClient(c, p)

\* The inductive invariant of Echo: the message of every client that has not
\* closed is in exactly one place.
EchoIInv == OwnSockets /\ \A c \in Clients \ closed : \E p \in Places : Lies(c, p)

\* A message is a length and that many bytes, and fits the socket.
LEMMA MessageFacts ==
  ASSUME NEW c \in Clients
  PROVE  /\ Message[c] \in Seq(Nat) /\ Message[c] # <<>> /\ Len(Message[c]) \in Nat \ {0}
         /\ SndBuf \in Nat /\ Len(Message[c]) <= SndBuf
         /\ Tail(Message[c]) \in Seq(Nat) /\ Head(Message[c]) \in Nat
         /\ Len(Tail(Message[c])) = Head(Message[c])
         /\ <<Head(Message[c])>> \o Tail(Message[c]) = Message[c]
PROOF
<1>1. /\ Message[c] \in Seq(Nat) /\ Message[c] # <<>> /\ Len(Message[c]) = Message[c][1] + 1
      /\ Len(Message[c]) <= SndBuf /\ SndBuf \in Nat
  BY MessageAssumption
<1> DEFINE m == Message[c]
<1>2. m \in Seq(Nat) /\ m # <<>> /\ Len(m) = m[1] + 1
  BY <1>1
<1> HIDE DEF m
<1>3. /\ Len(m) \in Nat \ {0} /\ Head(m) = m[1] /\ Head(m) \in Nat /\ Tail(m) \in Seq(Nat)
      /\ Len(Tail(m)) = Len(m) - 1 /\ \A i \in 1 .. Len(Tail(m)) : Tail(m)[i] = m[i + 1]
  BY <1>2, HeadTailProperties, EmptySeq
<1>4. <<Head(m)>> \o Tail(m) = m
  BY <1>2, <1>3, ConcatProperties, SeqEqual
<1>5. Len(Tail(m)) = Head(m)
  BY <1>2, <1>3
<1>6. QED
  BY <1>1, <1>2, <1>3, <1>4, <1>5 DEF m

\* All of a sequence, nothing of it, and nothing added to it.
LEMMA AllOrNothing ==
  ASSUME NEW s \in Seq(Nat)
  PROVE  /\ SubSeq(s, 1, Len(s)) = s /\ SubSeq(s, Len(s) + 1, Len(s)) = <<>>
         /\ <<>> \o s = s /\ s \o <<>> = s
         /\ Len(s) \in Nat /\ (Len(s) = 0 => s = <<>>) /\ (s # <<>> => Len(s) > 0)
PROOF
<1>1. Len(s) \in Nat /\ (Len(s) = 0 => s = <<>>)
  BY EmptySeq, LenProperties
<1>2. SubSeq(s, Len(s) + 1, Len(s)) = <<>>
  BY <1>1, SubSeqEmpty
<1>3. SubSeq(s, 1, Len(s)) = s
  BY <1>1, SubSeqFull
<1>4. <<>> \o s = s /\ s \o <<>> = s
  BY ConcatEmptySeq
<1>5. QED
  BY <1>1, <1>2, <1>3, <1>4

\* What a handler has when it has read all of a message.
LEMMA ContentWhole ==
  ASSUME NEW c \in Clients, NEW h, size[h] = Head(Message[c]), buffer[h] = Tail(Message[c])
  PROVE  Content(h) = Message[c]
PROOF
<1>1. size[h] \in Nat /\ Len(buffer[h]) = size[h]
  BY MessageFacts
<1>2. [i \in 1 .. 0 |-> 0] = <<>>
  OBVIOUS
<1>3. Content(h) = (<<Head(Message[c])>> \o Tail(Message[c])) \o <<>>
  <2>1. size[h] - Len(buffer[h]) = 0
    BY <1>1
  <2>2. QED
    BY <1>2, <2>1 DEF Content
<1>4. QED
  BY <1>3, MessageFacts, AllOrNothing

\* A step that changes nothing client c can see leaves its message where it is.
LEMMA LiesKept ==
  ASSUME NEW c \in Clients, NEW p \in Places, Lies(c, p),
         out'[c] = out[c], heard'[c] = heard[c], pc'[c] = pc[c],
         size'[c] = size[c], buffer'[c] = buffer[c],
         wire'[<<c, "server">>] = wire[<<c, "server">>],
         wire'[<<c, "client">>] = wire[<<c, "client">>],
         rcv'[<<c, "server">>] = rcv[<<c, "server">>],
         rcv'[<<c, "client">>] = rcv[<<c, "client">>],
         <<c, "client">> \in active'[c] => <<c, "client">> \in active[c],
         <<c, "server">> \in active'[Server] => <<c, "server">> \in active[Server],
         ServerPc(c)' = ServerPc(c),
         \/ ServerPc(c) = "poll"
         \/ /\ size'[Server] = size[Server] /\ buffer'[Server] = buffer[Server]
            /\ out'[Server] = out[Server]
  PROVE  Lies(c, p)'
PROOF
<1>1. LiesOnWire(c, p)'
  BY DEF Lies, LiesOnWire, Whole, Received
<1>2. LiesWithServer(c, p)'
  BY DEF Lies, LiesWithServer, Whole, Received
<1>3. LiesWithClient(c, p)'
  BY DEF Lies, LiesWithClient, Received
<1>4. QED
  BY <1>1, <1>2, <1>3 DEF Lies

\* The loops keep to their sockets.
LEMMA OwnSocketsKept == ASSUME OwnSockets, [Next]_vars PROVE OwnSockets'
PROOF
<1> USE MessageAssumption DEF sockets, locals
<1>1. ASSUME NEW h \in Handlers, Poll(h) PROVE OwnSockets'
  <2>1. PICK found \in SUBSET {s \in Socks : Loop(s) = h} :
          active' = [active EXCEPT ![h] = found]
    BY <1>1 DEF Poll
  <2>2. h = Server => found \subseteq Clients \X {"server"}
    BY DEF Loop, Socks
  <2>3. h # Server => found \subseteq {<<h, "client">>}
    BY DEF Loop, Socks
  <2>4. QED
    BY <1>1, <2>1, <2>2, <2>3 DEF Poll, OwnSockets, Handlers
<1>2. ASSUME NEW h \in Handlers, Dispatch(h) PROVE OwnSockets'
  <2>1. PICK s \in active[h] : /\ active' = [active EXCEPT ![h] = @ \ {s}]
                               /\ sock' = [sock EXCEPT ![h] = s]
    BY <1>2 DEF Dispatch
  <2>2. DOMAIN pc' = DOMAIN pc /\ DOMAIN size' = DOMAIN size /\ DOMAIN buffer' = DOMAIN buffer
        /\ UNCHANGED <<wire, rcv, out, heard>>
    BY <1>2 DEF Dispatch
  <2>3. QED
    BY <2>1, <2>2 DEF OwnSockets, Handlers
<1>3. ASSUME NEW h \in Handlers,
             ReadSize(h) \/ ReadBody(h) \/ ReadReturns(h) \/ Write(h) \/ WriteReturns(h)
      PROVE  OwnSockets'
  <2>1. /\ DOMAIN pc' = DOMAIN pc /\ DOMAIN size' = DOMAIN size /\ DOMAIN out' = DOMAIN out
        /\ DOMAIN rcv' = DOMAIN rcv /\ DOMAIN wire' = DOMAIN wire
        /\ DOMAIN buffer' = DOMAIN buffer /\ DOMAIN heard' = DOMAIN heard
        /\ UNCHANGED <<active, sock>>
    BY <1>3 DEF ReadSize, ReadBody, ReadReturns, Write, WriteReturns
  <2>2. QED
    BY <2>1 DEF OwnSockets
<1>4. ASSUME NEW s \in Socks, Deliver(s) PROVE OwnSockets'
  BY <1>4 DEF Deliver, OwnSockets
<1>5. ASSUME NEW c \in Clients, Close(c) PROVE OwnSockets'
  BY <1>5 DEF Close, OwnSockets
<1>6. CASE UNCHANGED vars
  BY <1>6 DEF vars, OwnSockets
<1>7. QED
  BY <1>1, <1>2, <1>3, <1>4, <1>5, <1>6 DEF Next, HandlerStep

\* Names of the two sockets of a connection: they differ from each other and
\* from those of the other clients.
LEMMA SocketsOf ==
  ASSUME NEW c \in Clients
  PROVE  /\ <<c, "client">> \in Socks /\ <<c, "server">> \in Socks
         /\ <<c, "client">> # <<c, "server">>
         /\ Peer(<<c, "client">>) = <<c, "server">> /\ Peer(<<c, "server">>) = <<c, "client">>
         /\ c # Server /\ c \in Handlers /\ Server \in Handlers
BY MessageAssumption DEF Socks, Peer, Handlers

\* What TCP delivers moves from the wire to the receive buffer.
LEMMA DeliverKeeps ==
  ASSUME ~Segmented, OwnSockets, NEW c \in Clients, NEW p \in Places, Lies(c, p),
         NEW s \in Socks, Deliver(s)
  PROVE  \E q \in Places : Lies(c, q)'
PROOF
<1> USE DEF locals
<1> DEFINE m == Message[c]
<1>1. /\ rcv' = [rcv EXCEPT ![s] = @ \o SubSeq(wire[s], 1, Len(wire[s]))]
      /\ wire' = [wire EXCEPT ![s] = SubSeq(@, Len(wire[s]) + 1, Len(@))]
      /\ wire[s] # <<>>
      /\ UNCHANGED <<active, pc, sock, size, buffer, out, heard>>
  <2>1. PICK n \in 1 .. Len(wire[s]) :
          /\ n = Len(wire[s])
          /\ rcv' = [rcv EXCEPT ![s] = @ \o SubSeq(wire[s], 1, n)]
          /\ wire' = [wire EXCEPT ![s] = SubSeq(@, n + 1, Len(@))]
          /\ UNCHANGED <<active, pc, sock, size, buffer, out, heard>>
    BY DEF Deliver
  <2>2. wire[s] # <<>>
    BY <2>1
  <2>3. QED
    BY <2>1, <2>2
<1>2. m \in Seq(Nat) /\ m # <<>>
  BY MessageFacts
<1>3. SubSeq(m, 1, Len(m)) = m /\ SubSeq(m, Len(m) + 1, Len(m)) = <<>> /\ <<>> \o m = m
  BY <1>2, AllOrNothing
<1> HIDE DEF m
<1>4. CASE s = <<c, "server">>
  <2>1. p = "wireS" /\ wire[s] = m /\ rcv[s] = <<>>
    BY <1>1, <1>4 DEF Lies, LiesOnWire, Whole, Received, m
  <2>2. rcv'[s] = m /\ wire'[s] = <<>>
    BY <1>1, <1>3, <2>1 DEF OwnSockets
  <2>3. /\ rcv'[<<c, "client">>] = rcv[<<c, "client">>]
        /\ wire'[<<c, "client">>] = wire[<<c, "client">>]
    BY <1>1, <1>4, SocketsOf DEF OwnSockets
  <2>4. ServerPc(c)' = ServerPc(c)
    BY <1>1 DEF ServerPc
  <2>5. LiesOnWire(c, "rcvS")'
    BY <1>1, <1>4, <2>1, <2>2, <2>3 DEF Lies, LiesOnWire, Whole, Received, m
  <2>6. LiesWithServer(c, "rcvS")'
    BY <1>1, <2>1, <2>4 DEF Lies, LiesWithServer, Whole, Received, OnServer, Answered
  <2>7. LiesWithClient(c, "rcvS")'
    BY <1>1, <2>1 DEF Lies, LiesWithClient, Received, OnClient
  <2>8. QED
    BY <2>5, <2>6, <2>7 DEF Lies, Places
<1>5. CASE s = <<c, "client">>
  <2>1. p = "wireC" /\ wire[s] = m /\ rcv[s] = <<>>
    BY <1>1, <1>5 DEF Lies, LiesOnWire, Whole, Received, m
  <2>2. rcv'[s] = m /\ wire'[s] = <<>>
    BY <1>1, <1>3, <2>1 DEF OwnSockets
  <2>3. /\ rcv'[<<c, "server">>] = rcv[<<c, "server">>]
        /\ wire'[<<c, "server">>] = wire[<<c, "server">>]
    BY <1>1, <1>5, SocketsOf DEF OwnSockets
  <2>4. ServerPc(c)' = ServerPc(c)
    BY <1>1 DEF ServerPc
  <2>5. LiesOnWire(c, "rcvC")'
    BY <1>1, <1>5, <2>1, <2>2, <2>3 DEF Lies, LiesOnWire, Whole, Received, m
  <2>6. LiesWithServer(c, "rcvC")'
    BY <1>1, <2>1, <2>4 DEF Lies, LiesWithServer, Whole, Received, OnServer, Answered
  <2>7. LiesWithClient(c, "rcvC")'
    BY <1>1, <2>1 DEF Lies, LiesWithClient, Received, OnClient
  <2>8. QED
    BY <2>5, <2>6, <2>7 DEF Lies, Places, Answered
<1>6. CASE s # <<c, "server">> /\ s # <<c, "client">>
  <2>1. /\ rcv'[<<c, "client">>] = rcv[<<c, "client">>]
        /\ wire'[<<c, "client">>] = wire[<<c, "client">>]
        /\ rcv'[<<c, "server">>] = rcv[<<c, "server">>]
        /\ wire'[<<c, "server">>] = wire[<<c, "server">>]
    BY <1>1, <1>6, SocketsOf DEF OwnSockets
  <2>2. ServerPc(c)' = ServerPc(c)
    BY <1>1 DEF ServerPc
  <2>3. Lies(c, p)'
    BY <1>1, <2>1, <2>2, LiesKept
  <2>4. QED
    BY <2>3
<1>7. QED
  BY <1>4, <1>5, <1>6

\* epoll_wait reports the socket a message has arrived at, and no other of c.
LEMMA PollKeeps ==
  ASSUME OwnSockets, NEW c \in Clients \ closed, NEW p \in Places, Lies(c, p),
         NEW h \in Handlers, Poll(h)
  PROVE  Lies(c, p)'
PROOF
<1> USE DEF locals
<1>1. /\ pc[h] = "poll" /\ UNCHANGED <<wire, rcv, pc, sock, size, buffer, out, heard>>
      /\ active' = [active EXCEPT ![h] =
                      {s \in Socks : Loop(s) = h /\ edge[s] /\ (rcv[s] # <<>> \/ AtEof(s))}]
  BY DEF Poll
<1>2. ServerPc(c)' = ServerPc(c)
  BY <1>1 DEF ServerPc
<1>3. ASSUME <<c, "server">> \in active'[Server], h = Server
      PROVE  p = "rcvS" /\ ServerPc(c) = "poll"
  <2>1. rcv[<<c, "server">>] # <<>>
    BY <1>1, <1>3 DEF AtEof, OwnSockets
  <2>2. ServerPc(c) = "poll"
    BY <1>1, <1>3 DEF ServerPc
  <2>3. QED
    BY <2>1, <2>2 DEF Lies, LiesOnWire, LiesWithServer, Received, OnServer
<1>4. ASSUME <<c, "client">> \in active'[c], h = c
      PROVE  p = "rcvC" /\ pc[c] = "poll"
  <2>1. rcv[<<c, "client">>] # <<>>
    BY <1>1, <1>4, SocketsOf DEF AtEof, OwnSockets
  <2>2. QED
    BY <1>1, <1>4, <2>1 DEF Lies, LiesOnWire, LiesWithClient, Received, OnClient
<1>5. /\ h # Server => active'[Server] = active[Server]
      /\ h # c => active'[c] = active[c]
  BY <1>1, SocketsOf DEF OwnSockets
<1>6. LiesOnWire(c, p)'
  BY <1>1 DEF Lies, LiesOnWire, Whole, Received
<1>7. LiesWithServer(c, p)'
  BY <1>1, <1>2, <1>3, <1>5 DEF Lies, LiesWithServer, Whole, Received
<1>8. LiesWithClient(c, p)'
  BY <1>1, <1>4, <1>5 DEF Lies, LiesWithClient, Received
<1>9. QED
  BY <1>6, <1>7, <1>8 DEF Lies

\* The handler starts on a socket that has been reported.
LEMMA DispatchKeeps ==
  ASSUME OwnSockets, NEW c \in Clients, NEW p \in Places, Lies(c, p),
         NEW h \in Handlers, Dispatch(h)
  PROVE  Lies(c, p)'
PROOF
<1> USE DEF sockets
<1>1. PICK s \in active[h] :
        /\ pc[h] = "poll"
        /\ active' = [active EXCEPT ![h] = @ \ {s}]
        /\ pc' = [pc EXCEPT ![h] = "size"] /\ sock' = [sock EXCEPT ![h] = s]
        /\ size' = [size EXCEPT ![h] = 0] /\ buffer' = [buffer EXCEPT ![h] = <<>>]
        /\ UNCHANGED <<wire, rcv, out, heard>>
  BY DEF Dispatch
<1>2. LiesOnWire(c, p)'
  BY <1>1 DEF Lies, LiesOnWire, Whole, Received
<1>3. CASE h = Server
  <2>1. LiesWithClient(c, p)'
    BY <1>1, <1>3, SocketsOf DEF OwnSockets, Lies, LiesWithClient, Received
  <2>2. CASE s = <<c, "server">>
    <3>1. p = "rcvS" /\ ServerPc(c)' = "size" /\ buffer'[Server] = <<>>
          /\ <<c, "server">> \notin active'[Server]
      BY <1>1, <1>3, <2>2, SocketsOf DEF OwnSockets, ServerPc, Lies, LiesWithServer
    <3>2. QED
      BY <1>2, <2>1, <3>1 DEF Lies, LiesWithServer, OnServer
  <2>3. CASE s # <<c, "server">>
    <3>1. ServerPc(c) = "poll" /\ ServerPc(c)' = "poll"
      BY <1>1, <1>3, <2>3, SocketsOf DEF OwnSockets, ServerPc
    <3>2. active'[Server] \subseteq active[Server]
      BY <1>1, <1>3, SocketsOf DEF OwnSockets
    <3>3. QED
      BY <1>2, <2>1, <3>1, <3>2 DEF Lies, LiesWithServer
  <2>4. QED
    BY <2>2, <2>3
<1>4. CASE h = c
  <2>1. s = <<c, "client">>
    BY <1>1, <1>4 DEF OwnSockets
  <2>2. ServerPc(c)' = ServerPc(c)
    BY <1>1, <1>4, SocketsOf DEF OwnSockets, ServerPc
  <2>3. LiesWithServer(c, p)'
    BY <1>1, <1>4, <2>2, SocketsOf DEF OwnSockets, Lies, LiesWithServer, Whole, Received
  <2>4. p = "rcvC" /\ pc'[c] = "size" /\ buffer'[c] = <<>> /\ <<c, "client">> \notin active'[c]
    BY <1>1, <1>4, <2>1, SocketsOf DEF OwnSockets, Lies, LiesWithClient
  <2>5. QED
    BY <1>2, <2>3, <2>4 DEF Lies, LiesWithClient, OnClient
<1>5. CASE h # Server /\ h # c
  <2>1. ServerPc(c)' = ServerPc(c)
    BY <1>1, <1>5, SocketsOf DEF OwnSockets, ServerPc
  <2>2. QED
    BY <1>1, <1>5, <2>1, LiesKept, SocketsOf DEF OwnSockets
<1>6. QED
  BY <1>3, <1>4, <1>5

\* The handler that the steps below are of works on a connection of c, or on
\* one that c sees nothing of.
LEMMA WhoseSocket ==
  ASSUME OwnSockets, NEW c \in Clients, NEW h \in Handlers
  PROVE  \/ h = Server /\ sock[h] = <<c, "server">>
         \/ h = c /\ sock[h] = <<c, "client">>
         \/ /\ h # c /\ sock[h] # <<c, "server">> /\ sock[h] # <<c, "client">>
            /\ Peer(sock[h]) # <<c, "server">> /\ Peer(sock[h]) # <<c, "client">>
PROOF
<1>1. CASE h = Server
  BY <1>1, SocketsOf DEF OwnSockets, Peer
<1>2. CASE h \in Clients
  BY <1>2 DEF OwnSockets, Peer
<1>3. QED
  BY <1>1, <1>2 DEF Handlers

\* A step of a handler elsewhere changes its own locals and sockets only.
LEMMA ElsewhereKeeps ==
  ASSUME OwnSockets, NEW c \in Clients, NEW p \in Places, Lies(c, p), NEW h \in Handlers,
         ReadSize(h) \/ ReadBody(h) \/ ReadReturns(h) \/ Write(h) \/ WriteReturns(h),
         h # c, sock[h] # <<c, "server">>, sock[h] # <<c, "client">>,
         Peer(sock[h]) # <<c, "server">>, Peer(sock[h]) # <<c, "client">>
  PROVE  Lies(c, p)'
PROOF
<1> USE SocketsOf DEF sockets
<1>1. UNCHANGED <<active, sock>>
  BY DEF ReadSize, ReadBody, ReadReturns, Write, WriteReturns
<1>2. /\ pc'[c] = pc[c] /\ size'[c] = size[c] /\ buffer'[c] = buffer[c] /\ out'[c] = out[c]
      /\ heard'[c] = heard[c]
  BY DEF ReadSize, ReadBody, ReadReturns, Write, WriteReturns, OwnSockets
<1>3. /\ rcv'[<<c, "server">>] = rcv[<<c, "server">>]
      /\ rcv'[<<c, "client">>] = rcv[<<c, "client">>]
  BY DEF ReadSize, ReadBody, ReadReturns, Write, WriteReturns, OwnSockets
<1>4. /\ wire'[<<c, "server">>] = wire[<<c, "server">>]
      /\ wire'[<<c, "client">>] = wire[<<c, "client">>]
  BY DEF ReadSize, ReadBody, ReadReturns, Write, WriteReturns, OwnSockets
<1>5. CASE h = Server
  <2>1. ServerPc(c) = "poll" /\ ServerPc(c)' = "poll"
    BY <1>1, <1>5 DEF ServerPc
  <2>2. QED
    BY <1>1, <1>2, <1>3, <1>4, <2>1, LiesKept
<1>6. CASE h # Server
  <2>1. /\ pc'[Server] = pc[Server] /\ size'[Server] = size[Server]
        /\ buffer'[Server] = buffer[Server] /\ out'[Server] = out[Server]
    BY <1>6 DEF ReadSize, ReadBody, ReadReturns, Write, WriteReturns, OwnSockets
  <2>2. ServerPc(c)' = ServerPc(c)
    BY <1>1, <2>1 DEF ServerPc
  <2>3. QED
    BY <1>1, <1>2, <1>3, <1>4, <2>1, <2>2, LiesKept
<1>7. QED
  BY <1>5, <1>6

\* The server reads the length, the rest and sends the message on.
LEMMA ServerKeeps ==
  ASSUME OwnSockets, NEW c \in Clients \ closed, NEW p \in Places, Lies(c, p),
         sock[Server] = <<c, "server">>,
         \/ ReadSize(Server) \/ ReadBody(Server) \/ ReadReturns(Server)
         \/ Write(Server) \/ WriteReturns(Server)
  PROVE  \E q \in Places : Lies(c, q)'
PROOF
<1> USE SocketsOf DEF sockets
<1> DEFINE m == Message[c]  t == Tail(Message[c])
<1>1. /\ m \in Seq(Nat) /\ t \in Seq(Nat) /\ m # <<>> /\ SndBuf \in Nat /\ Len(m) <= SndBuf
      /\ Len(t) = Head(m) /\ Len(m) \in Nat \ {0} /\ Head(m) \in Nat
  BY MessageFacts
<1>2. /\ SubSeq(m, 1, Len(m)) = m /\ SubSeq(m, Len(m) + 1, Len(m)) = <<>> /\ <<>> \o m = m
      /\ SubSeq(t, 1, Len(t)) = t /\ SubSeq(t, Len(t) + 1, Len(t)) = <<>> /\ <<>> \o t = t
      /\ (Len(t) = 0 => t = <<>>)
  BY <1>1, AllOrNothing
<1>3. /\ ServerPc(c) = pc[Server] /\ ServerPc(c)' = pc'[Server] /\ UNCHANGED <<active, sock>>
  BY DEF ServerPc, ReadSize, ReadBody, ReadReturns, Write, WriteReturns
<1>4. /\ pc'[c] = pc[c] /\ size'[c] = size[c] /\ buffer'[c] = buffer[c] /\ out'[c] = out[c]
      /\ heard'[c] = heard[c]
  BY DEF ReadSize, ReadBody, ReadReturns, Write, WriteReturns, OwnSockets
<1> HIDE DEF m, t
<1>5. CASE ReadSize(Server)
  <2>1. p = "rcvS" /\ buffer[Server] = <<>> /\ rcv[<<c, "server">>] = m
    BY <1>3, <1>5 DEF ReadSize, Lies, LiesWithServer, LiesOnWire, Received, m
  <2>2. /\ size'[Server] = Head(m) /\ pc'[Server] = "body" /\ buffer' = buffer
        /\ rcv'[<<c, "server">>] = t /\ rcv'[<<c, "client">>] = rcv[<<c, "client">>]
        /\ UNCHANGED <<wire, out, heard>>
    <3>1. t = Tail(m)
      BY DEF m, t
    <3>2. /\ size' = [size EXCEPT ![Server] = Head(rcv[<<c, "server">>])]
          /\ rcv' = [rcv EXCEPT ![<<c, "server">>] = Tail(@)]
          /\ pc' = [pc EXCEPT ![Server] = "body"]
          /\ UNCHANGED <<wire, buffer, out, heard>>
      BY <1>1, <1>5, <2>1 DEF ReadSize
    <3>3. QED
      BY <2>1, <3>1, <3>2 DEF OwnSockets
  <2>3. LiesOnWire(c, "takeS")'
    BY <2>1, <2>2 DEF Lies, LiesOnWire, Whole, Received, m, t
  <2>4. LiesWithServer(c, "takeS")'
    BY <1>3, <1>5, <2>1, <2>2 DEF ReadSize, Lies, LiesWithServer, Received, OnServer, m
  <2>5. LiesWithClient(c, "takeS")'
    BY <1>3, <1>4, <2>1 DEF Lies, LiesWithClient, Received, OnClient
  <2>6. QED
    BY <2>3, <2>4, <2>5 DEF Lies, Places, OnServer
<1>6. CASE ReadBody(Server)
  <2>1. p \in OnServer /\ size[Server] = Head(m)
    BY <1>3, <1>6 DEF ReadBody, Lies, LiesWithServer, m
  <2>2. p = "takeS"
    <3>1. SUFFICES ASSUME p = "bodyS" PROVE FALSE
      BY <2>1 DEF OnServer
    <3>2. buffer[Server] = t
      BY <2>1, <3>1 DEF Lies, LiesWithServer, Received, t
    <3>3. size[Server] - Len(buffer[Server]) = 0
      BY <1>1, <2>1, <3>2
    <3>4. rcv[<<c, "server">>] = <<>>
      BY <3>1 DEF Lies, LiesOnWire, Received
    <3>5. QED
      BY <1>6, <3>3, <3>4 DEF ReadBody
  <2>3. buffer[Server] = <<>> /\ rcv[<<c, "server">>] = t
    BY <2>1, <2>2 DEF Lies, LiesWithServer, LiesOnWire, Received, t
  <2>4. size[Server] - Len(buffer[Server]) = Len(t)
    BY <1>1, <2>1, <2>3
  <2>5. /\ buffer'[Server] = t /\ rcv'[<<c, "server">>] = <<>>
        /\ rcv'[<<c, "client">>] = rcv[<<c, "client">>]
        /\ UNCHANGED <<wire, out, heard, pc, size>>
    BY <1>1, <1>2, <1>6, <2>3, <2>4 DEF ReadBody, OwnSockets
  <2>6. LiesOnWire(c, "bodyS")'
    BY <2>2, <2>5 DEF Lies, LiesOnWire, Whole, Received
  <2>7. LiesWithServer(c, "bodyS")'
    BY <1>3, <1>6, <2>1, <2>2, <2>5 DEF ReadBody, Lies, LiesWithServer, Received, OnServer, m, t
  <2>8. LiesWithClient(c, "bodyS")'
    BY <1>3, <1>4, <2>2 DEF Lies, LiesWithClient, Received, OnClient
  <2>9. QED
    BY <2>6, <2>7, <2>8 DEF Lies, Places, OnServer
<1>7. CASE ReadReturns(Server)
  <2>1. p \in OnServer /\ size[Server] = Head(m)
    BY <1>3, <1>7 DEF ReadReturns, Lies, LiesWithServer, m
  <2>2. buffer[Server] = t /\ rcv[<<c, "server">>] = <<>>
    <3>1. CASE p = "bodyS"
      BY <2>1, <3>1 DEF Lies, LiesWithServer, LiesOnWire, Received, t
    <3>2. CASE p = "takeS"
      <4>1. buffer[Server] = <<>> /\ rcv[<<c, "server">>] = t
        BY <2>1, <3>2 DEF Lies, LiesWithServer, LiesOnWire, Received, t
      <4>2. t = <<>>
        BY <1>1, <1>2, <1>7, <2>1, <4>1 DEF ReadReturns
      <4>3. QED
        BY <4>1, <4>2
    <3>3. QED
      BY <2>1, <3>1, <3>2 DEF OnServer
  <2>3. Content(Server) = m
    BY <2>1, <2>2, ContentWhole DEF m, t
  <2>4. out'[Server] = m /\ pc'[Server] = "write" /\ UNCHANGED <<wire, rcv, heard>>
    BY <1>7, <2>3 DEF ReadReturns, OwnSockets
  <2>5. LiesOnWire(c, "outS")'
    BY <1>4, <2>1, <2>2, <2>4 DEF Lies, LiesOnWire, Whole, Received, OnServer
  <2>6. LiesWithServer(c, "outS")'
    BY <1>3, <2>1, <2>4 DEF Lies, LiesWithServer, Whole, OnServer, m
  <2>7. LiesWithClient(c, "outS")'
    BY <1>3, <1>4, <2>1 DEF Lies, LiesWithClient, Received, OnClient, OnServer
  <2>8. QED
    BY <2>5, <2>6, <2>7 DEF Lies, Places
<1>8. CASE Write(Server)
  <2>1. p = "outS" /\ out[Server] = m
    <3>1. out[Server] # <<>>
      BY <1>8 DEF Write
    <3>2. QED
      BY <1>3, <1>8, <3>1 DEF Write, Lies, LiesWithServer, Whole, m
  <2>2. wire[<<c, "client">>] = <<>> /\ SndBuf - Len(wire[<<c, "client">>]) = SndBuf
    BY <1>1, <2>1 DEF Lies, LiesOnWire, Whole
  <2>3. (IF Len(m) < SndBuf THEN Len(m) ELSE SndBuf) = Len(m)
    BY <1>1
  <2>4. /\ out'[Server] = <<>> /\ wire'[<<c, "client">>] = m
        /\ wire'[<<c, "server">>] = wire[<<c, "server">>]
        /\ UNCHANGED <<rcv, pc, heard>>
    <3>1. Peer(sock[Server]) = <<c, "client">>
      OBVIOUS
    <3>2. /\ out' = [out EXCEPT ![Server] = SubSeq(@, Len(m) + 1, Len(@))]
          /\ wire' = IF <<c, "client">>[1] \in closed THEN wire
                     ELSE [wire EXCEPT ![<<c, "client">>] = @ \o SubSeq(out[Server], 1, Len(m))]
          /\ UNCHANGED <<rcv, pc, heard>>
      BY <1>8, <2>1, <2>2, <2>3, <3>1 DEF Write
    <3>3. <<c, "client">>[1] \notin closed
      OBVIOUS
    <3>4. QED
      BY <1>2, <2>1, <2>2, <3>2, <3>3 DEF OwnSockets
  <2>5. LiesOnWire(c, "wireC")'
    BY <1>4, <2>1, <2>4 DEF Lies, LiesOnWire, Whole, Received, m
  <2>6. LiesWithServer(c, "wireC")'
    BY <1>3, <1>8, <2>1, <2>4 DEF Write, Lies, LiesWithServer, Whole, OnServer, Answered
  <2>7. LiesWithClient(c, "wireC")'
    BY <1>3, <1>4, <2>1 DEF Lies, LiesWithClient, Received, OnClient
  <2>8. QED
    BY <2>5, <2>6, <2>7 DEF Lies, Places, Answered
<1>9. CASE WriteReturns(Server)
  <2>1. p # "outS"
    <3>1. SUFFICES ASSUME p = "outS" PROVE FALSE
      OBVIOUS
    <3>2. out[Server] = m /\ wire[<<c, "client">>] = <<>>
      BY <1>3, <1>9, <3>1 DEF WriteReturns, Lies, LiesWithServer, LiesOnWire, Whole, m
    <3>3. Peer(sock[Server]) = <<c, "client">> /\ Len(<<>>) = 0
      OBVIOUS
    <3>4. SndBuf # 0
      BY <1>1
    <3>5. out[Server] = <<>> \/ Len(wire[<<c, "client">>]) = SndBuf
      BY <1>9, <3>3 DEF WriteReturns
    <3>6. QED
      BY <1>1, <3>2, <3>3, <3>4, <3>5
  <2>2. /\ pc'[Server] = "poll" /\ UNCHANGED <<wire, rcv, heard>>
        /\ p \in Answered
    BY <1>3, <1>9, <2>1 DEF WriteReturns, OwnSockets, Lies, LiesWithServer
  <2>3. LiesOnWire(c, p)'
    BY <1>4, <2>2 DEF Lies, LiesOnWire, Whole, Received
  <2>4. LiesWithServer(c, p)'
    BY <1>3, <2>1, <2>2 DEF Lies, LiesWithServer, OnServer, Answered
  <2>5. LiesWithClient(c, p)'
    BY <1>3, <1>4 DEF Lies, LiesWithClient, Received
  <2>6. QED
    BY <2>3, <2>4, <2>5 DEF Lies
<1>10. QED
  BY <1>5, <1>6, <1>7, <1>8, <1>9

\* The client writes its message, and reads what comes back.
LEMMA ClientKeeps ==
  ASSUME OwnSockets, NEW c \in Clients, NEW p \in Places, Lies(c, p),
         ReadSize(c) \/ ReadBody(c) \/ ReadReturns(c) \/ Write(c) \/ WriteReturns(c)
  PROVE  \E q \in Places : Lies(c, q)'
PROOF
<1> USE SocketsOf DEF sockets
<1> DEFINE m == Message[c]  t == Tail(Message[c])
<1>1. /\ m \in Seq(Nat) /\ t \in Seq(Nat) /\ m # <<>> /\ SndBuf \in Nat /\ Len(m) <= SndBuf
      /\ Len(t) = Head(m) /\ Len(m) \in Nat \ {0} /\ Head(m) \in Nat
  BY MessageFacts
<1>2. /\ SubSeq(m, 1, Len(m)) = m /\ SubSeq(m, Len(m) + 1, Len(m)) = <<>> /\ <<>> \o m = m
      /\ SubSeq(t, 1, Len(t)) = t /\ SubSeq(t, Len(t) + 1, Len(t)) = <<>> /\ <<>> \o t = t
      /\ (Len(t) = 0 => t = <<>>)
  BY <1>1, AllOrNothing
<1>3. UNCHANGED <<active, sock>> /\ sock[c] = <<c, "client">>
  BY DEF ReadSize, ReadBody, ReadReturns, Write, WriteReturns, OwnSockets
<1>4. /\ pc'[Server] = pc[Server] /\ size'[Server] = size[Server]
      /\ buffer'[Server] = buffer[Server] /\ out'[Server] = out[Server]
  BY DEF ReadSize, ReadBody, ReadReturns, Write, WriteReturns, OwnSockets
<1>5. ServerPc(c)' = ServerPc(c)
  BY <1>3, <1>4 DEF ServerPc
<1> HIDE DEF m, t
<1>6. CASE ReadSize(c)
  <2>1. p = "rcvC" /\ pc[c] = "size" /\ buffer[c] = <<>> /\ rcv[<<c, "client">>] = m
    BY <1>6 DEF ReadSize, Lies, LiesWithClient, LiesOnWire, Received, m
  <2>2. /\ size'[c] = Head(m) /\ pc'[c] = "body" /\ buffer' = buffer
        /\ rcv'[<<c, "client">>] = t /\ rcv'[<<c, "server">>] = rcv[<<c, "server">>]
        /\ UNCHANGED <<wire, out, heard>>
    <3>1. t = Tail(m)
      BY DEF m, t
    <3>2. /\ size' = [size EXCEPT ![c] = Head(rcv[<<c, "client">>])]
          /\ rcv' = [rcv EXCEPT ![<<c, "client">>] = Tail(@)]
          /\ pc' = [pc EXCEPT ![c] = "body"]
          /\ UNCHANGED <<wire, buffer, out, heard>>
      BY <1>1, <1>3, <1>6, <2>1 DEF ReadSize
    <3>3. QED
      BY <2>1, <3>1, <3>2 DEF OwnSockets
  <2>3. LiesOnWire(c, "takeC")'
    BY <2>1, <2>2 DEF Lies, LiesOnWire, Whole, Received, m, t
  <2>4. LiesWithClient(c, "takeC")'
    BY <1>3, <2>1, <2>2 DEF Lies, LiesWithClient, Received, OnClient, m
  <2>5. LiesWithServer(c, "takeC")'
    BY <1>3, <1>4, <1>5, <2>1 DEF Lies, LiesWithServer, Whole, Received, OnServer, Answered
  <2>6. QED
    BY <2>3, <2>4, <2>5 DEF Lies, Places, Answered
<1>7. CASE ReadBody(c)
  <2>1. p \in OnClient /\ size[c] = Head(m) /\ pc[c] = "body"
    BY <1>7 DEF ReadBody, Lies, LiesWithClient, m
  <2>2. p = "takeC"
    <3>1. SUFFICES ASSUME p = "bodyC" PROVE FALSE
      BY <2>1 DEF OnClient
    <3>2. buffer[c] = t
      BY <2>1, <3>1 DEF Lies, LiesWithClient, Received, t
    <3>3. size[c] - Len(buffer[c]) = 0
      BY <1>1, <2>1, <3>2
    <3>4. rcv[<<c, "client">>] = <<>>
      BY <3>1 DEF Lies, LiesOnWire, Received
    <3>5. QED
      BY <1>3, <1>7, <3>3, <3>4 DEF ReadBody
  <2>3. buffer[c] = <<>> /\ rcv[<<c, "client">>] = t
    BY <2>1, <2>2 DEF Lies, LiesWithClient, LiesOnWire, Received, t
  <2>4. size[c] - Len(buffer[c]) = Len(t)
    BY <1>1, <2>1, <2>3
  <2>5. /\ buffer'[c] = t /\ rcv'[<<c, "client">>] = <<>>
        /\ rcv'[<<c, "server">>] = rcv[<<c, "server">>]
        /\ UNCHANGED <<wire, out, heard, pc, size>>
    BY <1>1, <1>2, <1>3, <1>7, <2>3, <2>4 DEF ReadBody, OwnSockets
  <2>6. LiesOnWire(c, "bodyC")'
    BY <2>2, <2>5 DEF Lies, LiesOnWire, Whole, Received
  <2>7. LiesWithClient(c, "bodyC")'
    BY <1>3, <2>1, <2>2, <2>5 DEF Lies, LiesWithClient, Received, OnClient, m, t
  <2>8. LiesWithServer(c, "bodyC")'
    BY <1>3, <1>4, <1>5, <2>2 DEF Lies, LiesWithServer, Whole, Received, OnServer, Answered
  <2>9. QED
    BY <2>6, <2>7, <2>8 DEF Lies, Places, Answered
<1>8. CASE ReadReturns(c)
  <2>1. p \in OnClient /\ size[c] = Head(m) /\ pc[c] = "body"
    BY <1>8 DEF ReadReturns, Lies, LiesWithClient, m
  <2>2. buffer[c] = t /\ rcv[<<c, "client">>] = <<>>
    <3>1. CASE p = "bodyC"
      BY <2>1, <3>1 DEF Lies, LiesWithClient, LiesOnWire, Received, t
    <3>2. CASE p = "takeC"
      <4>1. buffer[c] = <<>> /\ rcv[<<c, "client">>] = t
        BY <2>1, <3>2 DEF Lies, LiesWithClient, LiesOnWire, Received, t
      <4>2. t = <<>>
        BY <1>1, <1>2, <1>3, <1>8, <2>1, <4>1 DEF ReadReturns
      <4>3. QED
        BY <4>1, <4>2
    <3>3. QED
      BY <2>1, <3>1, <3>2 DEF OnClient
  <2>3. Content(c) = m
    BY <2>1, <2>2, ContentWhole DEF m, t
  <2>4. heard[c] = <<>>
    BY <2>1 DEF Lies, LiesOnWire, Whole, OnClient
  <2>5. heard'[c] = m /\ pc'[c] = "poll" /\ UNCHANGED <<wire, rcv, out>>
    BY <1>2, <1>8, <2>3, <2>4 DEF ReadReturns, OwnSockets
  <2>6. LiesOnWire(c, "heard")'
    BY <2>1, <2>2, <2>5 DEF Lies, LiesOnWire, Whole, Received, OnClient, m
  <2>7. LiesWithClient(c, "heard")'
    BY <1>3, <2>1, <2>5 DEF Lies, LiesWithClient, OnClient
  <2>8. LiesWithServer(c, "heard")'
    BY <1>3, <1>4, <1>5, <2>1
       DEF Lies, LiesWithServer, Whole, Received, OnServer, OnClient, Answered
  <2>9. QED
    BY <2>6, <2>7, <2>8 DEF Lies, Places, Answered
<1>9. CASE Write(c)
  <2>1. p = "out" /\ out[c] = m
    <3>1. out[c] # <<>>
      BY <1>9 DEF Write
    <3>2. QED
      BY <3>1 DEF Lies, LiesOnWire, Whole, m
  <2>2. wire[<<c, "server">>] = <<>> /\ SndBuf - Len(wire[<<c, "server">>]) = SndBuf
    BY <1>1, <2>1 DEF Lies, LiesOnWire, Whole
  <2>3. (IF Len(m) < SndBuf THEN Len(m) ELSE SndBuf) = Len(m)
    BY <1>1
  <2>4. /\ out'[c] = <<>> /\ wire'[<<c, "server">>] = m
        /\ wire'[<<c, "client">>] = wire[<<c, "client">>]
        /\ UNCHANGED <<rcv, pc, heard>> /\ pc[c] = "write"
    <3>1. Peer(sock[c]) = <<c, "server">>
      BY <1>3
    <3>2. /\ out' = [out EXCEPT ![c] = SubSeq(@, Len(m) + 1, Len(@))]
          /\ wire' = [wire EXCEPT ![<<c, "server">>] = @ \o SubSeq(out[c], 1, Len(m))]
          /\ UNCHANGED <<rcv, pc, heard>> /\ pc[c] = "write"
      BY <1>9, <2>1, <2>2, <2>3, <3>1 DEF Write
    <3>3. QED
      BY <1>2, <2>1, <2>2, <3>2 DEF OwnSockets
  <2>5. LiesOnWire(c, "wireS")'
    BY <2>1, <2>4 DEF Lies, LiesOnWire, Whole, Received, m
  <2>6. LiesWithServer(c, "wireS")'
    BY <1>3, <1>4, <1>5, <2>1 DEF Lies, LiesWithServer, OnServer, Answered
  <2>7. LiesWithClient(c, "wireS")'
    BY <1>3, <2>1, <2>4 DEF Lies, LiesWithClient, OnClient
  <2>8. QED
    BY <2>5, <2>6, <2>7 DEF Lies, Places
<1>10. CASE WriteReturns(c)
  <2>1. p # "out"
    <3>1. SUFFICES ASSUME p = "out" PROVE FALSE
      OBVIOUS
    <3>2. out[c] = m /\ wire[<<c, "server">>] = <<>>
      BY <3>1 DEF Lies, LiesOnWire, Whole, m
    <3>3. Peer(sock[c]) = <<c, "server">> /\ Len(<<>>) = 0
      BY <1>3
    <3>4. SndBuf # 0
      BY <1>1
    <3>5. out[c] = <<>> \/ Len(wire[<<c, "server">>]) = SndBuf
      BY <1>10, <3>3 DEF WriteReturns
    <3>6. QED
      BY <1>1, <3>2, <3>3, <3>4, <3>5
  <2>2. /\ pc[c] = "write" /\ pc'[c] = "poll" /\ UNCHANGED <<wire, rcv, heard>>
        /\ out'[c] = <<>>
    BY <1>10 DEF WriteReturns, OwnSockets
  <2>3. LiesOnWire(c, p)'
    BY <2>1, <2>2 DEF Lies, LiesOnWire, Whole, Received
  <2>4. LiesWithServer(c, p)'
    BY <1>3, <1>4, <1>5 DEF Lies, LiesWithServer, Whole, Received
  <2>5. LiesWithClient(c, p)'
    BY <1>3, <2>1, <2>2 DEF Lies, LiesWithClient, OnClient
  <2>6. QED
    BY <2>3, <2>4, <2>5 DEF Lies
<1>11. QED
  BY <1>6, <1>7, <1>8, <1>9, <1>10

\* At first every client has its message in writen's hands.
LEMMA EchoInitIInv == Init => EchoIInv
PROOF
<1>1. SUFFICES ASSUME Init PROVE EchoIInv
  OBVIOUS
<1>2. PICK first \in Clients :
        sock = [h \in Handlers |-> IF h = Server THEN <<first, "server">> ELSE <<h, "client">>]
  BY <1>1 DEF Init
<1>3. OwnSockets
  BY <1>1, <1>2, MessageAssumption DEF Init, OwnSockets, Handlers
<1>4. ASSUME NEW c \in Clients PROVE Lies(c, "out")
  <2>1. LiesOnWire(c, "out")
    BY <1>1, SocketsOf DEF Init, LiesOnWire, Whole, Received
  <2>2. ServerPc(c) = "poll" /\ active[Server] = {} /\ active[c] = {} /\ pc[c] = "write"
    BY <1>1, SocketsOf DEF Init, ServerPc
  <2>3. LiesWithServer(c, "out") /\ LiesWithClient(c, "out")
    BY <2>2 DEF LiesWithServer, LiesWithClient, OnServer, OnClient
  <2>4. QED
    BY <2>1, <2>3 DEF Lies
<1>5. QED
  BY <1>3, <1>4 DEF EchoIInv, Places

\* Every step preserves the invariant.
LEMMA EchoStepIInv == ~Segmented /\ EchoIInv /\ [Next]_vars => EchoIInv'
PROOF
<1>1. SUFFICES ASSUME ~Segmented, EchoIInv, [Next]_vars PROVE EchoIInv'
  OBVIOUS
<1>2. OwnSockets /\ OwnSockets'
  BY <1>1, OwnSocketsKept DEF EchoIInv
<1>3. closed \subseteq closed'
  BY <1>1 DEF Next, HandlerStep, Poll, Dispatch, ReadSize, ReadBody, ReadReturns, Write,
              WriteReturns, Deliver, Close, vars
<1>4. SUFFICES ASSUME NEW c \in Clients \ closed' PROVE \E q \in Places : Lies(c, q)'
  BY <1>2 DEF EchoIInv
<1>5. c \in Clients \ closed
  BY <1>3, <1>4
<1>6. PICK p \in Places : Lies(c, p)
  BY <1>1, <1>5 DEF EchoIInv
<1>7. ASSUME NEW s \in Socks, Deliver(s) PROVE \E q \in Places : Lies(c, q)'
  BY <1>1, <1>2, <1>5, <1>6, <1>7, DeliverKeeps
<1>8. ASSUME NEW h \in Handlers, Poll(h) \/ Dispatch(h) PROVE \E q \in Places : Lies(c, q)'
  BY <1>2, <1>5, <1>6, <1>8, PollKeeps, DispatchKeeps
<1>9. ASSUME NEW h \in Handlers,
             ReadSize(h) \/ ReadBody(h) \/ ReadReturns(h) \/ Write(h) \/ WriteReturns(h)
      PROVE  \E q \in Places : Lies(c, q)'
  <2>1. CASE h = Server /\ sock[h] = <<c, "server">>
    BY <1>2, <1>5, <1>6, <1>9, <2>1, ServerKeeps
  <2>2. CASE h = c
    BY <1>2, <1>5, <1>6, <1>9, <2>2, ClientKeeps
  <2>3. CASE /\ h # c /\ sock[h] # <<c, "server">> /\ sock[h] # <<c, "client">>
             /\ Peer(sock[h]) # <<c, "server">> /\ Peer(sock[h]) # <<c, "client">>
    BY <1>2, <1>5, <1>6, <1>9, <2>3, ElsewhereKeeps
  <2>4. QED
    BY <1>2, <1>5, <2>1, <2>2, <2>3, WhoseSocket
<1>10. ASSUME NEW d \in Clients, Close(d) PROVE \E q \in Places : Lies(c, q)'
  <2>1. UNCHANGED <<wire, rcv, active, pc, locals, heard>>
    BY <1>10 DEF Close
  <2>2. ServerPc(c)' = ServerPc(c)
    BY <2>1 DEF ServerPc, locals
  <2>3. Lies(c, p)'
    BY <1>5, <1>6, <2>1, <2>2, LiesKept DEF locals
  <2>4. QED
    BY <2>3
<1>11. CASE UNCHANGED vars
  <2>1. ServerPc(c)' = ServerPc(c)
    BY <1>11 DEF ServerPc, vars
  <2>2. Lies(c, p)'
    BY <1>5, <1>6, <1>11, <2>1, LiesKept DEF vars
  <2>3. QED
    BY <2>2
<1>12. QED
  BY <1>1, <1>7, <1>8, <1>9, <1>10, <1>11 DEF Next, HandlerStep

\* A message that lies at one place is what Echoed shows, or does not show yet.
LEMMA LiesIntact ==
  ASSUME NEW c \in Clients, NEW p \in Places, Lies(c, p)
  PROVE  Echoed(c) \in {<<>>, Message[c]}
PROOF
<1> DEFINE m == Message[c]  t == Tail(Message[c])
           sc == <<c, "client">>
           reading == IF pc[c] = "body" THEN <<size[c]>> \o buffer[c] ELSE <<>>
           writing == IF pc[Server] = "write" /\ sock[Server] = Peer(sc)
                        THEN out[Server] ELSE <<>>
<1>1. m \in Seq(Nat) /\ t \in Seq(Nat) /\ <<Head(m)>> \o t = m /\ Head(m) \in Nat
  BY MessageFacts
<1>2. /\ m \o <<>> = m /\ <<>> \o m = m /\ <<>> \o t = t /\ t \o <<>> = t
      /\ <<>> \o <<>> = <<>> /\ <<Head(m)>> \o <<>> = <<Head(m)>>
      /\ <<>> \o <<Head(m)>> = <<Head(m)>>
  <2>1. <<Head(m)>> \in Seq(Nat) /\ <<>> \in Seq(Nat)
    BY <1>1
  <2>2. QED
    BY <1>1, <2>1, AllOrNothing
<1>3. /\ heard[c] = Whole(c, p = "heard")
      /\ rcv[sc] = Received(c, p = "rcvC", p = "takeC")
      /\ wire[sc] = Whole(c, p = "wireC")
  BY DEF Lies, LiesOnWire
<1>4. writing = Whole(c, p = "outS")
  BY SocketsOf DEF Lies, LiesWithServer, ServerPc, Whole, Answered
<1>5. reading = IF p = "takeC" THEN <<Head(m)>> ELSE Whole(c, p = "bodyC")
  <2>1. CASE p = "takeC"
    BY <1>2, <2>1 DEF Lies, LiesWithClient, OnClient, Received
  <2>2. CASE p = "bodyC"
    BY <1>1, <2>2 DEF Lies, LiesWithClient, OnClient, Received, Whole
  <2>3. CASE p \notin OnClient
    BY <2>3 DEF Lies, LiesWithClient, OnClient, Whole
  <2>4. QED
    BY <2>1, <2>2, <2>3 DEF OnClient
<1>6. Echoed(c) = heard[c] \o reading \o rcv[sc] \o wire[sc] \o writing
  BY DEF Echoed
<1> HIDE DEF reading, writing, sc
<1>7. CASE p = "takeC"
  BY <1>1, <1>2, <1>3, <1>4, <1>5, <1>6, <1>7 DEF Whole, Received
<1>8. CASE p # "takeC"
  <2>1. /\ heard[c] = IF p = "heard" THEN m ELSE <<>>
        /\ reading = IF p = "bodyC" THEN m ELSE <<>>
        /\ rcv[sc] = IF p = "rcvC" THEN m ELSE <<>>
        /\ wire[sc] = IF p = "wireC" THEN m ELSE <<>>
        /\ writing = IF p = "outS" THEN m ELSE <<>>
    BY <1>3, <1>4, <1>5, <1>8 DEF Whole, Received
  <2> HIDE DEF m
  <2>2. heard[c] \o reading \o rcv[sc] \o wire[sc] \o writing \in {<<>>, m}
    BY <1>2, <2>1
  <2>3. QED
    BY <1>6, <2>2 DEF m
<1>9. QED
  BY <1>7, <1>8

\* For any number of clients and any messages that fit a socket: as long as TCP
\* does not split a message, echoServerRead sends each client its own message
\* back, whole and once.  (When TCP does, EchoIntact is violated.)
THEOREM EchoIsIntact == ~Segmented => (SafeSpec => []EchoIntact)
PROOF
<1>1. EchoIInv => EchoIntact
  BY LiesIntact DEF EchoIInv, EchoIntact
<1>2. SUFFICES ASSUME ~Segmented PROVE SafeSpec => []EchoIntact
  OBVIOUS
<1>3. EchoIInv /\ [Next]_vars => EchoIInv'
  BY <1>2, EchoStepIInv
<1>4. QED
  BY <1>1, <1>3, EchoInitIInv, PTL DEF SafeSpec
=============================================================================
