----------------------------- MODULE PartsProofs -----------------------------
(***************************************************************************)
(* Theorems about the smaller parts of base/ and net/: Thread, the tables  *)
(* of the poller, the socket helpers, ReadSmallFile, StringPiece,          *)
(* ProcessInfo and the start of the pool of event loop threads, for any    *)
(* number of objects, channels, descriptors and threads and any sizes.     *)
(***************************************************************************)
EXTENDS LoopThreadPool, Thread, Epoll, Util, ReadSmallFile, StringPiece, ProcessInfo,
        SequenceTheorems, FiniteSetTheorems, WellFoundedInduction, TLAPS

\* A set of natural numbers has a least element.
LEMMA LeastOf ==
  ASSUME NEW T, T \subseteq Nat, T # {}
  PROVE  \E x \in T : \A y \in T : x <= y
PROOF
<1> DEFINE R == OpToRel(<, Nat)
<1>1. IsWellFoundedOn(R, Nat)
  BY NatLessThanWellFounded
<1>2. \A x, y \in Nat : x < y => <<x, y>> \in R
  BY DEF OpToRel
<1> HIDE DEF R
<1>3. PICK x \in T : \A y \in T : ~(<<y, x>> \in R)
  BY <1>1, WFMin
<1>4. x \in Nat /\ \A y \in T : y \in Nat
  OBVIOUS
<1>5. \A y \in T : ~(y < x)
  BY <1>2, <1>3, <1>4
<1>6. QED
  BY <1>4, <1>5

-----------------------------------------------------------------------------
(* Thread. *)

ThreadTypeOK ==
  /\ object \in [Objects -> {"none", "live", "gone"}]
  /\ started_ \in [Objects -> BOOLEAN] /\ joined_ \in [Objects -> BOOLEAN]
  /\ name_ \in [Objects -> Int] /\ numCreated_ \in Nat
  /\ starts \in [Objects -> Nat]
  /\ joining \in Objects \cup {"none"}
  /\ data \in [Objects -> Int]
  /\ running \in [Objects -> {"none", "created", "func_", "ended"}]
  /\ handle \in [Objects -> {"none", "joinable", "joined", "detached"}]
  /\ process \in {"alive", "aborted"}

\* What started_ and joined_ say about the thread and its handle: an object
\* that was not started has neither, and the handle of a started one can be
\* joined until join has returned or the destructor has detached it.
FlagsAreTrue ==
  \A o \in Objects :
    /\ object[o] = "none" => ~started_[o]
    /\ ~started_[o] => running[o] = "none" /\ handle[o] = "none"
    /\ joined_[o] => started_[o]
    /\ joined_[o] /\ joining # o => handle[o] # "joinable"
    /\ joining = o => object[o] = "live" /\ joined_[o]

\* The inductive invariant of Thread.
ThreadIInv == ThreadTypeOK /\ FlagsAreTrue /\ ThreadAccounted

\* Before any object is made, nothing is left over.
LEMMA ThreadInitIInv == ThreadInit => ThreadIInv
BY ObjectsAssumption
   DEF ThreadInit, ThreadIInv, ThreadTypeOK, FlagsAreTrue, ThreadAccounted,
       DataHasItsThread, HandleGivenBack

\* Every step of the owner and of the threads preserves the invariant.
LEMMA ThreadStepIInv == ThreadIInv /\ [ThreadNext]_threadVars => ThreadIInv'
PROOF
<1>1. SUFFICES ASSUME ThreadIInv, [ThreadNext]_threadVars PROVE ThreadIInv'
  OBVIOUS
<1> USE <1>1, ObjectsAssumption DEF ThreadIInv, ThreadAccounted, OwnerRuns, objectVars
<1>2. ASSUME NEW o \in Objects, Make(o) PROVE ThreadIInv'
  <2>1. ThreadTypeOK'
    BY <1>2 DEF Make, ThreadTypeOK
  <2>2. FlagsAreTrue'
    BY <1>2 DEF Make, ThreadTypeOK, FlagsAreTrue
  <2>3. DataHasItsThread'
    BY <1>2 DEF Make, ThreadTypeOK, FlagsAreTrue, DataHasItsThread
  <2>4. HandleGivenBack'
    BY <1>2 DEF Make, ThreadTypeOK, FlagsAreTrue, HandleGivenBack
  <2>5. QED
    BY <2>1, <2>2, <2>3, <2>4
<1>3. ASSUME NEW o \in Objects, StartThread(o) PROVE ThreadIInv'
  <2>1. ThreadTypeOK'
    <3>1. starts[o] + 1 \in Nat /\ data[o] + 1 \in Int
      BY DEF ThreadTypeOK
    <3>2. starts' \in [Objects -> Nat] /\ data' \in [Objects -> Int]
      BY <1>3, <3>1 DEF StartThread, ThreadTypeOK
    <3>3. started_' \in [Objects -> BOOLEAN]
      BY <1>3 DEF StartThread, ThreadTypeOK
    <3>4. QED
      BY <1>3, <3>2, <3>3 DEF StartThread, ThreadTypeOK
  <2>2. FlagsAreTrue'
    BY <1>3 DEF StartThread, ThreadTypeOK, FlagsAreTrue
  <2>3. DataHasItsThread'
    BY <1>3 DEF StartThread, ThreadTypeOK, FlagsAreTrue, DataHasItsThread
  <2>4. HandleGivenBack'
    BY <1>3 DEF StartThread, ThreadTypeOK, FlagsAreTrue, HandleGivenBack
  <2>5. QED
    BY <2>1, <2>2, <2>3, <2>4
<1>4. ASSUME NEW o \in Objects, JoinThread(o) PROVE ThreadIInv'
  <2>1. ThreadTypeOK'
    BY <1>4 DEF JoinThread, ThreadTypeOK
  <2>2. FlagsAreTrue'
    BY <1>4 DEF JoinThread, ThreadTypeOK, FlagsAreTrue
  <2>3. DataHasItsThread'
    BY <1>4 DEF JoinThread, ThreadTypeOK, FlagsAreTrue, DataHasItsThread
  <2>4. HandleGivenBack'
    BY <1>4 DEF JoinThread, ThreadTypeOK, FlagsAreTrue, HandleGivenBack
  <2>5. QED
    BY <2>1, <2>2, <2>3, <2>4
<1>5. ASSUME NEW o \in Objects, Joined(o) PROVE ThreadIInv'
  <2>1. ThreadTypeOK'
    BY <1>5 DEF Joined, ThreadTypeOK
  <2>2. FlagsAreTrue'
    BY <1>5 DEF Joined, ThreadTypeOK, FlagsAreTrue
  <2>3. DataHasItsThread'
    BY <1>5 DEF Joined, ThreadTypeOK, FlagsAreTrue, DataHasItsThread
  <2>4. HandleGivenBack'
    BY <1>5 DEF Joined, ThreadTypeOK, FlagsAreTrue, HandleGivenBack
  <2>5. QED
    BY <2>1, <2>2, <2>3, <2>4
<1>6. ASSUME NEW o \in Objects, DestroyThread(o) PROVE ThreadIInv'
  <2>1. ThreadTypeOK'
    BY <1>6 DEF DestroyThread, ThreadTypeOK
  <2>2. FlagsAreTrue'
    BY <1>6 DEF DestroyThread, ThreadTypeOK, FlagsAreTrue
  <2>3. DataHasItsThread'
    BY <1>6 DEF DestroyThread, ThreadTypeOK, FlagsAreTrue, DataHasItsThread
  <2>4. HandleGivenBack'
    BY <1>6 DEF DestroyThread, ThreadTypeOK, FlagsAreTrue, HandleGivenBack
  <2>5. QED
    BY <2>1, <2>2, <2>3, <2>4
<1>7. ASSUME NEW o \in Objects, runInThread(o) PROVE ThreadIInv'
  <2>1. ThreadTypeOK'
    BY <1>7 DEF runInThread, ThreadTypeOK
  <2>2. FlagsAreTrue'
    BY <1>7 DEF runInThread, ThreadTypeOK, FlagsAreTrue
  <2>3. DataHasItsThread'
    BY <1>7 DEF runInThread, ThreadTypeOK, FlagsAreTrue, DataHasItsThread
  <2>4. HandleGivenBack'
    BY <1>7 DEF runInThread, ThreadTypeOK, FlagsAreTrue, HandleGivenBack
  <2>5. QED
    BY <2>1, <2>2, <2>3, <2>4
<1>8. ASSUME NEW o \in Objects, FuncReturns(o) PROVE ThreadIInv'
  <2>1. ThreadTypeOK'
    BY <1>8 DEF FuncReturns, ThreadTypeOK
  <2>2. FlagsAreTrue'
    BY <1>8 DEF FuncReturns, ThreadTypeOK, FlagsAreTrue
  <2>3. DataHasItsThread'
    BY <1>8 DEF FuncReturns, ThreadTypeOK, FlagsAreTrue, DataHasItsThread
  <2>4. HandleGivenBack'
    BY <1>8 DEF FuncReturns, ThreadTypeOK, FlagsAreTrue, HandleGivenBack
  <2>5. QED
    BY <2>1, <2>2, <2>3, <2>4
<1>9. ASSUME NEW o \in Objects, FuncThrows(o) PROVE ThreadIInv'
  <2>1. ThreadTypeOK'
    BY <1>9 DEF FuncThrows, ThreadTypeOK
  <2>2. FlagsAreTrue'
    BY <1>9 DEF FuncThrows, ThreadTypeOK, FlagsAreTrue
  <2>3. DataHasItsThread'
    BY <1>9 DEF FuncThrows, ThreadTypeOK, FlagsAreTrue, DataHasItsThread
  <2>4. HandleGivenBack'
    BY <1>9 DEF FuncThrows, ThreadTypeOK, FlagsAreTrue, HandleGivenBack
  <2>5. QED
    BY <2>1, <2>2, <2>3, <2>4
<1>10. CASE UNCHANGED threadVars
  BY <1>10
     DEF threadVars, ThreadTypeOK, FlagsAreTrue, DataHasItsThread, HandleGivenBack
<1>11. QED
  BY <1>2, <1>3, <1>4, <1>5, <1>6, <1>7, <1>8, <1>9, <1>10 DEF ThreadNext

\* Neither a ThreadData block nor a thread handle is left over or used after
\* its end, for any number of Thread objects and any failures to start.
THEOREM ThreadsAccounted == ThreadSpec => []ThreadAccounted
PROOF
<1>1. ThreadSpec => []ThreadIInv
  BY ThreadInitIInv, ThreadStepIInv, PTL DEF ThreadSpec
<1>2. QED
  BY <1>1, PTL DEF ThreadIInv

-----------------------------------------------------------------------------
(* Epoll. *)

EpollTypeOK ==
  /\ channelFd \in [Channels -> ChannelFds \cup {0}]
  /\ DOMAIN fd2chan = ChannelFds /\ DOMAIN setBy = ChannelFds
  /\ DOMAIN interestOf = ChannelFds
  /\ \A n \in ChannelFds : DOMAIN interestOf[n] = {"channel", "mask"}
  /\ DOMAIN lastEvents_ = Channels

\* A mask in the interest list was set by a channel with that descriptor, and
\* a second epoll_add is remembered only where something is watched.
WatchedWasSet ==
  \A n \in ChannelFds :
    /\ interestOf[n] # None =>
         interestOf[n].channel \in Channels /\ setBy[n] \in Channels /\ channelFd[setBy[n]] = n
    /\ n \in addedAgain => interestOf[n] # None

\* The inductive invariant of Epoll: a channel keeps its descriptor's number,
\* so that all its calls are about the same entry.
EpollIInv == EpollTypeOK /\ WatchedWasSet /\ PollerAgrees

\* An empty poller agrees with the kernel.
LEMMA EpollInitIInv == EpollInit => EpollIInv
BY ChannelsAssumption, ChannelFdsAssumption
   DEF EpollInit, EpollIInv, EpollTypeOK, WatchedWasSet, PollerAgrees, TableIsCurrent,
       MaskIsKernels, None

\* setFd was called with one of the descriptors.
LEMMA OpenedFd ==
  ASSUME EpollIInv, NEW c \in Channels, HasFd(c)
  PROVE  channelFd[c] \in ChannelFds
BY DEF EpollIInv, EpollTypeOK, HasFd

\* Every step preserves the invariant.
LEMMA EpollStepIInv == EpollIInv /\ [EpollNext]_epollVars => EpollIInv'
PROOF
<1>1. SUFFICES ASSUME EpollIInv, [EpollNext]_epollVars PROVE EpollIInv'
  OBVIOUS
<1> USE <1>1, ChannelsAssumption, ChannelFdsAssumption
    DEF EpollIInv, EpollTypeOK, PollerAgrees, masks
<1>2. ASSUME NEW c \in Channels, OpenChannel(c) PROVE EpollIInv'
  <2>1. PICK n \in ChannelFds : channelFd' = [channelFd EXCEPT ![c] = n]
    BY <1>2 DEF OpenChannel
  <2>2. channelFd[c] = 0 /\ UNCHANGED <<masks, fd2chan, interestOf, setBy, addedAgain>>
    BY <1>2 DEF OpenChannel
  <2>3. EpollTypeOK'
    BY <2>1, <2>2
  <2>4. WatchedWasSet'
    BY <2>1, <2>2 DEF WatchedWasSet
  <2>5. TableIsCurrent' /\ MaskIsKernels'
    BY <2>1, <2>2 DEF TableIsCurrent, MaskIsKernels, WatchedWasSet
  <2>6. QED
    BY <2>3, <2>4, <2>5
<1>3. ASSUME NEW c \in Channels, NEW mask \in Masks, setEvents(c, mask) PROVE EpollIInv'
  BY <1>3 DEF setEvents, WatchedWasSet, TableIsCurrent, MaskIsKernels
<1>4. ASSUME NEW c \in Channels, CloseFd(c) PROVE EpollIInv'
  <2>1. channelFd[c] \in ChannelFds
    BY <1>4, OpenedFd DEF CloseFd
  <2>2. EpollTypeOK' /\ WatchedWasSet'
    BY <1>4, <2>1 DEF CloseFd, None, WatchedWasSet
  <2>3. TableIsCurrent' /\ MaskIsKernels'
    BY <1>4, <2>1 DEF CloseFd, TableIsCurrent, MaskIsKernels
  <2>4. QED
    BY <2>2, <2>3
<1>5. ASSUME NEW c \in Channels, addToPoller(c) PROVE EpollIInv'
  <2>1. channelFd[c] \in ChannelFds /\ UNCHANGED channelFd
    BY <1>5, OpenedFd DEF addToPoller
  <2>2. CASE CtlAdd(c) /\ fd2chan' = [fd2chan EXCEPT ![channelFd[c]] = c]
    <3>1. EpollTypeOK'
      BY <1>5, <2>1, <2>2 DEF addToPoller, epoll_add, CtlAdd, EqualAndUpdateLastEvents
    <3>2. WatchedWasSet'
      BY <2>1, <2>2 DEF CtlAdd, WatchedWasSet
    <3>3. TableIsCurrent'
      BY <2>1, <2>2 DEF CtlAdd, TableIsCurrent, WatchedWasSet
    <3>4. lastEvents_' = [lastEvents_ EXCEPT ![c] = events_[c]]
      BY <1>5 DEF addToPoller, epoll_add, EqualAndUpdateLastEvents
    <3>5. MaskIsKernels'
      BY <2>1, <2>2, <3>4 DEF CtlAdd, MaskIsKernels, WatchedWasSet
    <3>6. QED
      BY <3>1, <3>2, <3>3, <3>5
  <2>3. CASE CtlAddFails(c) /\ fd2chan' = [fd2chan EXCEPT ![channelFd[c]] = NoChannel]
    <3>1. EpollTypeOK'
      BY <1>5, <2>1, <2>3 DEF addToPoller, epoll_add, CtlAddFails, EqualAndUpdateLastEvents
    <3>2. WatchedWasSet'
      BY <2>1, <2>3 DEF CtlAddFails, WatchedWasSet
    <3>3. TableIsCurrent'
      BY <2>1, <2>3 DEF CtlAddFails, TableIsCurrent, WatchedWasSet
    <3>4. lastEvents_' = [lastEvents_ EXCEPT ![c] = events_[c]]
      BY <1>5 DEF addToPoller, epoll_add, EqualAndUpdateLastEvents
    <3>5. MaskIsKernels'
      BY <2>1, <2>3, <3>4 DEF CtlAddFails, MaskIsKernels, WatchedWasSet
    <3>6. QED
      BY <3>1, <3>2, <3>3, <3>5
  <2>4. QED
    BY <1>5, <2>2, <2>3 DEF addToPoller, epoll_add
<1>6. ASSUME NEW c \in Channels, updatePoller(c) PROVE EpollIInv'
  <2>1. channelFd[c] \in ChannelFds /\ UNCHANGED <<channelFd, addedAgain>>
    BY <1>6, OpenedFd DEF updatePoller
  <2>2. EpollTypeOK'
    BY <1>6, <2>1 DEF updatePoller, epoll_mod, EqualAndUpdateLastEvents
  <2>3. WatchedWasSet'
    <3>1. \A n \in ChannelFds : interestOf'[n] # None =>
            \/ setBy'[n] = c /\ channelFd[c] = n
            \/ setBy'[n] = setBy[n] /\ interestOf[n] # None
      BY <1>6, <2>1 DEF updatePoller, epoll_mod
    <3>2. \A n \in ChannelFds :
            /\ interestOf'[n].channel = interestOf[n].channel
            /\ interestOf[n] = None => interestOf'[n] = None
      BY <1>6, <2>1 DEF updatePoller, epoll_mod
    <3>3. \A n \in ChannelFds : interestOf[n] # None => interestOf'[n] # None
      BY <3>2 DEF WatchedWasSet, None
    <3>4. QED
      BY <2>1, <3>1, <3>2, <3>3 DEF WatchedWasSet
  <2>4. TableIsCurrent'
    BY <1>6, <2>1 DEF updatePoller, epoll_mod, TableIsCurrent, None
  <2>5. MaskIsKernels'
    BY <1>6, <2>1
       DEF updatePoller, epoll_mod, EqualAndUpdateLastEvents, MaskIsKernels, WatchedWasSet
  <2>6. QED
    BY <2>2, <2>3, <2>4, <2>5
<1>7. ASSUME NEW c \in Channels, removeFromPoller(c) PROVE EpollIInv'
  <2>1. channelFd[c] \in ChannelFds
    BY <1>7, OpenedFd DEF removeFromPoller
  <2>2. EpollTypeOK' /\ WatchedWasSet'
    BY <1>7, <2>1 DEF removeFromPoller, epoll_del, WatchedWasSet, None
  <2>3. TableIsCurrent' /\ MaskIsKernels'
    BY <1>7, <2>1 DEF removeFromPoller, epoll_del, TableIsCurrent, MaskIsKernels
  <2>4. QED
    BY <2>2, <2>3
<1>8. ASSUME NEW n \in ChannelFds, ActiveChannel(n) PROVE EpollIInv'
  BY <1>8 DEF ActiveChannel, WatchedWasSet, TableIsCurrent, MaskIsKernels
<1>9. CASE UNCHANGED epollVars
  BY <1>9 DEF epollVars, WatchedWasSet, TableIsCurrent, MaskIsKernels
<1>10. QED
  BY <1>2, <1>3, <1>4, <1>5, <1>6, <1>7, <1>8, <1>9 DEF EpollNext

\* The table names the channel that is registered, or none after a second
\* epoll_add, and the channel that set the kernel's mask last knows it: for
\* any number of channels and any sequence of calls, failures, second calls
\* and calls of channels whose descriptor was closed and used again included.
THEOREM PollerAlwaysAgrees == EpollSpec => []PollerAgrees
PROOF
<1>1. EpollSpec => []EpollIInv
  BY EpollInitIInv, EpollStepIInv, PTL DEF EpollSpec
<1>2. QED
  BY <1>1, PTL DEF EpollIInv

-----------------------------------------------------------------------------
(* Numbered bytes, for Util. *)

\* The bytes after the first a of a stream, up to and with byte b.
After(a, b) == Numbers(a + 1, b)

\* They are a sequence, possibly empty.
LEMMA AfterSeq ==
  ASSUME NEW a \in Nat, NEW b \in Nat, a <= b
  PROVE  /\ After(a, b) \in Seq(Int)
         /\ Len(After(a, b)) = b - a
         /\ \A i \in 1 .. b - a : After(a, b)[i] = a + i
PROOF
<1>1. /\ b - a \in Nat
      /\ b - (a + 1) + 1 = b - a /\ \A i \in Int : (a + 1) + i - 1 = a + i
  OBVIOUS
<1>2. After(a, b) = [i \in 1 .. b - a |-> a + i]
  BY <1>1 DEF After, Numbers
<1>3. After(a, b) \in [1 .. b - a -> Int]
  BY <1>2
<1>4. QED
  BY <1>1, <1>2, <1>3, SeqDef, LenProperties

\* None of them, if there is nothing in between.
LEMMA AfterEmpty == ASSUME NEW a \in Nat PROVE After(a, a) = <<>>
PROOF
<1>1. After(a, a) \in Seq(Int) /\ Len(After(a, a)) = 0
  BY AfterSeq
<1>2. QED
  BY <1>1, EmptySeq

\* Two pieces that meet are one.
LEMMA AfterJoin ==
  ASSUME NEW a \in Nat, NEW b \in Nat, NEW c \in Nat, a <= b, b <= c
  PROVE  After(a, b) \o After(b, c) = After(a, c)
PROOF
<1> DEFINE s == After(a, b)  t == After(b, c)  u == After(a, c)
<1>1. s \in Seq(Int) /\ Len(s) = b - a /\ \A i \in 1 .. b - a : s[i] = a + i
  BY AfterSeq
<1>2. t \in Seq(Int) /\ Len(t) = c - b /\ \A i \in 1 .. c - b : t[i] = b + i
  BY AfterSeq
<1>3. u \in Seq(Int) /\ Len(u) = c - a /\ \A i \in 1 .. c - a : u[i] = a + i
  <2>1. a <= c
    OBVIOUS
  <2>2. QED
    BY <2>1, AfterSeq
<1> HIDE DEF s, t, u
<1>4. /\ s \o t \in Seq(Int) /\ Len(s \o t) = c - a
      /\ \A i \in 1 .. c - a :
           (s \o t)[i] = IF i <= b - a THEN s[i] ELSE t[i - (b - a)]
  <2>1. /\ s \o t \in Seq(Int) /\ Len(s \o t) = Len(s) + Len(t)
        /\ \A i \in 1 .. Len(s) + Len(t) :
             (s \o t)[i] = IF i <= Len(s) THEN s[i] ELSE t[i - Len(s)]
    BY <1>1, <1>2, ConcatProperties
  <2>2. Len(s) + Len(t) = c - a
    BY <1>1, <1>2
  <2>3. QED
    BY <1>1, <2>1, <2>2
<1>5. ASSUME NEW i \in 1 .. c - a PROVE (s \o t)[i] = u[i]
  <2>1. CASE i <= b - a
    BY <1>1, <1>3, <1>4, <2>1
  <2>2. CASE i > b - a
    <3>1. i - (b - a) \in 1 .. c - b /\ b + (i - (b - a)) = a + i
      BY <2>2
    <3>2. QED
      BY <1>2, <1>3, <1>4, <2>2, <3>1
  <2>3. i <= b - a \/ i > b - a
    OBVIOUS
  <2>4. QED
    BY <2>1, <2>2, <2>3
<1>6. s \o t = u
  BY <1>3, <1>4, <1>5, SeqEqual
<1>7. QED
  BY <1>6 DEF s, t, u

\* A piece cut at byte c: its beginning and
LEMMA AfterFirst ==
  ASSUME NEW a \in Nat, NEW b \in Nat, NEW c \in Nat, a <= c, c <= b
  PROVE  SubSeq(After(a, b), 1, c - a) = After(a, c)
PROOF
<1> DEFINE s == After(a, b)  t == After(a, c)  v == SubSeq(s, 1, c - a)
<1>1. s \in Seq(Int) /\ Len(s) = b - a /\ \A i \in 1 .. b - a : s[i] = a + i
  <2>1. a <= b
    OBVIOUS
  <2>2. QED
    BY <2>1, AfterSeq
<1>2. t \in Seq(Int) /\ Len(t) = c - a /\ \A i \in 1 .. c - a : t[i] = a + i
  BY AfterSeq
<1> HIDE DEF s, t
<1>3. v \in Seq(Int) /\ Len(v) = c - a /\ \A i \in 1 .. c - a : v[i] = s[i]
  BY <1>1, SubSeqProperties
<1>4. \A i \in 1 .. c - a : i \in 1 .. b - a
  OBVIOUS
<1>5. v = t
  BY <1>1, <1>2, <1>3, <1>4, SeqEqual
<1>6. QED
  BY <1>5 DEF s, t

\* its end.
LEMMA AfterLast ==
  ASSUME NEW a \in Nat, NEW b \in Nat, NEW c \in Nat, a <= c, c <= b
  PROVE  SubSeq(After(a, b), c - a + 1, b - a) = After(c, b)
PROOF
<1> DEFINE s == After(a, b)  t == After(c, b)  v == SubSeq(s, c - a + 1, b - a)
<1>1. s \in Seq(Int) /\ Len(s) = b - a /\ \A i \in 1 .. b - a : s[i] = a + i
  <2>1. a <= b
    OBVIOUS
  <2>2. QED
    BY <2>1, AfterSeq
<1>2. t \in Seq(Int) /\ Len(t) = b - c /\ \A i \in 1 .. b - c : t[i] = c + i
  BY AfterSeq
<1> HIDE DEF s, t
<1>3. v \in Seq(Int) /\ Len(v) = b - c /\ \A i \in 1 .. b - c : v[i] = s[c - a + i]
  <2>1. PICK m \in Nat : m = c - a + 1
    OBVIOUS
  <2>2. PICK n \in Nat : n = b - a
    OBVIOUS
  <2>3. \A i \in m .. n : s[i] \in Int
    BY <1>1, <2>1, <2>2
  <2>4. /\ SubSeq(s, m, n) \in Seq(Int)
        /\ Len(SubSeq(s, m, n)) = IF m <= n THEN n - m + 1 ELSE 0
        /\ \A i \in 1 .. n - m + 1 : SubSeq(s, m, n)[i] = s[m + i - 1]
    BY <2>3, SubSeqProperties
  <2>5. /\ (IF m <= n THEN n - m + 1 ELSE 0) = b - c /\ n - m + 1 = b - c
        /\ \A i \in Int : m + i - 1 = c - a + i
    BY <2>1, <2>2
  <2>6. QED
    BY <2>1, <2>2, <2>4, <2>5
<1>4. \A i \in 1 .. b - c : c - a + i \in 1 .. b - a /\ a + (c - a + i) = c + i
  OBVIOUS
<1>5. v = t
  BY <1>1, <1>2, <1>3, <1>4, SeqEqual
<1>6. QED
  BY <1>5 DEF s, t

-----------------------------------------------------------------------------
(* Util. *)

\* What has been received and what waits in the socket are two pieces of the
\* stream that meet.
ReadStream ==
  \E r, a \in Nat : r <= a /\ inBuffer = After(0, r) /\ socketIn = After(r, a)

\* So are what the peer has got, what waits in the socket and what is left to
\* send; while writen runs, that is what its pointer points to, and the string
\* still holds the bytes this call has written, those after b.
WriteStream ==
  \E p, q, b \in Nat :
    /\ p <= q /\ q <= queued
    /\ peerGot = After(0, p) /\ socketOut = After(p, q)
    /\ sbuff = After(b, queued)
    /\ call # "writen" => b = q
    /\ call = "writen" => b + readSum = q /\ rest = After(q, queued)

\* The inductive invariant of Util.
UtilIInv ==
  /\ queued \in Nat /\ readSum \in Nat
  /\ ReadStream
  /\ failed \/ WriteStream
  /\ ZeroIsTheEnd
  /\ ListensWhereAsked

\* Nothing has been read or written.
LEMMA UtilInitIInv == UtilInit => UtilIInv
PROOF
<1>1. SUFFICES ASSUME UtilInit PROVE UtilIInv
  OBVIOUS
<1>2. After(0, 0) = <<>>
  BY AfterEmpty
<1>3. ReadStream
  BY <1>1, <1>2 DEF UtilInit, ReadStream
<1>4. WriteStream
  BY <1>1, <1>2 DEF UtilInit, WriteStream
<1>5. QED
  BY <1>1, <1>3, <1>4 DEF UtilInit, UtilIInv, ZeroIsTheEnd, ListensWhereAsked

\* read() moves a piece from the socket to the string.
LEMMA ReadBytesKeeps ==
  ASSUME readSum \in Nat, ReadStream, ReadBytes PROVE ReadStream' /\ readSum' \in Nat
PROOF
<1>1. PICK r \in Nat, a \in Nat :
        r <= a /\ inBuffer = After(0, r) /\ socketIn = After(r, a)
  BY DEF ReadStream
<1>2. Len(socketIn) = a - r
  BY <1>1, AfterSeq
<1> DEFINE n == Lesser(MAX_BUFF, Len(socketIn))
<1>3. n \in Nat /\ n <= a - r
  BY <1>1, <1>2, UtilAssumption DEF Lesser
<1>4. /\ inBuffer' = inBuffer \o SubSeq(socketIn, 1, n)
      /\ socketIn' = SubSeq(socketIn, n + 1, a - r)
      /\ readSum' = readSum + n
  BY <1>2 DEF ReadBytes
<1> HIDE DEF n
<1>5. PICK c \in Nat : c = r + n
  BY <1>3
<1>6. r <= c /\ c <= a /\ n = c - r /\ readSum + n \in Nat
  BY <1>1, <1>3, <1>5
<1>7. SubSeq(socketIn, 1, n) = After(r, c) /\ SubSeq(socketIn, n + 1, a - r) = After(c, a)
  <2>1. SubSeq(After(r, a), 1, c - r) = After(r, c)
    BY <1>6, AfterFirst
  <2>2. SubSeq(After(r, a), c - r + 1, a - r) = After(c, a)
    BY <1>6, AfterLast
  <2>3. QED
    BY <1>1, <1>6, <2>1, <2>2
<1>8. After(0, r) \o After(r, c) = After(0, c)
  <2>1. 0 \in Nat /\ 0 <= r
    OBVIOUS
  <2>2. QED
    BY <1>6, <2>1, AfterJoin
<1>9. QED
  BY <1>1, <1>4, <1>6, <1>7, <1>8 DEF ReadStream

\* write() moves a piece from what is left to the socket.
LEMMA WriteBytesKeeps ==
  ASSUME queued \in Nat, readSum \in Nat, call = "writen", WriteStream, WriteBytes,
         UNCHANGED <<queued, peerGot>>
  PROVE  WriteStream' /\ readSum' \in Nat
PROOF
<1>1. PICK p \in Nat, q \in Nat, b \in Nat :
        /\ p <= q /\ q <= queued /\ b + readSum = q
        /\ peerGot = After(0, p) /\ socketOut = After(p, q)
        /\ rest = After(q, queued) /\ sbuff = After(b, queued)
  BY DEF WriteStream
<1>2. Len(rest) = queued - q /\ Len(socketOut) = q - p
  BY <1>1, AfterSeq
<1> DEFINE most == Lesser(Len(rest), SendRoom - Len(socketOut))
<1>3. most \in Int /\ most <= queued - q
  BY <1>1, <1>2, UtilAssumption DEF Lesser
<1>4. PICK n \in 1 .. most :
        /\ socketOut' = socketOut \o SubSeq(rest, 1, n)
        /\ rest' = SubSeq(rest, n + 1, queued - q)
        /\ readSum' = readSum + n
  BY <1>2 DEF WriteBytes
<1> HIDE DEF most
<1>5. n \in Nat /\ n <= queued - q
  BY <1>3, <1>4
<1>6. PICK c \in Nat : c = q + n
  BY <1>5
<1>7. /\ q <= c /\ c <= queued /\ n = c - q /\ p <= c
      /\ readSum + n \in Nat /\ b + (readSum + n) = c
  BY <1>1, <1>5, <1>6
<1>8. SubSeq(rest, 1, n) = After(q, c) /\ SubSeq(rest, n + 1, queued - q) = After(c, queued)
  <2>1. SubSeq(After(q, queued), 1, c - q) = After(q, c)
    BY <1>7, AfterFirst
  <2>2. SubSeq(After(q, queued), c - q + 1, queued - q) = After(c, queued)
    BY <1>7, AfterLast
  <2>3. QED
    BY <1>1, <1>7, <2>1, <2>2
<1>9. After(p, q) \o After(q, c) = After(p, c)
  BY <1>1, <1>7, AfterJoin
<1>10. call' = call /\ sbuff' = sbuff
  BY DEF WriteBytes
<1>11. QED
  BY <1>1, <1>4, <1>7, <1>8, <1>9, <1>10 DEF WriteStream

\* When writen returns, what it has left in the string is the rest.
LEMMA WriteEndKeeps ==
  ASSUME queued \in Nat, readSum \in Nat, call = "writen", WriteStream,
         call' = "none", UNCHANGED <<queued, peerGot, socketOut>>,
         sbuff' = IF readSum = Len(sbuff) THEN <<>>
                  ELSE SubSeq(sbuff, readSum + 1, Len(sbuff))
  PROVE  WriteStream'
PROOF
<1>1. PICK p \in Nat, q \in Nat, b \in Nat :
        /\ p <= q /\ q <= queued /\ b + readSum = q
        /\ peerGot = After(0, p) /\ socketOut = After(p, q)
        /\ sbuff = After(b, queued)
  BY DEF WriteStream
<1>2. b <= q /\ b <= queued /\ readSum = q - b
  BY <1>1
<1>3. Len(sbuff) = queued - b
  BY <1>1, <1>2, AfterSeq
<1>4. SubSeq(sbuff, readSum + 1, queued - b) = After(q, queued)
  <2>1. SubSeq(After(b, queued), q - b + 1, queued - b) = After(q, queued)
    BY <1>1, <1>2, AfterLast
  <2>2. QED
    BY <1>1, <1>2, <2>1
<1>5. ASSUME readSum = Len(sbuff) PROVE After(q, queued) = <<>>
  <2>1. q = queued
    BY <1>1, <1>2, <1>3, <1>5
  <2>2. QED
    BY <2>1, AfterEmpty
<1>6. sbuff' = After(q, queued)
  BY <1>3, <1>4, <1>5
<1>7. QED
  BY <1>1, <1>6 DEF WriteStream

\* The steps that leave the pieces to be sent alone.
LEMMA WriteStreamKept ==
  ASSUME WriteStream, call # "writen", call' # "writen",
         UNCHANGED <<queued, peerGot, socketOut, sbuff>>
  PROVE  WriteStream'
BY DEF WriteStream

\* A step of either readn preserves the invariant.
LEMMA ReadnKeeps ==
  ASSUME UtilIInv, readn_zero \/ readn PROVE UtilIInv'
PROOF
<1>1. /\ call \in {"readn_zero", "readn"} /\ UNCHANGED <<sending, link, server>>
      /\ call' # "writen" /\ (failed' = failed \/ failed' = TRUE)
  BY DEF readn_zero, readn, ReadBytes, ReadEAGAIN, ReadError, AtEnd, receiving
<1>2. queued' \in Nat /\ ListensWhereAsked'
  BY <1>1 DEF UtilIInv, ListensWhereAsked, sending
<1>3. failed' \/ WriteStream'
  BY <1>1, WriteStreamKept DEF UtilIInv, sending
<1>4. readSum' \in Nat /\ ReadStream'
  <2>1. CASE ReadBytes
    BY <2>1, ReadBytesKeeps DEF UtilIInv
  <2>2. CASE ~ReadBytes
    <3>1. UNCHANGED <<readSum, inBuffer, socketIn>>
      BY <2>2 DEF readn_zero, readn, ReadEAGAIN, ReadError, AtEnd, receiving
    <3>2. QED
      BY <3>1 DEF UtilIInv, ReadStream
  <2>3. QED
    BY <2>1, <2>2
<1>5. ZeroIsTheEnd'
  <2>1. CASE ReadBytes
    <3>1. socketIn # <<>> /\ zero' = zero
      BY <2>1, UtilAssumption DEF ReadBytes, Lesser
    <3>2. QED
      BY <3>1 DEF UtilIInv, ZeroIsTheEnd
  <2>2. CASE ~ReadBytes
    BY <1>1, <2>2
       DEF readn_zero, readn, ReadEAGAIN, ReadError, AtEnd, receiving, UtilIInv, ZeroIsTheEnd
  <2>3. QED
    BY <2>1, <2>2
<1>6. QED
  BY <1>2, <1>3, <1>4, <1>5 DEF UtilIInv

\* So does a step of writen.
LEMMA WritenKeeps == ASSUME UtilIInv, writen PROVE UtilIInv'
PROOF
<1>1. /\ call = "writen" /\ UNCHANGED <<receiving, queued, peerGot, link, server>>
  BY DEF writen
<1>2. queued' \in Nat /\ ReadStream' /\ ZeroIsTheEnd' /\ ListensWhereAsked'
  BY <1>1 DEF UtilIInv, ReadStream, ZeroIsTheEnd, ListensWhereAsked, receiving
<1>3. CASE WriteError
  BY <1>2, <1>3 DEF WriteError, UtilIInv
<1>4. CASE WriteBytes
  <2>1. readSum' \in Nat
    <3>1. PICK n \in 1 .. Lesser(Len(rest), SendRoom - Len(socketOut)) :
            readSum' = readSum + n
      BY <1>4 DEF WriteBytes
    <3>2. n \in Nat
      OBVIOUS
    <3>3. QED
      BY <3>1, <3>2 DEF UtilIInv
  <2>2. failed' \/ WriteStream'
    <3>1. CASE failed
      BY <1>4, <3>1 DEF WriteBytes
    <3>2. CASE ~failed
      BY <1>1, <1>4, <3>2, WriteBytesKeeps DEF UtilIInv
    <3>3. QED
      BY <3>1, <3>2
  <2>3. QED
    BY <1>2, <2>1, <2>2 DEF UtilIInv
<1>5. CASE ~WriteError /\ ~WriteBytes
  <2>1. /\ call' = "none" /\ UNCHANGED <<readSum, rest, socketOut, failed>>
        /\ sbuff' = IF readSum = Len(sbuff) THEN <<>>
                    ELSE SubSeq(sbuff, readSum + 1, Len(sbuff))
    BY <1>5 DEF writen
  <2>2. failed' \/ WriteStream'
    BY <1>1, <2>1, WriteEndKeeps DEF UtilIInv
  <2>3. QED
    BY <1>2, <2>1, <2>2 DEF UtilIInv
<1>6. QED
  BY <1>3, <1>4, <1>5

\* Every step preserves the invariant.
LEMMA UtilStepIInv == UtilIInv /\ [UtilNext]_utilVars => UtilIInv'
PROOF
<1>1. SUFFICES ASSUME UtilIInv, [UtilNext]_utilVars PROVE UtilIInv'
  OBVIOUS
<1> USE <1>1 DEF UtilIInv
<1>2. CASE PeerSends
  <2>1. PICK r \in Nat, a \in Nat :
          r <= a /\ inBuffer = After(0, r) /\ socketIn = After(r, a)
    BY DEF ReadStream
  <2>2. Len(inBuffer) = r /\ Len(socketIn) = a - r
    <3>1. 0 \in Nat /\ 0 <= r /\ r - 0 = r
      OBVIOUS
    <3>2. QED
      BY <2>1, <3>1, AfterSeq
  <2>3. Arrived = a
    BY <2>2 DEF Arrived
  <2>4. PICK n \in 1 .. StreamLen - a : socketIn' = socketIn \o After(a, a + n)
    BY <1>2, <2>3 DEF PeerSends, After
  <2>5. PICK e \in Nat : e = a + n
    BY <2>4, UtilAssumption
  <2>6. After(r, a) \o After(a, e) = After(r, e)
    <3>1. r <= a /\ a <= e
      BY <2>1, <2>4, <2>5
    <3>2. QED
      BY <3>1, AfterJoin
  <2>7. ReadStream'
    <3>1. inBuffer' = inBuffer
      BY <1>2 DEF PeerSends
    <3>2. r <= e
      BY <2>1, <2>5
    <3>3. QED
      BY <2>1, <2>4, <2>5, <2>6, <3>1, <3>2 DEF ReadStream
  <2>8. failed' \/ WriteStream'
    BY <1>2 DEF PeerSends, sending, WriteStream
  <2>9. QED
    BY <1>2, <2>7, <2>8 DEF PeerSends, sending, ZeroIsTheEnd, ListensWhereAsked
<1>3. CASE PeerTakes
  <2>1. CASE failed
    BY <1>3, <2>1 DEF PeerTakes, receiving, ReadStream, ZeroIsTheEnd, ListensWhereAsked
  <2>2. CASE ~failed
    <3>1. PICK p \in Nat, q \in Nat, b \in Nat :
            /\ p <= q /\ q <= queued
            /\ peerGot = After(0, p) /\ socketOut = After(p, q)
            /\ sbuff = After(b, queued)
            /\ call # "writen" => b = q
            /\ call = "writen" => b + readSum = q /\ rest = After(q, queued)
      BY <2>2 DEF WriteStream
    <3>2. After(0, p) \o After(p, q) = After(0, q) /\ After(q, q) = <<>>
      <4>1. 0 \in Nat /\ 0 <= p
        OBVIOUS
      <4>2. QED
        BY <3>1, <4>1, AfterJoin, AfterEmpty
    <3>3. peerGot' = After(0, q) /\ socketOut' = After(q, q) /\ q <= q
      BY <1>3, <3>1, <3>2 DEF PeerTakes
    <3>4. WriteStream'
      BY <1>3, <3>1, <3>3 DEF PeerTakes, WriteStream
    <3>5. QED
      BY <1>3, <3>4 DEF PeerTakes, receiving, ReadStream, ZeroIsTheEnd, ListensWhereAsked
  <2>3. QED
    BY <2>1, <2>2
<1>4. CASE LinkEnds
  BY <1>4 DEF LinkEnds, receiving, sending, ReadStream, WriteStream, ZeroIsTheEnd,
              ListensWhereAsked
<1>5. CASE ConstructServer
  <2>1. ListensWhereAsked'
    BY <1>5 DEF ConstructServer, socket_bind_listen, setSocketNonBlocking, ListensWhereAsked
  <2>2. ~zero /\ zero' = zero
    BY <1>5 DEF ConstructServer, receiving, ZeroIsTheEnd
  <2>3. QED
    BY <1>5, <2>1, <2>2 DEF ConstructServer, receiving, sending, ReadStream, WriteStream,
                            ZeroIsTheEnd
<1>6. CASE ConstructClient
  BY <1>6 DEF ConstructClient, receiving, sending, ReadStream, WriteStream, ZeroIsTheEnd,
              ListensWhereAsked
<1>7. CASE BeginRead
  BY <1>7 DEF BeginRead, receiving, sending, ReadStream, WriteStream, ZeroIsTheEnd,
              ListensWhereAsked
<1>8. CASE readn_zero \/ readn
  BY <1>8, ReadnKeeps
<1>9. CASE BeginWrite
  <2>1. PICK p \in Nat, q \in Nat :
          /\ p <= q /\ q <= queued
          /\ peerGot = After(0, p) /\ socketOut = After(p, q) /\ sbuff = After(q, queued)
    BY <1>9 DEF BeginWrite, WriteStream
  <2>2. PICK n \in 0 .. StreamLen - queued :
          sbuff' = sbuff \o After(queued, queued + n) /\ queued' = queued + n
    BY <1>9 DEF BeginWrite, After
  <2>3. /\ queued' \in Nat /\ queued' = queued + n /\ queued <= queued' /\ q <= queued'
        /\ readSum' = 0 /\ q + 0 = q
    BY <1>9, <2>1, <2>2, UtilAssumption DEF BeginWrite
  <2>4. After(q, queued) \o After(queued, queued') = After(q, queued')
    BY <2>1, <2>3, AfterJoin
  <2>5. sbuff' = After(q, queued') /\ rest' = After(q, queued')
    BY <1>9, <2>1, <2>2, <2>3, <2>4 DEF BeginWrite
  <2>6. WriteStream'
    BY <1>9, <2>1, <2>3, <2>5 DEF BeginWrite, WriteStream
  <2>7. QED
    BY <1>9, <2>3, <2>6 DEF BeginWrite, receiving, ReadStream, ZeroIsTheEnd, ListensWhereAsked
<1>10. CASE writen
  BY <1>10, WritenKeeps
<1>11. CASE UNCHANGED utilVars
  BY <1>11 DEF utilVars, receiving, sending, ReadStream, WriteStream, ZeroIsTheEnd,
               ListensWhereAsked
<1>12. QED
  BY <1>2, <1>3, <1>4, <1>5, <1>6, <1>7, <1>8, <1>9, <1>10, <1>11 DEF UtilNext

\* The invariant says what the helpers promise.
LEMMA UtilIInvKeepsWord == UtilIInv => HelpersKeepTheirWord
PROOF
<1>1. SUFFICES ASSUME UtilIInv PROVE HelpersKeepTheirWord
  OBVIOUS
<1>2. \A b \in Nat : After(0, b) = Numbers(1, b)
  BY DEF After
<1>3. ReadInOrder
  <2>1. PICK r \in Nat : inBuffer = After(0, r)
    BY <1>1 DEF UtilIInv, ReadStream
  <2>2. 0 \in Nat /\ 0 <= r /\ r - 0 = r
    OBVIOUS
  <2>3. Len(inBuffer) = r
    BY <2>1, <2>2, AfterSeq
  <2>4. QED
    BY <1>2, <2>1, <2>3 DEF ReadInOrder
<1>4. RestIsKept
  <2>1. SUFFICES ASSUME call # "writen", ~failed
                 PROVE  peerGot \o socketOut \o sbuff = Numbers(1, queued)
    BY DEF RestIsKept
  <2>2. PICK p \in Nat, q \in Nat :
          /\ p <= q /\ q <= queued
          /\ peerGot = After(0, p) /\ socketOut = After(p, q) /\ sbuff = After(q, queued)
    BY <1>1, <2>1 DEF UtilIInv, WriteStream
  <2>3. After(0, p) \o After(p, q) = After(0, q)
    <3>1. 0 \in Nat /\ 0 <= p
      OBVIOUS
    <3>2. QED
      BY <2>2, <3>1, AfterJoin
  <2>4. After(0, q) \o After(q, queued) = After(0, queued)
    <3>1. 0 \in Nat /\ 0 <= q /\ queued \in Nat
      BY <1>1 DEF UtilIInv
    <3>2. QED
      BY <2>2, <3>1, AfterJoin
  <2>5. QED
    BY <1>1, <1>2, <2>2, <2>3, <2>4 DEF UtilIInv
<1>5. QED
  BY <1>1, <1>3, <1>4 DEF UtilIInv, HelpersKeepTheirWord

\* readn and writen lose, repeat and reorder nothing over any number of calls,
\* short reads and full sockets, for buffers and streams of any size; `zero'
\* is only set at the end of the stream, and a constructed Server listens.
THEOREM HelpersAlwaysKeepTheirWord == UtilSpec => []HelpersKeepTheirWord
PROOF
<1>1. UtilSpec => []UtilIInv
  BY UtilInitIInv, UtilStepIInv, PTL DEF UtilSpec
<1>2. QED
  BY <1>1, UtilIInvKeepsWord, PTL

-----------------------------------------------------------------------------
(* ReadSmallFile. *)

FileByte == [version : Int, at : Int]

\* A version of the file is a sequence of its bytes.
LEMMA VersionSeq ==
  ASSUME NEW v \in Nat, NEW n \in Nat
  PROVE  /\ Version(v, n) \in Seq(FileByte) /\ Len(Version(v, n)) = n
         /\ \A i \in 1 .. n : Version(v, n)[i].version = v /\ Version(v, n)[i].at = i
PROOF
<1>1. Version(v, n) \in [1 .. n -> FileByte]
  BY DEF Version, FileByte
<1>2. \A i \in 1 .. n : Version(v, n)[i].version = v /\ Version(v, n)[i].at = i
  BY DEF Version
<1>3. QED
  BY <1>1, <1>2, SeqDef, LenProperties

\* The file is all of one version.
FileIsOneVersion ==
  /\ version \in Nat
  /\ file \in Seq(FileByte)
  /\ \A i \in 1 .. Len(file) : file[i].version = version /\ file[i].at = i

\* The string: byte i is in place i, older ones come first, and the last one
\* is of the present version only if the file still has it.
StringInOrder ==
  /\ content \in Seq(FileByte) /\ Len(content) = offset
  /\ \A i \in 1 .. offset : content[i].at = i /\ content[i].version <= version
  /\ \A i, j \in 1 .. offset : i <= j => content[i].version <= content[j].version
  /\ offset > 0 /\ content[offset].version = version => offset <= Len(file)

\* The inductive invariant of ReadSmallFile: the string holds the bytes up to
\* the offset, which never passes maxSize.
ReadIInv ==
  /\ maxSize \in Nat /\ offset \in Nat /\ offset <= maxSize
  /\ FileIsOneVersion /\ StringInOrder
  /\ BufferTerminated

\* Nothing has been read.
LEMMA ReadInitIInv == ReadInit => ReadIInv
PROOF
<1>1. SUFFICES ASSUME ReadInit PROVE ReadIInv
  OBVIOUS
<1>2. PICK f \in FileSizes : file = Version(0, f)
  BY <1>1 DEF ReadInit
<1>3. f \in Nat /\ maxSize \in Nat /\ 0 <= maxSize /\ 0 < kBufferSize
  BY <1>1, ReadAssumption DEF ReadInit
<1>4. version = 0 /\ FileIsOneVersion
  <2>1. version = 0
    BY <1>1 DEF ReadInit
  <2>2. PICK g \in Seq(FileByte) : g = Version(0, f)
    BY <1>3, VersionSeq
  <2>3. Len(g) = f /\ \A i \in 1 .. f : g[i].version = 0 /\ g[i].at = i
    BY <1>3, <2>2, VersionSeq
  <2>4. QED
    BY <1>2, <2>1, <2>2, <2>3 DEF FileIsOneVersion
<1>5. content = <<>> /\ offset = 0
  BY <1>1 DEF ReadInit
<1>6. content \in Seq(FileByte) /\ Len(content) = 0
  BY <1>5
<1>7. StringInOrder
  BY <1>5, <1>6 DEF StringInOrder
<1>8. buf_.null = 0
  BY <1>1 DEF ReadInit, NoBuffer
<1>9. QED
  BY <1>3, <1>4, <1>5, <1>7, <1>8 DEF ReadIInv, BufferTerminated

\* What From returns: the bytes of the file after the first k, at most m.
LEMMA FromIs ==
  ASSUME FileIsOneVersion, NEW k \in Nat, NEW m \in Nat,
         NEW e \in Nat, e = AtMost(k + m, Len(file))
  PROVE  /\ From(k, m) \in Seq(FileByte)
         /\ Len(From(k, m)) = IF k < e THEN e - k ELSE 0
         /\ \A i \in 1 .. e - k :
              From(k, m)[i].version = version /\ From(k, m)[i].at = k + i
PROOF
<1>1. PICK f \in Nat : f = Len(file)
  BY DEF FileIsOneVersion
<1>2. PICK b \in Nat : b = k + 1
  OBVIOUS
<1>3. e <= f
  BY <1>1 DEF AtMost
<1>4. \A i \in b .. e : file[i] \in FileByte
  BY <1>1, <1>2, <1>3, ElementOfSeq DEF FileIsOneVersion
<1>5. /\ SubSeq(file, b, e) \in Seq(FileByte)
      /\ Len(SubSeq(file, b, e)) = IF b <= e THEN e - b + 1 ELSE 0
      /\ \A i \in 1 .. e - b + 1 : SubSeq(file, b, e)[i] = file[b + i - 1]
  BY <1>4, SubSeqProperties
<1>6. From(k, m) = SubSeq(file, b, e)
  BY <1>2 DEF From
<1>7. /\ e - b + 1 = e - k /\ (IF b <= e THEN e - b + 1 ELSE 0) = (IF k < e THEN e - k ELSE 0)
      /\ \A i \in Int : b + i - 1 = k + i
  BY <1>2
<1>8. \A i \in 1 .. e - k : k + i \in 1 .. f
  BY <1>3
<1>9. \A i \in 1 .. f : file[i].version = version /\ file[i].at = i
  BY <1>1 DEF FileIsOneVersion
<1>10. \A i \in 1 .. e - k : From(k, m)[i] = file[k + i]
  <2>1. SUFFICES ASSUME NEW i \in 1 .. e - k PROVE From(k, m)[i] = file[k + i]
    OBVIOUS
  <2>2. i \in 1 .. e - b + 1 /\ b + i - 1 = k + i
    BY <1>2
  <2>3. SubSeq(file, b, e)[i] = file[b + i - 1]
    BY <1>5, <2>2
  <2>4. QED
    BY <1>6, <2>2, <2>3
<1>11. \A i \in 1 .. e - k : From(k, m)[i].version = version /\ From(k, m)[i].at = k + i
  <2>1. SUFFICES ASSUME NEW i \in 1 .. e - k
                 PROVE  From(k, m)[i].version = version /\ From(k, m)[i].at = k + i
    OBVIOUS
  <2>2. PICK j \in 1 .. f : j = k + i
    BY <1>8, <2>1
  <2>3. QED
    BY <1>9, <1>10, <2>1, <2>2
<1>12. From(k, m) \in Seq(FileByte) /\ Len(From(k, m)) = IF k < e THEN e - k ELSE 0
  BY <1>5, <1>6, <1>7
<1>13. QED
  BY <1>11, <1>12

\* One read() adds the bytes that follow, and not more than may be taken.
LEMMA ReadPieceKeeps ==
  ASSUME ReadIInv, ReadPiece
  PROVE  offset' \in Nat /\ offset' <= maxSize /\ StringInOrder'
PROOF
<1>1. /\ maxSize \in Nat /\ offset \in Nat /\ offset <= maxSize /\ FileIsOneVersion
      /\ content \in Seq(FileByte) /\ Len(content) = offset /\ version \in Nat
  BY DEF ReadIInv, StringInOrder, FileIsOneVersion
<1>2. PICK f \in Nat : f = Len(file)
  BY <1>1 DEF FileIsOneVersion
<1>3. PICK t \in Nat : t = AtMost(maxSize - offset, kBufferSize) /\ t <= maxSize - offset
  <2>1. PICK r \in Nat : r = maxSize - offset
    BY <1>1
  <2>2. AtMost(r, kBufferSize) \in Nat /\ AtMost(r, kBufferSize) <= r
    BY ReadAssumption DEF AtMost
  <2>3. QED
    BY <2>1, <2>2
<1>4. PICK n \in 1 .. Len(From(offset, t)) :
        content' = content \o From(offset, n) /\ offset' = offset + n
  BY <1>1, <1>3 DEF ReadPiece
<1>5. PICK e \in Nat : e = AtMost(offset + t, Len(file)) /\ e <= f /\ e <= offset + t
  BY <1>1, <1>2 DEF AtMost
<1>6. Len(From(offset, t)) = IF offset < e THEN e - offset ELSE 0
  BY <1>1, <1>5, FromIs
<1>7. n \in Nat /\ n > 0 /\ offset + n <= e
  BY <1>1, <1>4, <1>5, <1>6
<1>8. PICK g \in Nat : g = offset + n /\ g <= f /\ g <= maxSize /\ offset < g /\ g - offset = n
  BY <1>1, <1>3, <1>5, <1>7
<1>9. g = AtMost(offset + n, Len(file))
  BY <1>2, <1>8 DEF AtMost
<1>10. /\ From(offset, n) \in Seq(FileByte) /\ Len(From(offset, n)) = n
       /\ \A i \in 1 .. n : From(offset, n)[i].version = version /\ From(offset, n)[i].at = offset + i
  BY <1>1, <1>7, <1>8, <1>9, FromIs
<1>11. PICK piece_ \in Seq(FileByte) : piece_ = From(offset, n)
  BY <1>10
<1>12. /\ content' \in Seq(FileByte) /\ Len(content') = g
       /\ \A i \in 1 .. g :
            content'[i] = IF i <= offset THEN content[i] ELSE piece_[i - offset]
  <2>1. /\ content \o piece_ \in Seq(FileByte)
        /\ Len(content \o piece_) = Len(content) + Len(piece_)
        /\ \A i \in 1 .. Len(content) + Len(piece_) :
             (content \o piece_)[i] =
               IF i <= Len(content) THEN content[i] ELSE piece_[i - Len(content)]
    BY <1>1, ConcatProperties
  <2>2. Len(content) + Len(piece_) = g
    BY <1>1, <1>8, <1>10, <1>11
  <2>3. QED
    BY <1>1, <1>4, <1>11, <2>1, <2>2
<1>13. \A i \in 1 .. g : i > offset => i - offset \in 1 .. n /\ offset + (i - offset) = i
  BY <1>1, <1>8
<1>14. \A i \in 1 .. g : i > offset => content'[i].version = version /\ content'[i].at = i
  <2>1. SUFFICES ASSUME NEW i \in 1 .. g, i > offset
                 PROVE  content'[i].version = version /\ content'[i].at = i
    OBVIOUS
  <2>2. content'[i] = piece_[i - offset]
    BY <1>1, <1>12, <2>1
  <2>3. QED
    BY <1>10, <1>11, <1>13, <2>1, <2>2
<1>15. \A i \in 1 .. g : i <= offset => content'[i] = content[i] /\ i \in 1 .. offset
  BY <1>1, <1>12
<1>16. /\ \A i \in 1 .. offset : content[i].at = i /\ content[i].version <= version
       /\ \A i, j \in 1 .. offset : i <= j => content[i].version <= content[j].version
  BY DEF ReadIInv, StringInOrder
<1>17. \A i \in 1 .. g : content'[i].at = i /\ content'[i].version <= version
  <2>1. \A i \in 1 .. g : i <= offset \/ i > offset
    BY <1>1
  <2>2. version <= version
    BY <1>1
  <2>3. QED
    BY <1>14, <1>15, <1>16, <2>1, <2>2
<1>18. ASSUME NEW i \in 1 .. g, NEW j \in 1 .. g, i <= j
       PROVE  content'[i].version <= content'[j].version
  <2>1. CASE j <= offset
    <3>1. i <= offset
      BY <1>1, <1>18, <2>1
    <3>2. QED
      BY <1>15, <1>16, <1>18, <2>1, <3>1
  <2>2. CASE j > offset
    BY <1>14, <1>17, <2>2
  <2>3. QED
    BY <1>1, <2>1, <2>2
<1>19. offset' = g /\ file' = file /\ version' = version
  BY <1>4, <1>8 DEF ReadPiece
<1>20. QED
  BY <1>2, <1>8, <1>12, <1>17, <1>18, <1>19 DEF StringInOrder

\* readToBuffer leaves room for the null.
LEMMA BufferHasRoom ==
  ASSUME ReadIInv
  PROVE  Len(From(0, kBufferSize - 1)) < kBufferSize
PROOF
<1>1. PICK m \in Nat : m = kBufferSize - 1
  BY ReadAssumption
<1>2. FileIsOneVersion /\ Len(file) \in Nat
  BY DEF ReadIInv, FileIsOneVersion
<1>3. PICK e \in Nat : e = AtMost(0 + m, Len(file)) /\ e < kBufferSize
  BY <1>1, <1>2, ReadAssumption DEF AtMost
<1>4. Len(From(0, m)) = IF 0 < e THEN e - 0 ELSE 0
  BY <1>2, <1>3, FromIs
<1>5. QED
  BY <1>1, <1>3, <1>4, ReadAssumption

\* One more byte of the same version.
LEMMA GrowKeeps ==
  ASSUME ReadIInv, GrowFile
  PROVE  FileIsOneVersion' /\ StringInOrder'
PROOF
<1>1. PICK f \in Nat : f = Len(file) /\ file \in Seq(FileByte) /\ version \in Nat
  BY DEF ReadIInv, FileIsOneVersion
<1>2. PICK b \in FileByte : b = [version |-> version, at |-> f + 1]
  <2>1. [version |-> version, at |-> f + 1] \in FileByte
    BY <1>1 DEF FileByte
  <2>2. QED
    BY <2>1
<1>3. file' = Append(file, b)
  BY <1>1, <1>2 DEF GrowFile
<1>4. /\ file' \in Seq(FileByte) /\ Len(file') = f + 1
      /\ \A i \in 1 .. f : file'[i] = file[i]
      /\ file'[f + 1] = b
  BY <1>1, <1>2, <1>3, AppendProperties
<1>5. \A i \in 1 .. f + 1 : i \in 1 .. f \/ i = f + 1
  OBVIOUS
<1>6. \A i \in 1 .. f : file[i].version = version /\ file[i].at = i
  BY <1>1 DEF ReadIInv, FileIsOneVersion
<1>7. \A i \in 1 .. f + 1 : file'[i].version = version /\ file'[i].at = i
  BY <1>2, <1>4, <1>5, <1>6
<1>8. UNCHANGED <<version, content, offset>>
  BY DEF GrowFile, results
<1>9. FileIsOneVersion'
  BY <1>1, <1>4, <1>7, <1>8 DEF FileIsOneVersion
<1>10. offset > 0 /\ content[offset].version = version => offset <= f + 1
  BY <1>1 DEF ReadIInv, StringInOrder
<1>11. StringInOrder'
  BY <1>1, <1>4, <1>8, <1>10 DEF ReadIInv, StringInOrder
<1>12. QED
  BY <1>9, <1>11

\* A new version: all that was read is older.
LEMMA RewriteKeeps ==
  ASSUME ReadIInv, RewriteFile
  PROVE  FileIsOneVersion' /\ StringInOrder'
PROOF
<1>1. PICK n \in FileSizes : file' = Version(version + 1, n)
  BY DEF RewriteFile
<1>2. PICK v \in Nat : v = version + 1
  BY DEF ReadIInv, FileIsOneVersion
<1>3. n \in Nat /\ version' = v /\ UNCHANGED <<content, offset>> /\ version \in Nat
  BY <1>2, ReadAssumption DEF RewriteFile, results, ReadIInv, FileIsOneVersion
<1>4. FileIsOneVersion'
  <2>1. PICK g \in Seq(FileByte) : g = Version(v, n)
    BY <1>3, VersionSeq
  <2>2. Len(g) = n /\ \A i \in 1 .. n : g[i].version = v /\ g[i].at = i
    BY <1>3, <2>1, VersionSeq
  <2>3. file' = g
    BY <1>1, <1>2, <2>1
  <2>4. QED
    BY <1>3, <2>1, <2>2, <2>3 DEF FileIsOneVersion
<1>5. content \in Seq(FileByte) /\ Len(content) = offset /\ offset \in Nat
  BY DEF ReadIInv, StringInOrder
<1>6. \A i \in 1 .. offset : content[i] \in FileByte
  BY <1>5, ElementOfSeq
<1>7. \A i \in 1 .. offset : content[i].version \in Int
  BY <1>6 DEF FileByte
<1>8. \A i \in 1 .. offset : content[i].version < v
  BY <1>2, <1>3, <1>7 DEF ReadIInv, StringInOrder
<1>9. offset > 0 => offset \in 1 .. offset
  BY <1>5
<1>10. \A i \in 1 .. offset : content[i].version <= v /\ content[i].version # v
  BY <1>2, <1>7, <1>8
<1>11. StringInOrder'
  BY <1>3, <1>5, <1>9, <1>10 DEF ReadIInv, StringInOrder
<1>12. QED
  BY <1>4, <1>11

\* Every step of the reader and of whoever writes to the file preserves the
\* invariant.
LEMMA ReadStepIInv == ReadIInv /\ [ReadNext]_readVars => ReadIInv'
PROOF
<1>1. SUFFICES ASSUME ReadIInv, [ReadNext]_readVars PROVE ReadIInv'
  OBVIOUS
<1>2. CASE GrowFile
  BY <1>1, <1>2, GrowKeeps DEF GrowFile, ReadIInv, objectOf, results, BufferTerminated
<1>3. CASE RewriteFile
  BY <1>1, <1>3, RewriteKeeps DEF RewriteFile, ReadIInv, objectOf, results, BufferTerminated
<1>4. CASE ReadPiece
  BY <1>1, <1>4, ReadPieceKeeps
     DEF ReadPiece, ReadIInv, objectOf, FileIsOneVersion, BufferTerminated
<1>5. CASE readToBuffer
  <2>1. BufferTerminated'
    BY <1>1, <1>5, BufferHasRoom DEF readToBuffer, ReadIInv, BufferTerminated
  <2>2. QED
    BY <1>1, <1>5, <2>1
       DEF readToBuffer, ReadIInv, FileIsOneVersion, StringInOrder, objectOf
<1>6. CASE Open \/ Fstat \/ ReadToEnd \/ ReadFails \/ CloseFile
  BY <1>1, <1>6
     DEF Open, Fstat, ReadToEnd, ReadFails, CloseFile, ReadIInv, FileIsOneVersion,
         StringInOrder, objectOf, results, BufferTerminated
<1>7. CASE UNCHANGED readVars
  BY <1>1, <1>7
     DEF readVars, ReadIInv, FileIsOneVersion, StringInOrder, objectOf, results,
         BufferTerminated
<1>8. QED
  BY <1>1, <1>2, <1>3, <1>4, <1>5, <1>6, <1>7 DEF ReadNext

\* A string whose first byte is of the present version is the beginning of the
\* file.
LEMMA PresentIsBeginning ==
  ASSUME ReadIInv, offset >= AtMost(maxSize, Len(file)),
         offset > 0, content[1].version = version
  PROVE  content = From(0, maxSize)
PROOF
<1>1. /\ maxSize \in Nat /\ offset \in Nat /\ offset <= maxSize /\ FileIsOneVersion
      /\ content \in Seq(FileByte) /\ Len(content) = offset /\ version \in Nat
  BY DEF ReadIInv, StringInOrder, FileIsOneVersion
<1>2. \A i \in 1 .. offset : content[i] \in FileByte
  BY <1>1, ElementOfSeq
<1>3. \A i \in 1 .. offset : content[i].version \in Int
  BY <1>2 DEF FileByte
<1>4. 1 \in 1 .. offset /\ offset \in 1 .. offset /\ \A i \in 1 .. offset : 1 <= i
  BY <1>1
<1>5. \A i \in 1 .. offset : content[i].version <= version /\ version <= content[i].version
  BY <1>4 DEF ReadIInv, StringInOrder
<1>6. \A i \in 1 .. offset : content[i].version = version /\ content[i].at = i
  BY <1>1, <1>3, <1>5 DEF ReadIInv, StringInOrder
<1>8. Len(file) \in Nat /\ offset <= Len(file)
  BY <1>4, <1>6 DEF ReadIInv, StringInOrder, FileIsOneVersion
<1>9. offset = AtMost(0 + maxSize, Len(file)) /\ offset - 0 = offset
  BY <1>1, <1>8 DEF AtMost
<1>10. /\ From(0, maxSize) \in Seq(FileByte) /\ Len(From(0, maxSize)) = offset
       /\ \A i \in 1 .. offset :
            From(0, maxSize)[i].version = version /\ From(0, maxSize)[i].at = i
  <2>1. 0 \in Nat /\ \A i \in 1 .. offset : 0 + i = i
    OBVIOUS
  <2>2. /\ From(0, maxSize) \in Seq(FileByte)
        /\ Len(From(0, maxSize)) = IF 0 < offset THEN offset - 0 ELSE 0
        /\ \A i \in 1 .. offset - 0 :
             From(0, maxSize)[i].version = version /\ From(0, maxSize)[i].at = 0 + i
    BY <1>1, <1>9, <2>1, FromIs
  <2>3. QED
    BY <1>1, <1>9, <2>1, <2>2
<1>11. \A i \in 1 .. offset : From(0, maxSize)[i] = content[i]
  <2>1. \A i \in 1 .. offset : From(0, maxSize)[i] \in FileByte
    BY <1>10, ElementOfSeq
  <2>2. ASSUME NEW b \in FileByte, NEW c \in FileByte, b.version = c.version, b.at = c.at
        PROVE  b = c
    BY <2>2 DEF FileByte
  <2>3. QED
    BY <1>2, <1>6, <1>10, <2>1, <2>2
<1>12. QED
  BY <1>1, <1>10, <1>11, SeqEqual

\* The step that returns 0 returns the whole of what was asked for.
LEMMA ReturnsWhole ==
  ReadIInv /\ [ReadNext]_readVars => [ContentIsWhole]_readVars
PROOF
<1>1. SUFFICES ASSUME ReadIInv, ReadNext,
                      readPc = "read", readPc' = "returned", err' = "0"
               PROVE  /\ \A i \in 1 .. Len(content') : content'[i].at = i
                      /\ \A i, j \in 1 .. Len(content') :
                           i <= j => content'[i].version <= content'[j].version
                      /\ Len(content') >= AtMost(maxSize, Len(file))
                      /\ Len(content') <= maxSize
                      /\ content' # <<>> /\ content'[1].version = version
                           => content' = From(0, maxSize)
  BY DEF ContentIsWhole
<1>2. ReadToEnd
  BY <1>1 DEF ReadNext, GrowFile, RewriteFile, Open, Fstat, ReadPiece, ReadFails,
              readToBuffer, CloseFile
<1>3. content' = content
  BY <1>2 DEF ReadToEnd, results
<1>4. /\ maxSize \in Nat /\ offset \in Nat /\ offset <= maxSize /\ Len(content) = offset
      /\ Len(file) \in Nat
      /\ \A i \in 1 .. offset : content[i].at = i
      /\ \A i, j \in 1 .. offset : i <= j => content[i].version <= content[j].version
  BY <1>1 DEF ReadIInv, StringInOrder, FileIsOneVersion
<1>5. offset >= maxSize \/ offset >= Len(file)
  BY <1>2, <1>4 DEF ReadToEnd
<1>6. offset >= AtMost(maxSize, Len(file))
  BY <1>4, <1>5 DEF AtMost
<1>7. content # <<>> => offset > 0
  <2>1. content \in Seq(FileByte)
    BY <1>1 DEF ReadIInv, StringInOrder
  <2>2. Len(content) = 0 => content = <<>>
    BY <2>1, EmptySeq
  <2>3. QED
    BY <1>4, <2>2
<1>8. content # <<>> /\ content[1].version = version => content = From(0, maxSize)
  BY <1>1, <1>6, <1>7, PresentIsBeginning
<1>9. QED
  BY <1>3, <1>4, <1>6, <1>8

\* For files, pieces and limits of any size and any writing to the file: when
\* readToString returns 0, each byte of the string is in its place, nothing
\* old follows anything newer, and the string is the beginning of the file if
\* that was not written anew meanwhile; readToBuffer has room for the null.
THEOREM ReadIsAlwaysWhole == ReadSpec => ReadIsWhole
PROOF
<1>1. ReadIInv /\ ReadIInv' /\ [ReadNext]_readVars
        => [ContentIsWhole /\ BufferTerminated']_readVars
  BY ReturnsWhole DEF ReadIInv
<1>2. ReadSpec => []ReadIInv
  BY ReadInitIInv, ReadStepIInv, PTL DEF ReadSpec
<1>3. QED
  BY <1>1, <1>2, PTL DEF ReadSpec, ReadIsWhole

-----------------------------------------------------------------------------
(* StringPiece. *)

Bytes == 0 .. 255

\* Bytes are ordered as numbers.
LEMMA BytesOrdered ==
  \A u, v \in Bytes : /\ u < v => u # v /\ ~(v < u)
                      /\ u = v \/ u < v \/ v < u
BY DEF Bytes

\* After k common bytes, a has the lesser one.
LessAt(a, b, k) == (\A i \in 1 .. k : a[i] = b[i]) /\ a[k + 1] < b[k + 1]

\* What memcmp says: the first byte that differs decides.
LEMMA MemcmpMeans ==
  ASSUME NEW a \in Seq(Bytes), NEW b \in Seq(Bytes), NEW n \in Nat,
         n <= Len(a), n <= Len(b)
  PROVE  /\ memcmp(a, b, n) \in {-1, 0, 1}
         /\ memcmp(a, b, n) = 0 <=> \A i \in 1 .. n : a[i] = b[i]
         /\ memcmp(a, b, n) = -1 <=> \E k \in 0 .. n - 1 : LessAt(a, b, k)
         /\ memcmp(a, b, n) = 1 <=> \E k \in 0 .. n - 1 : LessAt(b, a, k)
PROOF
<1> DEFINE D == {i \in 1 .. n : a[i] # b[i]}
<1>1. \A i \in 1 .. n : a[i] \in Bytes /\ b[i] \in Bytes
  <2>1. Len(a) \in Nat /\ Len(b) \in Nat
    BY LenProperties
  <2>2. \A i \in 1 .. n : i \in 1 .. Len(a) /\ i \in 1 .. Len(b)
    BY <2>1
  <2>3. QED
    BY <2>2, ElementOfSeq
<1>2. CASE D = {}
  <2>1. memcmp(a, b, n) = 0
    BY <1>2 DEF memcmp
  <2>2. \A i \in 1 .. n : a[i] = b[i]
    BY <1>2
  <2>3. \A k \in 0 .. n - 1 : ~LessAt(a, b, k) /\ ~LessAt(b, a, k)
    <3>1. \A k \in 0 .. n - 1 : k + 1 \in 1 .. n
      OBVIOUS
    <3>2. QED
      BY <1>1, <2>2, <3>1, BytesOrdered DEF LessAt
  <2>4. QED
    BY <2>1, <2>2, <2>3
<1>3. CASE D # {}
  <2>1. \E x \in D : \A y \in D : x <= y
    <3>1. D \subseteq Nat
      OBVIOUS
    <3>2. QED
      BY <1>3, <3>1, LeastOf
  <2> DEFINE f == CHOOSE j \in D : \A k \in D : j <= k
  <2>2. f \in D /\ \A k \in D : f <= k
    BY <2>1
  <2>3. memcmp(a, b, n) = IF a[f] < b[f] THEN -1 ELSE 1
    BY <1>3 DEF memcmp
  <2> HIDE DEF f
  <2>4. /\ f \in 1 .. n /\ a[f] # b[f] /\ a[f] \in Bytes /\ b[f] \in Bytes
        /\ \A i \in 1 .. f - 1 : a[i] = b[i]
    <3>1. f \in 1 .. n /\ a[f] # b[f]
      BY <2>2
    <3>2. ASSUME NEW i \in 1 .. f - 1 PROVE a[i] = b[i]
      <4>1. i \in 1 .. n /\ ~(f <= i)
        BY <3>1, <3>2
      <4>2. QED
        BY <2>2, <4>1
    <3>3. QED
      BY <1>1, <3>1, <3>2
  <2> HIDE DEF D
  <2>5. ASSUME NEW k \in 0 .. n - 1, LessAt(a, b, k) \/ LessAt(b, a, k) PROVE k + 1 = f
    <3>1. k + 1 \in 1 .. n /\ a[k + 1] # b[k + 1] /\ \A i \in 1 .. k : a[i] = b[i]
      <4>1. k + 1 \in 1 .. n
        BY <2>5
      <4>2. QED
        BY <1>1, <2>5, <4>1, BytesOrdered DEF LessAt
    <3>2. ~(f <= k)
      BY <2>4, <3>1
    <3>3. ~(k + 1 <= f - 1)
      BY <2>4, <3>1
    <3>4. QED
      BY <2>4, <2>5, <3>2, <3>3
  <2>6. f - 1 \in 0 .. n - 1 /\ (f - 1) + 1 = f
    BY <2>4
  <2>7. CASE a[f] < b[f]
    <3>1. LessAt(a, b, f - 1)
      BY <2>4, <2>6, <2>7 DEF LessAt
    <3>2. \A k \in 0 .. n - 1 : ~LessAt(b, a, k)
      BY <2>4, <2>5, <2>7, BytesOrdered DEF LessAt
    <3>3. memcmp(a, b, n) = -1
      BY <2>3, <2>7
    <3>4. ~(\A i \in 1 .. n : a[i] = b[i])
      BY <2>4
    <3>5. QED
      BY <2>6, <3>1, <3>2, <3>3, <3>4
  <2>8. CASE ~(a[f] < b[f])
    <3>0. b[f] < a[f]
      BY <2>4, <2>8, BytesOrdered
    <3>1. LessAt(b, a, f - 1)
      BY <2>4, <2>6, <3>0 DEF LessAt
    <3>2. \A k \in 0 .. n - 1 : ~LessAt(a, b, k)
      BY <2>4, <2>5, <2>8, BytesOrdered DEF LessAt
    <3>3. memcmp(a, b, n) = 1
      BY <2>3, <2>8
    <3>4. ~(\A i \in 1 .. n : a[i] = b[i])
      BY <2>4
    <3>5. QED
      BY <2>6, <3>1, <3>2, <3>3, <3>4
  <2>9. QED
    BY <2>7, <2>8
<1>4. QED
  BY <1>2, <1>3

\* The dictionary's order, by the shorter of the two lengths.
LEMMA BeforeMeans ==
  ASSUME NEW a \in Seq(Bytes), NEW b \in Seq(Bytes), NEW n \in Nat,
         n = IF Len(a) < Len(b) THEN Len(a) ELSE Len(b)
  PROVE  Before(a, b) <=> \/ \E k \in 0 .. n - 1 : LessAt(a, b, k)
                          \/ (\A i \in 1 .. n : a[i] = b[i]) /\ Len(a) < Len(b)
PROOF
<1>1. Len(a) \in Nat /\ Len(b) \in Nat
  BY LenProperties
<1>2. ASSUME Before(a, b)
      PROVE  \/ \E k \in 0 .. n - 1 : LessAt(a, b, k)
             \/ (\A i \in 1 .. n : a[i] = b[i]) /\ Len(a) < Len(b)
  <2>1. PICK k \in 0 .. Len(a) : /\ k < Len(b)
                                 /\ \A i \in 1 .. k : a[i] = b[i]
                                 /\ k < Len(a) => a[k + 1] < b[k + 1]
    BY <1>2 DEF Before
  <2>2. CASE k < Len(a)
    <3>1. k \in 0 .. n - 1 /\ LessAt(a, b, k)
      BY <1>1, <2>1, <2>2 DEF LessAt
    <3>2. QED
      BY <3>1
  <2>3. CASE k = Len(a)
    BY <1>1, <2>1, <2>3
  <2>4. QED
    BY <1>1, <2>1, <2>2, <2>3
<1>3. ASSUME NEW k \in 0 .. n - 1, LessAt(a, b, k) PROVE Before(a, b)
  <2>1. k \in 0 .. Len(a) /\ k < Len(b)
    BY <1>1
  <2>2. QED
    BY <1>3, <2>1 DEF Before, LessAt
<1>4. ASSUME \A i \in 1 .. n : a[i] = b[i], Len(a) < Len(b) PROVE Before(a, b)
  <2>1. n = Len(a) /\ n \in 0 .. Len(a) /\ n < Len(b) /\ ~(n < Len(a))
    BY <1>1, <1>4
  <2>2. QED
    BY <1>4, <2>1 DEF Before
<1>5. QED
  BY <1>2, <1>3, <1>4

\* A piece that is NULL, or lies within its string.
PieceOK(x) ==
  /\ x \in [string : 0 .. Len(Memory), ptr_ : Nat, length_ : Nat]
  /\ x.string = 0 => x.ptr_ = 0 /\ x.length_ = 0
  /\ x.string # 0 => x.ptr_ + x.length_ <= Len(Memory[x.string])

\* The bytes of a piece.
LEMMA PieceBytes ==
  ASSUME NEW x, PieceOK(x)
  PROVE  /\ x.length_ \in Nat
         /\ as_string(x) \in Seq(Bytes) /\ Len(as_string(x)) = x.length_
         /\ \A i \in 1 .. x.length_ : as_string(x)[i] = Memory[x.string][x.ptr_ + i]
PROOF
<1>1. x.ptr_ \in Nat /\ x.length_ \in Nat /\ x.string \in 0 .. Len(Memory)
  BY DEF PieceOK
<1>2. CASE x.string = 0
  <2>1. as_string(x) = <<>> /\ x.length_ = 0
    BY <1>2 DEF as_string, PieceOK
  <2>2. <<>> \in Seq(Bytes)
    BY EmptySeq
  <2>3. QED
    BY <2>1, <2>2
<1>3. CASE x.string # 0
  <2>1. x.string \in 1 .. Len(Memory) /\ x.ptr_ + x.length_ <= Len(Memory[x.string])
    BY <1>1, <1>3, MemoryAssumption, LenProperties DEF PieceOK
  <2>2. PICK m \in Seq(Bytes) : m = Memory[x.string]
    BY <2>1, MemoryAssumption, ElementOfSeq DEF Bytes
  <2>3. Len(m) \in Nat
    BY LenProperties
  <2>4. PICK u \in Int, v \in Int : u = x.ptr_ + 1 /\ v = x.ptr_ + x.length_
    BY <1>1
  <2>5. \A i \in u .. v : m[i] \in Bytes
    <3>1. \A i \in u .. v : i \in 1 .. Len(m)
      BY <1>1, <2>1, <2>2, <2>3, <2>4
    <3>2. QED
      BY <3>1, ElementOfSeq
  <2>6. /\ SubSeq(m, u, v) \in Seq(Bytes)
        /\ Len(SubSeq(m, u, v)) = IF u <= v THEN v - u + 1 ELSE 0
        /\ \A i \in 1 .. v - u + 1 : SubSeq(m, u, v)[i] = m[u + i - 1]
    BY <2>5, SubSeqProperties
  <2>7. as_string(x) = SubSeq(m, u, v)
    BY <1>3, <2>2, <2>4 DEF as_string
  <2>8. /\ v - u + 1 = x.length_ /\ (u <= v <=> x.length_ > 0)
        /\ \A i \in 1 .. x.length_ : u + i - 1 = x.ptr_ + i
    <3>1. PICK q \in Nat, n \in Nat : q = x.ptr_ /\ n = x.length_
      BY <1>1
    <3>2. u = q + 1 /\ v = q + n
      BY <2>4, <3>1
    <3>3. v - u + 1 = n /\ (u <= v <=> n > 0) /\ \A i \in 1 .. n : u + i - 1 = q + i
      BY <3>2
    <3>4. QED
      BY <3>1, <3>3
  <2>9. Len(as_string(x)) = x.length_
    BY <1>1, <2>6, <2>7, <2>8
  <2>10. \A i \in 1 .. x.length_ : as_string(x)[i] = m[x.ptr_ + i]
    BY <2>6, <2>7, <2>8
  <2>11. QED
    BY <1>1, <2>2, <2>6, <2>7, <2>9, <2>10
<1>4. QED
  BY <1>2, <1>3

\* Two sequences are the same when they are as long and have the same elements.
LEMMA SameBytes ==
  ASSUME NEW a \in Seq(Bytes), NEW b \in Seq(Bytes)
  PROVE  a = b <=> Len(a) = Len(b) /\ \A i \in 1 .. Len(a) : a[i] = b[i]
BY SeqEqual

\* The comparisons of two pieces are those of their bytes.
LEMMA PiecesOrdered ==
  ASSUME NEW x, NEW y, PieceOK(x), PieceOK(y)
  PROVE  LET less == Before(as_string(x), as_string(y))
             equal == as_string(x) = as_string(y)
             greater == Before(as_string(y), as_string(x))
         IN  /\ Equal(x, y) <=> equal
             /\ Less(x, y) <=> less
             /\ LessOrEqual(x, y) <=> less \/ equal
             /\ GreaterOrEqual(x, y) <=> greater \/ equal
             /\ Greater(x, y) <=> greater
             /\ (compare(x, y) < 0 <=> less) /\ (compare(x, y) = 0 <=> equal)
PROOF
<1>1. PICK a \in Seq(Bytes), b \in Seq(Bytes) : a = as_string(x) /\ b = as_string(y)
  BY PieceBytes
<1>2. PICK c \in Nat, d \in Nat : /\ c = x.length_ /\ d = y.length_
                                 /\ c = Len(a) /\ d = Len(b)
  BY <1>1, PieceBytes
<1>3. PICK n \in Nat : n = Shorter(x, y) /\ n = IF c < d THEN c ELSE d
  BY <1>2 DEF Shorter
<1>4. n <= Len(a) /\ n <= Len(b)
  BY <1>2, <1>3
<1>5. PICK r : r = memcmp(a, b, n)
  OBVIOUS
<1> DEFINE Same == \A i \in 1 .. n : a[i] = b[i]
           AB == \E k \in 0 .. n - 1 : LessAt(a, b, k)
           BA == \E k \in 0 .. n - 1 : LessAt(b, a, k)
<1>6. r \in {-1, 0, 1} /\ (r = 0 <=> Same) /\ (r = -1 <=> AB) /\ (r = 1 <=> BA)
  BY <1>4, <1>5, MemcmpMeans
<1>7. Before(a, b) <=> AB \/ (Same /\ c < d)
  BY <1>2, <1>3, BeforeMeans
<1>8. Before(b, a) <=> BA \/ (Same /\ d < c)
  <2>1. n = IF Len(b) < Len(a) THEN Len(b) ELSE Len(a)
    BY <1>2, <1>3
  <2>2. Before(b, a) <=> \/ \E k \in 0 .. n - 1 : LessAt(b, a, k)
                         \/ (\A i \in 1 .. n : b[i] = a[i]) /\ Len(b) < Len(a)
    BY <2>1, BeforeMeans
  <2>3. QED
    BY <1>2, <2>2
<1>9. a = b <=> Same /\ c = d
  <2>1. c = d => n = c
    BY <1>3
  <2>2. QED
    BY <1>2, <2>1, SameBytes
<1> HIDE DEF Same, AB, BA
<1>10. Compared(x, y) = r
  BY <1>1, <1>3, <1>5 DEF Compared
<1>11. Equal(x, y) <=> a = b
  <2>1. Equal(x, y) <=> c = d /\ memcmp(a, b, c) = 0
    BY <1>1, <1>2 DEF Equal
  <2>2. c = d => n = c
    BY <1>3
  <2>3. QED
    BY <1>5, <1>6, <1>9, <2>1, <2>2
<1>12. Less(x, y) <=> Before(a, b)
  BY <1>2, <1>6, <1>7, <1>10 DEF Less
<1>13. LessOrEqual(x, y) <=> Before(a, b) \/ a = b
  BY <1>2, <1>6, <1>7, <1>9, <1>10 DEF LessOrEqual
<1>14. Greater(x, y) <=> Before(b, a)
  BY <1>2, <1>6, <1>8, <1>10 DEF Greater
<1>15. GreaterOrEqual(x, y) <=> Before(b, a) \/ a = b
  BY <1>2, <1>6, <1>8, <1>9, <1>10 DEF GreaterOrEqual
<1>16. (compare(x, y) < 0 <=> Before(a, b)) /\ (compare(x, y) = 0 <=> a = b)
  <2>1. compare(x, y) = IF r # 0 THEN r ELSE IF c < d THEN -1 ELSE IF c > d THEN 1 ELSE 0
    BY <1>2, <1>10 DEF compare
  <2>2. QED
    BY <1>2, <1>6, <1>7, <1>9, <2>1
<1>17. QED
  BY <1>1, <1>11, <1>12, <1>13, <1>14, <1>15, <1>16

\* What is left of x without as many bytes as y has completes y to x exactly
\* when x starts with y.
LEMMA PrefixesComplete ==
  ASSUME NEW x, NEW y, PieceOK(x), PieceOK(y)
  PROVE  LET left == [x EXCEPT !.ptr_ = @ + y.length_, !.length_ = @ - y.length_]
         IN  starts_with(x, y) <=>
               x.length_ >= y.length_ /\ as_string(x) = as_string(y) \o as_string(left)
PROOF
<1> DEFINE left == [x EXCEPT !.ptr_ = @ + y.length_, !.length_ = @ - y.length_]
<1>1. PICK a \in Seq(Bytes), b \in Seq(Bytes) : a = as_string(x) /\ b = as_string(y)
  BY PieceBytes
<1>2. PICK c \in Nat, d \in Nat : /\ c = x.length_ /\ d = y.length_
                                 /\ c = Len(a) /\ d = Len(b)
  BY <1>1, PieceBytes
<1>3. starts_with(x, y) <=> c >= d /\ memcmp(a, b, d) = 0
  BY <1>1, <1>2 DEF starts_with
<1>4. CASE ~(c >= d)
  BY <1>2, <1>3, <1>4
<1>5. CASE c >= d
  <2>1. /\ left.string = x.string /\ left.ptr_ = x.ptr_ + d /\ left.length_ = c - d
        /\ left \in [string : 0 .. Len(Memory), ptr_ : Nat, length_ : Nat]
        /\ x.ptr_ \in Nat
    <3>1. /\ x \in [string : 0 .. Len(Memory), ptr_ : Nat, length_ : Nat]
          /\ x.string \in 0 .. Len(Memory) /\ x.ptr_ \in Nat
      BY DEF PieceOK
    <3>2. left = [string |-> x.string, ptr_ |-> x.ptr_ + d, length_ |-> c - d]
      <4>1. left = [x EXCEPT !.ptr_ = @ + d, !.length_ = @ - d]
        BY <1>2
      <4> HIDE DEF left
      <4>2. left = [string |-> x.string, ptr_ |-> x.ptr_ + d, length_ |-> x.length_ - d]
        BY <3>1, <4>1
      <4>3. QED
        BY <1>2, <4>2
    <3>3. x.ptr_ + d \in Nat /\ c - d \in Nat
      BY <1>5, <3>1
    <3>4. QED
      BY <3>1, <3>2, <3>3
  <2>2. PieceOK(left)
    <3>1. CASE x.string = 0
      <4>1. x.ptr_ = 0 /\ c = 0 /\ d = 0
        BY <1>2, <1>5, <3>1 DEF PieceOK
      <4>2. QED
        BY <2>1, <3>1, <4>1 DEF PieceOK
    <3>2. CASE x.string # 0
      <4>1. x.ptr_ + c <= Len(Memory[x.string])
        BY <1>2, <3>2 DEF PieceOK
      <4>2. (x.ptr_ + d) + (c - d) = x.ptr_ + c
        BY <2>1
      <4>3. QED
        BY <2>1, <3>2, <4>1, <4>2 DEF PieceOK
    <3>3. QED
      BY <3>1, <3>2
  <2>3. PICK e \in Seq(Bytes) : e = as_string(left)
    BY <2>2, PieceBytes
  <2>4. /\ Len(e) = c - d
        /\ \A i \in 1 .. c - d : e[i] = Memory[x.string][(x.ptr_ + d) + i]
    <3>1. /\ Len(e) = left.length_
          /\ \A i \in 1 .. left.length_ : e[i] = Memory[left.string][left.ptr_ + i]
      BY <2>2, <2>3, PieceBytes
    <3>2. QED
      BY <2>1, <3>1
  <2>5. \A i \in 1 .. c : a[i] = Memory[x.string][x.ptr_ + i]
    BY <1>1, <1>2, PieceBytes
  <2> HIDE DEF left
  <2>6. \A i \in d + 1 .. c : a[i] = e[i - d]
    <3>1. ASSUME NEW i \in d + 1 .. c PROVE a[i] = e[i - d]
      <4>1. i \in 1 .. c /\ i - d \in 1 .. c - d /\ (x.ptr_ + d) + (i - d) = x.ptr_ + i
        BY <2>1, <3>1
      <4>2. QED
        BY <2>4, <2>5, <4>1
    <3>2. QED
      BY <3>1
  <2>7. /\ b \o e \in Seq(Bytes) /\ Len(b \o e) = d + (c - d)
        /\ \A i \in 1 .. d + (c - d) : (b \o e)[i] = IF i <= d THEN b[i] ELSE e[i - d]
    <3>1. /\ b \o e \in Seq(Bytes) /\ Len(b \o e) = Len(b) + Len(e)
          /\ \A i \in 1 .. Len(b) + Len(e) :
               (b \o e)[i] = IF i <= Len(b) THEN b[i] ELSE e[i - Len(b)]
      BY ConcatProperties
    <3>2. QED
      BY <1>2, <2>4, <3>1
  <2>8. d + (c - d) = c
    OBVIOUS
  <2>9. PICK z \in Seq(Bytes) : z = b \o e
    BY <2>7
  <2>10. Len(z) = c /\ \A i \in 1 .. c : z[i] = IF i <= d THEN b[i] ELSE a[i]
    <3>1. Len(z) = c /\ \A i \in 1 .. c : z[i] = IF i <= d THEN b[i] ELSE e[i - d]
      BY <2>7, <2>8, <2>9
    <3>2. \A i \in 1 .. c : ~(i <= d) => i \in d + 1 .. c
      OBVIOUS
    <3>3. QED
      BY <2>6, <3>1, <3>2
  <2>11. a = z <=> \A i \in 1 .. d : a[i] = b[i]
    <3>1. a = z <=> \A i \in 1 .. c : a[i] = z[i]
      BY <1>2, <2>10, SameBytes
    <3>2. \A i \in 1 .. d : i \in 1 .. c /\ i <= d
      BY <1>5
    <3>3. \A i \in 1 .. c : i <= d => i \in 1 .. d
      OBVIOUS
    <3>4. QED
      BY <2>10, <3>1, <3>2, <3>3
  <2>12. memcmp(a, b, d) = 0 <=> \A i \in 1 .. d : a[i] = b[i]
    <3>1. d <= Len(a) /\ d <= Len(b)
      BY <1>2, <1>5
    <3>2. QED
      BY <3>1, MemcmpMeans
  <2>13. starts_with(x, y) <=> x.length_ >= y.length_ /\ as_string(x) = as_string(y) \o as_string(left)
    BY <1>1, <1>2, <1>3, <1>5, <2>3, <2>9, <2>11, <2>12
  <2>14. QED
    BY <2>13 DEF left
<1>6. QED
  BY <1>4, <1>5

\* strlen stays within the string, whether there is a null inside or not.
LEMMA StrlenWithin ==
  ASSUME NEW m \in Seq(Bytes)
  PROVE  strlen(m) \in 0 .. Len(m)
PROOF
<1>1. Len(m) \in Nat
  BY LenProperties
<1> DEFINE T == {k \in 0 .. Len(m) : k = Len(m) \/ m[k + 1] = 0}
<1>2. T \subseteq Nat /\ Len(m) \in T
  BY <1>1
<1>3. PICK n \in T : \A k \in T : n <= k
  <2>1. T # {}
    BY <1>2
  <2> HIDE DEF T
  <2>2. QED
    BY <1>2, <2>1, LeastOf
<1>4. ASSUME NEW i \in 1 .. n PROVE m[i] # 0
  <2>1. /\ i - 1 \in 0 .. Len(m) /\ i - 1 # Len(m) /\ (i - 1) + 1 = i /\ ~(n <= i - 1)
    BY <1>1, <1>3, <1>4
  <2>2. i - 1 \notin T
    BY <1>3, <2>1
  <2>3. QED
    BY <2>1, <2>2
<1>5. n \in 0 .. Len(m) /\ (n = Len(m) \/ m[n + 1] = 0) /\ \A i \in 1 .. n : m[i] # 0
  BY <1>3, <1>4
<1> HIDE DEF T
<1>6. \E k \in 0 .. Len(m) : (k = Len(m) \/ m[k + 1] = 0) /\ \A i \in 1 .. k : m[i] # 0
  BY <1>5
<1>7. QED
  BY <1>6 DEF strlen

\* Every piece is NULL or lies within its string.
PiecesInBounds == piece \in [Pieces -> {x \in [string : 0 .. Len(Memory), ptr_ : Nat, length_ : Nat] : PieceOK(x)}]

\* No operation takes a piece out of its string.
LEMMA StepPieces == PiecesInBounds /\ [PieceNext]_piece => PiecesInBounds'
PROOF
<1>1. SUFFICES ASSUME PiecesInBounds, [PieceNext]_piece PROVE PiecesInBounds'
  OBVIOUS
<1> DEFINE P == {x \in [string : 0 .. Len(Memory), ptr_ : Nat, length_ : Nat] : PieceOK(x)}
<1>2. piece \in [Pieces -> P]
  BY <1>1 DEF PiecesInBounds
<1>3. Len(Memory) \in Nat
  BY MemoryAssumption, LenProperties
<1>4. ASSUME NEW p \in Pieces, NEW v, PieceOK(v), piece' = [piece EXCEPT ![p] = v]
      PROVE  PiecesInBounds'
  <2>1. v \in P
    BY <1>4 DEF PieceOK
  <2> HIDE DEF P
  <2>2. piece' \in [Pieces -> P]
    BY <1>2, <1>4, <2>1
  <2>3. QED
    BY <2>2 DEF PiecesInBounds, P
<1>5. ASSUME NEW p \in Pieces, set(p) PROVE PiecesInBounds'
  <2>1. PICK k \in DOMAIN Memory :
          \/ piece' = [piece EXCEPT ![p] = [string |-> k, ptr_ |-> 0, length_ |-> Len(Memory[k])]]
          \/ piece' = [piece EXCEPT ![p] = [string |-> k, ptr_ |-> 0, length_ |-> strlen(Memory[k])]]
    BY <1>5 DEF set
  <2>2. k \in 1 .. Len(Memory) /\ Memory[k] \in Seq(Bytes)
    <3>1. k \in 1 .. Len(Memory)
      BY MemoryAssumption, LenProperties
    <3>2. QED
      BY <3>1, MemoryAssumption, ElementOfSeq DEF Bytes
  <2>3. Len(Memory[k]) \in Nat /\ strlen(Memory[k]) \in 0 .. Len(Memory[k])
    BY <2>2, LenProperties, StrlenWithin
  <2>4. \A n \in 0 .. Len(Memory[k]) : PieceOK([string |-> k, ptr_ |-> 0, length_ |-> n])
    BY <1>3, <2>2, <2>3 DEF PieceOK
  <2>5. Len(Memory[k]) \in 0 .. Len(Memory[k])
    BY <2>3
  <2>6. QED
    BY <1>4, <2>1, <2>3, <2>4, <2>5
<1>6. ASSUME NEW p \in Pieces, clear(p) PROVE PiecesInBounds'
  <2>1. PieceOK(NullPiece)
    BY <1>3 DEF PieceOK, NullPiece
  <2>2. QED
    BY <1>4, <1>6, <2>1 DEF clear
<1>7. ASSUME NEW p \in Pieces, NEW n \in 0 .. piece[p].length_,
             remove_prefix(p, n) \/ remove_suffix(p, n)
      PROVE  PiecesInBounds'
  <2>1. PICK x : x = piece[p] /\ PieceOK(x)
    BY <1>2
  <2>2. /\ x \in [string : 0 .. Len(Memory), ptr_ : Nat, length_ : Nat]
        /\ x.ptr_ \in Nat /\ x.length_ \in Nat /\ n \in Nat /\ n <= x.length_
    BY <1>7, <2>1 DEF PieceOK
  <2>3. ASSUME NEW v, v = [x EXCEPT !.ptr_ = @ + n, !.length_ = @ - n]
                      \/ v = [x EXCEPT !.length_ = @ - n]
        PROVE  PieceOK(v)
    <3>1. /\ v \in [string : 0 .. Len(Memory), ptr_ : Nat, length_ : Nat]
          /\ v.string = x.string
          /\ v.ptr_ + v.length_ <= x.ptr_ + x.length_
          /\ x.ptr_ = 0 /\ x.length_ = 0 => v.ptr_ = 0 /\ v.length_ = 0
      <4>0. x.string \in 0 .. Len(Memory)
        BY <2>2
      <4>1. \/ v = [string |-> x.string, ptr_ |-> x.ptr_ + n, length_ |-> x.length_ - n]
            \/ v = [string |-> x.string, ptr_ |-> x.ptr_, length_ |-> x.length_ - n]
        BY <2>2, <2>3
      <4>2. x.ptr_ + n \in Nat /\ x.length_ - n \in Nat
        BY <2>2
      <4>3. v \in [string : 0 .. Len(Memory), ptr_ : Nat, length_ : Nat] /\ v.string = x.string
        BY <2>2, <4>0, <4>1, <4>2
      <4>4. v.length_ = x.length_ - n /\ (v.ptr_ = x.ptr_ + n \/ v.ptr_ = x.ptr_)
        BY <4>1
      <4>5. QED
        BY <2>2, <4>2, <4>3, <4>4
    <3>2. CASE x.string = 0
      BY <2>1, <3>1, <3>2 DEF PieceOK
    <3>3. CASE x.string # 0
      <4>1. Memory[x.string] \in Seq(Bytes)
        <5>1. x.string \in 1 .. Len(Memory)
          BY <1>3, <2>2, <3>3
        <5>2. QED
          BY <5>1, MemoryAssumption, ElementOfSeq DEF Bytes
      <4>2. PICK l \in Nat : l = Len(Memory[x.string])
        BY <4>1, LenProperties
      <4>3. x.ptr_ + x.length_ <= l
        BY <2>1, <3>3, <4>2 DEF PieceOK
      <4>4. v.ptr_ \in Nat /\ v.length_ \in Nat
        BY <3>1
      <4>5. v.ptr_ + v.length_ <= l
        BY <2>2, <3>1, <4>3, <4>4
      <4>6. QED
        BY <3>1, <3>3, <4>2, <4>5 DEF PieceOK
    <3>4. QED
      BY <3>2, <3>3
  <2>4. \/ piece' = [piece EXCEPT ![p] = [x EXCEPT !.ptr_ = @ + n, !.length_ = @ - n]]
        \/ piece' = [piece EXCEPT ![p] = [x EXCEPT !.length_ = @ - n]]
    BY <1>2, <1>7, <2>1, <2>2 DEF remove_prefix, remove_suffix
  <2>5. QED
    BY <1>4, <2>3, <2>4
<1>8. CASE UNCHANGED piece
  BY <1>1, <1>8 DEF PiecesInBounds
<1>9. QED
  BY <1>1, <1>5, <1>6, <1>7, <1>8 DEF PieceNext

\* However pieces are set and shortened, the comparisons of any two are one
\* total order, the dictionary's on unsigned bytes, and starts_with agrees with
\* remove_prefix: for strings of any number and any length.
THEOREM PiecesCompareBytes == PieceSpec => []ComparesBytes
PROOF
<1>1. PieceInit => PiecesInBounds
  <2>1. PieceOK(NullPiece)
    BY MemoryAssumption, LenProperties DEF PieceOK, NullPiece
  <2>2. QED
    BY <2>1 DEF PieceInit, PiecesInBounds, PieceOK
<1>2. PiecesInBounds => ComparesBytes
  <2>1. SUFFICES ASSUME PiecesInBounds PROVE ComparesBytes
    OBVIOUS
  <2>2. \A p \in Pieces : PieceOK(piece[p])
    BY <2>1 DEF PiecesInBounds
  <2>3. OrderIsOne
    BY <2>2, PiecesOrdered DEF OrderIsOne
  <2>4. PrefixCompletes
    BY <2>2, PrefixesComplete DEF PrefixCompletes
  <2>5. QED
    BY <2>3, <2>4 DEF ComparesBytes
<1>3. QED
  BY <1>1, <1>2, StepPieces, PTL DEF PieceSpec

-----------------------------------------------------------------------------
(* ProcessInfo. *)

\* A vector that is not empty has a greatest element.
LEMMA GreatestPlace ==
  ASSUME NEW n \in Nat, n > 0, NEW s \in [1 .. n -> Int]
  PROVE  \E m \in 1 .. n : \A i \in 1 .. n : s[i] <= s[m]
PROOF
<1> DEFINE Q(k) == \E m \in 1 .. k : \A i \in 1 .. k : s[i] <= s[m]
           T == {k \in Nat : k > 0 /\ k <= n /\ ~Q(k)}
<1>1. SUFFICES ASSUME ~Q(n) PROVE FALSE
  OBVIOUS
<1>2. PICK k \in T : \A l \in T : k <= l
  <2>1. T \subseteq Nat
    OBVIOUS
  <2>2. n \in T
    BY <1>1
  <2> HIDE DEF T
  <2>3. QED
    BY <2>1, <2>2, LeastOf
<1>3. k \in Nat /\ k > 0 /\ k <= n /\ ~Q(k)
  BY <1>2
<1>4. k # 1
  BY <1>3
<1>5. k - 1 \in Nat /\ k - 1 > 0 /\ k - 1 <= n
  BY <1>3, <1>4
<1>6. Q(k - 1)
  <2>1. k - 1 \notin T
    BY <1>2, <1>3, ~(k <= k - 1)
  <2> HIDE DEF Q
  <2>2. QED
    BY <1>5, <2>1
<1>7. PICK m \in 1 .. k - 1 : \A i \in 1 .. k - 1 : s[i] <= s[m]
  BY <1>6
<1>8. \A i \in 1 .. k : i = k \/ i \in 1 .. k - 1
  BY <1>3
<1>9. m \in 1 .. k /\ k \in 1 .. k /\ s[m] \in Int /\ s[k] \in Int /\ \A i \in 1 .. k : s[i] \in Int
  BY <1>3
<1>10. CASE s[k] <= s[m]
  BY <1>3, <1>7, <1>8, <1>9, <1>10
<1>11. CASE s[k] > s[m]
  <2>1. \A i \in 1 .. k : s[i] <= s[k]
    BY <1>7, <1>8, <1>9, <1>11
  <2>2. QED
    BY <1>3, <1>9, <2>1
<1>12. QED
  BY <1>9, <1>10, <1>11

\* p puts the places of s in the order of their elements.
Ascending(s, p, n) == \A i, j \in 1 .. n : i < j => s[p[i]] <= s[p[j]]

\* Any vector can be sorted: its greatest element last, and the one from there
\* in its place.
LEMMA CanBeSorted ==
  ASSUME NEW n \in Nat, NEW s \in [1 .. n -> Int]
  PROVE  \E p \in Bijection(1 .. n, 1 .. n) : Ascending(s, p, n)
PROOF
<1> DEFINE Q(k) == \A r \in [1 .. k -> Int] :
                     \E p \in Bijection(1 .. k, 1 .. k) : Ascending(r, p, k)
           T == {k \in Nat : ~Q(k)}
<1>1. SUFFICES ASSUME T # {} PROVE FALSE
  OBVIOUS
<1>2. PICK k \in T : \A l \in T : k <= l
  <2>1. T \subseteq Nat
    OBVIOUS
  <2> HIDE DEF T
  <2>2. QED
    BY <1>1, <2>1, LeastOf
<1>3. k \in Nat /\ ~Q(k)
  BY <1>2
<1>4. PICK r \in [1 .. k -> Int] : \A p \in Bijection(1 .. k, 1 .. k) : ~Ascending(r, p, k)
  BY <1>3
<1>5. k # 0
  <2>1. SUFFICES ASSUME k = 0 PROVE FALSE
    OBVIOUS
  <2>2. \A i \in 1 .. 0 : FALSE
    OBVIOUS
  <2> DEFINE p == [i \in 1 .. 0 |-> i]
  <2>3. p \in Bijection(1 .. 0, 1 .. 0)
    BY <2>2 DEF Bijection, Injection, IsInjective, Surjection
  <2>4. Ascending(r, p, 0)
    BY <2>2 DEF Ascending
  <2>5. QED
    BY <1>4, <2>1, <2>3, <2>4
<1>6. PICK l \in Nat : k = l + 1
  BY <1>3, <1>5
<1>7. Q(l)
  <2>1. l < k /\ ~(k <= l)
    BY <1>3, <1>6
  <2> HIDE DEF Q
  <2>2. QED
    BY <1>2, <2>1
<1>8. PICK m \in 1 .. k : \A i \in 1 .. k : r[i] <= r[m]
  <2>1. k > 0
    BY <1>3, <1>5
  <2>2. QED
    BY <1>3, <2>1, GreatestPlace
<1> DEFINE q == [i \in 1 .. l |-> IF i = m THEN r[k] ELSE r[i]]
<1>9. q \in [1 .. l -> Int]
  BY <1>6
<1>10. PICK o \in Bijection(1 .. l, 1 .. l) : Ascending(q, o, l)
  BY <1>7, <1>9
<1>11. /\ o \in [1 .. l -> 1 .. l]
       /\ \A i, j \in 1 .. l : o[i] = o[j] => i = j
       /\ \A j \in 1 .. l : \E i \in 1 .. l : o[i] = j
  BY <1>10 DEF Bijection, Injection, IsInjective, Surjection
<1> DEFINE p == [i \in 1 .. k |-> IF i = k THEN m ELSE IF o[i] = m THEN k ELSE o[i]]
<1>12. \A i \in 1 .. k : i = k \/ i \in 1 .. l
  BY <1>6
<1>13. k \notin 1 .. l /\ k \in 1 .. k /\ \A i \in 1 .. l : i \in 1 .. k /\ i < k
  BY <1>6
<1>14. p \in [1 .. k -> 1 .. k]
  BY <1>11, <1>12, <1>13
<1>15. \A i, j \in 1 .. k : p[i] = p[j] => i = j
  <2>1. SUFFICES ASSUME NEW i \in 1 .. k, NEW j \in 1 .. k, p[i] = p[j] PROVE i = j
    OBVIOUS
  <2>2. ASSUME NEW a \in 1 .. l, p[a] = p[k] PROVE FALSE
    <3>1. a \in 1 .. k /\ a # k /\ o[a] \in 1 .. l /\ o[a] # k
      BY <1>11, <1>13
    <3>2. p[k] = m /\ p[a] = IF o[a] = m THEN k ELSE o[a]
      BY <1>13, <3>1
    <3>3. QED
      BY <2>2, <3>1, <3>2
  <2>3. ASSUME i \in 1 .. l, j \in 1 .. l PROVE i = j
    <3>0. o[i] \in 1 .. l /\ o[j] \in 1 .. l
      BY <1>11, <2>3
    <3>1. i # k /\ j # k /\ o[i] # k /\ o[j] # k
      BY <1>13, <2>3, <3>0
    <3>2. /\ p[i] = IF o[i] = m THEN k ELSE o[i]
          /\ p[j] = IF o[j] = m THEN k ELSE o[j]
      BY <3>1
    <3>3. o[i] = o[j]
      BY <2>1, <3>1, <3>2
    <3>4. QED
      BY <1>11, <2>3, <3>3
  <2>4. QED
    BY <1>12, <2>1, <2>2, <2>3
<1>16. \A j \in 1 .. k : \E i \in 1 .. k : p[i] = j
  <2>1. SUFFICES ASSUME NEW j \in 1 .. k PROVE \E i \in 1 .. k : p[i] = j
    OBVIOUS
  <2>2. CASE j = m
    BY <1>13, <2>2
  <2>3. CASE j # m /\ j = k
    <3>1. m \in 1 .. l
      BY <1>12, <2>3
    <3>2. PICK i \in 1 .. l : o[i] = m
      BY <1>11, <3>1
    <3>3. p[i] = k
      BY <1>13, <3>2
    <3>4. QED
      BY <1>13, <2>3, <3>3
  <2>4. CASE j # m /\ j # k
    <3>1. PICK i \in 1 .. l : o[i] = j
      BY <1>11, <1>12, <2>4
    <3>2. p[i] = j
      BY <1>13, <2>4, <3>1
    <3>3. QED
      BY <1>13, <3>2
  <2>5. QED
    BY <2>2, <2>3, <2>4
<1>17. \A i \in 1 .. l : r[p[i]] = q[o[i]]
  BY <1>11, <1>13
<1>18. Ascending(r, p, k)
  <2>1. SUFFICES ASSUME NEW i \in 1 .. k, NEW j \in 1 .. k, i < j PROVE r[p[i]] <= r[p[j]]
    BY DEF Ascending
  <2>2. i \in 1 .. l
    BY <1>6, <2>1
  <2>3. CASE j = k
    BY <1>8, <1>14, <2>3
  <2>4. CASE j \in 1 .. l
    BY <1>10, <1>17, <2>1, <2>2, <2>4 DEF Ascending
  <2>5. QED
    BY <1>12, <2>3, <2>4
<1>19. p \in Bijection(1 .. k, 1 .. k)
  BY <1>14, <1>15, <1>16 DEF Bijection, Injection, IsInjective, Surjection
<1>20. QED
  BY <1>4, <1>18, <1>19

\* Functions with the same values.
LEMMA SameRange ==
  ASSUME NEW f, NEW g,
         \A x \in DOMAIN f : \E y \in DOMAIN g : f[x] = g[y],
         \A y \in DOMAIN g : \E x \in DOMAIN f : f[x] = g[y]
  PROVE  Range(f) = Range(g)
PROOF
<1>1. \A v : v \in Range(f) <=> \E x \in DOMAIN f : v = f[x]
  BY DEF Range
<1>2. \A v : v \in Range(g) <=> \E y \in DOMAIN g : v = g[y]
  BY DEF Range
<1>3. QED
  BY <1>1, <1>2

\* threads() returns the elements of its vector in ascending order, each as
\* often as it was found.
LEMMA SortedIsSorted ==
  ASSUME NEW c \in Callers, result[c] \in Seq(Int),
         \A i, j \in DOMAIN result[c] : i # j => result[c][i] # result[c][j]
  PROVE  /\ Range(Sorted(c)) = Range(result[c])
         /\ \A i, j \in DOMAIN Sorted(c) : i < j => Sorted(c)[i] < Sorted(c)[j]
PROOF
<1> DEFINE r == result[c]
           n == Len(r)
           P(p) == \A i, j \in DOMAIN r : i < j => r[p[i]] <= r[p[j]]
           o == CHOOSE p \in Bijection(DOMAIN r, DOMAIN r) : P(p)
<1>1. n \in Nat /\ DOMAIN r = 1 .. n /\ r \in [1 .. n -> Int]
  BY LenProperties
<1>2. \E p \in Bijection(DOMAIN r, DOMAIN r) : P(p)
  BY <1>1, CanBeSorted DEF Ascending
<1>3. o \in Bijection(DOMAIN r, DOMAIN r) /\ P(o)
  <2> HIDE DEF P
  <2>1. QED
    BY <1>2
<1>4. Sorted(c) = [i \in DOMAIN r |-> r[o[i]]]
  BY DEF Sorted
<1> HIDE DEF o
<1>5. /\ o \in [1 .. n -> 1 .. n]
      /\ \A i, j \in 1 .. n : o[i] = o[j] => i = j
      /\ \A j \in 1 .. n : \E i \in 1 .. n : o[i] = j
  BY <1>1, <1>3 DEF Bijection, Injection, IsInjective, Surjection
<1> DEFINE s == [i \in 1 .. n |-> r[o[i]]]
<1>6. Sorted(c) = s
  BY <1>1, <1>4
<1>7. Range(s) = Range(r)
  <2>1. \A i \in 1 .. n : \E j \in 1 .. n : s[i] = r[j]
    BY <1>5
  <2>2. \A j \in 1 .. n : \E i \in 1 .. n : s[i] = r[j]
    BY <1>5
  <2>3. DOMAIN s = 1 .. n /\ DOMAIN r = 1 .. n
    BY <1>1
  <2> HIDE DEF s, r, n
  <2>4. QED
    <3>1. \A x \in DOMAIN s : \E y \in DOMAIN r : s[x] = r[y]
      BY <2>1, <2>3
    <3>2. \A y \in DOMAIN r : \E x \in DOMAIN s : s[x] = r[y]
      BY <2>2, <2>3
    <3>3. QED
      BY <3>1, <3>2, SameRange
<1>8. ASSUME NEW i \in 1 .. n, NEW j \in 1 .. n, i < j PROVE s[i] < s[j]
  <2>0. i # j
    BY <1>1, <1>8
  <2>1. o[i] \in 1 .. n /\ o[j] \in 1 .. n /\ o[i] # o[j]
    <3> HIDE DEF n
    <3>1. QED
      BY <1>5, <2>0
  <2>2. r[o[i]] <= r[o[j]]
    BY <1>1, <1>3, <1>8
  <2>3. r[o[i]] # r[o[j]] /\ r[o[i]] \in Int /\ r[o[j]] \in Int
    BY <1>1, <2>1
  <2>4. QED
    BY <2>2, <2>3
<1>9. DOMAIN s = 1 .. n
  OBVIOUS
<1>10. QED
  BY <1>6, <1>7, <1>8, <1>9

\* A caller reads a directory: what it has seen was there, and nothing that is
\* there has escaped its history.
Scanned(c, dir, there) ==
  scan[c].dir = dir => scan[c].seen \subseteq scan[c].some /\ there \subseteq scan[c].some

\* A vector holds the elements of a set, each once.
Holds(v, S) == Range(v) = S /\ \A i, j \in DOMAIN v : i # j => v[i] # v[j]

\* While a caller lists threads its pointer is to its own vector, which holds
\* what it has seen, each once.
Lists(c) == scan[c].dir = "task" => t_pids[c] = c /\ Holds(result[c], scan[c].seen)

\* While a caller counts descriptors its counter is the number it has seen.
Counts(c) ==
  scan[c].dir = "fd" =>
    /\ IsFiniteSet(scan[c].some) /\ IsFiniteSet(scan[c].seen)
    /\ t_numOpenedFiles[c] = Cardinality(scan[c].seen)

Scans ==
  [dir : {"none", "task", "fd"}, seen : SUBSET Int, all : SUBSET Int, some : SUBSET Int]

InfoTypeOK ==
  /\ tasks \subseteq Int /\ descriptors \subseteq Int /\ IsFiniteSet(descriptors)
  /\ scan \in [Callers -> Scans]
  /\ t_pids \in [Callers -> Int] /\ t_numOpenedFiles \in [Callers -> Int]
  /\ result \in [Callers -> Seq(Int)]
  /\ comm \in Seq(STRING)

InfoIInv ==
  /\ InfoTypeOK
  /\ \A c \in Callers :
       Scanned(c, "task", tasks) /\ Scanned(c, "fd", descriptors) /\ Lists(c) /\ Counts(c)

\* Nobody reads.
LEMMA InfoInitIInv == InfoInit => InfoIInv
PROOF
<1>1. SUFFICES ASSUME InfoInit PROVE InfoIInv
  OBVIOUS
<1>2. InfoTypeOK
  BY <1>1, InfoAssumption, FS_EmptySet DEF InfoInit, InfoTypeOK, Scans, NoScan
<1>3. \A c \in Callers : scan[c].dir = "none"
  BY <1>1 DEF InfoInit, NoScan
<1>4. QED
  BY <1>2, <1>3 DEF InfoIInv, Scanned, Lists, Counts

\* What changes for the callers that read while others come and go.
LEMMA NoticedKeeps ==
  ASSUME InfoIInv, Noticed, tasks' \subseteq Int, descriptors' \subseteq Int,
         UNCHANGED <<t_pids, t_numOpenedFiles, result>>,
         IsFiniteSet(descriptors')
  PROVE  /\ scan' \in [Callers -> Scans]
         /\ \A c \in Callers : /\ Scanned(c, "task", tasks)' /\ Scanned(c, "fd", descriptors)'
                             /\ Lists(c)' /\ Counts(c)'
PROOF
<1> USE DEF InfoIInv, InfoTypeOK
<1>1. ASSUME NEW c \in Callers
      PROVE  /\ scan'[c] \in Scans
             /\ scan'[c].dir = scan[c].dir /\ scan'[c].seen = scan[c].seen
             /\ scan[c].dir = "none" => scan'[c] = scan[c]
             /\ scan[c].dir = "task" => scan'[c].some = scan[c].some \cup tasks'
             /\ scan[c].dir = "fd" => scan'[c].some = scan[c].some \cup descriptors'
  <2>1. scan[c] \in Scans
    OBVIOUS
  <2>2. QED
    BY <2>1 DEF Noticed, Scans
<1>2. scan' \in [Callers -> Scans]
  BY <1>1 DEF Noticed
<1>3. ASSUME NEW c \in Callers
      PROVE  /\ Scanned(c, "task", tasks)' /\ Scanned(c, "fd", descriptors)'
             /\ Lists(c)' /\ Counts(c)'
  <2>1. Scanned(c, "task", tasks)' /\ Scanned(c, "fd", descriptors)'
    BY <1>1 DEF Scanned
  <2>2. Lists(c)'
    BY <1>1 DEF Lists
  <2>3. Counts(c)'
    <3>1. SUFFICES ASSUME scan[c].dir = "fd"
                   PROVE  IsFiniteSet(scan[c].some \cup descriptors')
      BY <1>1 DEF Counts
    <3>2. IsFiniteSet(scan[c].some)
      BY <3>1 DEF Counts
    <3>3. QED
      BY <3>2, FS_Union
  <2>4. QED
    BY <2>1, <2>2, <2>3
<1>4. QED
  BY <1>2, <1>3

\* A caller opens a directory.
LEMMA ScanDirKeeps ==
  ASSUME InfoIInv, NEW c \in Callers, Idle(c), NEW dir \in {"task", "fd"}, scanDir(c, dir),
         UNCHANGED tasks
  PROVE  /\ descriptors' \subseteq Int /\ IsFiniteSet(descriptors')
         /\ scan' \in [Callers -> Scans]
         /\ scan'[c].dir = dir /\ scan'[c].seen = {}
         /\ scan'[c].some = IF dir = "task" THEN tasks ELSE descriptors'
         /\ \A d \in Callers : d # c =>
              /\ scan'[d].dir = scan[d].dir /\ scan'[d].seen = scan[d].seen
              /\ scan'[d].dir = "fd" => scan'[d].some = scan[d].some \cup {-c}
              /\ scan'[d].dir # "fd" => scan'[d] = scan[d]
         /\ \A d \in Callers : Scanned(d, "task", tasks)' /\ Scanned(d, "fd", descriptors)'
PROOF
<1> USE DEF InfoIInv, InfoTypeOK
<1>1. -c \in Int
  BY InfoAssumption
<1>2. descriptors' = descriptors \cup {-c}
  BY DEF scanDir
<1>3. descriptors' \subseteq Int
  BY <1>1, <1>2
<1>4. IsFiniteSet(descriptors')
  BY <1>2, FS_AddElement
<1>5. /\ scan'[c] \in Scans /\ scan'[c].dir = dir /\ scan'[c].seen = {}
      /\ scan'[c].some = IF dir = "task" THEN tasks ELSE descriptors'
  BY <1>3 DEF scanDir, Scans
<1>6. ASSUME NEW d \in Callers, d # c
      PROVE  /\ scan'[d] \in Scans
             /\ scan'[d].dir = scan[d].dir /\ scan'[d].seen = scan[d].seen
             /\ scan'[d].dir = "fd" => scan'[d].some = scan[d].some \cup {-c}
             /\ scan'[d].dir # "fd" => scan'[d] = scan[d]
  <2>1. scan[d] \in Scans
    OBVIOUS
  <2>2. QED
    BY <1>1, <1>6, <2>1 DEF scanDir, Scans
<1>7. scan' \in [Callers -> Scans]
  BY <1>5, <1>6 DEF scanDir
<1>8. ASSUME NEW d \in Callers PROVE Scanned(d, "task", tasks)' /\ Scanned(d, "fd", descriptors)'
  <2>1. CASE d = c
    BY <1>5, <2>1 DEF Scanned
  <2>2. CASE d # c
    BY <1>2, <1>6, <2>2 DEF Scanned
  <2>3. QED
    BY <2>1, <2>2
<1>9. QED
  BY <1>3, <1>4, <1>5, <1>6, <1>7, <1>8

\* A caller closes its directory.
LEMMA EndScanKeeps ==
  ASSUME InfoIInv, NEW c \in Callers, NEW complete \in BOOLEAN, EndScan(c, complete),
         UNCHANGED tasks
  PROVE  /\ descriptors' \subseteq Int /\ IsFiniteSet(descriptors')
         /\ scan' \in [Callers -> Scans]
         /\ scan'[c].dir = "none"
         /\ \A d \in Callers : d # c =>
              /\ scan'[d].dir = scan[d].dir /\ scan'[d].seen = scan[d].seen
              /\ scan'[d].some = scan[d].some
         /\ \A d \in Callers : Scanned(d, "task", tasks)' /\ Scanned(d, "fd", descriptors)'
PROOF
<1> USE DEF InfoIInv, InfoTypeOK
<1>1. descriptors' = descriptors \ {-c}
  BY DEF EndScan
<1>2. descriptors' \subseteq Int /\ IsFiniteSet(descriptors')
  BY <1>1, FS_RemoveElement
<1>3. scan'[c] \in Scans /\ scan'[c].dir = "none"
  BY DEF EndScan, NoScan, Scans
<1>4. ASSUME NEW d \in Callers, d # c
      PROVE  /\ scan'[d] \in Scans
             /\ scan'[d].dir = scan[d].dir /\ scan'[d].seen = scan[d].seen
             /\ scan'[d].some = scan[d].some
  <2>1. scan[d] \in Scans
    OBVIOUS
  <2>2. QED
    BY <1>4, <2>1 DEF EndScan, Scans
<1>5. scan' \in [Callers -> Scans]
  BY <1>3, <1>4 DEF EndScan
<1>6. ASSUME NEW d \in Callers PROVE Scanned(d, "task", tasks)' /\ Scanned(d, "fd", descriptors)'
  <2>1. CASE d = c
    BY <1>3, <2>1 DEF Scanned
  <2>2. CASE d # c
    BY <1>1, <1>4, <2>2 DEF Scanned
  <2>3. QED
    BY <2>1, <2>2
<1>7. QED
  BY <1>2, <1>3, <1>4, <1>5, <1>6

\* push_back of what is not there yet.
LEMMA HoldsAppended ==
  ASSUME NEW v \in Seq(Int), NEW S, Holds(v, S), NEW t \in Int, t \notin S
  PROVE  Append(v, t) \in Seq(Int) /\ Holds(Append(v, t), S \cup {t})
PROOF
<1> DEFINE n == Len(v)
           w == Append(v, t)
<1>1. n \in Nat /\ DOMAIN v = 1 .. n
  BY LenProperties
<1>2. w \in Seq(Int) /\ DOMAIN w = 1 .. n + 1
  BY LenProperties, AppendProperties
<1>3. w[n + 1] = t /\ \A i \in 1 .. n : w[i] = v[i]
  BY <1>1, AppendProperties
<1>4. \A i \in 1 .. n + 1 : i = n + 1 \/ i \in 1 .. n
  BY <1>1
<1>5. n + 1 \in 1 .. n + 1 /\ \A i \in 1 .. n : i \in 1 .. n + 1
  BY <1>1
<1> HIDE DEF n, w
<1>6. \A x : x \in S <=> \E i \in 1 .. n : x = v[i]
  BY <1>1 DEF Holds, Range
<1>7. \A x : x \in Range(w) <=> \E i \in 1 .. n + 1 : x = w[i]
  BY <1>2 DEF Range
<1>8. ASSUME NEW x PROVE x \in Range(w) <=> x \in S \/ x = t
  <2>1. ASSUME x \in Range(w) PROVE x \in S \/ x = t
    BY <1>3, <1>4, <1>6, <1>7, <2>1
  <2>2. ASSUME x \in S PROVE x \in Range(w)
    BY <1>3, <1>5, <1>6, <1>7, <2>2
  <2>3. t \in Range(w)
    BY <1>3, <1>5, <1>7
  <2>4. QED
    BY <2>1, <2>2, <2>3
<1>9. Range(w) = S \cup {t}
  BY <1>8
<1>10. \A i \in 1 .. n : v[i] # t
  BY <1>6
<1>11. \A i, j \in DOMAIN w : i # j => w[i] # w[j]
  BY <1>1, <1>2, <1>3, <1>4, <1>10 DEF Holds
<1>12. QED
  BY <1>2, <1>9, <1>11 DEF Holds, w

\* Every step of the callers and of the process preserves the invariant.
LEMMA InfoStepIInv == InfoIInv /\ [InfoNext]_infoVars => InfoIInv'
PROOF
<1>1. SUFFICES ASSUME InfoIInv, [InfoNext]_infoVars PROVE InfoIInv'
  OBVIOUS
<1> USE <1>1
<1>2. CASE Others
  <2>0. /\ tasks \subseteq Int /\ descriptors \subseteq Int
        /\ Workers \subseteq Int /\ Files \subseteq Int
    BY InfoAssumption DEF InfoIInv, InfoTypeOK
  <2>1. tasks' \subseteq Int
    <3>1. \/ tasks' = tasks
          \/ \E t \in Workers : tasks' = tasks \cup {t} \/ tasks' = tasks \ {t}
      BY <1>2 DEF Others
    <3>2. QED
      BY <2>0, <3>1
  <2>2. descriptors' \subseteq Int
    <3>1. \/ descriptors' = descriptors
          \/ \E m \in Files : \/ descriptors' = descriptors \cup {m}
                              \/ descriptors' = descriptors \ {m}
      BY <1>2 DEF Others
    <3>2. QED
      BY <2>0, <3>1
  <2>3. IsFiniteSet(descriptors')
    <3>1. IsFiniteSet(descriptors)
      BY DEF InfoIInv, InfoTypeOK
    <3>2. ASSUME NEW m \in Files
          PROVE  IsFiniteSet(descriptors \cup {m}) /\ IsFiniteSet(descriptors \ {m})
      BY <3>1, FS_AddElement, FS_RemoveElement
    <3>3. QED
      BY <1>2, <3>1, <3>2 DEF Others
  <2>4. Noticed /\ UNCHANGED <<t_pids, t_numOpenedFiles, result>> /\ comm' = comm
    BY <1>2 DEF Others
  <2>5. /\ scan' \in [Callers -> Scans]
        /\ \A c \in Callers : /\ Scanned(c, "task", tasks)' /\ Scanned(c, "fd", descriptors)'
                            /\ Lists(c)' /\ Counts(c)'
    BY <2>1, <2>2, <2>3, <2>4, NoticedKeeps
  <2>6. QED
    BY <2>1, <2>2, <2>3, <2>4, <2>5 DEF InfoIInv, InfoTypeOK
<1>3. ASSUME NEW name \in ProcNames, Rename(name) PROVE InfoIInv'
  BY <1>3, InfoAssumption DEF Rename, InfoIInv, InfoTypeOK, Scanned, Lists, Counts
<1>4. ASSUME NEW c \in Callers, beginThreads(c) PROVE InfoIInv'
  <2>1. Idle(c) /\ scanDir(c, "task") /\ UNCHANGED <<tasks, t_numOpenedFiles, comm>>
    BY <1>4 DEF beginThreads
  <2>2. /\ descriptors' \subseteq Int /\ IsFiniteSet(descriptors')
        /\ scan' \in [Callers -> Scans]
        /\ scan'[c].dir = "task" /\ scan'[c].seen = {}
        /\ \A d \in Callers : d # c =>
             /\ scan'[d].dir = scan[d].dir /\ scan'[d].seen = scan[d].seen
             /\ scan'[d].dir = "fd" => scan'[d].some = scan[d].some \cup {-c}
        /\ \A d \in Callers : Scanned(d, "task", tasks)' /\ Scanned(d, "fd", descriptors)'
    BY <2>1, ScanDirKeeps
  <2>3. InfoTypeOK'
    <3>1. c \in Int /\ <<>> \in Seq(Int)
      BY InfoAssumption
    <3>2. t_pids' \in [Callers -> Int] /\ result' \in [Callers -> Seq(Int)]
      BY <1>4, <3>1 DEF beginThreads, InfoIInv, InfoTypeOK
    <3>3. QED
      BY <2>1, <2>2, <3>2 DEF InfoIInv, InfoTypeOK
  <2>4. /\ t_pids'[c] = c /\ result'[c] = <<>>
        /\ \A d \in Callers : d # c => t_pids'[d] = t_pids[d] /\ result'[d] = result[d]
    BY <1>4 DEF beginThreads, InfoIInv, InfoTypeOK
  <2>5. ASSUME NEW d \in Callers PROVE Lists(d)'
    <3>1. CASE d = c
      <4>1. Holds(<<>>, {})
        BY DEF Holds, Range
      <4>2. QED
        BY <2>2, <2>4, <3>1, <4>1 DEF Lists
    <3>2. CASE d # c
      BY <2>2, <2>4, <3>2 DEF Lists, InfoIInv
    <3>3. QED
      BY <3>1, <3>2
  <2>6. ASSUME NEW d \in Callers PROVE Counts(d)'
    <3>1. CASE d = c
      BY <2>2, <3>1 DEF Counts
    <3>2. CASE d # c
      <4>1. SUFFICES ASSUME scan[d].dir = "fd" PROVE Counts(d)'
        BY <2>2, <3>2 DEF Counts
      <4>2. IsFiniteSet(scan[d].some) /\ scan'[d].some = scan[d].some \cup {-c}
        BY <2>2, <3>2, <4>1 DEF InfoIInv, Counts
      <4>3. IsFiniteSet(scan'[d].some)
        BY <4>2, FS_AddElement
      <4>4. QED
        BY <2>1, <2>2, <3>2, <4>1, <4>3 DEF InfoIInv, Counts
    <3>3. QED
      BY <3>1, <3>2
  <2>7. QED
    BY <2>2, <2>3, <2>5, <2>6 DEF InfoIInv
<1>5. ASSUME NEW c \in Callers, beginOpenedFiles(c) PROVE InfoIInv'
  <2>1. Idle(c) /\ scanDir(c, "fd") /\ UNCHANGED <<tasks, t_pids, result, comm>>
    BY <1>5 DEF beginOpenedFiles
  <2>2. /\ descriptors' \subseteq Int /\ IsFiniteSet(descriptors')
        /\ scan' \in [Callers -> Scans]
        /\ scan'[c].dir = "fd" /\ scan'[c].seen = {} /\ scan'[c].some = descriptors'
        /\ \A d \in Callers : d # c =>
             /\ scan'[d].dir = scan[d].dir /\ scan'[d].seen = scan[d].seen
             /\ scan'[d].dir = "fd" => scan'[d].some = scan[d].some \cup {-c}
        /\ \A d \in Callers : Scanned(d, "task", tasks)' /\ Scanned(d, "fd", descriptors)'
    BY <2>1, ScanDirKeeps
  <2>3. InfoTypeOK'
    <3>1. t_numOpenedFiles' \in [Callers -> Int]
      BY <1>5 DEF beginOpenedFiles, InfoIInv, InfoTypeOK
    <3>2. QED
      BY <2>1, <2>2, <3>1 DEF InfoIInv, InfoTypeOK
  <2>4. /\ t_numOpenedFiles'[c] = 0
        /\ \A d \in Callers : d # c => t_numOpenedFiles'[d] = t_numOpenedFiles[d]
    BY <1>5 DEF beginOpenedFiles, InfoIInv, InfoTypeOK
  <2>5. ASSUME NEW d \in Callers PROVE Lists(d)'
    BY <2>1, <2>2 DEF Lists, InfoIInv
  <2>6. ASSUME NEW d \in Callers PROVE Counts(d)'
    <3>1. CASE d = c
      BY <2>2, <2>4, <3>1, FS_EmptySet DEF Counts
    <3>2. CASE d # c
      <4>1. SUFFICES ASSUME scan[d].dir = "fd" PROVE Counts(d)'
        BY <2>2, <3>2 DEF Counts
      <4>2. IsFiniteSet(scan[d].some) /\ scan'[d].some = scan[d].some \cup {-c}
        BY <2>2, <3>2, <4>1 DEF InfoIInv, Counts
      <4>3. IsFiniteSet(scan'[d].some)
        BY <4>2, FS_AddElement
      <4>4. QED
        BY <2>2, <2>4, <3>2, <4>1, <4>3 DEF InfoIInv, Counts
    <3>3. QED
      BY <3>1, <3>2
  <2>7. QED
    BY <2>2, <2>3, <2>5, <2>6 DEF InfoIInv
<1>6. ASSUME NEW c \in Callers, taskDirFilter(c) PROVE InfoIInv'
  <2>1. scan[c].dir = "task" /\ t_pids[c] = c /\ Holds(result[c], scan[c].seen)
    BY <1>6 DEF taskDirFilter, InfoIInv, Lists
  <2>2. PICK t \in tasks \ scan[c].seen :
          /\ scan' = [scan EXCEPT ![c].seen = @ \cup {t}]
          /\ result' = [result EXCEPT ![c] = Append(@, t)]
    BY <1>6, <2>1 DEF taskDirFilter
  <2>3. UNCHANGED <<tasks, descriptors, t_pids, t_numOpenedFiles, comm>>
    BY <1>6 DEF taskDirFilter
  <2>4. result[c] \in Seq(Int) /\ t \in Int /\ t \notin scan[c].seen /\ scan[c] \in Scans
    BY DEF InfoIInv, InfoTypeOK
  <2>5. Append(result[c], t) \in Seq(Int) /\ Holds(Append(result[c], t), scan[c].seen \cup {t})
    BY <2>1, <2>4, HoldsAppended
  <2>6. /\ scan'[c] \in Scans /\ scan'[c].dir = "task" /\ scan'[c].seen = scan[c].seen \cup {t}
        /\ scan'[c].some = scan[c].some
        /\ \A d \in Callers : d # c => scan'[d] = scan[d] /\ result'[d] = result[d]
        /\ result'[c] = Append(result[c], t)
    BY <2>1, <2>2, <2>4 DEF InfoIInv, InfoTypeOK, Scans
  <2>7. scan' \in [Callers -> Scans] /\ result' \in [Callers -> Seq(Int)]
    BY <2>2, <2>5, <2>6 DEF InfoIInv, InfoTypeOK
  <2>8. InfoTypeOK'
    BY <2>3, <2>7 DEF InfoIInv, InfoTypeOK
  <2>9. ASSUME NEW d \in Callers
        PROVE  /\ Scanned(d, "task", tasks)' /\ Scanned(d, "fd", descriptors)'
               /\ Lists(d)' /\ Counts(d)'
    <3>1. CASE d = c
      BY <2>1, <2>3, <2>5, <2>6, <3>1 DEF InfoIInv, Scanned, Lists, Counts
    <3>2. CASE d # c
      BY <2>3, <2>6, <3>2 DEF InfoIInv, Scanned, Lists, Counts
    <3>3. QED
      BY <3>1, <3>2
  <2>10. QED
    BY <2>8, <2>9 DEF InfoIInv
<1>7. ASSUME NEW c \in Callers, fdDirFilter(c) PROVE InfoIInv'
  <2>1. PICK m \in descriptors \ scan[c].seen : scan' = [scan EXCEPT ![c].seen = @ \cup {m}]
    BY <1>7 DEF fdDirFilter
  <2>2. /\ scan[c].dir = "fd" /\ UNCHANGED <<tasks, descriptors, t_pids, result, comm>>
        /\ t_numOpenedFiles' = [t_numOpenedFiles EXCEPT ![c] = @ + 1]
    BY <1>7 DEF fdDirFilter
  <2>3. m \in Int /\ m \notin scan[c].seen /\ scan[c] \in Scans
    BY DEF InfoIInv, InfoTypeOK
  <2>4. /\ scan'[c] \in Scans /\ scan'[c].dir = "fd" /\ scan'[c].seen = scan[c].seen \cup {m}
        /\ scan'[c].some = scan[c].some
        /\ \A d \in Callers : d # c => scan'[d] = scan[d]
    BY <2>1, <2>2, <2>3 DEF InfoIInv, InfoTypeOK, Scans
  <2>5. /\ t_numOpenedFiles'[c] = t_numOpenedFiles[c] + 1
        /\ \A d \in Callers : d # c => t_numOpenedFiles'[d] = t_numOpenedFiles[d]
        /\ t_numOpenedFiles' \in [Callers -> Int]
    BY <2>2 DEF InfoIInv, InfoTypeOK
  <2>6. scan' \in [Callers -> Scans]
    BY <2>1, <2>4 DEF InfoIInv, InfoTypeOK
  <2>7. InfoTypeOK'
    BY <2>2, <2>5, <2>6 DEF InfoIInv, InfoTypeOK
  <2>8. /\ IsFiniteSet(scan[c].some) /\ IsFiniteSet(scan[c].seen)
        /\ t_numOpenedFiles[c] = Cardinality(scan[c].seen)
    BY <2>2 DEF InfoIInv, Counts
  <2>9. /\ IsFiniteSet(scan[c].seen \cup {m})
        /\ Cardinality(scan[c].seen \cup {m}) = Cardinality(scan[c].seen) + 1
    BY <2>3, <2>8, FS_AddElement
  <2>10. Counts(c)'
    BY <2>4, <2>5, <2>8, <2>9 DEF Counts
  <2>11. ASSUME NEW d \in Callers
         PROVE  /\ Scanned(d, "task", tasks)' /\ Scanned(d, "fd", descriptors)'
                /\ Lists(d)' /\ Counts(d)'
    <3>1. CASE d = c
      BY <2>2, <2>4, <2>10, <3>1 DEF InfoIInv, Scanned, Lists
    <3>2. CASE d # c
      BY <2>2, <2>4, <2>5, <3>2 DEF InfoIInv, Scanned, Lists, Counts
    <3>3. QED
      BY <3>1, <3>2
  <2>12. QED
    BY <2>7, <2>11 DEF InfoIInv
<1>8. ASSUME NEW c \in Callers, NEW complete \in BOOLEAN,
             endThreads(c, complete) \/ endOpenedFiles(c, complete)
      PROVE  InfoIInv'
  <2>1. EndScan(c, complete) /\ UNCHANGED <<tasks, t_numOpenedFiles, comm>>
    BY <1>8 DEF endThreads, endOpenedFiles
  <2>2. /\ descriptors' \subseteq Int /\ IsFiniteSet(descriptors')
        /\ scan' \in [Callers -> Scans]
        /\ scan'[c].dir = "none"
        /\ \A d \in Callers : d # c =>
             /\ scan'[d].dir = scan[d].dir /\ scan'[d].seen = scan[d].seen
             /\ scan'[d].some = scan[d].some
        /\ \A d \in Callers : Scanned(d, "task", tasks)' /\ Scanned(d, "fd", descriptors)'
    BY <2>1, EndScanKeeps
  <2>3. /\ t_pids' \in [Callers -> Int] /\ result' \in [Callers -> Seq(Int)]
        /\ \A d \in Callers : d # c => t_pids'[d] = t_pids[d] /\ result'[d] = result[d]
    <3>1. <<>> \in Seq(Int) /\ 0 \in Int
      OBVIOUS
    <3>2. t_pids \in [Callers -> Int] /\ result \in [Callers -> Seq(Int)]
      BY DEF InfoIInv, InfoTypeOK
    <3>3. CASE endThreads(c, complete)
      BY <3>1, <3>2, <3>3 DEF endThreads
    <3>4. CASE endOpenedFiles(c, complete)
      BY <3>2, <3>4 DEF endOpenedFiles
    <3>5. QED
      BY <1>8, <3>3, <3>4
  <2>4. InfoTypeOK'
    BY <2>1, <2>2, <2>3 DEF InfoIInv, InfoTypeOK
  <2>5. ASSUME NEW d \in Callers PROVE Lists(d)' /\ Counts(d)'
    <3>1. CASE d = c
      BY <2>2, <3>1 DEF Lists, Counts
    <3>2. CASE d # c
      BY <2>1, <2>2, <2>3, <3>2 DEF InfoIInv, Lists, Counts
    <3>3. QED
      BY <3>1, <3>2
  <2>6. QED
    BY <2>2, <2>4, <2>5 DEF InfoIInv
<1>9. ASSUME NEW c \in Callers, threadsFails(c) \/ openedFilesFails(c) PROVE InfoIInv'
  <2>1. scan[c].dir = "none" /\ UNCHANGED <<tasks, descriptors, scan, comm>>
    BY <1>9 DEF threadsFails, openedFilesFails, Idle
  <2>2. /\ t_pids' \in [Callers -> Int] /\ result' \in [Callers -> Seq(Int)]
        /\ t_numOpenedFiles' \in [Callers -> Int]
        /\ \A d \in Callers : d # c =>
             /\ t_pids'[d] = t_pids[d] /\ result'[d] = result[d]
             /\ t_numOpenedFiles'[d] = t_numOpenedFiles[d]
    <3>1. <<>> \in Seq(Int) /\ 0 \in Int
      OBVIOUS
    <3>2. /\ t_pids \in [Callers -> Int] /\ result \in [Callers -> Seq(Int)]
          /\ t_numOpenedFiles \in [Callers -> Int]
      BY DEF InfoIInv, InfoTypeOK
    <3>3. CASE threadsFails(c)
      BY <3>1, <3>2, <3>3 DEF threadsFails
    <3>4. CASE openedFilesFails(c)
      BY <3>1, <3>2, <3>4 DEF openedFilesFails
    <3>5. QED
      BY <1>9, <3>3, <3>4
  <2>3. InfoTypeOK'
    BY <2>1, <2>2 DEF InfoIInv, InfoTypeOK
  <2>4. ASSUME NEW d \in Callers
        PROVE  /\ Scanned(d, "task", tasks)' /\ Scanned(d, "fd", descriptors)'
               /\ Lists(d)' /\ Counts(d)'
    <3>1. CASE d = c
      BY <2>1, <3>1 DEF Scanned, Lists, Counts
    <3>2. CASE d # c
      BY <2>1, <2>2, <3>2 DEF InfoIInv, Scanned, Lists, Counts
    <3>3. QED
      BY <3>1, <3>2
  <2>5. QED
    BY <2>3, <2>4 DEF InfoIInv
<1>10. CASE UNCHANGED infoVars
  BY <1>10 DEF infoVars, InfoIInv, InfoTypeOK, Scanned, Lists, Counts
<1>11. QED
  BY <1>1, <1>2, <1>3, <1>4, <1>5, <1>6, <1>7, <1>8, <1>9, <1>10 DEF InfoNext

\* find returns the first place of a word.
LEMMA FoundFirst ==
  ASSUME NEW text, NEW w, NEW i \in DOMAIN text, DOMAIN text \subseteq Int, text[i] = w,
         \A j \in DOMAIN text : text[j] = w => i <= j
  PROVE  find(text, w) = i
PROOF
<1> DEFINE at == {k \in DOMAIN text : text[k] = w}
           P(k) == \A j \in at : k <= j
<1>1. i \in at /\ P(i) /\ at \subseteq Int
  OBVIOUS
<1>2. \A k \in at : P(k) => k = i
  BY <1>1
<1>3. find(text, w) = CHOOSE k \in at : P(k)
  BY <1>1 DEF find
<1> HIDE DEF at, P
<1>4. QED
  BY <1>1, <1>2, <1>3

\* Likewise from the end.
LEMMA FoundLast ==
  ASSUME NEW text, NEW w, NEW i \in DOMAIN text, DOMAIN text \subseteq Int, text[i] = w,
         \A j \in DOMAIN text : text[j] = w => i >= j
  PROVE  rfind(text, w) = i
PROOF
<1> DEFINE at == {k \in DOMAIN text : text[k] = w}
           P(k) == \A j \in at : k >= j
<1>1. i \in at /\ P(i) /\ at \subseteq Int
  OBVIOUS
<1>2. \A k \in at : P(k) => k = i
  BY <1>1
<1>3. rfind(text, w) = CHOOSE k \in at : P(k)
  BY <1>1 DEF rfind
<1> HIDE DEF at, P
<1>4. QED
  BY <1>1, <1>2, <1>3

\* A sequence over a set is one over a larger set.
LEMMA WiderSeq ==
  ASSUME NEW S, NEW T, NEW s \in Seq(S)
  PROVE  s \in Seq(S \cup T)
PROOF
<1>1. Len(s) \in Nat /\ s \in [1 .. Len(s) -> S]
  BY LenProperties
<1>2. s \in [1 .. Len(s) -> S \cup T]
  BY <1>1
<1>3. QED
  BY <1>1, <1>2, SeqDef

\* A name between parentheses is found whatever is in it: only the words before
\* it are not the opening one, and only those after it not the closing one.
LEMMA NameBetween ==
  ASSUME NEW S, NEW pid \in S, NEW sp \in S, NEW lp \in S, NEW rp \in S, NEW st \in S,
         NEW pp \in S, pid # lp, sp # lp, sp # rp, st # rp, pp # rp, NEW name \in Seq(S)
  PROVE  LET text == <<pid, sp, lp>> \o name \o <<rp, sp, st, sp, pp>>
         IN  /\ find(text, lp) = 3 /\ rfind(text, rp) = Len(name) + 4
             /\ SubSeq(text, 4, Len(name) + 3) = name
PROOF
<1> DEFINE before == <<pid, sp, lp>>
           after == <<rp, sp, st, sp, pp>>
           n == Len(name)
           half == before \o name
           text == half \o after
<1>1. n \in Nat /\ DOMAIN name = 1 .. n
  BY LenProperties
<1>2. /\ before \in Seq(S) /\ Len(before) = 3
      /\ before[1] = pid /\ before[2] = sp /\ before[3] = lp
  OBVIOUS
<1>3. /\ after \in Seq(S) /\ Len(after) = 5
      /\ after[1] = rp /\ after[2] = sp /\ after[3] = st /\ after[4] = sp /\ after[5] = pp
  OBVIOUS
<1> HIDE DEF before, after
<1>4. /\ half \in Seq(S) /\ Len(half) = 3 + n
      /\ \A i \in 1 .. 3 + n : half[i] = IF i <= 3 THEN before[i] ELSE name[i - 3]
  <2>1. half \in Seq(S) /\ Len(half) = Len(before) + Len(name)
    BY <1>2, ConcatProperties
  <2>2. \A i \in 1 .. Len(before) + Len(name) :
          half[i] = IF i <= Len(before) THEN before[i] ELSE name[i - Len(before)]
    BY <1>2, ConcatProperties
  <2> HIDE DEF half
  <2>3. QED
    BY <1>1, <1>2, <2>1, <2>2
<1> HIDE DEF half
<1>5. 3 + n \in Nat /\ (3 + n) + 5 = n + 8
  BY <1>1
<1>6. /\ text \in Seq(S) /\ Len(text) = (3 + n) + 5
      /\ \A i \in 1 .. (3 + n) + 5 : text[i] = IF i <= 3 + n THEN half[i] ELSE after[i - (3 + n)]
  <2>1. text \in Seq(S) /\ Len(text) = Len(half) + Len(after)
    BY <1>3, <1>4, ConcatProperties
  <2>2. \A i \in 1 .. Len(half) + Len(after) :
          text[i] = IF i <= Len(half) THEN half[i] ELSE after[i - Len(half)]
    BY <1>3, <1>4, ConcatProperties
  <2> HIDE DEF text
  <2>3. QED
    BY <1>3, <1>4, <1>5, <2>1, <2>2
<1> HIDE DEF text, n
<1>7. DOMAIN text = 1 .. n + 8
  BY <1>5, <1>6, LenProperties
<1>8. ASSUME NEW i \in 1 .. 3 PROVE text[i] = before[i]
  <2>1. i \in 1 .. (3 + n) + 5 /\ i \in 1 .. 3 + n /\ i <= 3 + n /\ i <= 3
    BY <1>1
  <2>2. QED
    BY <1>4, <1>6, <2>1
<1>9. ASSUME NEW i \in 1 .. n PROVE text[i + 3] = name[i]
  <2>1. /\ i + 3 \in 1 .. (3 + n) + 5 /\ i + 3 \in 1 .. 3 + n /\ i + 3 <= 3 + n
        /\ ~(i + 3 <= 3) /\ (i + 3) - 3 = i
    BY <1>1
  <2>2. QED
    BY <1>4, <1>6, <2>1
<1>10. ASSUME NEW k \in 1 .. 5 PROVE text[(3 + n) + k] = after[k]
  <2>1. /\ (3 + n) + k \in 1 .. (3 + n) + 5 /\ ~((3 + n) + k <= 3 + n)
        /\ ((3 + n) + k) - (3 + n) = k
    BY <1>1
  <2>2. QED
    BY <1>6, <2>1
<1>11. text[1] # lp /\ text[2] # lp /\ text[3] = lp
  <2>1. 1 \in 1 .. 3 /\ 2 \in 1 .. 3 /\ 3 \in 1 .. 3
    OBVIOUS
  <2>2. QED
    BY <1>2, <1>8, <2>1
<1>12. text[n + 4] = rp /\ \A i \in 1 .. n + 8 : text[i] = rp => n + 4 >= i
  <2>1. (3 + n) + 1 = n + 4 /\ 1 \in 1 .. 5
    BY <1>1
  <2>2. ASSUME NEW i \in 1 .. n + 8, i > n + 4 PROVE text[i] # rp
    <3>1. PICK k \in 2 .. 5 : i = (3 + n) + k
      <4>1. i - (3 + n) \in 2 .. 5 /\ i = (3 + n) + (i - (3 + n))
        BY <1>1, <2>2
      <4>2. QED
        BY <4>1
    <3>2. k \in 1 .. 5 /\ (k = 2 \/ k = 3 \/ k = 4 \/ k = 5)
      OBVIOUS
    <3>3. text[i] = after[k]
      BY <1>10, <3>1, <3>2
    <3>4. QED
      BY <1>3, <3>2, <3>3
  <2>3. \A i \in 1 .. n + 8 : i > n + 4 \/ n + 4 >= i
    BY <1>1
  <2>4. QED
    BY <1>3, <1>10, <2>1, <2>2, <2>3
<1>13. find(text, lp) = 3
  <2>1. \A j \in 1 .. n + 8 : j = 1 \/ j = 2 \/ 3 <= j
    BY <1>1
  <2>2. 3 \in DOMAIN text /\ DOMAIN text \subseteq Int
    BY <1>1, <1>7
  <2>3. \A j \in DOMAIN text : text[j] = lp => 3 <= j
    BY <1>7, <1>11, <2>1
  <2>4. QED
    BY <1>11, <2>2, <2>3, FoundFirst
<1>14. rfind(text, rp) = n + 4
  <2>1. n + 4 \in DOMAIN text /\ DOMAIN text \subseteq Int
    BY <1>1, <1>7
  <2>2. \A j \in DOMAIN text : text[j] = rp => n + 4 >= j
    BY <1>7, <1>12
  <2>3. QED
    BY <1>12, <2>1, <2>2, FoundLast
<1>15. SubSeq(text, 4, n + 3) = name
  <2>1. SubSeq(text, 4, n + 3) = [i \in 1 .. n + 3 - 4 + 1 |-> text[i + 4 - 1]]
    BY <1>1, <1>6
  <2>2. n + 3 - 4 + 1 = n /\ \A i \in 1 .. n : i + 4 - 1 = i + 3
    BY <1>1
  <2>3. SubSeq(text, 4, n + 3) = [i \in 1 .. n |-> name[i]]
    BY <1>9, <2>1, <2>2
  <2>4. name = [i \in 1 .. n |-> name[i]]
    BY <1>1, LenProperties DEF n
  <2>5. QED
    BY <2>3, <2>4
<1>16. QED
  BY <1>13, <1>14, <1>15 DEF text, half, before, after, n

\* The name in /proc/self/stat stands between the first opening and the last
\* closing parenthesis, whatever is in it.
LEMMA NamesAreWhole ==
  ASSUME comm \in Seq(STRING)
  PROVE  NameIsWhole
PROOF
<1> DEFINE text == <<"4711", " ", "(">> \o comm \o <<")", " ", "S", " ", "1">>
           lp == find(text, "(")
           rp == rfind(text, ")")
<1>1. procStat = {<<>>, text}
  BY Zenon DEF procStat
<1>2. lp = 3 /\ rp = Len(comm) + 4 /\ SubSeq(text, 4, Len(comm) + 3) = comm
  <2> DEFINE marks == {"4711", " ", "(", ")", "S", "1"}
             words == STRING \cup marks
  <2>1. /\ "4711" \in words /\ " " \in words /\ "(" \in words /\ ")" \in words
        /\ "S" \in words /\ "1" \in words
    BY Zenon
  <2>2. "4711" # "(" /\ " " # "(" /\ " " # ")" /\ "S" # ")" /\ "1" # ")"
    BY Zenon
  <2>3. comm \in Seq(words)
    <3> HIDE DEF marks
    <3>1. QED
      BY WiderSeq, Zenon
  <2> HIDE DEF words
  <2>4. PICK pid \in words, sp \in words, l \in words, r \in words, st \in words, pp \in words :
          pid = "4711" /\ sp = " " /\ l = "(" /\ r = ")" /\ st = "S" /\ pp = "1"
    BY <2>1, Zenon
  <2>5. pid # l /\ sp # l /\ sp # r /\ st # r /\ pp # r
    BY <2>2, <2>4, Zenon
  <2>6. /\ find(<<pid, sp, l>> \o comm \o <<r, sp, st, sp, pp>>, l) = 3
        /\ rfind(<<pid, sp, l>> \o comm \o <<r, sp, st, sp, pp>>, r) = Len(comm) + 4
        /\ SubSeq(<<pid, sp, l>> \o comm \o <<r, sp, st, sp, pp>>, 4, Len(comm) + 3) = comm
    BY ONLY <2>3, <2>5, NameBetween
  <2>7. QED
    BY <2>4, <2>6, Zenon
<1>3. procname(text) = IF lp # npos /\ rp # npos /\ lp < rp
                       THEN SubSeq(text, lp + 1, rp - 1) ELSE <<>>
  BY Zenon DEF procname
<1> HIDE DEF text, lp, rp
<1>4. Len(comm) \in Nat
  BY LenProperties
<1>5. procname(text) = SubSeq(text, 4, Len(comm) + 3)
  BY <1>2, <1>3, <1>4 DEF npos
<1>6. procname(<<>>) = <<>>
  <2>1. \A w : find(<<>>, w) = npos
    BY DEF find
  <2>2. QED
    BY <2>1 DEF procname
<1>7. text # <<>>
  <2>1. SUFFICES ASSUME text = <<>> PROVE lp = npos
    BY <1>2 DEF npos
  <2>2. \A w : find(<<>>, w) = npos
    BY DEF find
  <2>3. QED
    BY <2>1, <2>2 DEF lp
<1>8. QED
  BY <1>1, <1>2, <1>5, <1>6, <1>7 DEF NameIsWhole

\* threads() lists none that never was there, in ascending order and each
\* once, and, unless scandir failed, those that were there all the time;
\* openedFiles() likewise counts what is open; procname() is the whole name or
\* nothing: for any number of callers, of threads and descriptors that come
\* and go meanwhile, and of failures, and any names.
THEOREM InfoIsAlwaysTrue == InfoSpec => InfoIsTrue
PROOF
<1>1. ASSUME InfoIInv PROVE ThreadsListed
  <2>1. SUFFICES ASSUME NEW c \in Callers, NEW complete \in BOOLEAN, endThreads(c, complete)
                 PROVE  /\ complete => scan[c].all \subseteq Range(Sorted(c))
                        /\ Range(Sorted(c)) \subseteq scan[c].some
                        /\ \A i, j \in DOMAIN Sorted(c) : i < j => Sorted(c)[i] < Sorted(c)[j]
    BY DEF ThreadsListed
  <2>2. scan[c].dir = "task" /\ (complete => scan[c].all \subseteq scan[c].seen)
    BY <2>1 DEF endThreads, EndScan
  <2>3. /\ result[c] \in Seq(Int) /\ scan[c].seen \subseteq scan[c].some
        /\ Holds(result[c], scan[c].seen)
    BY <1>1, <2>2 DEF InfoIInv, InfoTypeOK, Scanned, Lists
  <2>4. /\ Range(result[c]) = scan[c].seen
        /\ \A i, j \in DOMAIN result[c] : i # j => result[c][i] # result[c][j]
    BY <2>3 DEF Holds
  <2>5. /\ Range(Sorted(c)) = Range(result[c])
        /\ \A i, j \in DOMAIN Sorted(c) : i < j => Sorted(c)[i] < Sorted(c)[j]
    BY <2>3, <2>4, SortedIsSorted
  <2>6. QED
    BY <2>2, <2>3, <2>4, <2>5
<1>2. ASSUME InfoIInv PROVE FilesCounted
  <2>1. SUFFICES ASSUME NEW c \in Callers, NEW complete \in BOOLEAN,
                        endOpenedFiles(c, complete)
                 PROVE  /\ complete => t_numOpenedFiles[c] >= Cardinality(scan[c].all)
                        /\ t_numOpenedFiles[c] <= Cardinality(scan[c].some)
    BY DEF FilesCounted
  <2>2. scan[c].dir = "fd" /\ (complete => scan[c].all \subseteq scan[c].seen)
    BY <2>1 DEF endOpenedFiles, EndScan
  <2>3. /\ scan[c].seen \subseteq scan[c].some
        /\ IsFiniteSet(scan[c].some) /\ IsFiniteSet(scan[c].seen)
        /\ t_numOpenedFiles[c] = Cardinality(scan[c].seen)
    BY <1>2, <2>2 DEF InfoIInv, Scanned, Counts
  <2>4. Cardinality(scan[c].seen) <= Cardinality(scan[c].some)
    BY <2>3, FS_Subset
  <2>5. Cardinality(scan[c].seen) \in Nat
    BY <2>3, FS_CardinalityType
  <2>6. ASSUME complete PROVE t_numOpenedFiles[c] >= Cardinality(scan[c].all)
    <3>1. /\ IsFiniteSet(scan[c].all)
          /\ Cardinality(scan[c].all) <= Cardinality(scan[c].seen)
      BY <2>2, <2>3, <2>6, FS_Subset
    <3>2. Cardinality(scan[c].all) \in Nat
      BY <3>1, FS_CardinalityType
    <3>3. QED
      BY <2>3, <2>5, <3>1, <3>2
  <2>7. QED
    BY <2>3, <2>4, <2>6
<1>3. InfoIInv => NameIsWhole
  BY NamesAreWhole DEF InfoIInv, InfoTypeOK
<1>4. InfoIInv /\ InfoIInv' => [ThreadsListed /\ FilesCounted /\ NameIsWhole']_infoVars
  <2>1. InfoIInv' => NameIsWhole'
    BY <1>3, PTL
  <2>2. QED
    BY <1>1, <1>2, <2>1
<1>5. QED
  BY <1>4, InfoInitIInv, InfoStepIInv, PTL DEF InfoSpec, InfoIsTrue

-----------------------------------------------------------------------------
(* LoopThreadPool: the start handshake is right for any number of threads. *)
(* The inductive invariant says who holds which mutex, that an address is  *)
(* published from the notifying step on, and what the starting thread knows*)
(* about loop_ at each of its steps.                                       *)

\* The steps of threadFunc at which the loop is constructed and published.
PublishedPcs == {"notify", "unlock", "loop"}

\* The mutex of a thread is held exactly inside the critical sections.
Held ==
  \A k \in Threads :
    /\ mutex_[k] = "worker" <=> worker[k] \in {"notify", "unlock"}
    /\ mutex_[k] = "starter" <=> k = current /\ starter \in {"test", "wait"}

\* loop_ is the thread's own loop once it is published, null before.
Address ==
  \A k \in Threads :
    loop_[k] = IF worker[k] \in PublishedPcs THEN k ELSE Null

\* What the starting thread knows about the thread it works on.
Knows ==
  /\ starter = "create" <=> worker[current] = "none"
  /\ starter = "wait" => loop_[current] = Null
  /\ starter = "waiting" => worker[current] \notin {"unlock", "loop"}
  /\ starter = "return" => loop_[current] # Null

\* The pool's vector has one loop for each thread that was waited for.
Collected ==
  /\ Len(loops_) = IF starter \in {"done", "join"} THEN NumThreads ELSE current - 1
  /\ \A n \in 1 .. Len(loops_) : loops_[n] = n /\ worker[n] \in PublishedPcs

\* The threads after the current one do not exist yet.
Ahead ==
  starter \notin {"done", "join"} =>
    \A k \in Threads : k > current => worker[k] = "none"

IInv == TypeOK /\ Held /\ Address /\ Knows /\ Collected /\ Ahead

\* The invariant holds before the pool is started.
LEMMA InitIInv == Init => IInv
PROOF
<1> SUFFICES ASSUME Init PROVE IInv
  OBVIOUS
<1> USE NumThreadsAssumption DEF Init, Threads, Null
<1>1. TypeOK
  BY EmptySeq DEF TypeOK, StarterPcs, WorkerPcs
<1>2. Held /\ Address /\ Knows /\ Ahead
  BY DEF Held, Address, Knows, PublishedPcs, Ahead
<1>3. Collected
  BY EmptySeq DEF Collected
<1>4. QED
  BY <1>1, <1>2, <1>3 DEF IInv

\* The steps of the starting thread other than the return of startLoop.
LEMMA StarterIInv ==
  ASSUME IInv,
         Create \/ LockInStarter \/ Test \/ Wait \/ SpuriousWakeup \/ Published
           \/ Destroy
  PROVE  IInv'
PROOF
<1> USE NumThreadsAssumption DEF IInv, TypeOK, Threads, Null
<1>1. TypeOK' /\ loops_' = loops_ /\ loop_' = loop_ /\ current' = current
  BY DEF Create, LockInStarter, Test, Wait, SpuriousWakeup, Published, Destroy,
         StarterPcs, WorkerPcs
<1>2. /\ starter \in {"done", "join"} <=> starter' \in {"done", "join"}
      /\ \A k \in Threads : worker'[k] \in PublishedPcs <=> worker[k] \in PublishedPcs
  BY DEF Create, LockInStarter, Test, Wait, SpuriousWakeup, Published, Destroy,
         Address, Knows, PublishedPcs
<1>3. Held'
  BY <1>1 DEF Held, Create, LockInStarter, Test, Wait, SpuriousWakeup, Published,
              Destroy, Address, Knows, PublishedPcs
<1>4. Address'
  BY <1>1, <1>2 DEF Address
<1>5. Knows'
  BY DEF Create, LockInStarter, Test, Wait, SpuriousWakeup, Published, Destroy,
         Knows, Held, Address, PublishedPcs
<1>6. Collected'
  <2>1. \A n \in 1 .. Len(loops_) : n \in Threads
    BY LenProperties DEF Collected
  <2>2. QED
    BY <1>1, <1>2, <2>1 DEF Collected
<1>7. Ahead'
  <2>1. \A k \in Threads : k > current => worker'[k] = worker[k]
    <3>1. \A k \in Threads : k > current => k # current
      OBVIOUS
    <3>2. CASE Create
      BY <3>1, <3>2 DEF Create
    <3>3. CASE worker' = worker
      BY <3>3
    <3>4. QED
      BY <3>2, <3>3 DEF LockInStarter, Test, Wait, SpuriousWakeup, Published,
                        Destroy
  <2>2. QED
    BY <1>1, <1>2, <2>1 DEF Ahead
<1>8. QED
  BY <1>1, <1>3, <1>4, <1>5, <1>6, <1>7

\* startLoop returns and the pool goes on to the next thread.
LEMMA ReturnIInv == ASSUME IInv, Return PROVE IInv'
PROOF
<1> USE NumThreadsAssumption DEF IInv, TypeOK, Threads, Null
<1>1. /\ loop_[current] = current /\ worker[current] \in PublishedPcs
      /\ Len(loops_) = current - 1
  BY DEF Return, Knows, Address, Collected
<1>2. /\ loops_' \in Seq(Threads \cup {Null})
      /\ Len(loops_') = current
      /\ \A n \in 1 .. Len(loops_) : loops_'[n] = loops_[n]
      /\ loops_'[current] = current
  <2>1. loops_' = Append(loops_, current) /\ current \in Threads \cup {Null}
    BY <1>1 DEF Return
  <2>2. QED
    BY <1>1, <2>1, AppendProperties
<1>3. \A n \in 1 .. Len(loops_') : loops_'[n] = n /\ worker'[n] \in PublishedPcs
  <2>1. ASSUME NEW n \in 1 .. current
        PROVE  loops_'[n] = n /\ worker[n] \in PublishedPcs
    <3>1. n = current \/ n \in 1 .. Len(loops_)
      BY <1>1
    <3>2. QED
      BY <1>1, <1>2, <3>1 DEF Collected
  <2>2. QED
    BY <1>2, <2>1 DEF Return
<1>4. TypeOK'
  BY <1>2 DEF Return, StarterPcs
<1>5. Held' /\ Address' /\ Knows' /\ Ahead'
  <2>1. worker[1] \in PublishedPcs
    BY <1>1, <1>2, <1>3 DEF Return
  <2>2. Held' /\ Address'
    BY DEF Return, Held, Address
  <2>3. Knows'
    BY <2>1 DEF Return, Knows, Ahead, PublishedPcs
  <2>4. Ahead'
    BY DEF Return, Ahead
  <2>5. QED
    BY <2>2, <2>3, <2>4
<1>6. Len(loops_') = IF starter' \in {"done", "join"} THEN NumThreads
                     ELSE current' - 1
  <2>1. CASE current < NumThreads
    BY <1>2, <2>1 DEF Return
  <2>2. CASE ~ (current < NumThreads)
    <3>1. current = NumThreads /\ starter' = "done"
      BY <2>2 DEF Return
    <3>2. QED
      BY <1>2, <3>1
  <2>3. QED
    BY <2>1, <2>2
<1>7. QED
  BY <1>3, <1>4, <1>5, <1>6 DEF Collected

\* A step of threadFunc.
LEMMA WorkerIInv ==
  ASSUME IInv, NEW k \in Threads, WorkerStep(k)
  PROVE  IInv'
PROOF
<1> USE NumThreadsAssumption DEF IInv, TypeOK, Threads, Null
<1> USE DEF WorkerStep, Construct, Publish, Notify, EnterLoop
<1>1. TypeOK' /\ loops_' = loops_ /\ current' = current
  <2>1. CASE Construct(k)
    BY <2>1 DEF WorkerPcs
  <2>2. CASE Publish(k)
    BY <2>2 DEF WorkerPcs
  <2>3. CASE Notify(k)
    BY <2>3 DEF StarterPcs, WorkerPcs
  <2>4. CASE EnterLoop(k)
    BY <2>4 DEF WorkerPcs
  <2>5. QED
    BY <2>1, <2>2, <2>3, <2>4
<1>2. /\ starter \in {"done", "join"} <=> starter' \in {"done", "join"}
      /\ \A j \in Threads : worker[j] \in PublishedPcs => worker'[j] \in PublishedPcs
      /\ \A j \in Threads : worker[j] = "none" => worker'[j] = "none"
  BY DEF PublishedPcs
<1>3. Held'
  BY DEF Held
<1>4. Address'
  BY DEF Address, PublishedPcs
<1>5. Knows'
  BY DEF Knows, Held, Address, PublishedPcs
<1>6. Collected'
  <2>1. \A n \in 1 .. Len(loops_) : n \in Threads
    BY LenProperties DEF Collected
  <2>2. QED
    BY <1>1, <1>2, <2>1 DEF Collected
<1>7. Ahead'
  BY <1>1, <1>2 DEF Ahead
<1>8. QED
  BY <1>1, <1>3, <1>4, <1>5, <1>6, <1>7

\* The inductive invariant holds of the pool, for any number of threads.
THEOREM Invariance == SafeSpec => []IInv
PROOF
<1>1. IInv /\ [Next]_vars => IInv'
  <2> SUFFICES ASSUME IInv, [Next]_vars PROVE IInv'
    OBVIOUS
  <2>1. CASE Return
    BY <2>1, ReturnIInv
  <2>2. CASE Create \/ LockInStarter \/ Test \/ Wait \/ SpuriousWakeup \/ Published
               \/ Destroy
    BY <2>2, StarterIInv
  <2>3. ASSUME NEW k \in Threads, WorkerStep(k) PROVE IInv'
    BY <2>3, WorkerIInv
  <2>4. CASE UNCHANGED vars
    BY <2>4 DEF vars, IInv, TypeOK, Held, Address, Knows, Collected, Ahead
  <2>5. QED
    BY <2>1, <2>2, <2>3, <2>4 DEF Next, StarterStep
<1>2. QED
  BY <1>1, InitIInv, PTL DEF SafeSpec

\* The type invariant of the pool and its threads.
THEOREM TypeCorrect == SafeSpec => []TypeOK
PROOF
<1>1. IInv => TypeOK
  BY DEF IInv
<1>2. QED
  BY <1>1, Invariance, PTL

\* EventLoopThreadPool::start collects the loops of its threads, each
\* constructed, whatever wakes the starting thread up.
THEOREM LoopsLive == SafeSpec => []LoopsAreLive
PROOF
<1>1. IInv => LoopsAreLive
  BY LenProperties DEF IInv, TypeOK, Collected, LoopsAreLive, PublishedPcs
<1>2. QED
  BY <1>1, Invariance, PTL

\* The starting thread never sleeps on a thread that has already notified.
THEOREM NoLostNotify == SafeSpec => []NotifyNotLost
PROOF
<1>1. IInv => NotifyNotLost
  BY DEF IInv, TypeOK, Knows, NotifyNotLost, Ahead, WorkerPcs
<1>2. QED
  BY <1>1, Invariance, PTL
=============================================================================
