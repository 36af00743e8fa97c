-------------------------------- MODULE Epoll --------------------------------
(***************************************************************************)
(* The bookkeeping of net/Epoll.cpp and net/Channel.h: fd2chan_ and the    *)
(* event masks of the channels, beside the kernel's interest list.  The    *)
(* code around it may add, modify and delete channels in any order, the    *)
(* ones that are registered already and the ones whose descriptor was      *)
(* closed, and perhaps used again, included: fd_ keeps its value.          *)
(***************************************************************************)
EXTENDS Integers, FiniteSets

CONSTANTS
  Channels,    \* each is opened once (bound)
  ChannelFds,  \* the descriptors they may get
  Masks,       \* the event masks that are asked for; 0 is none
  NoChannel    \* a null SP_Channel

ASSUME ChannelsAssumption == NoChannel \notin Channels
ASSUME ChannelFdsAssumption == ChannelFds \subseteq Nat \ {0}

VARIABLES
  channelFd,   \* fd_ of each channel: 0 before setFd
  ownerOf,     \* descriptor -> the channel it was opened for, or NoChannel
  events_, revents_, lastEvents_,
  fd2chan,     \* fd2chan_
  interestOf,  \* the kernel: descriptor -> [channel, mask], or None
  setBy,       \* history: descriptor -> the channel that last set its mask
  addedAgain   \* history: watched descriptors with a second epoll_add

masks == <<events_, revents_, lastEvents_>>
epollVars == <<channelFd, ownerOf, masks, fd2chan, interestOf, setBy, addedAgain>>

None == [channel |-> NoChannel, mask |-> 0]

EpollInit ==
  /\ channelFd = [c \in Channels |-> 0]
  /\ ownerOf = [n \in ChannelFds |-> NoChannel]
  /\ events_ = [c \in Channels |-> 0]
  /\ revents_ = [c \in Channels |-> 0]
  /\ lastEvents_ = [c \in Channels |-> 0]
  /\ fd2chan = [n \in ChannelFds |-> NoChannel]
  /\ interestOf = [n \in ChannelFds |-> None]
  /\ setBy = [n \in ChannelFds |-> NoChannel]
  /\ addedAgain = {}

-----------------------------------------------------------------------------
(* The code around. *)

\* A channel, and setFd with the lowest descriptor that is free.
OpenChannel(c) ==
  /\ channelFd[c] = 0
  /\ \E n \in ChannelFds :
       /\ ownerOf[n] = NoChannel
       /\ \A k \in ChannelFds : ownerOf[k] = NoChannel => n <= k
       /\ channelFd' = [channelFd EXCEPT ![c] = n]
       /\ ownerOf' = [ownerOf EXCEPT ![n] = c]
  /\ UNCHANGED <<masks, fd2chan, interestOf, setBy, addedAgain>>

setEvents(c, mask) ==
  /\ events_' = [events_ EXCEPT ![c] = mask]
  /\ UNCHANGED <<channelFd, ownerOf, revents_, lastEvents_, fd2chan, interestOf, setBy,
                 addedAgain>>

HasFd(c) == channelFd[c] # 0

\* close(fd): the kernel forgets it, the table and the channel do not.
CloseFd(c) ==
  /\ HasFd(c) /\ ownerOf[channelFd[c]] = c
  /\ ownerOf' = [ownerOf EXCEPT ![channelFd[c]] = NoChannel]
  /\ interestOf' = [interestOf EXCEPT ![channelFd[c]] = None]
  /\ addedAgain' = addedAgain \ {channelFd[c]}
  /\ UNCHANGED <<channelFd, masks, fd2chan, setBy>>

-----------------------------------------------------------------------------
(* The poller. *)

EqualAndUpdateLastEvents(c) == lastEvents_' = [lastEvents_ EXCEPT ![c] = events_[c]]

\* EPOLL_CTL_ADD of an open descriptor that is not watched yet.
CtlAdd(c) ==
  LET n == channelFd[c]
  IN /\ ownerOf[n] # NoChannel /\ interestOf[n] = None
     /\ interestOf' = [interestOf EXCEPT ![n] = [channel |-> c, mask |-> events_[c]]]
     /\ setBy' = [setBy EXCEPT ![n] = c]
     /\ UNCHANGED addedAgain

\* It fails when the descriptor is watched (EEXIST) or closed (EBADF), or for
\* want of memory.
CtlAddFails(c) ==
  /\ addedAgain' = addedAgain \cup {n \in {channelFd[c]} : interestOf[n] # None}
  /\ UNCHANGED <<interestOf, setBy>>

\* Mutant: an entry that is there is kept.
MutEpoll_add(c) ==
  LET n == channelFd[c]
  IN /\ EqualAndUpdateLastEvents(c)
     /\ \/ CtlAdd(c) /\ fd2chan' = [fd2chan EXCEPT ![n] = IF @ = NoChannel THEN c ELSE @]
        \/ CtlAddFails(c) /\ fd2chan' = [fd2chan EXCEPT ![n] = NoChannel]

\* The table entry is made before the call, and reset when the call fails.
epoll_add(c) ==
  LET n == channelFd[c]
  IN /\ EqualAndUpdateLastEvents(c)
     /\ \/ CtlAdd(c) /\ fd2chan' = [fd2chan EXCEPT ![n] = c]
        \/ CtlAddFails(c) /\ fd2chan' = [fd2chan EXCEPT ![n] = NoChannel]

addToPoller(c) ==
  /\ HasFd(c)
  /\ epoll_add(c)
  /\ UNCHANGED <<channelFd, ownerOf, events_, revents_>>

\* An unchanged mask costs no system call.  EPOLL_CTL_MOD fails on a
\* descriptor that is not (or no longer) watched, and the entry is reset.
epoll_mod(c) ==
  LET n == channelFd[c]
  IN /\ EqualAndUpdateLastEvents(c)
     /\ \/ lastEvents_[c] = events_[c] /\ UNCHANGED <<interestOf, setBy, fd2chan>>
        \/ /\ lastEvents_[c] # events_[c] /\ interestOf[n] # None
           /\ interestOf' = [interestOf EXCEPT ![n].mask = events_[c]]
           /\ setBy' = [setBy EXCEPT ![n] = c]
           /\ UNCHANGED fd2chan
        \/ /\ lastEvents_[c] # events_[c] /\ interestOf[n] = None
           /\ fd2chan' = [fd2chan EXCEPT ![n] = NoChannel]
           /\ UNCHANGED <<interestOf, setBy>>

updatePoller(c) ==
  /\ HasFd(c)
  /\ epoll_mod(c)
  /\ UNCHANGED <<channelFd, ownerOf, events_, revents_, addedAgain>>

\* EPOLL_CTL_DEL fails where there is nothing to delete; the entry is reset.
epoll_del(c) ==
  /\ interestOf' = [interestOf EXCEPT ![channelFd[c]] = None]
  /\ fd2chan' = [fd2chan EXCEPT ![channelFd[c]] = NoChannel]
  /\ addedAgain' = addedAgain \ {channelFd[c]}

removeFromPoller(c) ==
  /\ HasFd(c)
  /\ epoll_del(c)
  /\ UNCHANGED <<channelFd, ownerOf, masks, setBy>>

\* getEventsRequest: an event on descriptor n, for the channel in the table;
\* without one it is dropped.
ActiveChannel(n) ==
  /\ interestOf[n].mask # 0
  /\ fd2chan[n] # NoChannel
  /\ revents_' = [revents_ EXCEPT ![fd2chan[n]] = interestOf[n].mask]
  /\ events_' = [events_ EXCEPT ![fd2chan[n]] = 0]
  /\ UNCHANGED <<channelFd, ownerOf, lastEvents_, fd2chan, interestOf, setBy, addedAgain>>

-----------------------------------------------------------------------------
EpollNext ==
  \/ \E c \in Channels :
       \/ OpenChannel(c) \/ CloseFd(c) \/ \E mask \in Masks : setEvents(c, mask)
       \/ addToPoller(c) \/ updatePoller(c) \/ removeFromPoller(c)
  \/ \E n \in ChannelFds : ActiveChannel(n)

EpollSpec == EpollInit /\ [][EpollNext]_epollVars

-----------------------------------------------------------------------------
(* Properties. *)

\* An event is given to the channel whose epoll_add the kernel accepted for
\* it, and to no earlier user of the descriptor.  It is dropped exactly when
\* somebody called epoll_add on the descriptor again: the kernel then keeps
\* its registration and epoll_add resets the table.
TableIsCurrent ==
  \A n \in ChannelFds : interestOf[n] # None =>
    fd2chan[n] = IF n \in addedAgain THEN NoChannel ELSE interestOf[n].channel

\* The channel that set the kernel's mask last knows it: epoll_mod may skip
\* the system call when that channel's mask has not changed.  (It is not the
\* registered channel when one that kept the number of a descriptor that was
\* closed has called epoll_mod since.)
MaskIsKernels ==
  \A n \in ChannelFds : interestOf[n] # None /\ n \notin addedAgain =>
    /\ lastEvents_[setBy[n]] = interestOf[n].mask
    /\ channelFd[setBy[n]] = n

\* What the poller's records say beside the kernel's interest list, over any
\* sequence of calls, of failures of epoll_ctl and of descriptors that are
\* closed behind the poller and used again.
PollerAgrees == TableIsCurrent /\ MaskIsKernels
=============================================================================
