------------------------------ MODULE EventLoop ------------------------------
(***************************************************************************)
(* One EventLoop (net/EventLoop.cpp): the thread inside loop(), the        *)
(* threads that hand it functors with queueInLoop, and the two kernel      *)
(* objects between them, the eventfd wakeupFd_ and the edge-triggered      *)
(* ready list of the loop's epoll instance.                                *)
(*                                                                         *)
(* The two critical sections under `mutex' (the push_back of queueInLoop,  *)
(* the swap of doPendingFunctors) hold one statement each and are one      *)
(* step each.  callingPendingFunctors_ is a plain bool that queueInLoop    *)
(* reads after it has released the mutex, so push, read and wakeup() are   *)
(* three steps that interleave with the loop.                              *)
(***************************************************************************)
EXTENDS Naturals, Sequences, FiniteSets

CONSTANTS
  Functors,      \* functors of a run; each is handed in at most once (bound)
  LoopThread,    \* the thread that runs loop()
  OtherThreads,  \* the threads that share the EventLoop pointer
  Channels,      \* registered channels other than pwakeupChannel_
  WakeChannel,   \* pwakeupChannel_
  EventsNum      \* EVENTSNUM: most events one epoll_wait returns

ASSUME ThreadsAssumption == LoopThread \notin OtherThreads
ASSUME ChannelsAssumption == WakeChannel \notin Channels
ASSUME EventsNumAssumption == EventsNum \in Nat \ {0}

VARIABLES
  pendingFunctors_,
  callingPendingFunctors_,
  functors,        \* the local vector of doPendingFunctors
  activeChannels,  \* channels of this round whose handleEvents is still due
  loopPc,          \* where loop() is
  callPc,          \* per thread, where its call of queueInLoop is
  wakeCount,       \* the counter of the eventfd wakeupFd_
  ready,           \* channels on the epoll ready list
  ran,             \* history: the functors run so far, in order
  polled,          \* history: functors queued when epoll_wait last returned
  slept            \* history: functors queued when epoll_wait was last called

vars == <<pendingFunctors_, callingPendingFunctors_, functors, activeChannels,
          loopPc, callPc, wakeCount, ready, ran, polled, slept>>

Threads == OtherThreads \cup {LoopThread}
AllChannels == Channels \cup {WakeChannel}

LoopPcs == {"start",      \* constructed, loop() not yet entered
            "top",        \* back at the head of the while loop
            "wait",       \* inside epoll_wait
            "dispatch",   \* in the for loop over activeChannels
            "ioHandler",  \* in a channel's callback
            "swap",       \* callingPendingFunctors_ set, mutex not yet taken
            "run",        \* between two functors[i]()
            "functor"}    \* inside functors[i]()

CallPcs == {"idle",       \* not in queueInLoop
            "check",      \* functor pushed, flag not yet read
            "wake"}       \* about to call wakeup()

\* Every variable stays in its range: doPendingFunctors, above all, calls only
\* functors that queueInLoop was given and never leaves the vector it has taken.
TypeOK ==
  /\ pendingFunctors_ \in Seq(Functors)
  /\ callingPendingFunctors_ \in BOOLEAN
  /\ functors \in Seq(Functors)
  /\ activeChannels \subseteq AllChannels
  /\ loopPc \in LoopPcs
  /\ callPc \in [Threads -> CallPcs]
  /\ wakeCount \in Nat
  /\ ready \subseteq AllChannels
  /\ ran \in Seq(Functors)
  /\ polled \in Nat
  /\ slept \in Nat

\* How many functors have been handed in so far.
Queued == Len(ran) + Len(functors) + Len(pendingFunctors_)

Elements(s) == {s[i] : i \in DOMAIN s}

Fresh(f) ==
  f \notin Elements(ran) \cup Elements(functors) \cup Elements(pendingFunctors_)

-----------------------------------------------------------------------------
(* EventLoop::EventLoop. *)

Init ==
  /\ pendingFunctors_ = <<>>
  /\ callingPendingFunctors_ = FALSE
  /\ functors = <<>>
  /\ activeChannels = {}
  /\ loopPc = "start"
  /\ callPc = [t \in Threads |-> "idle"]
  /\ wakeCount = 0
  /\ ready = {}
  /\ ran = <<>>
  /\ polled = 0
  /\ slept = 0

-----------------------------------------------------------------------------
(* queueInLoop, called from another thread or from a callback that the     *)
(* loop thread is running.                                                 *)

MayCall(t) ==
  /\ callPc[t] = "idle"
  /\ t = LoopThread => loopPc \in {"ioHandler", "functor"}

\* The push_back under the mutex.
QueueInLoop(t, f) ==
  /\ MayCall(t)
  /\ Fresh(f)
  /\ pendingFunctors_' = Append(pendingFunctors_, f)
  /\ callPc' = [callPc EXCEPT ![t] = "check"]
  /\ UNCHANGED <<callingPendingFunctors_, functors, activeChannels, loopPc,
                 wakeCount, ready, ran, polled, slept>>

\* The values an unsynchronised read of callingPendingFunctors_ can return.
\* The loop thread sees its own writes.  Another thread may miss the latest
\* write until the loop executes an instruction that orders it: the mutex
\* operation that follows `= true', the epoll_wait that follows `= false'.
VisibleCalling(t) ==
  IF t # LoopThread /\ loopPc \in {"top", "swap"}
  THEN BOOLEAN
  ELSE {callingPendingFunctors_}

\* if (!callingPendingFunctors_), outside the mutex.
CheckCalling(t) ==
  /\ callPc[t] = "check"
  /\ \E calling \in VisibleCalling(t) :
        callPc' = [callPc EXCEPT ![t] = IF calling THEN "idle" ELSE "wake"]
  /\ UNCHANGED <<pendingFunctors_, callingPendingFunctors_, functors,
                 activeChannels, loopPc, wakeCount, ready, ran, polled, slept>>

\* wakeup(): the write adds one to the eventfd and puts it on the ready list.
Wakeup(t) ==
  /\ callPc[t] = "wake"
  /\ wakeCount' = wakeCount + 1
  /\ ready' = ready \cup {WakeChannel}
  /\ callPc' = [callPc EXCEPT ![t] = "idle"]
  /\ UNCHANGED <<pendingFunctors_, callingPendingFunctors_, functors,
                 activeChannels, loopPc, ran, polled, slept>>

-----------------------------------------------------------------------------
(* The loop thread: loop(), Epoll::poll and doPendingFunctors.  None of    *)
(* its steps happens while one of its callbacks is inside queueInLoop.     *)

LoopAt(pc) == loopPc = pc /\ callPc[LoopThread] = "idle"

\* activeChannels.clear() and the call of epoll_wait.
EnterPoll ==
  /\ LoopAt("start") \/ LoopAt("top")
  /\ loopPc' = "wait"
  /\ activeChannels' = {}
  /\ slept' = Queued
  /\ UNCHANGED <<pendingFunctors_, callingPendingFunctors_, functors, callPc,
                 wakeCount, ready, ran, polled>>

\* The ready entries epoll_wait may report: it drops the entry of an eventfd
\* whose counter has been read back to zero.
Deliverable == {c \in ready : c = WakeChannel => wakeCount > 0}

\* The sets of channels one epoll_wait may return.
Batches ==
  {S \in SUBSET Deliverable :
     \/ S = Deliverable /\ Cardinality(S) <= EventsNum
     \/ S # Deliverable /\ Cardinality(S) = EventsNum}

\* epoll_wait returns events, each an edge that is reported once;
\* getEventsRequest turns them into activeChannels.
PollReturn ==
  /\ LoopAt("wait")
  /\ Deliverable # {}
  /\ \E S \in Batches :
        /\ activeChannels' = S
        /\ ready' = Deliverable \ S
  /\ loopPc' = "dispatch"
  /\ polled' = Queued
  /\ UNCHANGED <<pendingFunctors_, callingPendingFunctors_, functors, callPc,
                 wakeCount, ran, slept>>

\* Mutant: epoll_wait without a timeout.
MutPollTimeout == LoopAt("wait") /\ FALSE

\* epoll_wait returns no event: kPollTimeMs have passed, or a signal came.
PollTimeout ==
  /\ LoopAt("wait")
  /\ activeChannels' = {}
  /\ loopPc' = "dispatch"
  /\ polled' = Queued
  /\ UNCHANGED <<pendingFunctors_, callingPendingFunctors_, functors, callPc,
                 wakeCount, ready, ran, slept>>

\* handleEvents of pwakeupChannel_: handleRead takes the whole counter.
HandleRead ==
  /\ LoopAt("dispatch")
  /\ WakeChannel \in activeChannels
  /\ activeChannels' = activeChannels \ {WakeChannel}
  /\ wakeCount' = 0
  /\ UNCHANGED <<pendingFunctors_, callingPendingFunctors_, functors, loopPc,
                 callPc, ready, ran, polled, slept>>

\* handleEvents of another channel: its callback starts ...
HandleEvents(c) ==
  /\ LoopAt("dispatch")
  /\ c \in activeChannels \cap Channels
  /\ activeChannels' = activeChannels \ {c}
  /\ loopPc' = "ioHandler"
  /\ UNCHANGED <<pendingFunctors_, callingPendingFunctors_, functors, callPc,
                 wakeCount, ready, ran, polled, slept>>

\* ... and returns.
HandlerReturn ==
  /\ LoopAt("ioHandler")
  /\ loopPc' = "dispatch"
  /\ UNCHANGED <<pendingFunctors_, callingPendingFunctors_, functors,
                 activeChannels, callPc, wakeCount, ready, ran, polled, slept>>

\* doPendingFunctors up to the mutex.
BeginPending ==
  /\ LoopAt("dispatch")
  /\ activeChannels = {}
  /\ callingPendingFunctors_' = TRUE
  /\ loopPc' = "swap"
  /\ UNCHANGED <<pendingFunctors_, functors, activeChannels, callPc, wakeCount,
                 ready, ran, polled, slept>>

\* functors.swap(pendingFunctors_) under the mutex.
SwapFunctors ==
  /\ LoopAt("swap")
  /\ functors' = pendingFunctors_
  /\ pendingFunctors_' = functors
  /\ loopPc' = "run"
  /\ UNCHANGED <<callingPendingFunctors_, activeChannels, callPc, wakeCount,
                 ready, ran, polled, slept>>

\* Mutant: the functors are popped off the back of the vector.
MutRunFunctor ==
  /\ LoopAt("run")
  /\ functors # <<>>
  /\ functors' = SubSeq(functors, 1, Len(functors) - 1)
  /\ ran' = Append(ran, functors[Len(functors)])
  /\ loopPc' = "functor"
  /\ UNCHANGED <<pendingFunctors_, callingPendingFunctors_, activeChannels,
                 callPc, wakeCount, ready, polled, slept>>

\* Mutant: `i <= functors.size()', which calls what lies past the last functor.
MutRunPastEnd ==
  /\ LoopAt("run")
  /\ functors' = IF functors = <<>> THEN <<>> ELSE Tail(functors)
  /\ ran' = Append(ran, IF functors = <<>> THEN "past the end" ELSE Head(functors))
  /\ loopPc' = "functor"
  /\ UNCHANGED <<pendingFunctors_, callingPendingFunctors_, activeChannels,
                 callPc, wakeCount, ready, polled, slept>>

\* functors[i]() starts ...
RunFunctor ==
  /\ LoopAt("run")
  /\ functors # <<>>
  /\ functors' = Tail(functors)
  /\ ran' = Append(ran, Head(functors))
  /\ loopPc' = "functor"
  /\ UNCHANGED <<pendingFunctors_, callingPendingFunctors_, activeChannels,
                 callPc, wakeCount, ready, polled, slept>>

\* ... and returns.
FunctorReturn ==
  /\ LoopAt("functor")
  /\ loopPc' = "run"
  /\ UNCHANGED <<pendingFunctors_, callingPendingFunctors_, functors,
                 activeChannels, callPc, wakeCount, ready, ran, polled, slept>>

\* Mutant: callingPendingFunctors_ is not reset.
MutEndPendingFlag ==
  /\ LoopAt("run")
  /\ functors = <<>>
  /\ loopPc' = "top"
  /\ UNCHANGED <<pendingFunctors_, callingPendingFunctors_, functors,
                 activeChannels, callPc, wakeCount, ready, ran, polled, slept>>

\* Mutant: doPendingFunctors may stop before the last functor.
MutEndPendingEarly ==
  /\ LoopAt("run")
  /\ callingPendingFunctors_' = FALSE
  /\ loopPc' = "top"
  /\ UNCHANGED <<pendingFunctors_, functors, activeChannels, callPc, wakeCount,
                 ready, ran, polled, slept>>

\* The end of doPendingFunctors.
EndPending ==
  /\ LoopAt("run")
  /\ functors = <<>>
  /\ callingPendingFunctors_' = FALSE
  /\ loopPc' = "top"
  /\ UNCHANGED <<pendingFunctors_, functors, activeChannels, callPc, wakeCount,
                 ready, ran, polled, slept>>

\* The kernel: an edge on the descriptor of a registered channel.
IOEvent(c) ==
  /\ ready' = ready \cup {c}
  /\ UNCHANGED <<pendingFunctors_, callingPendingFunctors_, functors,
                 activeChannels, loopPc, callPc, wakeCount, ran, polled, slept>>

-----------------------------------------------------------------------------
LoopStep ==
  \/ EnterPoll \/ PollReturn \/ PollTimeout
  \/ HandleRead \/ (\E c \in Channels : HandleEvents(c)) \/ HandlerReturn
  \/ BeginPending \/ SwapFunctors \/ RunFunctor \/ FunctorReturn \/ EndPending

\* A thread inside queueInLoop goes on.
CallStep(t) == CheckCalling(t) \/ Wakeup(t)

Next ==
  \/ LoopStep
  \/ \E t \in Threads : CallStep(t) \/ \E f \in Functors : QueueInLoop(t, f)
  \/ \E c \in Channels : IOEvent(c)

SafeSpec == Init /\ [][Next]_vars

\* Nothing in the loop blocks but epoll_wait, and that at most kPollTimeMs;
\* the callbacks are assumed to return.  Nothing is assumed of the other
\* threads.
Spec == SafeSpec /\ WF_vars(LoopStep) /\ WF_vars(CallStep(LoopThread))

-----------------------------------------------------------------------------
(* Properties. *)

\* While the loop sleeps in epoll_wait, a functor that was queued after it
\* went to sleep has armed the eventfd, or the thread that queued it has not
\* left queueInLoop yet (queueInLoop's test of callingPendingFunctors_
\* against loop()'s handleRead and doPendingFunctors).
SleeperIsWoken ==
  loopPc = "wait" /\ Queued > slept =>
    \/ WakeChannel \in ready /\ wakeCount > 0
    \/ \E t \in OtherThreads : callPc[t] \in {"check", "wake"}

\* Every functor that was queued before epoll_wait last returned has been
\* run before the loop polls again, whatever the channels and functors of
\* that round queued: a functor waits through at most one epoll_wait.
NothingLeftBehind == loopPc \in {"start", "top", "wait"} => Len(ran) >= polled

\* The loop never sleeps on a queued functor: a thread that left queueInLoop
\* has woken the loop (net/Server.cpp queues an empty functor for just this).
NeverSleepsOnWork ==
  loopPc = "wait" /\ pendingFunctors_ # <<>> =>
    \/ WakeChannel \in ready /\ wakeCount > 0
    \/ \E t \in OtherThreads : callPc[t] \in {"check", "wake"}

\* The queue that callers of queueInLoop see.
Queue == INSTANCE FunctorQueue WITH waiting <- functors \o pendingFunctors_,
                                    done <- ran

\* doPendingFunctors runs the functors once each and in the order in which
\* queueInLoop appended them, across swaps and nested calls of queueInLoop.
RunsInOrder == Queue!SafeSpec

\* Moreover the loop runs every queued functor in the end, whether or not
\* queueInLoop woke it: the poll timeout saves the ones it did not.
RunsAll == Queue!Spec
=============================================================================
