--------------------------- MODULE EventLoopProofs ---------------------------
(***************************************************************************)
(* Theorems about EventLoop, for any number of threads, channels and       *)
(* functors and any EVENTSNUM.                                             *)
(***************************************************************************)
EXTENDS EventLoop, SequenceTheorems, TLAPS

\* callingPendingFunctors_ follows the loop's position in doPendingFunctors.
FlagFollowsLoop ==
  /\ loopPc \in {"swap", "run", "functor"} => callingPendingFunctors_ = TRUE
  /\ loopPc \notin {"swap", "run", "functor"} => callingPendingFunctors_ = FALSE

\* The local vector of doPendingFunctors exists only while it is iterated.
VectorIsLocal == loopPc \notin {"run", "functor"} => functors = <<>>

\* The loop thread is inside queueInLoop only from one of its callbacks.
NestedCall == callPc[LoopThread] # "idle" => loopPc \in {"ioHandler", "functor"}

\* Once the vector is swapped, what was queued at the last epoll_wait has run
\* or is in the vector.
PolledIsTaken ==
  /\ Queued >= polled
  /\ loopPc \in {"run", "functor"} => Len(ran) + Len(functors) >= polled

\* Where the loop is determines its flag, its vector and its nested calls.
Control == FlagFollowsLoop /\ VectorIsLocal /\ NestedCall

\* What one round of the loop owes to the functors queued before it.
Round == PolledIsTaken /\ NothingLeftBehind

\* The inductive invariant.  Control is inductive on its own; Round needs
\* VectorIsLocal (the swap must find the vector empty) and SleeperIsWoken
\* needs FlagFollowsLoop and NestedCall (while the loop sleeps every caller
\* reads FALSE and is another thread).
IInv == TypeOK /\ Control /\ Round /\ SleeperIsWoken

-----------------------------------------------------------------------------
\* Taking the head of a nonempty sequence and appending at the end commute
\* with the concatenation that maps functors and pendingFunctors_ to the
\* abstract queue.
LEMMA TailConcat ==
  ASSUME NEW S, NEW s \in Seq(S), NEW t \in Seq(S), s # <<>>
  PROVE  /\ s \o t # <<>>
         /\ Head(s \o t) = Head(s)
         /\ Tail(s \o t) = Tail(s) \o t
PROOF
<1>1. /\ Len(s) \in Nat \ {0} /\ Len(t) \in Nat
      /\ s \o t \in Seq(S) /\ Len(s \o t) = Len(s) + Len(t)
      /\ Tail(s) \in Seq(S) /\ Len(Tail(s)) = Len(s) - 1
  BY EmptySeq, LenProperties, ConcatProperties, HeadTailProperties
<1>2. s \o t # <<>> /\ Head(s \o t) = Head(s)
  BY <1>1, ConcatProperties, HeadTailProperties, EmptySeq
<1>3. /\ Tail(s \o t) \in Seq(S) /\ Tail(s) \o t \in Seq(S)
      /\ Len(Tail(s \o t)) = Len(Tail(s) \o t)
  BY <1>1, <1>2, ConcatProperties, HeadTailProperties
<1>4. ASSUME NEW i \in 1 .. Len(Tail(s \o t))
      PROVE  Tail(s \o t)[i] = (Tail(s) \o t)[i]
  BY <1>1, <1>2, ConcatProperties, HeadTailProperties
<1>5. QED
  BY <1>3, <1>4, SeqEqual

\* Appending to pendingFunctors_ appends to the abstract queue.
LEMMA AppendConcat ==
  ASSUME NEW S, NEW s \in Seq(S), NEW t \in Seq(S), NEW e \in S
  PROVE  s \o Append(t, e) = Append(s \o t, e)
  BY AppendProperties, ConcatProperties, AppendIsConcat, ConcatAssociative

-----------------------------------------------------------------------------
\* The initial state satisfies the inductive invariant.
LEMMA InitIInv == Init => IInv
PROOF
<1>1. SUFFICES ASSUME Init PROVE IInv
  OBVIOUS
<1>2. <<>> \in Seq(Functors) /\ Len(<<>>) = 0
  BY EmptySeq
<1>3. Queued = 0
  BY <1>1, <1>2 DEF Init, Queued
<1>4. TypeOK
  BY <1>1, <1>2 DEF Init, TypeOK, LoopPcs, CallPcs
<1>5. FlagFollowsLoop /\ VectorIsLocal
  BY <1>1 DEF Init, FlagFollowsLoop, VectorIsLocal
<1>6. NestedCall
  BY <1>1 DEF Init, NestedCall, Threads
<1>7. PolledIsTaken /\ SleeperIsWoken /\ NothingLeftBehind
  BY <1>1, <1>2, <1>3
     DEF Init, PolledIsTaken, SleeperIsWoken, NothingLeftBehind
<1>8. QED
  BY <1>4, <1>5, <1>6, <1>7 DEF IInv, Control, Round

\* Every step of the loop, of a caller and of the kernel keeps the types.
LEMMA StepTypeOK == TypeOK /\ [Next]_vars => TypeOK'
PROOF
<1>1. SUFFICES ASSUME TypeOK, [Next]_vars PROVE TypeOK'
  OBVIOUS
<1> USE <1>1 DEF TypeOK, Threads, AllChannels, LoopPcs, CallPcs
<1>3. ASSUME EnterPoll PROVE TypeOK'
  <2>1. Queued \in Nat
    BY LenProperties DEF Queued
  <2>2. QED
    BY <1>3, <2>1 DEF EnterPoll
<1>4. ASSUME PollReturn PROVE TypeOK'
  <2>1. Queued \in Nat
    BY LenProperties DEF Queued
  <2>2. QED
    BY <1>4, <2>1 DEF PollReturn, Batches, Deliverable
<1>5. ASSUME PollTimeout PROVE TypeOK'
  <2>1. Queued \in Nat
    BY LenProperties DEF Queued
  <2>2. QED
    BY <1>5, <2>1 DEF PollTimeout
<1>6. ASSUME HandleRead PROVE TypeOK'
  BY <1>6 DEF HandleRead
<1>7. ASSUME NEW c \in Channels, HandleEvents(c) PROVE TypeOK'
  BY <1>7 DEF HandleEvents
<1>8. ASSUME HandlerReturn PROVE TypeOK'
  BY <1>8 DEF HandlerReturn
<1>9. ASSUME BeginPending PROVE TypeOK'
  BY <1>9 DEF BeginPending
<1>10. ASSUME SwapFunctors PROVE TypeOK'
  BY <1>10 DEF SwapFunctors
<1>11. ASSUME RunFunctor PROVE TypeOK'
  <2>1. Tail(functors) \in Seq(Functors) /\ Head(functors) \in Functors
    BY <1>11, HeadTailProperties DEF RunFunctor
  <2>2. Append(ran, Head(functors)) \in Seq(Functors)
    BY <2>1, AppendProperties
  <2>3. QED
    BY <1>11, <2>1, <2>2 DEF RunFunctor
<1>12. ASSUME FunctorReturn PROVE TypeOK'
  BY <1>12 DEF FunctorReturn
<1>13. ASSUME EndPending PROVE TypeOK'
  BY <1>13 DEF EndPending
<1>14. ASSUME NEW t \in Threads, CheckCalling(t) PROVE TypeOK'
  BY <1>14 DEF CheckCalling
<1>15. ASSUME NEW t \in Threads, Wakeup(t) PROVE TypeOK'
  BY <1>15 DEF Wakeup
<1>16. ASSUME NEW t \in Threads, NEW f \in Functors, QueueInLoop(t, f)
       PROVE  TypeOK'
  <2>1. Append(pendingFunctors_, f) \in Seq(Functors)
    BY AppendProperties
  <2>2. QED
    BY <1>16, <2>1 DEF QueueInLoop
<1>17. ASSUME NEW c \in Channels, IOEvent(c) PROVE TypeOK'
  BY <1>17 DEF IOEvent
<1>18. CASE UNCHANGED vars
  BY <1>18 DEF vars
<1>19. QED
  BY <1>3, <1>4, <1>5, <1>6, <1>7, <1>8, <1>9, <1>10, <1>11, <1>12, <1>13,
     <1>14, <1>15, <1>16, <1>17, <1>18 DEF Next, LoopStep, CallStep

\* No step separates the loop's position from its flag and its vector.
LEMMA StepControl == TypeOK /\ Control /\ [Next]_vars => Control'
PROOF
<1>1. SUFFICES ASSUME TypeOK, Control, [Next]_vars PROVE Control'
  OBVIOUS
<1>2. LoopThread \in Threads
  BY DEF Threads
<1> USE <1>1, <1>2 DEF TypeOK, Control, FlagFollowsLoop, VectorIsLocal,
                       NestedCall, LoopAt
<1>3. CASE EnterPoll \/ PollReturn \/ PollTimeout
  BY <1>3 DEF EnterPoll, PollReturn, PollTimeout
<1>4. CASE HandleRead \/ HandlerReturn \/ \E c \in Channels : HandleEvents(c)
  BY <1>4 DEF HandleRead, HandlerReturn, HandleEvents
<1>5. CASE BeginPending \/ SwapFunctors \/ EndPending
  BY <1>5 DEF BeginPending, SwapFunctors, EndPending
<1>6. CASE RunFunctor \/ FunctorReturn
  BY <1>6 DEF RunFunctor, FunctorReturn
<1>7. ASSUME NEW t \in Threads, CallStep(t) PROVE Control'
  BY <1>7 DEF CallStep, CheckCalling, Wakeup
<1>8. ASSUME NEW t \in Threads, NEW f \in Functors, QueueInLoop(t, f)
      PROVE  Control'
  BY <1>8 DEF QueueInLoop, MayCall
<1>9. CASE UNCHANGED vars \/ \E c \in Channels : IOEvent(c)
  BY <1>9 DEF vars, IOEvent
<1>10. QED
  BY <1>3, <1>4, <1>5, <1>6, <1>7, <1>8, <1>9 DEF Next, LoopStep

\* Only the swap and the end of a round can endanger Round: the swap takes
\* everything that is queued, the round ends when the vector is empty.
LEMMA StepRound == TypeOK /\ Control /\ Round /\ [Next]_vars => Round'
PROOF
<1>1. SUFFICES ASSUME TypeOK, Control, Round, [Next]_vars PROVE Round'
  OBVIOUS
<1>2. /\ Len(ran) \in Nat /\ Len(functors) \in Nat
      /\ Len(pendingFunctors_) \in Nat /\ polled \in Nat
      /\ Len(<<>>) = 0
  BY <1>1, LenProperties, EmptySeq DEF TypeOK
<1> USE <1>1, <1>2 DEF Control, VectorIsLocal, Round, PolledIsTaken,
                       NothingLeftBehind, Queued, LoopAt
<1>3. CASE EnterPoll
  BY <1>3 DEF EnterPoll, TypeOK, LoopPcs
<1>4. CASE PollReturn \/ PollTimeout
  BY <1>4 DEF PollReturn, PollTimeout
<1>5. CASE HandleRead \/ HandlerReturn \/ \E c \in Channels : HandleEvents(c)
  BY <1>5 DEF HandleRead, HandlerReturn, HandleEvents
<1>6. CASE BeginPending
  BY <1>6 DEF BeginPending
<1>7. CASE SwapFunctors
  BY <1>7 DEF SwapFunctors
<1>8. CASE RunFunctor
  <2>1. /\ Len(Tail(functors)) = Len(functors) - 1
        /\ Len(Append(ran, Head(functors))) = Len(ran) + 1
    BY <1>8, HeadTailProperties, AppendProperties DEF RunFunctor, TypeOK
  <2>2. QED
    BY <1>8, <2>1 DEF RunFunctor
<1>9. CASE FunctorReturn
  BY <1>9 DEF FunctorReturn
<1>10. CASE EndPending
  BY <1>10 DEF EndPending
<1>11. ASSUME NEW t \in Threads, CallStep(t) PROVE Round'
  BY <1>11 DEF CallStep, CheckCalling, Wakeup
<1>12. ASSUME NEW t \in Threads, NEW f \in Functors, QueueInLoop(t, f)
       PROVE  Round'
  <2>1. Len(Append(pendingFunctors_, f)) = Len(pendingFunctors_) + 1
    BY AppendProperties DEF TypeOK
  <2>2. QED
    BY <1>12, <2>1 DEF QueueInLoop
<1>13. CASE UNCHANGED vars \/ \E c \in Channels : IOEvent(c)
  BY <1>13 DEF vars, IOEvent
<1>14. QED
  BY <1>3, <1>4, <1>5, <1>6, <1>7, <1>8, <1>9, <1>10, <1>11, <1>12, <1>13
     DEF Next, LoopStep

\* While the loop sleeps, only callers move: one that has just queued is
\* inside queueInLoop, reads FALSE, and leaves only after its wakeup().
LEMMA StepSleeper ==
  TypeOK /\ Control /\ SleeperIsWoken /\ [Next]_vars => SleeperIsWoken'
PROOF
<1>1. SUFFICES ASSUME TypeOK, Control, SleeperIsWoken, [Next]_vars,
                      loopPc' = "wait", Queued' > slept'
               PROVE  \/ WakeChannel \in ready' /\ wakeCount' > 0
                      \/ \E t \in OtherThreads : callPc'[t] \in {"check", "wake"}
  BY DEF SleeperIsWoken
<1>2. ~ EnterPoll
  <2>1. SUFFICES ASSUME EnterPoll PROVE FALSE
    OBVIOUS
  <2>2. Queued' = Queued /\ slept' = Queued
    BY <2>1 DEF EnterPoll, Queued
  <2>3. Queued \in Nat
    BY <1>1, LenProperties DEF TypeOK, Queued
  <2>4. QED
    BY <1>1, <2>2, <2>3
<1>3. ~ (LoopStep \/ EndPending)
  BY <1>1, <1>2
     DEF LoopStep, PollReturn, PollTimeout, HandleRead, HandleEvents,
         HandlerReturn, BeginPending, SwapFunctors, RunFunctor, FunctorReturn,
         EndPending, LoopAt
<1>4. ASSUME NEW t \in Threads, CheckCalling(t)
      PROVE  \/ WakeChannel \in ready' /\ wakeCount' > 0
             \/ \E u \in OtherThreads : callPc'[u] \in {"check", "wake"}
  <2>1. loopPc = "wait" /\ Queued' = Queued /\ slept' = slept
    BY <1>1, <1>4 DEF CheckCalling, Queued
  <2>2. t \in OtherThreads
    BY <1>1, <1>4, <2>1 DEF CheckCalling, Control, NestedCall, Threads
  <2>3. callPc'[t] = "wake"
    BY <1>1, <1>4, <2>1
       DEF CheckCalling, VisibleCalling, Control, FlagFollowsLoop, TypeOK
  <2>4. QED
    BY <2>2, <2>3
<1>5. ASSUME NEW t \in Threads, Wakeup(t)
      PROVE  WakeChannel \in ready' /\ wakeCount' > 0
  BY <1>1, <1>5 DEF Wakeup, TypeOK
<1>6. ASSUME NEW t \in Threads, NEW f \in Functors, QueueInLoop(t, f)
      PROVE  \E u \in OtherThreads : callPc'[u] \in {"check", "wake"}
  <2>1. t \in OtherThreads
    BY <1>1, <1>6 DEF QueueInLoop, MayCall, Threads
  <2>2. QED
    BY <1>1, <1>6, <2>1 DEF QueueInLoop, TypeOK
<1>7. ASSUME NEW c \in Channels, IOEvent(c)
      PROVE  \/ WakeChannel \in ready' /\ wakeCount' > 0
             \/ \E u \in OtherThreads : callPc'[u] \in {"check", "wake"}
  BY <1>1, <1>7 DEF IOEvent, SleeperIsWoken, Queued
<1>8. CASE UNCHANGED vars
  BY <1>1, <1>8 DEF vars, SleeperIsWoken, Queued
<1>9. QED
  BY <1>1, <1>3, <1>4, <1>5, <1>6, <1>7, <1>8 DEF Next, CallStep

\* Every step preserves the inductive invariant.
LEMMA StepIInv == IInv /\ [Next]_vars => IInv'
  BY StepTypeOK, StepControl, StepRound, StepSleeper DEF IInv

-----------------------------------------------------------------------------
\* IInv holds in every reachable state of the loop.
THEOREM Invariance == SafeSpec => []IInv
  BY InitIInv, StepIInv, PTL DEF SafeSpec

\* Every variable of the loop keeps its type.
THEOREM TypeCorrect == SafeSpec => []TypeOK
  BY Invariance, PTL DEF IInv

\* A functor queued while the loop sleeps wakes it, for any number of
\* threads: the unlocked read in queueInLoop loses no wakeup of a sleeper.
THEOREM SleeperWoken == SafeSpec => []SleeperIsWoken
  BY Invariance, PTL DEF IInv

\* A functor waits through at most one epoll_wait, for any number of
\* functors, including those that functors and handlers queue themselves.
THEOREM NoneLeftBehind == SafeSpec => []NothingLeftBehind
<1>1. IInv => NothingLeftBehind
  BY DEF IInv, Round
<1>2. QED
  BY Invariance, <1>1, PTL

-----------------------------------------------------------------------------
(* The loop implements FunctorQueue. *)

\* The empty loop is the empty queue.
LEMMA InitQueue == Init => Queue!Init
  BY ConcatEmptySeq, EmptySeq DEF Init, Queue!Init

\* queueInLoop's push_back is Submit, the start of a functor is Execute, the
\* swap moves the queue without changing it and nothing else touches it.
LEMMA StepQueue == IInv /\ [Next]_vars => [Queue!Next]_(Queue!vars)
PROOF
<1>1. SUFFICES ASSUME IInv, [Next]_vars PROVE [Queue!Next]_(Queue!vars)
  OBVIOUS
<1>2. /\ functors \in Seq(Functors) /\ pendingFunctors_ \in Seq(Functors)
      /\ <<>> \in Seq(Functors)
  BY <1>1, EmptySeq DEF IInv, TypeOK
<1>3. CASE SwapFunctors
  <2>1. functors = <<>>
    BY <1>1, <1>3 DEF IInv, Control, VectorIsLocal, SwapFunctors, LoopAt
  <2>2. functors' \o pendingFunctors_' = functors \o pendingFunctors_
    BY <1>2, <1>3, <2>1, ConcatEmptySeq DEF SwapFunctors
  <2>3. QED
    BY <1>3, <2>2 DEF SwapFunctors, Queue!vars
<1>4. CASE RunFunctor
  <2>1. /\ functors \o pendingFunctors_ # <<>>
        /\ Head(functors \o pendingFunctors_) = Head(functors)
        /\ Tail(functors \o pendingFunctors_) = Tail(functors) \o pendingFunctors_
    BY <1>2, <1>4, TailConcat DEF RunFunctor
  <2>2. Queue!Execute
    BY <1>4, <2>1 DEF RunFunctor, Queue!Execute
  <2>3. QED
    BY <2>2 DEF Queue!Next
<1>5. ASSUME NEW t \in Threads, NEW f \in Functors, QueueInLoop(t, f)
      PROVE  [Queue!Next]_(Queue!vars)
  <2>1. Queue!Submit(f)
    BY <1>2, <1>5, AppendConcat DEF QueueInLoop, Queue!Submit
  <2>2. QED
    BY <2>1 DEF Queue!Next
<1>6. CASE \/ EnterPoll \/ PollReturn \/ PollTimeout
           \/ HandleRead \/ HandlerReturn \/ \E c \in Channels : HandleEvents(c)
           \/ BeginPending \/ FunctorReturn \/ EndPending
  BY <1>6 DEF EnterPoll, PollReturn, PollTimeout, HandleRead, HandlerReturn,
              HandleEvents, BeginPending, FunctorReturn, EndPending, Queue!vars
<1>7. CASE \/ UNCHANGED vars
           \/ \E t \in Threads : CallStep(t)
           \/ \E c \in Channels : IOEvent(c)
  BY <1>7 DEF vars, CallStep, CheckCalling, Wakeup, IOEvent, Queue!vars
<1>8. QED
  BY <1>1, <1>3, <1>4, <1>5, <1>6, <1>7 DEF Next, LoopStep

\* The loop runs functors exactly as the abstract queue does: each at most
\* once, in the order of the push_back calls, for any number of callers.
THEOREM RefinesFunctorQueue == SafeSpec => RunsInOrder
<1>1. Init => Queue!Init
  BY InitQueue
<1>2. IInv /\ [Next]_vars => [Queue!Next]_(Queue!vars)
  BY StepQueue
<1>3. QED
  BY Invariance, <1>1, <1>2, PTL DEF SafeSpec, RunsInOrder, Queue!SafeSpec
=============================================================================
