-------------------------- MODULE HttpServerProofs --------------------------
(***************************************************************************)
(* Theorems about ThreadPool, for any number of threads and tasks and a    *)
(* ring of any size; about HttpServer, which hands its requests to the     *)
(* pool, for any number of clients and whatever they send; and about the   *)
(* parser of HttpRequest, for requests of any length that arrive in any    *)
(* two parts.                                                              *)
(***************************************************************************)
EXTENDS HttpServer, SequenceTheorems, WellFoundedInduction, TLAPS

\* The slot k places behind slot h.
Place(h, k) == (h + k) % queue_size

\* The tail is the first free slot, and the slots before it hold tasks.
RingIsFull ==
  /\ tail = Place(head, count)
  /\ \A k \in Nat : k < count => queue[Place(head, k)] \in Tasks

\* Where the owner is determines which threads exist and may have left.
OwnerKnows ==
  /\ shutdown = "no" <=> owner \in {"create", "ready"}
  /\ owner = "create" =>
       /\ count = 0
       /\ \A t \in Threads : t > thread_count => thread[t] = "none"
       /\ \A t \in Threads : t <= thread_count => thread[t] # "none"
  /\ owner # "create" /\ shutdown # "immediate" =>
       \A t \in Threads : thread[t] # "none"

\* No thread leaves before the shutdown, nor leaves a task behind in a
\* graceful one.
NoneLeftEarly ==
  /\ shutdown = "no" => \A t \in Threads : thread[t] # "exited"
  /\ shutdown = "graceful" /\ (\E t \in Threads : thread[t] = "exited") => count = 0

\* The inductive invariant.  PoolKeepsTasks needs OwnerKnows (a pool that is
\* ready has all its threads, one that still creates them has no tasks) and
\* NoneLeftEarly; the refinement of the queue needs RingIsFull.
IInv == PoolTypeOK /\ RingIsFull /\ OwnerKnows /\ NoneLeftEarly /\ PoolKeepsTasks

-----------------------------------------------------------------------------
\* A place in the ring, without the modulo.
LEMMA PlaceInRing ==
  ASSUME NEW h \in Slots, NEW k \in Nat, k <= queue_size
  PROVE  /\ Place(h, k) = IF h + k < queue_size THEN h + k ELSE h + k - queue_size
         /\ Place(h, k) \in Slots
PROOF
<1>1. h \in Nat /\ h < queue_size /\ queue_size \in Nat \ {0}
  BY PoolAssumption DEF Slots
<1>2. h + k \in Nat /\ h + k < 2 * queue_size
  BY <1>1
<1>3. Place(h, k) = IF h + k < queue_size THEN h + k ELSE h + k - queue_size
  BY <1>1, <1>2 DEF Place
<1>4. QED
  BY <1>1, <1>3 DEF Slots

\* Different places of the ring are different slots.
LEMMA PlacesDiffer ==
  ASSUME NEW h \in Slots, NEW j \in Nat, NEW k \in Nat, j < k, k < queue_size
  PROVE  Place(h, j) # Place(h, k)
PROOF
<1>1. h \in Nat /\ h < queue_size /\ queue_size \in Nat \ {0}
  BY PoolAssumption DEF Slots
<1>2. /\ Place(h, j) = IF h + j < queue_size THEN h + j ELSE h + j - queue_size
      /\ Place(h, k) = IF h + k < queue_size THEN h + k ELSE h + k - queue_size
  BY <1>1, PlaceInRing
<1>3. QED
  BY <1>1, <1>2

\* One place on, and then k more.
LEMMA PlacesAdd ==
  ASSUME NEW h \in Slots, NEW k \in Nat, k < queue_size
  PROVE  /\ Place(Place(h, 1), k) = Place(h, k + 1)
         /\ Place(Place(h, k), 1) = Place(h, k + 1)
PROOF
<1>1. /\ h \in Nat /\ h < queue_size /\ queue_size \in Nat \ {0}
      /\ 1 <= queue_size /\ k <= queue_size /\ k + 1 <= queue_size /\ k + 1 \in Nat
  BY PoolAssumption DEF Slots
<1>2. /\ Place(h, 1) = IF h + 1 < queue_size THEN h + 1 ELSE h + 1 - queue_size
      /\ Place(h, k) = IF h + k < queue_size THEN h + k ELSE h + k - queue_size
      /\ Place(h, k + 1) = IF h + (k + 1) < queue_size THEN h + (k + 1)
                           ELSE h + (k + 1) - queue_size
      /\ Place(h, 1) \in Slots /\ Place(h, k) \in Slots
  BY <1>1, PlaceInRing
<1>3. /\ Place(Place(h, 1), k) = IF Place(h, 1) + k < queue_size THEN Place(h, 1) + k
                                 ELSE Place(h, 1) + k - queue_size
      /\ Place(Place(h, k), 1) = IF Place(h, k) + 1 < queue_size THEN Place(h, k) + 1
                                 ELSE Place(h, k) + 1 - queue_size
  BY <1>1, <1>2, PlaceInRing
<1>4. QED
  BY <1>1, <1>2, <1>3

-----------------------------------------------------------------------------
\* A new pool satisfies the invariant.
LEMMA InitIInv == PoolInit => IInv
PROOF
<1>1. SUFFICES ASSUME PoolInit PROVE IInv
  OBVIOUS
<1>2. 0 \in Slots /\ 0 % queue_size = 0 /\ 0 \in 0 .. queue_size /\ 0 \in 0 .. NumThreads
  BY PoolAssumption DEF Slots
<1>3. PoolTypeOK
  BY <1>1, <1>2, EmptySeq DEF PoolInit, PoolTypeOK, OwnerPcs, ThreadPcs
<1>4. RingIsFull
  BY <1>1, <1>2 DEF PoolInit, RingIsFull, Place
<1>5. OwnerKnows
  BY <1>1, PoolAssumption DEF PoolInit, OwnerKnows, Threads
<1>6. NoneLeftEarly /\ PoolKeepsTasks
  BY <1>1 DEF PoolInit, NoneLeftEarly, PoolKeepsTasks, SomeoneAwake, ShutdownComplete
<1>7. QED
  BY <1>3, <1>4, <1>5, <1>6 DEF IInv

\* What a signal does to the threads.
LEMMA SignalWakes ==
  ASSUME PoolTypeOK, Signal
  PROVE  /\ thread' \in [Threads -> ThreadPcs]
         /\ \A t \in Threads : thread'[t] = thread[t] \/ (thread[t] = "waiting" /\ thread'[t] = "lock")
         /\ (\A t \in Threads : thread[t] # "waiting") \/ (\E t \in Threads : thread'[t] = "lock")
PROOF
<1>1. CASE {t \in Threads : thread[t] = "waiting"} = {}
  BY <1>1 DEF Signal, PoolTypeOK
<1>2. CASE {t \in Threads : thread[t] = "waiting"} # {}
  BY <1>2 DEF Signal, PoolTypeOK, ThreadPcs
<1>3. QED
  BY <1>1, <1>2

\* The type invariant is inductive, given what the ring holds.
LEMMA StepTypeOK == PoolTypeOK /\ RingIsFull /\ [PoolNext]_poolVars => PoolTypeOK'
PROOF
<1>1. SUFFICES ASSUME PoolTypeOK, RingIsFull, [PoolNext]_poolVars PROVE PoolTypeOK'
  OBVIOUS
<1> USE <1>1 DEF PoolTypeOK, ring
<1>2. CASE CreateThread
  <2>1. thread_count + 1 \in 0 .. NumThreads
    BY <1>2, PoolAssumption DEF CreateThread
  <2>2. QED
    BY <1>2, <2>1 DEF CreateThread, ThreadPcs
<1>3. CASE Created \/ AddFails
  BY <1>3 DEF Created, AddFails, OwnerPcs, poolVars
<1>4. CASE Joined
  BY <1>4 DEF Joined, threadpool_free, OwnerPcs
<1>5. ASSUME NEW arg \in Tasks, Add(arg) PROVE PoolTypeOK'
  <2>1. tail' \in Slots
    BY <1>5, PlaceInRing, PoolAssumption DEF Add, Place
  <2>2. count' \in 0 .. queue_size
    BY <1>5, PoolAssumption DEF Add
  <2>3. thread' \in [Threads -> ThreadPcs]
    BY <1>5, SignalWakes DEF Add
  <2>4. queue' \in [Slots -> Tasks \cup {NoTask}]
    BY <1>5 DEF Add
  <2>5. QED
    BY <1>5, <2>1, <2>2, <2>3, <2>4 DEF Add
<1>6. ASSUME NEW how \in {"immediate", "graceful"}, Destroy(how) PROVE PoolTypeOK'
  BY <1>6 DEF Destroy, Broadcast, OwnerPcs, ThreadPcs
<1>7. ASSUME NEW t \in Threads, Enter(t) \/ Wait(t) \/ SpuriousWakeup(t) \/ Exit(t)
      PROVE  PoolTypeOK'
  BY <1>7 DEF Enter, Wait, SpuriousWakeup, Exit, ThreadPcs
<1>8. ASSUME NEW t \in Threads, Return(t) PROVE PoolTypeOK'
  BY <1>8 DEF Return, ThreadPcs
<1>9. ASSUME NEW t \in Threads, Take(t) PROVE PoolTypeOK'
  <2>1. head' \in Slots
    BY <1>9, PlaceInRing, PoolAssumption DEF Take, Place
  <2>2. count \in Nat \ {0} /\ count' \in 0 .. queue_size
    BY <1>9, PoolAssumption DEF Take
  <2>3. queue[head] \in Tasks
    <3>1. Place(head, 0) = head
      BY PlaceInRing, PoolAssumption DEF Slots
    <3>2. QED
      BY <2>2, <3>1 DEF RingIsFull
  <2>4. taken' \in Seq(Tasks)
    BY <1>9, <2>3, AppendProperties DEF Take
  <2>5. QED
    BY <1>9, <2>1, <2>2, <2>3, <2>4 DEF Take, ThreadPcs
<1>10. CASE UNCHANGED poolVars
  BY <1>10 DEF poolVars
<1>11. QED
  BY <1>2, <1>3, <1>4, <1>5, <1>6, <1>7, <1>8, <1>9, <1>10
     DEF PoolNext, OwnerStep, ThreadStep

-----------------------------------------------------------------------------
\* The tail moves on with the count, and the head against it; what is between
\* them stays.
LEMMA StepRing == PoolTypeOK /\ RingIsFull /\ [PoolNext]_poolVars => RingIsFull'
PROOF
<1>1. SUFFICES ASSUME PoolTypeOK, RingIsFull, [PoolNext]_poolVars PROVE RingIsFull'
  OBVIOUS
<1>2. /\ PoolTypeOK' /\ queue_size \in Nat \ {0}
      /\ head \in Nat /\ head < queue_size /\ count \in Nat /\ count <= queue_size
  BY <1>1, StepTypeOK, PoolAssumption DEF PoolTypeOK, Slots
<1>3. CASE UNCHANGED ring
  BY <1>1, <1>3 DEF RingIsFull, Place, ring
<1>4. ASSUME NEW arg \in Tasks, Add(arg) PROVE RingIsFull'
  <2>1. /\ count < queue_size /\ count' = count + 1 /\ head' = head
        /\ tail' = Place(tail, 1) /\ tail = Place(head, count)
        /\ queue' = [queue EXCEPT ![tail] = arg] /\ tail \in Slots /\ head \in Slots
    BY <1>1, <1>2, <1>4 DEF Add, RingIsFull, Place, PoolTypeOK
  <2>2. tail' = Place(head', count')
    BY <1>2, <2>1, PlacesAdd
  <2>3. ASSUME NEW k \in Nat, k < count' PROVE queue'[Place(head', k)] \in Tasks
    <3>1. Place(head, k) \in Slots
      BY <1>2, <2>1, <2>3, PlaceInRing
    <3>2. CASE k = count
      BY <1>1, <2>1, <3>1, <3>2 DEF PoolTypeOK
    <3>3. CASE k < count
      <4>1. Place(head, k) # tail /\ queue[Place(head, k)] \in Tasks
        BY <1>1, <1>2, <2>1, <3>3, PlacesDiffer DEF RingIsFull
      <4>2. QED
        BY <1>1, <2>1, <3>1, <4>1 DEF PoolTypeOK
    <3>4. QED
      BY <1>2, <2>1, <2>3, <3>2, <3>3
  <2>4. QED
    BY <2>2, <2>3 DEF RingIsFull
<1>5. ASSUME NEW t \in Threads, Take(t) PROVE RingIsFull'
  <2>1. /\ count # 0 /\ count' = count - 1 /\ head' = Place(head, 1)
        /\ tail' = tail /\ queue' = queue /\ head \in Slots
    BY <1>1, <1>5 DEF Take, Place, PoolTypeOK
  <2>2. \A k \in Nat : k < queue_size => Place(head', k) = Place(head, k + 1)
    BY <2>1, PlacesAdd
  <2>3. count' \in Nat /\ count' < queue_size /\ count' + 1 = count
    BY <1>2, <2>1
  <2>4. tail' = Place(head', count')
    BY <1>1, <2>1, <2>2, <2>3 DEF RingIsFull
  <2>5. ASSUME NEW k \in Nat, k < count' PROVE queue'[Place(head', k)] \in Tasks
    <3>1. k + 1 \in Nat /\ k + 1 < count /\ k < queue_size
      BY ONLY <1>2, <2>1, <2>5, k \in Nat
    <3>2. Place(head', k) = Place(head, k + 1)
      BY <2>2, <3>1
    <3>3. queue[Place(head, k + 1)] \in Tasks
      BY <1>1, <3>1 DEF RingIsFull
    <3>4. QED
      BY <2>1, <3>2, <3>3
  <2>6. QED
    BY <2>4, <2>5 DEF RingIsFull
<1>6. QED
  BY <1>1, <1>3, <1>4, <1>5
     DEF PoolNext, OwnerStep, ThreadStep, CreateThread, Created, Joined, AddFails, Destroy,
         Enter, Wait, SpuriousWakeup, Return, Exit, poolVars, ring

-----------------------------------------------------------------------------
\* No step lets a thread be forgotten, leave early, or sleep on a task.
LEMMA StepThreads == IInv /\ [PoolNext]_poolVars => (OwnerKnows /\ NoneLeftEarly /\ PoolKeepsTasks)'
PROOF
<1>1. SUFFICES ASSUME IInv, [PoolNext]_poolVars
               PROVE  (OwnerKnows /\ NoneLeftEarly /\ PoolKeepsTasks)'
  OBVIOUS
<1> DEFINE Goal == (OwnerKnows /\ NoneLeftEarly /\ PoolKeepsTasks)'
<1>2. /\ thread \in [Threads -> ThreadPcs] /\ thread_count \in Nat /\ count \in Nat
      /\ shutdown \in {"no", "immediate", "graceful"} /\ owner \in OwnerPcs
      /\ OwnerKnows /\ NoneLeftEarly /\ PoolKeepsTasks
  BY <1>1, PoolAssumption DEF IInv, PoolTypeOK
<1>3. Threads \subseteq Nat /\ 1 \in Threads
  BY PoolAssumption DEF Threads
<1> USE <1>2, <1>3 DEF OwnerKnows, NoneLeftEarly, PoolKeepsTasks, SomeoneAwake, ShutdownComplete
<1>4. CASE CreateThread
  <2>1. thread_count + 1 \in Threads
    BY <1>4, PoolAssumption DEF CreateThread, Threads
  <2>2. QED
    BY <1>4, <2>1 DEF CreateThread, ring
<1>5. CASE Created
  <2>1. \A t \in Threads : thread[t] # "none"
    BY <1>5 DEF Created, Threads
  <2>2. QED
    BY <1>5, <2>1 DEF Created, ring
<1>6. CASE AddFails
  BY <1>6 DEF AddFails, poolVars
<1>7. CASE Joined
  BY <1>7 DEF Joined, threadpool_free, ring
<1>8. ASSUME NEW arg \in Tasks, Add(arg) PROVE Goal
  <2>1. /\ \A t \in Threads :
             thread'[t] = thread[t] \/ (thread[t] = "waiting" /\ thread'[t] = "lock")
        /\ (\A t \in Threads : thread[t] # "waiting") \/ (\E t \in Threads : thread'[t] = "lock")
    BY <1>1, <1>8, SignalWakes DEF Add, IInv
  <2>2. owner = "ready" /\ shutdown = "no" /\ owner' = owner /\ shutdown' = shutdown
    BY <1>8 DEF Add
  <2>3. \E t \in Threads : thread'[t] \in {"entry", "lock", "work"}
    BY <2>1, <2>2 DEF ThreadPcs
  <2>4. QED
    BY <2>1, <2>2, <2>3
<1>9. ASSUME NEW how \in {"immediate", "graceful"}, Destroy(how) PROVE Goal
  BY <1>9 DEF Destroy, Broadcast, ring
<1>10. ASSUME NEW t \in Threads,
              Enter(t) \/ SpuriousWakeup(t) \/ Return(t)
       PROVE  Goal
  BY <1>10 DEF Enter, SpuriousWakeup, Return, ring
<1>11. ASSUME NEW t \in Threads, Wait(t) PROVE Goal
  BY <1>11 DEF Wait, ring
<1>12. ASSUME NEW t \in Threads, Exit(t) PROVE Goal
  BY <1>12 DEF Exit, ring
<1>13. ASSUME NEW t \in Threads, Take(t) PROVE Goal
  BY <1>13 DEF Take
<1>14. CASE UNCHANGED poolVars
  BY <1>14 DEF poolVars
<1>15. QED
  BY <1>1, <1>4, <1>5, <1>6, <1>7, <1>8, <1>9, <1>10, <1>11, <1>12, <1>13, <1>14
     DEF PoolNext, OwnerStep, ThreadStep

\* Every step preserves the invariant.
LEMMA StepIInv == IInv /\ [PoolNext]_poolVars => IInv'
BY StepTypeOK, StepRing, StepThreads DEF IInv

\* IInv holds in every reachable state of the pool.
THEOREM Invariance == PoolSpec => []IInv
BY InitIInv, StepIInv, PTL DEF PoolSpec

\* Every variable keeps its type: head, tail and count never leave the ring,
\* and a thread is never given a slot that no task has been put into.
THEOREM TypeCorrect == PoolSpec => []PoolTypeOK
BY Invariance, PTL DEF IInv

\* The pool neither sleeps through a task nor goes away under one, for any
\* number of threads, spurious wakeups included.
THEOREM TasksKept == PoolSpec => []PoolKeepsTasks
BY Invariance, PTL DEF IInv

-----------------------------------------------------------------------------
\* The ring, seen as a sequence.
ContentsInOrder ==
  /\ Contents \in Seq(Tasks) /\ Len(Contents) = count
  /\ \A k \in 1 .. count : Contents[k] = queue[Place(head, k - 1)]

\* Contents is the sequence of the tasks in the ring.
LEMMA ContentsSeq == IInv => ContentsInOrder
PROOF
<1>0. SUFFICES ASSUME PoolTypeOK, RingIsFull PROVE ContentsInOrder
  BY DEF IInv
<1>1. count \in Nat /\ head \in Nat
  BY <1>0, PoolAssumption DEF PoolTypeOK, Slots
<1>2. ASSUME NEW k \in 1 .. count
      PROVE  Contents[k] = queue[Place(head, k - 1)] /\ Contents[k] \in Tasks
  <2>1. k - 1 \in Nat /\ k - 1 < count /\ head + k - 1 = head + (k - 1)
    BY <1>1
  <2>2. Contents[k] = queue[Place(head, k - 1)]
    BY <2>1 DEF Contents, Place
  <2>3. QED
    BY <1>0, <2>1, <2>2 DEF RingIsFull
<1>3. Contents \in [1 .. count -> Tasks]
  BY <1>2 DEF Contents
<1>4. Contents \in Seq(Tasks) /\ Len(Contents) = count
  BY <1>1, <1>3, SeqDef, LenProperties
<1>5. QED
  BY <1>2, <1>4 DEF ContentsInOrder

\* threadpool_add puts its task behind all the others.
LEMMA AddSubmits ==
  ASSUME IInv, NEW arg \in Tasks, Add(arg), IInv'
  PROVE  Fifo!Submit(arg)
PROOF
<1>1. /\ count \in Nat /\ count < queue_size /\ count' = count + 1 /\ head' = head
      /\ tail = Place(head, count) /\ tail \in Slots /\ head \in Slots
      /\ queue \in [Slots -> Tasks \cup {NoTask}] /\ queue' = [queue EXCEPT ![tail] = arg]
      /\ taken' = taken
  BY PoolAssumption DEF IInv, PoolTypeOK, RingIsFull, Add
<1>2. /\ Contents \in Seq(Tasks) /\ Len(Contents) = count
      /\ \A k \in 1 .. count : Contents[k] = queue[Place(head, k - 1)]
      /\ Contents' \in Seq(Tasks) /\ Len(Contents') = count + 1
      /\ \A k \in 1 .. count + 1 : Contents'[k] = queue'[Place(head, k - 1)]
  <2>1. ContentsInOrder /\ ContentsInOrder'
    BY ContentsSeq, PTL
  <2>2. QED
    BY <1>1, <2>1 DEF ContentsInOrder
<1>3. /\ Append(Contents, arg) \in Seq(Tasks) /\ Len(Append(Contents, arg)) = count + 1
      /\ \A k \in 1 .. count : Append(Contents, arg)[k] = Contents[k]
      /\ Append(Contents, arg)[count + 1] = arg
  BY <1>2, AppendProperties
<1>4. ASSUME NEW k \in 1 .. count + 1
      PROVE  Contents'[k] = Append(Contents, arg)[k]
  <2>1. CASE k = count + 1
    <3>1. Place(head, k - 1) = tail
      BY <1>1, <2>1
    <3>2. QED
      BY <1>1, <1>2, <1>3, <2>1, <3>1
  <2>2. CASE k \in 1 .. count
    <3>1. k - 1 \in Nat /\ k - 1 < count /\ k - 1 <= queue_size
      BY <1>1, <2>2, PoolAssumption
    <3>2. Place(head, k - 1) \in Slots /\ Place(head, k - 1) # tail
      BY <1>1, <3>1, PlacesDiffer, PlaceInRing
    <3>3. QED
      BY <1>1, <1>2, <1>3, <2>2, <3>2
  <2>3. k = count + 1 \/ k \in 1 .. count
    BY ONLY <1>1, k \in 1 .. count + 1
  <2>4. QED
    BY <2>1, <2>2, <2>3
<1>5. Contents' = Append(Contents, arg)
  BY <1>2, <1>3, <1>4, SeqEqual
<1>6. QED
  BY <1>1, <1>5 DEF Fifo!Submit

\* A thread takes the task that has been in the ring longest.
LEMMA TakeExecutes ==
  ASSUME IInv, NEW t \in Threads, Take(t), IInv'
  PROVE  Fifo!Execute
PROOF
<1>1. /\ count \in Nat \ {0} /\ count <= queue_size /\ count' = count - 1
      /\ head' = Place(head, 1) /\ head \in Slots
      /\ queue' = queue /\ taken' = Append(taken, queue[head])
  BY PoolAssumption DEF IInv, PoolTypeOK, Take, Place
<1>2. /\ Contents \in Seq(Tasks) /\ Len(Contents) = count
      /\ \A k \in 1 .. count : Contents[k] = queue[Place(head, k - 1)]
      /\ Contents' \in Seq(Tasks) /\ Len(Contents') = count - 1
      /\ \A k \in 1 .. count - 1 : Contents'[k] = queue[Place(head', k - 1)]
  <2>1. ContentsInOrder /\ ContentsInOrder'
    BY ContentsSeq, PTL
  <2>2. QED
    BY <1>1, <2>1 DEF ContentsInOrder
<1>3. /\ Contents # <<>> /\ Head(Contents) = Contents[1]
      /\ Tail(Contents) \in Seq(Tasks) /\ Len(Tail(Contents)) = count - 1
      /\ \A k \in 1 .. count - 1 : Tail(Contents)[k] = Contents[k + 1]
  BY <1>1, <1>2, HeadTailProperties, EmptySeq
<1>4. Head(Contents) = queue[head]
  <2>1. 1 - 1 = 0 /\ 1 \in 1 .. count /\ Place(head, 0) = head
    BY <1>1, PlaceInRing, PoolAssumption DEF Slots
  <2>2. QED
    BY <1>2, <1>3, <2>1
<1>5. ASSUME NEW k \in 1 .. count - 1 PROVE Contents'[k] = Tail(Contents)[k]
  <2>1. /\ k - 1 \in Nat /\ k - 1 < queue_size /\ (k - 1) + 1 = k /\ (k + 1) - 1 = k
        /\ k + 1 \in 1 .. count
    BY <1>1, PoolAssumption
  <2>2. Place(head', k - 1) = Place(head, k)
    BY <1>1, <2>1, PlacesAdd
  <2>3. QED
    BY <1>2, <1>3, <2>1, <2>2
<1>6. Contents' = Tail(Contents)
  BY <1>2, <1>3, <1>5, SeqEqual
<1>7. QED
  BY <1>1, <1>3, <1>4, <1>6 DEF Fifo!Execute

\* Every step of the pool is a step of the abstract queue, or none.
LEMMA StepFifo == IInv /\ [PoolNext]_poolVars => [Fifo!Next]_(Fifo!vars)
PROOF
<1>1. SUFFICES ASSUME IInv, [PoolNext]_poolVars PROVE [Fifo!Next]_(Fifo!vars)
  OBVIOUS
<1>2. IInv'
  BY <1>1, StepIInv
<1>3. ASSUME NEW arg \in Tasks, Add(arg) PROVE Fifo!Next
  BY <1>1, <1>2, <1>3, AddSubmits DEF Fifo!Next
<1>4. ASSUME NEW t \in Threads, Take(t) PROVE Fifo!Next
  BY <1>1, <1>2, <1>4, TakeExecutes DEF Fifo!Next
<1>5. CASE UNCHANGED <<ring, taken>>
  BY <1>5 DEF ring, Fifo!vars, Contents
<1>6. QED
  BY <1>1, <1>3, <1>4, <1>5
     DEF PoolNext, OwnerStep, ThreadStep, CreateThread, Created, Joined, AddFails, Destroy,
         Enter, Wait, SpuriousWakeup, Return, Exit, poolVars, ring

\* The ring of any size implements the queue of FunctorQueue: tasks are taken
\* once each and in the order in which threadpool_add accepted them, through
\* every wrap of the head and the tail.
THEOREM RefinesFunctorQueue == PoolSpec => TasksInOrder
PROOF
<1>1. PoolInit => Fifo!Init
  <2>1. SUFFICES ASSUME PoolInit PROVE Fifo!Init
    OBVIOUS
  <2>2. Contents \in Seq(Tasks) /\ Len(Contents) = 0
    BY <2>1, InitIInv, ContentsSeq DEF PoolInit, ContentsInOrder
  <2>3. QED
    BY <2>1, <2>2, EmptySeq DEF Fifo!Init, PoolInit
<1>2. IInv /\ [PoolNext]_poolVars => [Fifo!Next]_(Fifo!vars)
  BY StepFifo
<1>3. QED
  BY Invariance, <1>1, <1>2, PTL DEF PoolSpec, TasksInOrder, Fifo!SafeSpec

-----------------------------------------------------------------------------
(* HttpServer. *)

\* The requests that are in the hands of the pool: in the ring, or worked on.
InPool == {Contents[n] : n \in DOMAIN Contents} \cup ({task[t] : t \in Threads} \ {NoTask})

\* The requests the main thread can still reach.
InMain == armed \cup (ready \ {NoTask}) \cup failed \cup attached

\* The part of TypeOK that the argument needs.
ServerTypeOK ==
  /\ main \in MainPcs
  /\ client \in [Conns -> {"none", "open", "shut", "reset"}]
  /\ backlog \subseteq Conns /\ live \subseteq Conns /\ heap \subseteq Conns
  /\ ready \subseteq Conns \cup {NoTask}
  /\ expired_time \in [Conns -> Nat] /\ now \in Nat

\* A connection is accepted once.
AcceptedOnce ==
  /\ backlog \cap live = {}
  /\ \A c \in backlog \cup live : client[c] # "none"

\* Either the main thread or the pool has a request, never both; the events of a
\* batch name each request once (EPOLLONESHOT has disarmed it) and are used up
\* before the timers are looked at.
HandedOver ==
  /\ InMain \cap InPool = {}
  /\ ready \cap failed = {} /\ (ready \cup failed) \cap armed = {}
  /\ main \in {"setup", "wait", "expire"} => ready = {} /\ failed = {}

\* Whoever has a request, it is allocated.
AllLive == InMain \subseteq live /\ InPool \subseteq live

\* The inductive invariant of HttpServer, beside the pool's own.  What the
\* main thread deletes, it can still reach: HandedOver then says that no thread
\* of the pool works on it.
ServerIInv ==
  IInv /\ ServerTypeOK /\ (main # "user" => AcceptedOnce /\ HandedOver /\ AllLive)

\* What the main thread does to the pool, the pool's interface allows.
LEMMA StepPool == [Next]_vars => [PoolNext]_poolVars
PROOF
<1>1. SUFFICES ASSUME [Next]_vars PROVE [PoolNext]_poolVars
  OBVIOUS
<1>2. CASE Main
  BY <1>2 DEF Main, Setup, SetupFails, WaitEvents, Accept, EventsDone, ExpireDone,
              HandleError, HandleIn, Expire, Conns, PoolNext
<1>3. CASE Pool
  BY <1>3 DEF Pool, PoolStep, PoolNext
<1>4. CASE PoolUser
  BY <1>4 DEF PoolUser, PoolNext, Conns
<1>5. CASE Environment
  BY <1>5 DEF Environment, Tick, WaitFails, Connect, Send, Leave
<1>6. ASSUME NEW t \in Threads, NEW c \in Conns, ReadRequest(t, c) PROVE [PoolNext]_poolVars
  <2>1. UNCHANGED poolVars \/ Return(t)
    BY <1>6 DEF ReadRequest
  <2>2. QED
    BY <2>1 DEF PoolNext
<1>7. ASSUME NEW t \in Threads, NEW c \in Conns, WriteHeader(t, c) PROVE [PoolNext]_poolVars
  BY <1>7 DEF WriteHeader, Goto, Finish, Killed, PoolNext
<1>8. ASSUME NEW t \in Threads, NEW c \in Conns, WriteContent(t, c) PROVE [PoolNext]_poolVars
  BY <1>8 DEF WriteContent, Goto, Finish, Killed, PoolNext
<1>9. QED
  BY <1>1, <1>2, <1>3, <1>4, <1>5, <1>6, <1>7, <1>8 DEF Next, Handle, vars

\* The HTTP server uses the pool as its interface allows, so that all that is
\* proved of the pool holds in the server.
THEOREM ServerUsesPool == Spec => PoolSpec
<1>1. Init => PoolInit
  BY DEF Init
<1>2. QED
  BY <1>1, StepPool, PTL DEF Spec, PoolSpec

\* In the server, too, the pool neither sleeps through a request nor goes away
\* under one.
THEOREM ServerTasksKept == Spec => []PoolKeepsTasks
BY ServerUsesPool, TasksKept, PTL

\* The requests are taken once each and in the order in which the main thread
\* handed them over.
THEOREM ServerTasksInOrder == Spec => TasksInOrder
BY ServerUsesPool, RefinesFunctorQueue, PTL

-----------------------------------------------------------------------------
\* threadpool_add gives the pool one request.
LEMMA AddGives ==
  ASSUME IInv, IInv', NEW c \in Tasks, Add(c)
  PROVE  InPool' \subseteq InPool \cup {c}
PROOF
<1>1. Contents \in Seq(Tasks) /\ Contents' = Append(Contents, c)
  <2>1. ContentsInOrder
    BY ContentsSeq
  <2>2. QED
    BY <2>1, AddSubmits DEF Fifo!Submit, ContentsInOrder
<1>2. \A n \in DOMAIN Contents' : Contents'[n] = c \/ \E m \in DOMAIN Contents : Contents'[n] = Contents[m]
  BY <1>1, AppendProperties
<1>3. task' = task
  BY DEF Add
<1>4. QED
  BY <1>2, <1>3 DEF InPool

\* A thread that takes a task takes it from the ring.
LEMMA TakeKeeps ==
  ASSUME IInv, IInv', NEW t \in Threads, Take(t)
  PROVE  InPool' \subseteq InPool
PROOF
<1>1. Contents \in Seq(Tasks) /\ Contents # <<>> /\ Contents' = Tail(Contents)
      /\ taken' = Append(taken, Head(Contents))
  <2>1. ContentsInOrder
    BY ContentsSeq
  <2>2. QED
    BY <2>1, TakeExecutes DEF Fifo!Execute, ContentsInOrder
<1>2. /\ \A n \in DOMAIN Contents' : \E m \in DOMAIN Contents : Contents'[n] = Contents[m]
      /\ 1 \in DOMAIN Contents /\ Head(Contents) = Contents[1]
  BY <1>1, HeadTailProperties, EmptySeq
<1>3. task' = [task EXCEPT ![t] = queue[head]] /\ queue[head] = Contents[1]
  <2>1. 1 \in 1 .. count /\ head \in Slots /\ count <= queue_size
    BY PoolAssumption DEF Take, IInv, PoolTypeOK
  <2>2. Contents[1] = queue[Place(head, 1 - 1)] /\ 1 - 1 = 0
    BY <2>1, ContentsSeq DEF ContentsInOrder
  <2>3. Place(head, 0) = head
    BY <2>1, PlaceInRing, PoolAssumption DEF Slots
  <2>4. QED
    BY <2>2, <2>3 DEF Take
<1>4. task \in [Threads -> Tasks \cup {NoTask}]
  BY DEF IInv, PoolTypeOK
<1>5. QED
  BY <1>2, <1>3, <1>4 DEF InPool

\* A thread that returns gives a request up.
LEMMA ReturnGivesUp ==
  ASSUME IInv, NEW t \in Threads, Return(t)
  PROVE  InPool' \subseteq InPool
PROOF
<1>1. Contents' = Contents
  BY DEF Return, ring, Contents
<1>2. task' = [task EXCEPT ![t] = NoTask] /\ task \in [Threads -> Tasks \cup {NoTask}]
  BY DEF Return, IInv, PoolTypeOK
<1>3. QED
  BY <1>1, <1>2 DEF InPool

\* Nothing else than threadpool_add gives the pool a request.
LEMMA OthersGiveNothing ==
  ASSUME IInv, IInv',
         \/ OwnerStep \/ AddFails \/ UNCHANGED poolVars
         \/ \E how \in {"immediate", "graceful"} : Destroy(how)
         \/ \E t \in Threads : ThreadStep(t) \/ SpuriousWakeup(t) \/ Return(t)
  PROVE  InPool' \subseteq InPool
PROOF
<1>1. CASE UNCHANGED <<ring, task>>
  BY <1>1 DEF ring, Contents, InPool
<1>2. CASE \E t \in Threads : Take(t)
  BY <1>2, TakeKeeps
<1>3. CASE \E t \in Threads : Return(t)
  BY <1>3, ReturnGivesUp
<1>4. QED
  BY <1>1, <1>2, <1>3
     DEF OwnerStep, ThreadStep, CreateThread, Created, Joined, AddFails, Destroy,
         Enter, Wait, SpuriousWakeup, Exit, poolVars, ring

\* Before the first connection there is nothing to lose.
LEMMA ServerInitIInv == Init => ServerIInv
PROOF
<1>1. SUFFICES ASSUME Init PROVE ServerIInv
  OBVIOUS
<1>2. IInv /\ ContentsInOrder /\ count = 0 /\ task = [t \in Threads |-> NoTask]
  BY <1>1, InitIInv, ContentsSeq DEF Init, PoolInit
<1>3. InPool = {}
  <2>1. DOMAIN Contents = {}
    BY <1>2 DEF Contents
  <2>2. QED
    BY <1>2, <2>1 DEF InPool
<1>4. QED
  BY <1>1, <1>2, <1>3
     DEF Init, ServerIInv, ServerTypeOK, MainPcs, AcceptedOnce, HandedOver, AllLive, InMain

\* The variables of the main thread and of the network keep their types.
LEMMA StepServerType == ServerTypeOK /\ [Next]_vars => ServerTypeOK'
PROOF
<1>1. SUFFICES ASSUME ServerTypeOK, [Next]_vars PROVE ServerTypeOK'
  OBVIOUS
<1> USE <1>1, TimerAssumption DEF ServerTypeOK, MainPcs
<1>2. CASE Setup \/ SetupFails \/ WaitEvents \/ EventsDone \/ ExpireDone
  BY <1>2 DEF Setup, SetupFails, WaitEvents, EventsDone, ExpireDone, mainVars, timerVars,
              netVars
<1>3. CASE Accept
  BY <1>3 DEF Accept, addTimer, mainVars, timerVars, netVars
<1>4. ASSUME NEW c \in Conns, HandleError(c) \/ HandleIn(c) \/ Expire(c) PROVE ServerTypeOK'
  BY <1>4 DEF HandleError, HandleIn, Expire, Delete, mainVars, timerVars, netVars
<1>5. CASE Pool
  BY <1>5 DEF Pool, PoolStep, mainVars, timerVars, netVars
<1>6. CASE PoolUser
  BY <1>6 DEF PoolUser, mainVars, timerVars, netVars
<1>7. CASE Environment
  BY <1>7 DEF Environment, Tick, WaitFails, Connect, Send, Leave, mainVars, timerVars, netVars
<1>8. ASSUME NEW t \in Threads, NEW c \in Conns, ReadRequest(t, c) PROVE ServerTypeOK'
  BY <1>8 DEF ReadRequest, mainVars, timerVars, netVars
<1>9. ASSUME NEW t \in Threads, NEW c \in Conns, WriteHeader(t, c) \/ WriteContent(t, c)
      PROVE  ServerTypeOK'
  BY <1>9 DEF WriteHeader, WriteContent, Written, WriteFails, Killed, mainVars, timerVars
<1>10. CASE UNCHANGED vars
  BY <1>10 DEF vars, mainVars, timerVars, netVars
<1>11. QED
  BY <1>1, <1>2, <1>3, <1>4, <1>5, <1>6, <1>7, <1>8, <1>9, <1>10 DEF Next, Main, Handle

\* What a server keeps true of its connections.
ConnsKept == AcceptedOnce /\ HandedOver /\ AllLive

\* A step that leaves the main thread's sets alone, gives the pool nothing and
\* forgets no client.
LEMMA QuietKeeps ==
  ASSUME ConnsKept, ServerTypeOK, UNCHANGED mainVars, attached' = attached,
         main' = main \/ main' = "exit",
         \A c \in Conns : client[c] # "none" => client'[c] # "none",
         InPool' \subseteq InPool
  PROVE  ConnsKept'
BY DEF ConnsKept, ServerTypeOK, AcceptedOnce, HandedOver, AllLive, InMain, mainVars

\* Every step of a server keeps its requests apart and allocated.
LEMMA StepConns == IInv /\ ServerTypeOK /\ main # "user" /\ ConnsKept /\ [Next]_vars => ConnsKept'
PROOF
<1>1. SUFFICES ASSUME IInv, ServerTypeOK, main # "user", ConnsKept, [Next]_vars
               PROVE  ConnsKept'
  OBVIOUS
<1>2. IInv'
  BY <1>1, StepPool, StepIInv
<1>3. NoTask \notin Conns
  BY NoTaskAssumption DEF Conns
<1>4. ASSUME UNCHANGED poolVars PROVE InPool' \subseteq InPool
  BY <1>1, <1>2, <1>4, OthersGiveNothing
<1>5. CASE Setup \/ SetupFails \/ EventsDone \/ ExpireDone \/ WaitFails
  <2>1. InPool' \subseteq InPool
    BY <1>4, <1>5 DEF Setup, SetupFails, EventsDone, ExpireDone, WaitFails
  <2>2. QED
    BY <1>1, <1>5, <2>1
       DEF Setup, SetupFails, EventsDone, ExpireDone, WaitFails, mainVars, timerVars, netVars,
           ConnsKept, AcceptedOnce, HandedOver, AllLive, InMain
<1>6. CASE WaitEvents
  <2>1. InPool' \subseteq InPool
    BY <1>4, <1>6 DEF WaitEvents
  <2>2. PICK conns \in SUBSET armed :
          /\ failed' \subseteq conns
          /\ ready' \subseteq (conns \ failed') \cup {NoTask}
          /\ armed' = armed \ conns
    BY <1>6 DEF WaitEvents, Readable
  <2>3. UNCHANGED <<live, backlog, client, attached>> /\ main' = "events"
    BY <1>6 DEF WaitEvents, timerVars, netVars
  <2>4. conns \subseteq Conns
    BY <1>1, <2>2 DEF ConnsKept, AllLive, InMain, ServerTypeOK
  <2>5. AcceptedOnce'
    BY <1>1, <2>3 DEF ConnsKept, AcceptedOnce
  <2>6. InMain' \subseteq InMain
    BY <2>2, <2>3 DEF InMain
  <2>7. AllLive'
    BY <1>1, <2>1, <2>3, <2>6 DEF ConnsKept, AllLive
  <2>8. HandedOver'
    <3>1. NoTask \notin armed /\ NoTask \notin failed'
      BY <1>1, <1>3, <2>2, <2>4 DEF ConnsKept, AllLive, InMain, ServerTypeOK
    <3>2. (ready' \cap failed') = {} /\ ((ready' \cup failed') \cap armed') = {}
      BY <2>2, <3>1
    <3>3. InMain' \cap InPool' = {}
      BY <1>1, <2>1, <2>6 DEF ConnsKept, HandedOver
    <3>4. QED
      BY <2>3, <3>2, <3>3 DEF HandedOver
  <2>9. QED
    BY <2>5, <2>7, <2>8 DEF ConnsKept
<1>7. CASE Accept
  <2>1. InPool' \subseteq InPool
    BY <1>4, <1>7 DEF Accept
  <2>2. PICK accepted \in SUBSET backlog :
          /\ live' = live \cup accepted /\ backlog' = backlog \ accepted
          /\ ready' = ready \ {NoTask}
          /\ armed' \subseteq armed \cup accepted /\ attached' = attached \cup accepted
          /\ UNCHANGED <<failed, client, main>> /\ main = "events"
    BY <1>7 DEF Accept, epoll_add, addTimer, netVars
  <2>3. QED
    BY <1>1, <2>1, <2>2
       DEF ConnsKept, ServerTypeOK, AcceptedOnce, HandedOver, AllLive, InMain
<1>8. ASSUME NEW c \in Conns, HandleError(c) PROVE ConnsKept'
  <2>1. InPool' \subseteq InPool
    BY <1>4, <1>8 DEF HandleError
  <2>2. /\ live' = live \ {c} /\ armed' = armed \ {c} /\ attached' = attached \ {c}
        /\ failed' = failed \ {c} /\ c \in failed
        /\ UNCHANGED <<ready, backlog, client, main>> /\ main = "events"
    BY <1>8 DEF HandleError, Delete, clearReq, netVars
  <2>3. c \notin ready /\ c \notin InPool
    BY <1>1, <2>2 DEF ConnsKept, HandedOver, InMain
  <2>4. QED
    BY <1>1, <2>1, <2>2, <2>3
       DEF ConnsKept, ServerTypeOK, AcceptedOnce, HandedOver, AllLive, InMain
<1>9. ASSUME NEW c \in Conns, HandleIn(c) PROVE ConnsKept'
  <2>1. InPool' \subseteq InPool \cup {c}
    <3>1. CASE Add(c)
      BY <1>1, <1>2, <3>1, AddGives DEF Conns
    <3>2. CASE AddFails
      BY <1>4, <3>2 DEF AddFails
    <3>3. QED
      BY <1>9, <3>1, <3>2 DEF HandleIn
  <2>2. /\ attached' = attached \ {c} /\ ready' = ready \ {c} /\ c \in ready
        /\ UNCHANGED <<armed, failed, live, backlog, client, main>> /\ main = "events"
    BY <1>9 DEF HandleIn, seperateTimer, clearReq, netVars
  <2>3. QED
    BY <1>1, <1>3, <2>1, <2>2
       DEF ConnsKept, ServerTypeOK, AcceptedOnce, HandedOver, AllLive, InMain
<1>10. ASSUME NEW c \in Conns, Expire(c) PROVE ConnsKept'
  <2>1. InPool' \subseteq InPool
    BY <1>4, <1>10 DEF Expire
  <2>2. UNCHANGED <<ready, failed, backlog, client, main>> /\ main = "expire"
    BY <1>10 DEF Expire, netVars
  <2>3. CASE c \in attached
    <3>1. live' = live \ {c} /\ armed' = armed \ {c} /\ attached' = attached \ {c}
      BY <1>10, <2>3 DEF Expire, Delete, clearReq
    <3>2. c \notin InPool /\ ready = {} /\ failed = {}
      BY <1>1, <2>2, <2>3 DEF ConnsKept, HandedOver, InMain
    <3>3. QED
      BY <1>1, <2>1, <2>2, <3>1, <3>2
         DEF ConnsKept, ServerTypeOK, AcceptedOnce, HandedOver, AllLive, InMain
  <2>4. CASE c \notin attached
    BY <1>1, <1>10, <2>1, <2>2, <2>4
       DEF Expire, ConnsKept, ServerTypeOK, AcceptedOnce, HandedOver, AllLive, InMain
  <2>5. QED
    BY <2>3, <2>4
<1>11. CASE Pool
  <2>1. InPool' \subseteq InPool
    <3>1. \/ OwnerStep \/ Destroy("immediate")
          \/ \E t \in Threads : ThreadStep(t) \/ SpuriousWakeup(t) \/ Return(t)
      BY <1>11 DEF Pool, PoolStep
    <3>2. QED
      BY <1>1, <1>2, <3>1, OthersGiveNothing
  <2>2. UNCHANGED <<timerVars, mainVars, netVars, main>>
    BY <1>11 DEF Pool, PoolStep
  <2>3. QED
    BY <1>1, <2>1, <2>2, QuietKeeps DEF timerVars, netVars
<1>12. ASSUME NEW c \in Conns, Connect(c) PROVE ConnsKept'
  <2>1. InPool' \subseteq InPool
    BY <1>4, <1>12 DEF Connect
  <2>2. /\ client[c] = "none" /\ client' = [client EXCEPT ![c] = "open"]
        /\ backlog' = backlog \cup {c}
        /\ UNCHANGED <<armed, ready, failed, live, attached, main>>
    BY <1>12 DEF Connect, timerVars
  <2>3. c \notin live
    BY <1>1, <2>2 DEF ConnsKept, AcceptedOnce
  <2>4. QED
    BY <1>1, <2>1, <2>2, <2>3
       DEF ConnsKept, ServerTypeOK, AcceptedOnce, HandedOver, AllLive, InMain
<1>13. CASE Tick \/ (\E c \in Conns : Send(c) \/ (\E how \in {"shut", "reset"} : Leave(c, how)))
  <2>1. InPool' \subseteq InPool
    BY <1>4, <1>13 DEF Tick, Send, Leave
  <2>2. UNCHANGED <<timerVars, mainVars, main>>
    BY <1>13 DEF Tick, Send, Leave
  <2>3. \A c \in Conns : client[c] # "none" => client'[c] # "none"
    BY <1>1, <1>13 DEF Tick, Send, Leave, netVars, ServerTypeOK
  <2>4. QED
    BY <1>1, <2>1, <2>2, <2>3, QuietKeeps DEF timerVars
<1>14. ASSUME NEW t \in Threads, NEW c \in Conns,
              ReadRequest(t, c) \/ WriteHeader(t, c) \/ WriteContent(t, c)
       PROVE  ConnsKept'
  <2>1. UNCHANGED poolVars \/ Return(t)
    BY <1>14 DEF ReadRequest, WriteHeader, WriteContent, Goto, Finish, Killed
  <2>2. InPool' \subseteq InPool
    BY <1>1, <1>2, <2>1, OthersGiveNothing
  <2>3. UNCHANGED <<timerVars, mainVars>> /\ (main' = main \/ main' = "exit")
    BY <1>14 DEF ReadRequest, WriteHeader, WriteContent, Written, WriteFails, Killed
  <2>4. \A d \in Conns : client[d] # "none" => client'[d] # "none"
    BY <1>1, <1>14 DEF ReadRequest, WriteHeader, WriteContent, Written, WriteFails, Killed,
                       netVars, ServerTypeOK
  <2>5. QED
    BY <1>1, <2>2, <2>3, <2>4, QuietKeeps DEF timerVars
<1>15. CASE UNCHANGED vars
  <2>1. InPool' \subseteq InPool
    BY <1>4, <1>15 DEF vars
  <2>2. QED
    BY <1>1, <1>15, <2>1, QuietKeeps DEF vars, timerVars, netVars
<1>16. ~PoolUser
  BY <1>1 DEF PoolUser
<1>17. QED
  BY <1>1, <1>5, <1>6, <1>7, <1>8, <1>9, <1>10, <1>11, <1>12, <1>13, <1>14, <1>15, <1>16
     DEF Next, Main, Environment, Handle

\* A program that only uses the pool does not become a server.
LEMMA UserStays == main = "user" /\ [Next]_vars => main' = "user"
BY DEF Next, Main, Setup, SetupFails, WaitEvents, Accept, EventsDone, ExpireDone,
       HandleError, HandleIn, Expire, Pool, PoolStep, PoolUser, Environment, Tick, WaitFails,
       Connect, Send, Leave, Handle, ReadRequest, WriteHeader, WriteContent, Working, vars

\* Every step preserves the invariant.
LEMMA ServerStepIInv == ServerIInv /\ [Next]_vars => ServerIInv'
BY StepPool, StepIInv, StepServerType, StepConns, UserStays DEF ServerIInv, ConnsKept

\* When the main thread goes back to epoll_wait, the timer at the top of the
\* heap has not run out, and so no timer has.
LEMMA StepExpires == ServerIInv /\ [Next]_vars => ExpiredAreClosed
PROOF
<1>1. SUFFICES ASSUME ServerIInv, [Next]_vars, main = "expire", main' = "wait",
                      NEW c \in heap
               PROVE  isvalid(c)
  BY DEF ExpiredAreClosed
<1>2. ExpireDone
  BY <1>1
     DEF Next, Main, Setup, SetupFails, WaitEvents, Accept, EventsDone, ExpireDone,
         HandleError, HandleIn, Expire, Pool, PoolStep, PoolUser, Environment, Tick, WaitFails,
         Connect, Send, Leave, Handle, ReadRequest, WriteHeader, WriteContent, Written,
         WriteFails, Killed, vars
<1>3. PICK d \in Conns : Top(d) /\ isvalid(d)
  BY <1>1, <1>2 DEF ExpireDone
<1>4. QED
  BY <1>1, <1>3 DEF Top, isvalid, ServerIInv, ServerTypeOK

\* The request a thread of the pool works on, or will take from the ring, and
\* every request that epoll, an event or a timer still points to, is allocated,
\* and no timer that has run out is left when the main thread waits again: for
\* any number of clients, threads and connections, however requests arrive,
\* fail and time out.
THEOREM RequestsDeletedInTime == Spec => DeletedInTime
PROOF
<1>1. ServerIInv => NoUseAfterFree
  <2>1. SUFFICES ASSUME ServerIInv, main # "user" PROVE NoUseAfterFree
    BY DEF NoUseAfterFree
  <2>2. InMain \subseteq live /\ InPool \subseteq live
    BY <2>1 DEF ServerIInv, AllLive
  <2>3. QED
    BY <2>2 DEF NoUseAfterFree, InMain, InPool
<1>2. Init => ServerIInv
  BY ServerInitIInv
<1>3. ServerIInv /\ [Next]_vars => ServerIInv'
  BY ServerStepIInv
<1>4. ServerIInv /\ [Next]_vars => ExpiredAreClosed
  BY StepExpires
<1>5. QED
  BY <1>1, <1>2, <1>3, <1>4, PTL DEF Spec, DeletedInTime

-----------------------------------------------------------------------------
(* HttpRequest: what the parser makes of a request, or of its beginning. *)

\* A set of natural numbers has a least element.
LEMMA LeastOf ==
  ASSUME NEW T, T \subseteq Nat, T # {}
  PROVE  \E x \in T : \A y \in T : x <= y
PROOF
<1> DEFINE R == OpToRel(<, Nat)
<1>1. IsWellFoundedOn(R, Nat)
  BY NatLessThanWellFounded
<1>2. \A x, y \in Nat : x < y => <<x, y>> \in R
  BY DEF OpToRel
<1> HIDE DEF R
<1>3. PICK x \in T : \A y \in T : ~(<<y, x>> \in R)
  BY <1>1, WFMin
<1>4. x \in Nat /\ \A y \in T : y \in Nat
  OBVIOUS
<1>5. \A y \in T : ~(y < x)
  BY <1>2, <1>3, <1>4
<1>6. QED
  BY <1>4, <1>5

\* The least element.
LEMMA MinIs ==
  ASSUME NEW T, NEW m \in T, \A y \in T : y \in Int /\ m <= y
  PROVE  Min(T) = m
PROOF
<1>1. PICK x : x = Min(T)
  OBVIOUS
<1>2. x \in T /\ \A y \in T : x <= y
  BY <1>1 DEF Min
<1>3. x <= m /\ m <= x /\ x \in Int /\ m \in Int
  BY <1>2
<1>4. QED
  BY <1>1, <1>3

\* From n on, the first of the words is at k.
FirstOf(s, words, n, k) ==
  /\ n \in Int /\ k \in Int /\ Len(s) \in Nat /\ n <= k /\ k <= Len(s)
  /\ s[k] \in words /\ \A i \in Int : n <= i /\ i < k => s[i] \notin words

\* std::string::find returns the first place.
LEMMA FindFirst ==
  ASSUME NEW s, NEW words, NEW n, NEW k, FirstOf(s, words, n, k)
  PROVE  Find(s, words, n) = k
PROOF
<1>0. /\ n \in Int /\ k \in Int /\ Len(s) \in Nat /\ n <= k /\ k <= Len(s)
      /\ s[k] \in words /\ \A i \in Int : n <= i /\ i < k => s[i] \notin words
  BY DEF FirstOf
<1> DEFINE T == {i \in n .. Len(s) : s[i] \in words}
<1>1. k \in T
  BY <1>0
<1>2. \A y \in T : y \in Int /\ k <= y
  BY <1>0
<1>3. Min(T) = k
  BY <1>1, <1>2, MinIs
<1>4. Find(s, words, n) = IF T # {} THEN Min(T) ELSE 0
  BY DEF Find, SelectInSubSeq
<1>5. QED
  BY <1>1, <1>3, <1>4

\* Or 0.
LEMMA FindNone ==
  ASSUME NEW s, NEW words, NEW n \in Int, Len(s) \in Nat,
         \A i \in Int : n <= i /\ i <= Len(s) => s[i] \notin words
  PROVE  Find(s, words, n) = 0
PROOF
<1> DEFINE T == {i \in n .. Len(s) : s[i] \in words}
<1>1. T = {}
  OBVIOUS
<1>2. Find(s, words, n) = IF T # {} THEN Min(T) ELSE 0
  BY DEF Find, SelectInSubSeq
<1>3. QED
  BY <1>1, <1>2

\* From n on, word comes first at k.
FirstAt(s, word, n, k) ==
  /\ n \in Int /\ k \in Int /\ Len(s) \in Nat /\ n <= k /\ k <= Len(s)
  /\ s[k] = word /\ \A i \in Int : n <= i /\ i < k => s[i] # word

\* The same for one word.
LEMMA FindIs ==
  ASSUME NEW s, NEW word, NEW n, NEW k, FirstAt(s, word, n, k)
  PROVE  Find(s, {word}, n) = k
PROOF
<1>1. FirstOf(s, {word}, n, k)
  BY DEF FirstAt, FirstOf
<1>2. QED
  BY <1>1, FindFirst

\* It is not there.
LEMMA FindNot ==
  ASSUME NEW s, NEW word, NEW n \in Int, Len(s) \in Nat,
         \A i \in Int : n <= i /\ i <= Len(s) => s[i] # word
  PROVE  Find(s, {word}, n) = 0
PROOF
<1>1. \A i \in Int : n <= i /\ i <= Len(s) => s[i] \notin {word}
  OBVIOUS
<1>2. QED
  BY <1>1, FindNone

\* The steps of the loop over the headers.
LEMMA ScanSteps ==
  ASSUME NEW str, Len(str) \in Nat, NEW start
  PROVE  \E g : /\ HeaderScan(str, start) = g[Len(str)] /\ g[0] = start
                /\ \A i \in 1 .. Len(str) : g[i] = HeaderStep(str, g[i - 1], i)
PROOF
<1> DEFINE Is(g, n) == g = [i \in 0 .. n |-> IF i = 0 THEN start ELSE HeaderStep(str, g[i - 1], i)]
           T == {n \in Nat : ~\E g : Is(g, n)}
<1>1. T = {}
  <2>1. SUFFICES ASSUME T # {} PROVE FALSE
    OBVIOUS
  <2>2. PICK n \in T : \A k \in T : n <= k
    <3>1. T \subseteq Nat
      OBVIOUS
    <3> HIDE DEF T
    <3>2. QED
      BY <2>1, <3>1, LeastOf
  <2>3. n \in Nat /\ ~\E g : Is(g, n)
    OBVIOUS
  <2>4. CASE n = 0
    <3> DEFINE f == [i \in 0 .. 0 |-> start]
    <3>1. Is(f, 0)
      OBVIOUS
    <3>2. QED
      BY <2>3, <2>4, <3>1
  <2>5. CASE n # 0
    <3>1. n - 1 \in Nat /\ n - 1 \notin T
      BY <2>2, <2>3, <2>5
    <3>2. PICK f : Is(f, n - 1)
      BY <3>1
    <3>3. \A i \in 0 .. n - 1 : f[i] = IF i = 0 THEN start ELSE HeaderStep(str, f[i - 1], i)
      BY <3>2
    <3> DEFINE g == [i \in 0 .. n |-> IF i = n THEN HeaderStep(str, f[n - 1], n) ELSE f[i]]
    <3>4. \A i \in 0 .. n - 1 : g[i] = f[i]
      BY <2>3
    <3>5. \A i \in 0 .. n : g[i] = IF i = 0 THEN start ELSE HeaderStep(str, g[i - 1], i)
      <4>1. SUFFICES ASSUME NEW i \in 0 .. n
                     PROVE  g[i] = IF i = 0 THEN start ELSE HeaderStep(str, g[i - 1], i)
        OBVIOUS
      <4>2. CASE i = n
        <5>1. g[i] = HeaderStep(str, f[n - 1], n) /\ n - 1 \in 0 .. n - 1
          BY <2>3, <2>5, <3>1, <4>2
        <5>2. g[n - 1] = f[n - 1]
          BY <3>4, <5>1
        <5> HIDE DEF g
        <5>3. QED
          BY <2>5, <4>2, <5>1, <5>2
      <4>3. CASE i # n /\ i = 0
        <5>1. i \in 0 .. n - 1
          BY <2>3, <4>3
        <5>2. QED
          BY <3>3, <3>4, <4>3, <5>1
      <4>4. CASE i # n /\ i # 0
        <5>1. i \in 0 .. n - 1 /\ i - 1 \in 0 .. n - 1
          BY <2>3, <4>4
        <5>2. g[i] = f[i] /\ g[i - 1] = f[i - 1]
          BY <3>4, <5>1
        <5> HIDE DEF g
        <5>3. QED
          BY <3>3, <4>4, <5>1, <5>2
      <4>5. QED
        BY <4>2, <4>3, <4>4
    <3>6. Is(g, n)
      BY <3>5
    <3> HIDE DEF g
    <3>7. QED
      BY <2>3, <3>6
  <2>6. QED
    BY <2>4, <2>5
<1>2. PICK n \in Nat : n = Len(str)
  OBVIOUS
<1>3. \E g : Is(g, n)
  BY <1>1
<1> DEFINE scan == CHOOSE g : Is(g, n)
<1>4. Is(scan, n)
  BY <1>3, Zenon
<1>5. HeaderScan(str, start) = scan[n]
  BY <1>2 DEF HeaderScan
<1>6. PICK g : g = scan
  OBVIOUS
<1>7. g = [i \in 0 .. n |-> IF i = 0 THEN start ELSE HeaderStep(str, g[i - 1], i)]
  BY <1>4, <1>6
<1>8. \A i \in 0 .. n : g[i] = IF i = 0 THEN start ELSE HeaderStep(str, g[i - 1], i)
  BY <1>7
<1> HIDE DEF scan
<1>9. g[0] = start
  BY <1>8
<1>10. \A i \in 1 .. n : g[i] = HeaderStep(str, g[i - 1], i)
  BY <1>8
<1>11. QED
  BY <1>2, <1>5, <1>6, <1>9, <1>10

\* What one turn of the loop does: p becomes q, and h is the new state.
Turn(str, p, i, h, q) ==
  /\ q.h_state = h /\ q.notFinish = (p.h_state # "end_LF")
  /\ q.key_start = (IF h = "key" /\ p.h_state # "key" THEN i ELSE p.key_start)
  /\ q.key_end = (IF h = "colon" THEN i ELSE p.key_end)
  /\ q.value_start = (IF p.h_state = "spaces_after_colon" THEN i ELSE p.value_start)
  /\ q.value_end = (IF h = "CR" THEN i ELSE p.value_end)
  /\ q.now_read_line_begin =
       (IF h = "LF" \/ p.h_state = "end_LF" \/ (p.h_state = "start" /\ h = "key")
        THEN i ELSE p.now_read_line_begin)
  /\ q.headers =
       (IF h # "LF" THEN p.headers
        ELSE {x \in p.headers : x[1] # SubSeq(str, p.key_start, p.key_end - 1)}
             \cup {<<SubSeq(str, p.key_start, p.key_end - 1),
                     SubSeq(str, p.value_start, p.value_end - 1)>>})

\* Unless the loop has ended, it does.
LEMMA TurnIs ==
  ASSUME NEW str, NEW p, NEW i, NEW h, NEW q,
         p.h_state # "error", p.notFinish = TRUE,
         h = NextHeaderState(p.h_state, str[i]), q = HeaderStep(str, p, i)
  PROVE  Turn(str, p, i, h, q)
PROOF
  BY DEF HeaderStep, Turn

\* Field h of a request: a key and a value of V symbols, from position a on.
FieldIs(r, h, a, V, key, value) ==
  /\ a = r.at[h] /\ V >= 1 /\ r.at[h + 1] = a + 5 + V
  /\ key = r.fields[h].key /\ value = r.fields[h].value /\ V = Len(value)
  /\ key \notin {CR, LF, ":"} /\ \A j \in 1 .. V : value[j] # CR
  /\ value \in Seq(STRING)
  /\ r.message[a] = key /\ r.message[a + 1] = ":" /\ r.message[a + 2] = " "
  /\ \A j \in 1 .. V : r.message[a + 2 + j] = value[j]
  /\ r.message[a + 3 + V] = CR /\ r.message[a + 4 + V] = LF

\* Every field is one.
LEMMA FieldSymbols ==
  ASSUME NEW r, IsRequest(r), NEW h \in DOMAIN r.fields
  PROVE  \E a \in Nat, V \in Nat : \E key, value : FieldIs(r, h, a, V, key, value)
PROOF
<1>1. HasFields(r)
  BY DEF IsRequest
<1> DEFINE m == r.message
           a == r.at[h]
           key == r.fields[h].key
           value == r.fields[h].value
           V == Len(value)
<1>2. key \in STRING \ {CR, LF, ":"} /\ value \in Seq(STRING \ {CR}) \ {<<>>}
  <2> DEFINE X == [key : STRING \ {CR, LF, ":"}, value : Seq(STRING \ {CR}) \ {<<>>}]
  <2>1. r.fields \in Seq(X)
    BY <1>1 DEF HasFields
  <2> HIDE DEF X
  <2>2. r.fields[h] \in X
    BY <2>1, LenProperties, ElementOfSeq
  <2>3. QED
    BY <2>2 DEF X
<1>3. V \in Nat /\ V >= 1 /\ value \in Seq(STRING) /\ \A j \in 1 .. V : value[j] # CR
  <2>1. value \in Seq(STRING \ {CR}) /\ value # <<>>
    BY <1>2
  <2> HIDE DEF value
  <2>2. V \in Nat /\ V # 0
    BY <2>1, LenProperties, EmptySeq
  <2>3. \A j \in 1 .. V : value[j] \in STRING \ {CR}
    BY <2>1, ElementOfSeq
  <2>4. value \in Seq(STRING)
    BY <2>1, <2>2, <2>3, SeqDef
  <2>5. QED
    BY <2>2, <2>3, <2>4
<1>4. a \in Nat
  <2>1. /\ r.at \in Seq(Nat) /\ Len(r.at) = Len(r.fields) + 1
        /\ r.fields \in Seq([key : STRING \ {CR, LF, ":"}, value : Seq(STRING \ {CR}) \ {<<>>}])
    BY <1>1 DEF HasFields
  <2>2. h \in 1 .. Len(r.at)
    BY <2>1, LenProperties
  <2>3. QED
    BY <2>1, <2>2, ElementOfSeq
<1>5. /\ HasAt(m, a, <<key, ":", " ">>) /\ HasAt(m, a + 3, value)
      /\ HasAt(m, a + 3 + V, <<CR, LF>>) /\ r.at[h + 1] = a + 3 + V + 2
  BY <1>1 DEF HasFields
<1> HIDE DEF m, a, key, value
<1>6. m[a] = key /\ m[a + 1] = ":" /\ m[a + 2] = " "
  <2>1. \A i \in DOMAIN <<key, ":", " ">> : m[a + i - 1] = <<key, ":", " ">>[i]
    BY <1>5 DEF HasAt
  <2>2. a + 1 - 1 = a /\ a + 2 - 1 = a + 1 /\ a + 3 - 1 = a + 2
    BY <1>4
  <2>3. 1 \in DOMAIN <<key, ":", " ">> /\ 2 \in DOMAIN <<key, ":", " ">> /\ 3 \in DOMAIN <<key, ":", " ">>
    OBVIOUS
  <2>4. QED
    BY <2>1, <2>2, <2>3
<1>7. \A j \in 1 .. V : m[a + 2 + j] = value[j]
  <2>1. SUFFICES ASSUME NEW j \in 1 .. V PROVE m[a + 2 + j] = value[j]
    OBVIOUS
  <2>2. j \in DOMAIN value
    BY <1>3, LenProperties
  <2>3. m[a + 3 + j - 1] = value[j]
    BY <1>5, <2>2 DEF HasAt
  <2>4. a + 3 + j - 1 = a + 2 + j
    BY <1>4
  <2>5. QED
    BY <2>3, <2>4
<1>8. m[a + 3 + V] = CR /\ m[a + 4 + V] = LF
  <2>1. \A i \in DOMAIN <<CR, LF>> : m[a + 3 + V + i - 1] = <<CR, LF>>[i]
    BY <1>5 DEF HasAt
  <2>2. a + 3 + V + 1 - 1 = a + 3 + V /\ a + 3 + V + 2 - 1 = a + 4 + V
    BY <1>3, <1>4
  <2>3. 1 \in DOMAIN <<CR, LF>> /\ 2 \in DOMAIN <<CR, LF>>
    OBVIOUS
  <2>4. QED
    BY <2>1, <2>2, <2>3
<1>9. r.at[h + 1] = a + 5 + V
  <2>1. a + 3 + V + 2 = a + 5 + V
    BY <1>3, <1>4
  <2>2. QED
    BY <1>5, <2>1
<1>10. QED
  <2>1. FieldIs(r, h, a, V, key, value)
    BY <1>2, <1>3, <1>6, <1>7, <1>8, <1>9 DEF FieldIs, m, a, key, value
  <2>2. QED
    BY <1>3, <1>4, <2>1

\* Fields follow each other.
LEMMA FieldsAscend ==
  ASSUME NEW r, IsRequest(r)
  PROVE  \E H \in Nat, F \in Nat :
           /\ H = Len(r.fields) /\ DOMAIN r.fields = 1 .. H /\ F = Len(r.file)
           /\ r.at[1] = 10 + F /\ r.headerEnd = r.at[H + 1] + 1
           /\ \A h \in 1 .. H + 1 : r.at[h] \in Nat
           /\ \A h \in 1 .. H + 1 : \A g \in 1 .. h : r.at[g] <= r.at[h]
           /\ r.message[r.at[H + 1]] = CR /\ r.message[r.at[H + 1] + 1] = LF
PROOF
<1>1. HasFields(r) /\ HasLine(r)
  BY DEF IsRequest
<1>2. PICK H \in Nat : H = Len(r.fields) /\ DOMAIN r.fields = 1 .. H
  <2>1. r.fields \in Seq([key : STRING \ {CR, LF, ":"}, value : Seq(STRING \ {CR}) \ {<<>>}])
    BY <1>1 DEF HasFields
  <2>2. QED
    BY <2>1, LenProperties
<1>3. PICK F \in Nat : F = Len(r.file)
  <2>1. r.file \in Seq(STRING \ {CR, " "})
    BY <1>1 DEF HasLine
  <2>2. QED
    BY <2>1, LenProperties
<1>4. r.at \in Seq(Nat) /\ Len(r.at) = H + 1 /\ r.at[1] = 10 + F
      /\ r.headerEnd = r.at[H + 1] + 1 /\ HasAt(r.message, r.at[H + 1], <<CR, LF>>)
  BY <1>1, <1>2, <1>3 DEF HasFields
<1>5. \A h \in 1 .. H + 1 : r.at[h] \in Nat
  BY <1>4, ElementOfSeq
<1>6. \A h \in 1 .. H : r.at[h] < r.at[h + 1]
  <2>1. SUFFICES ASSUME NEW h \in 1 .. H PROVE r.at[h] < r.at[h + 1]
    OBVIOUS
  <2>2. h \in DOMAIN r.fields
    BY <1>2
  <2>3. PICK a \in Nat, V \in Nat : \E key, value : FieldIs(r, h, a, V, key, value)
    BY <2>2, FieldSymbols
  <2>4. a = r.at[h] /\ V >= 1 /\ r.at[h + 1] = a + 5 + V
    BY <2>3 DEF FieldIs
  <2>5. QED
    BY <2>4
<1> DEFINE T == {h \in Nat : h \in 1 .. H + 1 /\ \E g \in 1 .. h : ~(r.at[g] <= r.at[h])}
<1>7. T = {}
  <2>1. SUFFICES ASSUME T # {} PROVE FALSE
    OBVIOUS
  <2>2. PICK h \in T : \A k \in T : h <= k
    <3>1. T \subseteq Nat
      OBVIOUS
    <3> HIDE DEF T
    <3>2. QED
      BY <2>1, <3>1, LeastOf
  <2>3. PICK g \in 1 .. h : ~(r.at[g] <= r.at[h])
    OBVIOUS
  <2>4. h \in 1 .. H + 1 /\ h \in Nat
    OBVIOUS
  <2>5. r.at[h] \in Nat /\ g # h
    BY <1>5, <2>3, <2>4
  <2>6. g \in 1 .. h - 1 /\ h - 1 \in 1 .. H /\ h - 1 \in 1 .. H + 1 /\ h - 1 \in Nat
    BY <1>2, <2>3, <2>4, <2>5
  <2>7. h - 1 \notin T
    BY <2>2, <2>6
  <2>8. r.at[g] <= r.at[h - 1]
    BY <2>6, <2>7
  <2>9. r.at[h - 1] < r.at[h]
    <3>1. (h - 1) + 1 = h
      BY <2>4
    <3>2. QED
      BY <1>6, <2>6, <3>1
  <2>10. r.at[g] \in Nat /\ r.at[h - 1] \in Nat
    <3>1. g \in 1 .. H + 1
      BY <2>6
    <3>2. QED
      BY <1>5, <2>6, <3>1
  <2>11. QED
    BY <2>3, <2>5, <2>8, <2>9, <2>10
<1>8. \A h \in 1 .. H + 1 : \A g \in 1 .. h : r.at[g] <= r.at[h]
  BY <1>7
<1>9. r.message[r.at[H + 1]] = CR /\ r.message[r.at[H + 1] + 1] = LF
  <2>1. PICK e \in Nat : e = r.at[H + 1]
    BY <1>2, <1>5
  <2>2. \A i \in DOMAIN <<CR, LF>> : r.message[e + i - 1] = <<CR, LF>>[i]
    BY <1>4, <2>1 DEF HasAt
  <2>3. e + 1 - 1 = e /\ e + 2 - 1 = e + 1
    BY <2>1
  <2>4. 1 \in DOMAIN <<CR, LF>> /\ 2 \in DOMAIN <<CR, LF>>
    OBVIOUS
  <2>5. QED
    BY <2>1, <2>2, <2>3, <2>4
<1>10. QED
  BY <1>2, <1>3, <1>4, <1>5, <1>8, <1>9

\* The first h headers.
HeadersTo(r, h) == {<<<<r.fields[g].key>>, r.fields[g].value>> : g \in 1 .. h}

\* A value the parser refuses.
Overlong(r, h) == Contains(r.fields[h].value, "overlong")

\* The loop has come to symbol k of the message, which is in field h; str begins
\* after symbol L.
InField(r, L, h, k, p) ==
  LET a == r.at[h]
      value == r.fields[h].value
      cr == a + 3 + Len(value)
  IN  /\ h \in 1 .. Len(r.fields) /\ a <= k /\ k < r.at[h + 1]
      /\ p.notFinish = TRUE /\ p.key_start = a - L
      /\ \A g \in 1 .. h - 1 : ~Overlong(r, g)
      /\ k < cr + 1 => p.headers = HeadersTo(r, h - 1)
      /\ k > a => p.key_end = a + 1 - L
      /\ k > a + 2 => p.value_start = a + 3 - L
      /\ \/ k = a /\ p.h_state = "key"
         \/ k = a + 1 /\ p.h_state = "colon"
         \/ k = a + 2 /\ p.h_state = "spaces_after_colon"
         \/ /\ a + 3 <= k /\ k < cr /\ p.h_state = "value"
            /\ \A j \in 1 .. k - a - 2 : value[j] # "overlong"
         \/ /\ k = cr /\ p.h_state = "CR" /\ p.value_end = k - L
            /\ ~Overlong(r, h)
         \/ /\ k = cr + 1 /\ p.h_state = "LF" /\ p.now_read_line_begin = k - L
            /\ ~Overlong(r, h) /\ p.headers = HeadersTo(r, h)

\* It has come to the end of the headers.
AfterFields(r, L, k, p) ==
  LET e == r.at[Len(r.fields) + 1]
  IN  /\ r.fields # <<>> /\ p.headers = HeadersTo(r, Len(r.fields))
      /\ \A g \in 1 .. Len(r.fields) : ~Overlong(r, g)
      /\ \/ /\ k = e /\ p.h_state = "end_CR" /\ p.notFinish = TRUE
            /\ p.now_read_line_begin = e - 1 - L
         \/ /\ k = e + 1 /\ p.h_state = "end_LF" /\ p.notFinish = TRUE
            /\ p.now_read_line_begin = e - 1 - L
         \/ /\ k >= e + 2 /\ p.h_state = "end_LF" /\ p.notFinish = FALSE
            /\ p.now_read_line_begin = e + 2 - L

\* It is before the first field, or there is none.
BeforeFields(r, k, p) ==
  /\ k < r.at[1] \/ r.fields = <<>>
  /\ p.h_state = "start" /\ p.notFinish = TRUE /\ p.headers = {}

\* It has given up.
Refused(r, p) == p.h_state = "error" /\ \E h \in 1 .. Len(r.fields) : Overlong(r, h)

\* What the loop has found.
Scanned(r, L, k, p) ==
  \/ BeforeFields(r, k, p) \/ (\E h \in 1 .. Len(r.fields) : InField(r, L, h, k, p))
  \/ AfterFields(r, L, k, p) \/ Refused(r, p)

\* Part of a sequence.
LEMMA PartIs ==
  ASSUME NEW S, NEW s \in Seq(S), NEW u \in Int, NEW v \in Int, 1 <= u, v <= Len(s), u <= v + 1
  PROVE  /\ SubSeq(s, u, v) \in Seq(S) /\ Len(SubSeq(s, u, v)) = v - u + 1
         /\ \A i \in 1 .. v - u + 1 : SubSeq(s, u, v)[i] = s[u + i - 1]
PROOF
<1>1. Len(s) \in Nat
  BY LenProperties
<1>2. \A i \in u .. v : s[i] \in S
  <2>1. SUFFICES ASSUME NEW i \in u .. v PROVE s[i] \in S
    OBVIOUS
  <2>2. i \in 1 .. Len(s)
    BY <1>1
  <2>3. QED
    BY <2>2, ElementOfSeq
<1>3. /\ SubSeq(s, u, v) \in Seq(S) /\ Len(SubSeq(s, u, v)) = IF u <= v THEN v - u + 1 ELSE 0
      /\ \A i \in 1 .. v - u + 1 : SubSeq(s, u, v)[i] = s[u + i - 1]
  BY <1>2, SubSeqProperties
<1>4. ~(u <= v) => v - u + 1 = 0
  OBVIOUS
<1>5. QED
  BY <1>3, <1>4

\* It is the sequence with the same symbols.
LEMMA PartEquals ==
  ASSUME NEW S, NEW s \in Seq(S), NEW u \in Int, NEW v \in Int, 1 <= u, v <= Len(s), u <= v + 1,
         NEW t \in Seq(S), Len(t) = v - u + 1, \A i \in 1 .. Len(t) : t[i] = s[u + i - 1]
  PROVE  SubSeq(s, u, v) = t
PROOF
<1>1. PICK w : w = SubSeq(s, u, v)
  OBVIOUS
<1>2. w \in Seq(S) /\ Len(w) = Len(t) /\ \A i \in 1 .. Len(t) : w[i] = t[i]
  BY <1>1, PartIs
<1>3. w = t
  BY <1>2, SeqEqual
<1>4. QED
  BY <1>1, <1>3

\* str is what has been read of a request, up to its symbol n, after the line.
Text(r, L, n, str) ==
  /\ IsRequest(r) /\ L = 8 + Len(r.file)
  /\ n \in Nat /\ L <= n /\ n <= Len(r.message) /\ str = SubSeq(r.message, L + 1, n)

\* Its symbols.
LEMMA TextIs ==
  ASSUME NEW r, NEW L, NEW n, NEW str, Text(r, L, n, str)
  PROVE  /\ L \in Nat /\ n \in Nat /\ L <= n /\ n <= Len(r.message) /\ Len(r.message) \in Nat
         /\ L + 2 = r.at[1]
         /\ str \in Seq(STRING) /\ Len(str) = n - L
         /\ \A i \in 1 .. n - L : str[i] = r.message[L + i]
PROOF
<1>1. IsRequest(r) /\ n \in Nat /\ L = 8 + Len(r.file) /\ L <= n /\ n <= Len(r.message)
      /\ str = SubSeq(r.message, L + 1, n) /\ r.message \in Seq(STRING)
  BY DEF Text, IsRequest
<1>2. PICK F \in Nat : F = Len(r.file) /\ r.at[1] = 10 + F
  BY <1>1, FieldsAscend
<1>3. L \in Nat /\ L + 2 = r.at[1] /\ L + 1 >= 1
  BY <1>1, <1>2
<1>4. PICK m : m = r.message
  OBVIOUS
<1>5. Len(m) \in Nat /\ m \in Seq(STRING) /\ str = SubSeq(m, L + 1, n) /\ n <= Len(m)
  BY <1>1, <1>4, LenProperties
<1>6. str \in Seq(STRING) /\ Len(str) = n - L /\ \A i \in 1 .. n - L : str[i] = m[L + i]
  <2>0. L \in Nat /\ n \in Int /\ L <= n
    BY <1>1, <1>3
  <2>1. PICK u \in Int : u = L + 1 /\ 1 <= u /\ u <= n + 1 /\ n - u + 1 = n - L
    BY ONLY <2>0
  <2>2. /\ SubSeq(m, u, n) \in Seq(STRING) /\ Len(SubSeq(m, u, n)) = n - u + 1
        /\ \A i \in 1 .. n - u + 1 : SubSeq(m, u, n)[i] = m[u + i - 1]
    BY <1>5, <2>0, <2>1, PartIs
  <2>3. \A i \in 1 .. n - L : u + i - 1 = L + i
    BY <1>1, <1>3, <2>1
  <2>4. QED
    BY <1>5, <2>1, <2>2, <2>3
<1>7. QED
  BY <1>1, <1>3, <1>4, <1>5, <1>6

\* A field has been read to its end.
FieldRead(r, L, n, str, h, a, V, key, value) ==
  /\ Text(r, L, n, str) /\ FieldIs(r, h, a, V, key, value)
  /\ a \in Nat /\ V \in Nat /\ L < a /\ a + 4 + V <= n

\* The key and the value that are put into headers.
LEMMA FieldTexts ==
  ASSUME NEW r, NEW L, NEW n, NEW str, NEW h, NEW a, NEW V, NEW key, NEW value,
         FieldRead(r, L, n, str, h, a, V, key, value)
  PROVE  /\ SubSeq(str, a - L, (a + 1 - L) - 1) = <<key>>
         /\ SubSeq(str, a + 3 - L, (a + 3 + V - L) - 1) = value
PROOF
<1>0. /\ Text(r, L, n, str) /\ FieldIs(r, h, a, V, key, value)
      /\ a \in Nat /\ V \in Nat /\ L < a /\ a + 4 + V <= n
  BY DEF FieldRead
<1>1. /\ L \in Nat /\ n \in Nat /\ str \in Seq(STRING) /\ Len(str) = n - L
      /\ \A i \in 1 .. n - L : str[i] = r.message[L + i]
  BY <1>0, TextIs
<1>2. /\ V >= 1 /\ V = Len(value) /\ value \in Seq(STRING) /\ r.message[a] = key
      /\ \A j \in 1 .. V : r.message[a + 2 + j] = value[j]
  BY <1>0 DEF FieldIs
<1>3. SubSeq(str, a - L, (a + 1 - L) - 1) = <<key>>
  <2>1. (a + 1 - L) - 1 = a - L /\ a - L \in 1 .. n - L /\ L + (a - L) = a
    BY <1>0, <1>1
  <2>2. str[a - L] = key
    BY <1>0, <1>1, <1>2, <2>1
  <2>3. PICK u \in Int : u = a - L /\ 1 <= u /\ u <= Len(str)
    BY <1>0, <1>1, <2>1
  <2>4. str[u] \in STRING
    BY <1>0, <1>1, <2>3, ElementOfSeq
  <2>5. PICK t : t = <<str[u]>>
    OBVIOUS
  <2>6. t \in Seq(STRING) /\ Len(t) = u - u + 1 /\ u <= u + 1
        /\ \A i \in 1 .. Len(t) : t[i] = str[u + i - 1]
    BY <2>3, <2>4, <2>5
  <2>7. SubSeq(str, u, u) = t
    BY <1>0, <1>1, <2>3, <2>6, PartEquals
  <2>8. QED
    BY <2>1, <2>2, <2>3, <2>5, <2>7
<1>4. PICK u \in Nat, v \in Nat : u = a + 3 - L /\ v = (a + 3 + V - L) - 1
  BY <1>0, <1>1
<1>5. u >= 1 /\ v = u + V - 1 /\ v <= Len(str) /\ \A j \in 1 .. V : str[u + j - 1] = value[j]
  <2>1. u >= 1 /\ v = u + V - 1 /\ v <= n - L
    BY <1>0, <1>1, <1>2, <1>4
  <2>2. ASSUME NEW j \in 1 .. V PROVE str[u + j - 1] = value[j]
    <3>1. u + j - 1 \in 1 .. n - L /\ L + (u + j - 1) = a + 2 + j
      BY <1>0, <1>1, <1>2, <1>4, <2>1
    <3>2. QED
      BY <1>0, <1>1, <1>2, <3>1
  <2>3. QED
    BY <1>0, <1>1, <2>1, <2>2
<1>6. SubSeq(str, u, v) = value
  <2>1. Len(value) = v - u + 1 /\ u <= v + 1
    BY <1>2, <1>4, <1>5
  <2>2. \A j \in 1 .. Len(value) : value[j] = str[u + j - 1]
    BY <1>2, <1>5
  <2>3. QED
    BY <1>0, <1>1, <1>2, <1>4, <1>5, <2>1, <2>2, PartEquals
<1>7. QED
  BY <1>3, <1>4, <1>6

\* Headers are added one by one.
LEMMA HeaderAdded ==
  ASSUME NEW r, IsRequest(r), NEW h \in DOMAIN r.fields, NEW key, NEW value,
         key = r.fields[h].key, value = r.fields[h].value
  PROVE  {x \in HeadersTo(r, h - 1) : x[1] # <<key>>} \cup {<<<<key>>, value>>} = HeadersTo(r, h)
PROOF
<1>1. PICK H \in Nat : H = Len(r.fields) /\ DOMAIN r.fields = 1 .. H
  BY FieldsAscend
<1>2. h \in 1 .. H /\ \A g \in 1 .. H : r.fields[g].key = r.fields[h].key => g = h
  BY <1>1 DEF IsRequest, HasFields
<1>3. \A g \in 1 .. h : g \in 1 .. h - 1 \/ g = h
  BY <1>1, <1>2
<1>4. \A g \in 1 .. h - 1 : g \in 1 .. h /\ g \in 1 .. H /\ g # h
  BY <1>1, <1>2
<1>5. h \in 1 .. h
  BY <1>1, <1>2
<1>6. ASSUME NEW x \in HeadersTo(r, h - 1) PROVE x[1] # <<key>> /\ x \in HeadersTo(r, h)
  <2>1. PICK g \in 1 .. h - 1 : x = <<<<r.fields[g].key>>, r.fields[g].value>>
    BY <1>6 DEF HeadersTo
  <2>2. r.fields[g].key # key
    BY <1>2, <1>4
  <2>3. x[1] = <<r.fields[g].key>>
    BY <2>1
  <2>4. <<r.fields[g].key>>[1] = r.fields[g].key /\ <<key>>[1] = key
    OBVIOUS
  <2>5. x[1] # <<key>>
    BY <2>2, <2>3, <2>4
  <2>6. QED
    BY <1>4, <2>1, <2>5 DEF HeadersTo
<1>7. ASSUME NEW x \in HeadersTo(r, h) PROVE x \in HeadersTo(r, h - 1) \/ x = <<<<key>>, value>>
  BY <1>3, <1>7 DEF HeadersTo
<1>8. <<<<key>>, value>> \in HeadersTo(r, h)
  BY <1>5 DEF HeadersTo
<1>9. QED
  BY <1>6, <1>7, <1>8

\* InField, with the values of FieldIs.
InPart(r, L, h, k, p, a, V, value) ==
  /\ a <= k /\ k < a + 5 + V
  /\ p.notFinish = TRUE /\ p.key_start = a - L
  /\ \A g \in 1 .. h - 1 : ~Overlong(r, g)
  /\ k < a + 4 + V => p.headers = HeadersTo(r, h - 1)
  /\ k > a => p.key_end = a + 1 - L
  /\ k > a + 2 => p.value_start = a + 3 - L
  /\ \/ k = a /\ p.h_state = "key"
     \/ k = a + 1 /\ p.h_state = "colon"
     \/ k = a + 2 /\ p.h_state = "spaces_after_colon"
     \/ /\ a + 3 <= k /\ k < a + 3 + V /\ p.h_state = "value"
        /\ \A j \in 1 .. k - a - 2 : value[j] # "overlong"
     \/ /\ k = a + 3 + V /\ p.h_state = "CR" /\ p.value_end = k - L
        /\ ~Overlong(r, h)
     \/ /\ k = a + 4 + V /\ p.h_state = "LF" /\ p.now_read_line_begin = k - L
        /\ ~Overlong(r, h) /\ p.headers = HeadersTo(r, h)

\* They are the same.
LEMMA InFieldIs ==
  ASSUME NEW r, IsRequest(r), NEW L, NEW h \in DOMAIN r.fields, NEW k \in Nat, NEW p,
         NEW a \in Nat, NEW V \in Nat, NEW key, NEW value, FieldIs(r, h, a, V, key, value)
  PROVE  InField(r, L, h, k, p) <=> InPart(r, L, h, k, p, a, V, value)
PROOF
<1>1. h \in 1 .. Len(r.fields)
  BY FieldsAscend
<1>2. r.at[h] = a /\ r.fields[h].value = value /\ Len(value) = V /\ r.at[h + 1] = a + 5 + V
  BY DEF FieldIs
<1>3. a + 3 + V + 1 = a + 4 + V
  OBVIOUS
<1>4. QED
  BY <1>1, <1>2, <1>3, Zenon DEF InField, InPart

\* A turn of the loop within a field.
LEMMA FieldTurn ==
  ASSUME NEW r, NEW L, NEW n, NEW str, Text(r, L, n, str), NEW h \in DOMAIN r.fields,
         NEW k \in Nat, k < n, NEW p, InField(r, L, h, k, p),
         NEW q, q = HeaderStep(str, p, k + 1 - L)
  PROVE  Scanned(r, L, k + 1, q)
PROOF
<1>1. PICK a \in Nat, V \in Nat : \E key, value : FieldIs(r, h, a, V, key, value)
  BY FieldSymbols DEF Text
<1>2. PICK key, value : FieldIs(r, h, a, V, key, value)
  BY <1>1
<1>3. /\ L \in Nat /\ n \in Nat /\ IsRequest(r)
      /\ \A i \in 1 .. n - L : str[i] = r.message[L + i]
  BY TextIs DEF Text
<1>4. PICK H \in Nat : /\ H = Len(r.fields) /\ DOMAIN r.fields = 1 .. H /\ L + 2 = r.at[1]
                       /\ \A g \in 1 .. H + 1 : r.at[g] \in Nat
                       /\ \A g \in 1 .. H + 1 : \A f \in 1 .. g : r.at[f] <= r.at[g]
                       /\ r.message[r.at[H + 1]] = CR
  BY <1>3, FieldsAscend, TextIs
<1>5. L < a
  <2>1. h \in 1 .. H + 1 /\ 1 \in 1 .. h
    BY <1>4
  <2>2. r.at[1] <= r.at[h] /\ r.at[h] = a
    BY <1>2, <1>4, <2>1 DEF FieldIs
  <2>3. QED
    BY <1>3, <1>4, <2>2
<1>6. InPart(r, L, h, k, p, a, V, value)
  BY <1>2, <1>3, InFieldIs
<1>7. PICK i \in Int, k1 \in Nat : i = k + 1 - L /\ k1 = k + 1 /\ str[i] = r.message[k1]
  <2>1. k + 1 - L \in 1 .. n - L /\ L + (k + 1 - L) = k + 1
    BY <1>3, <1>5, <1>6 DEF InPart
  <2>2. str[k + 1 - L] = r.message[k + 1]
    BY <1>3, <2>1
  <2>3. k + 1 \in Nat /\ k + 1 - L \in Int
    BY <1>3
  <2>4. QED
    BY <2>2, <2>3
<1> DEFINE c == r.message[k1]
           s == NextHeaderState(p.h_state, c)
<1> HIDE DEF c, s
<1>8. p.h_state # "error" /\ p.notFinish = TRUE
  BY <1>6 DEF InPart
<1>9. q = HeaderStep(str, p, i) /\ s = NextHeaderState(p.h_state, str[i])
  BY <1>7 DEF c, s
<1>10. Turn(str, p, i, s, q)
  BY <1>8, <1>9, TurnIs
<1>22. /\ p.key_start = a - L /\ i = k1 - L
       /\ \A g \in 1 .. h - 1 : ~Overlong(r, g)
       /\ k1 < a + 5 + V => p.headers = HeadersTo(r, h - 1)
       /\ k > a => p.key_end = a + 1 - L
       /\ k > a + 2 => p.value_start = a + 3 - L
  <2>1. i = k1 - L /\ (k1 < a + 5 + V => k < a + 4 + V)
    BY <1>3, <1>7
  <2>2. QED
    BY <1>6, <2>1 DEF InPart
<1>25. i = k1 - L
  BY <1>3, <1>7
<1>11. ASSUME InPart(r, L, h, k1, q, a, V, value) PROVE Scanned(r, L, k + 1, q)
  <2>1. InField(r, L, h, k1, q)
    BY <1>2, <1>3, <1>11, InFieldIs
  <2>2. QED
    BY <1>4, <1>7, <2>1 DEF Scanned
<1>12. /\ r.message[a] = key /\ r.message[a + 1] = ":" /\ r.message[a + 2] = " "
       /\ \A j \in 1 .. V : r.message[a + 2 + j] = value[j]
       /\ r.message[a + 3 + V] = CR /\ r.message[a + 4 + V] = LF
       /\ V >= 1 /\ \A j \in 1 .. V : value[j] # CR
  BY <1>2 DEF FieldIs
<1>18. Overlong(r, h) <=> \E j \in 1 .. V : value[j] = "overlong"
  <2>1. value = r.fields[h].value /\ value \in Seq(STRING) /\ V = Len(value)
    BY <1>2 DEF FieldIs
  <2>2. DOMAIN value = 1 .. V
    BY <2>1, LenProperties
  <2>3. QED
    BY <2>1, <2>2 DEF Overlong, Contains
<1>17. ASSUME q.h_state = "error", NEW j \in 1 .. V, value[j] = "overlong"
       PROVE  Scanned(r, L, k + 1, q)
  <2>1. Overlong(r, h)
    BY <1>17, <1>18
  <2>2. QED
    BY <1>4, <1>17, <2>1 DEF Scanned, Refused
<1>23. V >= 1
  BY <1>2 DEF FieldIs
<1>24. q.h_state = s
  BY <1>10 DEF Turn
<1>13. CASE k = a /\ p.h_state = "key"
  <2>0. k1 = a + 1
    BY <1>7, <1>13
  <2>1. c = ":" /\ s = "colon"
    BY <1>12, <1>13, <2>0 DEF NextHeaderState, c, s
  <2>4. /\ q.h_state = "colon" /\ q.notFinish = TRUE /\ q.key_start = p.key_start
        /\ q.key_end = i /\ q.headers = p.headers
    BY <1>10, <1>13, <2>1, Zenon DEF Turn
  <2>5. k1 < a + 5 + V /\ k1 < a + 4 + V /\ ~(k1 > a + 2) /\ a <= k1
    BY <1>23, <2>0
  <2>6. i = a + 1 - L
    BY <1>3, <1>25, <2>0
  <2>2. InPart(r, L, h, k1, q, a, V, value)
    BY <1>22, <2>0, <2>4, <2>5, <2>6, Zenon DEF InPart
  <2>3. QED
    BY <1>11, <2>2
<1>14. CASE k = a + 1 /\ p.h_state = "colon"
  <2>0. k1 = a + 2
    BY <1>7, <1>14
  <2>1. c = " " /\ s = "spaces_after_colon"
    BY <1>12, <1>14, <2>0 DEF NextHeaderState, c, s
  <2>4. /\ q.h_state = "spaces_after_colon" /\ q.notFinish = TRUE
        /\ q.key_start = p.key_start /\ q.key_end = p.key_end /\ q.headers = p.headers
    BY <1>10, <1>14, <2>1, Zenon DEF Turn
  <2>5. k1 < a + 5 + V /\ k1 < a + 4 + V /\ ~(k1 > a + 2) /\ a <= k1 /\ k > a
    BY <1>7, <1>23, <2>0
  <2>2. InPart(r, L, h, k1, q, a, V, value)
    BY <1>22, <2>0, <2>4, <2>5, Zenon DEF InPart
  <2>3. QED
    BY <1>11, <2>2
<1>15. CASE k = a + 2 /\ p.h_state = "spaces_after_colon"
  <2>0. k1 = a + 3 /\ a + 2 + 1 = k1
    BY <1>7, <1>15
  <2>1. 1 \in 1 .. V /\ k1 = a + 3 /\ a + 2 + 1 = k1
    BY <1>23, <2>0
  <2>2. c = value[1]
    BY <1>7, <1>12, <2>1 DEF c
  <2>3. CASE c = "overlong"
    <3>1. s = "error"
      BY <1>7, <1>15, <2>3 DEF NextHeaderState, c, s
    <3>2. QED
      BY <1>17, <1>24, <2>1, <2>2, <2>3, <3>1
  <2>4. CASE c # "overlong"
    <3>1. s = "value"
      BY <1>7, <1>15, <2>4 DEF NextHeaderState, c, s
    <3>2. \A j \in 1 .. k1 - a - 2 : value[j] # "overlong"
      BY <2>1, <2>2, <2>4
    <3>5. /\ q.h_state = "value" /\ q.notFinish = TRUE /\ q.value_start = i
          /\ q.key_start = p.key_start /\ q.key_end = p.key_end /\ q.headers = p.headers
      BY <1>10, <1>15, <3>1, Zenon DEF Turn
    <3>6. /\ k1 < a + 5 + V /\ k1 < a + 4 + V /\ a <= k1 /\ k > a /\ a + 3 <= k1
          /\ k1 < a + 3 + V /\ i = a + 3 - L
      BY <1>3, <1>7, <1>23, <1>25, <2>0
    <3>3. InPart(r, L, h, k1, q, a, V, value)
      BY <1>22, <3>2, <3>5, <3>6, Zenon DEF InPart
    <3>4. QED
      BY <1>11, <3>3
  <2>5. QED
    BY <2>3, <2>4
<1>16. CASE /\ a + 3 <= k /\ k < a + 3 + V /\ p.h_state = "value"
            /\ \A j \in 1 .. k - a - 2 : value[j] # "overlong"
  <2>1. CASE k1 < a + 3 + V
    <3>1. PICK j \in 1 .. V : j = k1 - a - 2 /\ a + 2 + j = k1
      BY <1>7, <1>16, <2>1
    <3>2. c = value[j] /\ c # CR
      BY <1>7, <1>12, <3>1 DEF c
    <3>3. CASE c = "overlong"
      <4>1. s = "error"
        BY <1>7, <1>16, <3>2, <3>3 DEF NextHeaderState, c, s
      <4>2. QED
        BY <1>17, <1>24, <3>2, <3>3, <4>1
    <3>4. CASE c # "overlong"
      <4>1. s = "value"
        BY <1>7, <1>16, <3>2, <3>4 DEF NextHeaderState, c, s
      <4>2. \A x \in 1 .. k1 - a - 2 : x \in 1 .. k - a - 2 \/ x = j
        BY <1>7, <3>1
      <4>3. \A x \in 1 .. k1 - a - 2 : value[x] # "overlong"
        BY <1>16, <3>2, <3>4, <4>2
      <4>6. /\ q.h_state = "value" /\ q.notFinish = TRUE /\ q.value_start = p.value_start
            /\ q.key_start = p.key_start /\ q.key_end = p.key_end /\ q.headers = p.headers
        BY <1>10, <1>16, <4>1, Zenon DEF Turn
      <4>7. /\ k1 < a + 5 + V /\ k1 < a + 4 + V /\ a <= k1 /\ k > a /\ k > a + 2 /\ a + 3 <= k1
            /\ k1 < a + 3 + V
        BY <1>7, <1>16, <1>23, <2>1
      <4>4. InPart(r, L, h, k1, q, a, V, value)
        BY <1>22, <4>3, <4>6, <4>7, Zenon DEF InPart
      <4>5. QED
        BY <1>11, <4>4
    <3>5. QED
      BY <3>3, <3>4
  <2>2. CASE k1 = a + 3 + V
    <3>1. c = CR /\ s = "CR"
      BY <1>7, <1>12, <1>16, <2>2 DEF NextHeaderState, c, s, CR, LF
    <3>2. ~Overlong(r, h)
      <4>1. \A j \in 1 .. V : j \in 1 .. k - a - 2
        BY <1>7, <2>2
      <4>2. \A j \in 1 .. V : value[j] # "overlong"
        BY <1>16, <4>1
      <4>3. QED
        BY <1>18, <4>2
    <3>5. /\ q.h_state = "CR" /\ q.notFinish = TRUE /\ q.value_start = p.value_start
          /\ q.key_start = p.key_start /\ q.key_end = p.key_end /\ q.headers = p.headers
          /\ q.value_end = i
      BY <1>10, <1>16, <3>1, Zenon DEF Turn
    <3>6. k1 < a + 5 + V /\ k1 < a + 4 + V /\ a <= k1 /\ k > a /\ k > a + 2
      BY <1>7, <1>16, <1>23, <2>2
    <3>3. InPart(r, L, h, k1, q, a, V, value)
      BY <1>22, <2>2, <3>2, <3>5, <3>6, Zenon DEF InPart
    <3>4. QED
      BY <1>11, <3>3
  <2>3. QED
    BY <1>7, <1>16, <2>1, <2>2
<1>19. CASE k = a + 3 + V /\ p.h_state = "CR" /\ p.value_end = k - L /\ ~Overlong(r, h)
  <2>1. k1 = a + 4 + V
    BY <1>7, <1>19
  <2>2. c = LF /\ s = "LF"
    BY <1>7, <1>12, <1>19, <2>1 DEF NextHeaderState, c, s
  <2>3. SubSeq(str, p.key_start, p.key_end - 1) = <<key>>
        /\ SubSeq(str, p.value_start, p.value_end - 1) = value
    <3>1. /\ p.key_start = a - L /\ p.key_end = a + 1 - L
          /\ p.value_start = a + 3 - L /\ p.value_end = a + 3 + V - L
      <4>1. k > a /\ k > a + 2 /\ k - L = a + 3 + V - L
        BY <1>3, <1>19, <1>23
      <4>2. QED
        BY <1>19, <1>22, <4>1, Zenon
    <3>2. a + 4 + V <= n
      BY <1>3, <1>7, <2>1
    <3>3. /\ SubSeq(str, a - L, (a + 1 - L) - 1) = <<key>>
          /\ SubSeq(str, a + 3 - L, (a + 3 + V - L) - 1) = value
      <4>1. FieldRead(r, L, n, str, h, a, V, key, value)
        BY <1>2, <1>5, <3>2 DEF FieldRead
      <4>2. QED
        BY <4>1, FieldTexts
    <3>4. QED
      BY <3>1, <3>3, Zenon
  <2>4. p.headers = HeadersTo(r, h - 1)
    BY <1>6, <1>19 DEF InPart
  <2>5. q.headers = HeadersTo(r, h)
    <3>1. key = r.fields[h].key /\ value = r.fields[h].value
      BY <1>2 DEF FieldIs
    <3>2. {x \in HeadersTo(r, h - 1) : x[1] # <<key>>} \cup {<<<<key>>, value>>} = HeadersTo(r, h)
      BY <1>3, <3>1, HeaderAdded
    <3>3. QED
      BY <1>10, <2>2, <2>3, <2>4, <3>2, Zenon DEF Turn
  <2>8. /\ q.h_state = "LF" /\ q.notFinish = TRUE /\ q.value_start = p.value_start
        /\ q.key_start = p.key_start /\ q.key_end = p.key_end /\ q.now_read_line_begin = i
    BY <1>10, <1>19, <2>2, Zenon DEF Turn
  <2>9. k1 < a + 5 + V /\ ~(k1 < a + 4 + V) /\ a <= k1 /\ k > a /\ k > a + 2
    BY <1>7, <1>19, <1>23, <2>1
  <2>6. InPart(r, L, h, k1, q, a, V, value)
    BY <1>19, <1>22, <2>1, <2>5, <2>8, <2>9, Zenon DEF InPart
  <2>7. QED
    BY <1>11, <2>6
<1>20. CASE /\ k = a + 4 + V /\ p.h_state = "LF" /\ p.now_read_line_begin = k - L
            /\ ~Overlong(r, h) /\ p.headers = HeadersTo(r, h)
  <2>0. r.at[h + 1] = k1 /\ \A g \in 1 .. h : ~Overlong(r, g)
    <3>1. \A g \in 1 .. h : g \in 1 .. h - 1 \/ g = h
      BY <1>4
    <3>2. r.at[h + 1] = a + 5 + V
      BY <1>2 DEF FieldIs
    <3>3. QED
      BY <1>6, <1>7, <1>20, <3>1, <3>2 DEF InPart
  <2>1. CASE h = H
    <3>1. c = CR /\ s = "end_CR"
      BY <1>4, <1>7, <1>20, <2>0, <2>1 DEF NextHeaderState, c, s
    <3>2. r.fields # <<>>
      <4>1. 1 <= Len(r.fields)
        BY <1>4
      <4>2. QED
        BY <4>1
    <3>3. q.headers = p.headers /\ q.notFinish = TRUE /\ q.now_read_line_begin = k - L
      BY <1>10, <1>20, <3>1, Zenon DEF Turn
    <3>4. k = k1 - 1
      BY <1>7
    <3>5. AfterFields(r, L, k1, q)
      BY <1>4, <1>20, <1>24, <2>0, <2>1, <3>1, <3>2, <3>3, <3>4 DEF AfterFields
    <3>6. QED
      BY <1>7, <3>5 DEF Scanned
  <2>2. CASE h # H
    <3>1. PICK f \in DOMAIN r.fields : f = h + 1 /\ f - 1 = h
      BY <1>4, <2>2
    <3>2. PICK b \in Nat, W \in Nat : \E key2, value2 : FieldIs(r, f, b, W, key2, value2)
      BY <1>3, FieldSymbols
    <3>3. PICK key2, value2 : FieldIs(r, f, b, W, key2, value2)
      BY <3>2
    <3>4. b = k1 /\ r.message[b] = key2 /\ key2 # CR
      BY <2>0, <3>1, <3>3 DEF FieldIs
    <3>5. s = "key"
      BY <1>7, <1>20, <3>4 DEF NextHeaderState, c, s
    <3>6. q.headers = HeadersTo(r, f - 1) /\ q.notFinish = TRUE /\ q.key_start = b - L
      <4>1. q.headers = p.headers /\ q.notFinish = TRUE /\ q.key_start = i
        BY <1>10, <1>20, <3>5, Zenon DEF Turn
      <4>2. QED
        BY <1>20, <1>22, <3>1, <3>4, <4>1
    <3>7. InPart(r, L, f, k1, q, b, W, value2)
      BY <1>24, <2>0, <3>1, <3>4, <3>5, <3>6 DEF InPart
    <3>8. InField(r, L, f, k1, q)
      BY <1>3, <3>3, <3>7, InFieldIs
    <3>9. QED
      BY <1>4, <1>7, <3>8 DEF Scanned
  <2>3. QED
    BY <2>1, <2>2
<1>21. QED
  BY <1>6, <1>13, <1>14, <1>15, <1>16, <1>19, <1>20 DEF InPart

\* The request line.
LineIs(r, m, F) ==
  /\ m = r.message /\ m \in Seq(STRING) /\ F = Len(r.file)
  /\ m[1] = r.method /\ m[2] = " " /\ m[3] = "/"
  /\ \A j \in 1 .. F : m[3 + j] = r.file[j] /\ r.file[j] \notin {CR, " "}
  /\ m[4 + F] = " " /\ m[5 + F] = "HTTP" /\ m[6 + F] = "/" /\ m[7 + F] = r.version
  /\ m[8 + F] = CR /\ m[9 + F] = LF

\* Every request has one.
LEMMA LineSymbols ==
  ASSUME NEW r, IsRequest(r)
  PROVE  \E F \in Nat : LineIs(r, r.message, F)
PROOF
<1>1. HasLine(r) /\ r.message \in Seq(STRING)
  BY DEF IsRequest
<1>2. r.file \in Seq(STRING \ {CR, " "})
  BY <1>1 DEF HasLine
<1>3. PICK F \in Nat : F = Len(r.file) /\ DOMAIN r.file = 1 .. F
  BY <1>2, LenProperties
<1>4. PICK m : m = r.message
  OBVIOUS
<1>5. m[1] = r.method /\ m[2] = " " /\ m[3] = "/"
  <2>1. \A i \in DOMAIN <<r.method, " ", "/">> : m[1 + i - 1] = <<r.method, " ", "/">>[i]
    BY <1>1, <1>4 DEF HasLine, HasAt
  <2>2. 1 + 1 - 1 = 1 /\ 1 + 2 - 1 = 2 /\ 1 + 3 - 1 = 3
    OBVIOUS
  <2>3. \A i \in {1, 2, 3} : i \in DOMAIN <<r.method, " ", "/">>
    OBVIOUS
  <2>4. QED
    BY <2>1, <2>2, <2>3
<1>6. \A j \in 1 .. F : m[3 + j] = r.file[j] /\ r.file[j] \notin {CR, " "}
  <2>1. SUFFICES ASSUME NEW j \in 1 .. F
                 PROVE  m[3 + j] = r.file[j] /\ r.file[j] \notin {CR, " "}
    OBVIOUS
  <2>2. m[4 + j - 1] = r.file[j]
    BY <1>1, <1>3, <1>4 DEF HasLine, HasAt
  <2>3. 4 + j - 1 = 3 + j
    OBVIOUS
  <2>4. r.file[j] \in STRING \ {CR, " "}
    BY <1>2, <1>3, ElementOfSeq
  <2>5. QED
    BY <2>2, <2>3, <2>4
<1>7. /\ m[4 + F] = " " /\ m[5 + F] = "HTTP" /\ m[6 + F] = "/" /\ m[7 + F] = r.version
      /\ m[8 + F] = CR /\ m[9 + F] = LF
  <2> DEFINE w == <<" ", "HTTP", "/", r.version, CR, LF>>
  <2>1. \A i \in DOMAIN w : m[4 + F + i - 1] = w[i]
    BY <1>1, <1>3, <1>4 DEF HasLine, HasAt
  <2>2. /\ 4 + F + 1 - 1 = 4 + F /\ 4 + F + 2 - 1 = 5 + F /\ 4 + F + 3 - 1 = 6 + F
        /\ 4 + F + 4 - 1 = 7 + F /\ 4 + F + 5 - 1 = 8 + F /\ 4 + F + 6 - 1 = 9 + F
    BY <1>3
  <2>3. /\ \A i \in {1, 2, 3, 4, 5, 6} : i \in DOMAIN w
        /\ w[1] = " " /\ w[2] = "HTTP" /\ w[3] = "/" /\ w[4] = r.version /\ w[5] = CR /\ w[6] = LF
    OBVIOUS
  <2> HIDE DEF w
  <2>4. QED
    BY <2>1, <2>2, <2>3
<1>8. QED
  BY <1>1, <1>3, <1>4, <1>5, <1>6, <1>7 DEF LineIs

\* A turn before the first field.
LEMMA BeforeTurn ==
  ASSUME NEW r, NEW L, NEW n, NEW str, Text(r, L, n, str),
         NEW k \in Nat, L <= k, k < n, NEW p, BeforeFields(r, k, p),
         NEW q, q = HeaderStep(str, p, k + 1 - L)
  PROVE  Scanned(r, L, k + 1, q)
PROOF
<1>1. /\ L \in Nat /\ n \in Nat /\ IsRequest(r) /\ L = 8 + Len(r.file) /\ n <= Len(r.message)
      /\ \A i \in 1 .. n - L : str[i] = r.message[L + i]
  BY TextIs DEF Text
<1>2. PICK F \in Nat : LineIs(r, r.message, F)
  BY <1>1, LineSymbols
<1>3. L + 1 = 9 + F /\ r.message[L + 1] = LF
  <2>1. F = Len(r.file) /\ r.message[9 + F] = LF
    BY <1>2 DEF LineIs
  <2>2. L + 1 = 9 + F
    BY <1>1, <2>1
  <2>3. QED
    BY <2>1, <2>2
<1>14. L \in Nat /\ n \in Nat
  BY <1>1
<1>4. PICK H \in Nat : /\ H = Len(r.fields) /\ DOMAIN r.fields = 1 .. H /\ L + 2 = r.at[1]
                       /\ r.message[r.at[H + 1]] = CR /\ r.message[r.at[H + 1] + 1] = LF
                       /\ r.headerEnd = r.at[H + 1] + 1
  BY <1>1, FieldsAscend, TextIs
<1>5. PICK i \in Int, k1 \in Nat : i = k + 1 - L /\ k1 = k + 1 /\ str[i] = r.message[k1]
  <2>1. k + 1 - L \in 1 .. n - L /\ L + (k + 1 - L) = k + 1
    BY <1>14
  <2>2. str[k + 1 - L] = r.message[k + 1]
    BY <1>1, <2>1
  <2>3. k + 1 \in Nat /\ k + 1 - L \in Int
    BY <1>1
  <2>4. QED
    BY <2>2, <2>3
<1>15. i = k1 - L
  BY <1>14, <1>5
<1> DEFINE c == r.message[k1]
           s == NextHeaderState(p.h_state, c)
<1> HIDE DEF c, s
<1>6. q = HeaderStep(str, p, i) /\ s = NextHeaderState(p.h_state, str[i])
  BY <1>5 DEF c, s
<1>7. p.h_state = "start" /\ p.notFinish = TRUE /\ p.headers = {} /\ (k < r.at[1] \/ r.fields = <<>>)
  BY DEF BeforeFields
<1>8. Turn(str, p, i, s, q)
  BY <1>6, <1>7, TurnIs
<1>9. ASSUME c \in {CR, LF}, k1 < r.at[1] \/ r.fields = <<>> PROVE Scanned(r, L, k + 1, q)
  <2>1. s = "start"
    BY <1>7, <1>9 DEF s, NextHeaderState
  <2>2. q.h_state = "start" /\ q.notFinish = TRUE /\ q.headers = {}
    BY <1>7, <1>8, <2>1 DEF Turn
  <2>3. QED
    BY <1>5, <1>9, <2>2 DEF Scanned, BeforeFields
<1>10. CASE k = L
  <2>1. c = LF /\ k1 < r.at[1]
    BY <1>1, <1>3, <1>4, <1>5, <1>10 DEF c
  <2>2. QED
    BY <1>9, <2>1
<1>11. CASE k # L /\ r.fields = <<>>
  <2>1. H = 0 /\ r.at[H + 1] = L + 2 /\ r.headerEnd = L + 3
    BY <1>1, <1>4, <1>11
  <2>2. Len(r.message) = r.headerEnd
    BY <1>1, <1>11 DEF IsRequest, HasBody
  <2>3. k1 = L + 2 \/ k1 = L + 3
    <3>1. n <= L + 3
      BY <1>1, <2>1, <2>2
    <3>2. k1 = k + 1 /\ k # L
      BY <1>5, <1>11
    <3>3. QED
      BY <1>14, <3>1, <3>2
  <2>4. c \in {CR, LF}
    BY <1>1, <1>4, <2>1, <2>3 DEF c
  <2>5. QED
    BY <1>9, <1>11, <2>4
<1>12. CASE k # L /\ r.fields # <<>>
  <2>0. k < L + 2
    BY <1>4, <1>7, <1>12
  <2>1. k1 = L + 2
    BY <1>5, <1>12, <1>14, <2>0
  <2>2. PICK h \in DOMAIN r.fields : h = 1
    <3>1. r.fields \in Seq([key : STRING \ {CR, LF, ":"}, value : Seq(STRING \ {CR}) \ {<<>>}])
      BY <1>1 DEF IsRequest, HasFields
    <3>2. Len(r.fields) # 0
      BY <1>12, <3>1, EmptySeq
    <3>3. QED
      BY <1>4, <3>2
  <2>3. PICK a \in Nat, V \in Nat : \E key, value : FieldIs(r, h, a, V, key, value)
    BY <1>1, FieldSymbols
  <2>4. PICK key, value : FieldIs(r, h, a, V, key, value)
    BY <2>3
  <2>5. a = k1 /\ r.message[a] = key /\ key \notin {CR, LF} /\ V >= 1
    BY <1>4, <2>1, <2>2, <2>4 DEF FieldIs
  <2>6. s = "key"
    BY <1>7, <2>5 DEF s, c, NextHeaderState
  <2>7. q.h_state = "key" /\ q.notFinish = TRUE /\ q.headers = {} /\ q.key_start = i
    BY <1>7, <1>8, <2>6 DEF Turn
  <2>8. HeadersTo(r, h - 1) = {} /\ \A g \in 1 .. h - 1 : ~Overlong(r, g)
    <3>1. 1 .. h - 1 = {}
      BY <2>2
    <3>2. QED
      BY <3>1 DEF HeadersTo
  <2>9. k1 < a + 5 + V /\ ~(k1 > a) /\ ~(k1 > a + 2) /\ a <= k1 /\ i = a - L
    BY <1>14, <1>15, <2>5
  <2>10. InPart(r, L, h, k1, q, a, V, value)
    BY <2>5, <2>7, <2>8, <2>9, Zenon DEF InPart
  <2>11. InField(r, L, h, k1, q)
    BY <1>1, <2>4, <2>10, InFieldIs
  <2>12. QED
    BY <1>4, <1>5, <2>11 DEF Scanned
<1>13. QED
  BY <1>10, <1>11, <1>12

\* A turn after the last field.
LEMMA AfterTurn ==
  ASSUME NEW r, NEW L, NEW n, NEW str, Text(r, L, n, str),
         NEW k \in Nat, L <= k, k < n, NEW p, AfterFields(r, L, k, p),
         NEW q, q = HeaderStep(str, p, k + 1 - L)
  PROVE  Scanned(r, L, k + 1, q)
PROOF
<1>1. /\ L \in Nat /\ n \in Nat /\ IsRequest(r)
      /\ \A i \in 1 .. n - L : str[i] = r.message[L + i]
  BY TextIs DEF Text
<1>2. PICK H \in Nat, e \in Nat : H = Len(r.fields) /\ e = r.at[H + 1] /\ r.message[e + 1] = LF
  <2>1. PICK H \in Nat : /\ H = Len(r.fields) /\ r.message[r.at[H + 1] + 1] = LF
                         /\ \A h \in 1 .. H + 1 : r.at[h] \in Nat
    BY <1>1, FieldsAscend
  <2>2. H + 1 \in 1 .. H + 1
    BY <2>1
  <2>3. QED
    BY <2>1, <2>2
<1>3. PICK i \in Int, k1 \in Nat : i = k + 1 - L /\ k1 = k + 1 /\ str[i] = r.message[k1]
  <2>1. k + 1 - L \in 1 .. n - L /\ L + (k + 1 - L) = k + 1
    BY <1>1
  <2>2. str[k + 1 - L] = r.message[k + 1]
    BY <1>1, <2>1
  <2>3. k + 1 \in Nat /\ k + 1 - L \in Int
    BY <1>1
  <2>4. QED
    BY <2>2, <2>3
<1>15. i = k1 - L
  BY <1>1, <1>3
<1> DEFINE c == r.message[k1]
           s == NextHeaderState(p.h_state, c)
<1> HIDE DEF c, s
<1>4. q = HeaderStep(str, p, i) /\ s = NextHeaderState(p.h_state, str[i])
  BY <1>3 DEF c, s
<1>5. /\ r.fields # <<>> /\ p.headers = HeadersTo(r, H)
      /\ \A g \in 1 .. H : ~Overlong(r, g)
      /\ \/ /\ k = e /\ p.h_state = "end_CR" /\ p.notFinish = TRUE
            /\ p.now_read_line_begin = e - 1 - L
         \/ /\ k = e + 1 /\ p.h_state = "end_LF" /\ p.notFinish = TRUE
            /\ p.now_read_line_begin = e - 1 - L
         \/ /\ k >= e + 2 /\ p.h_state = "end_LF" /\ p.notFinish = FALSE
            /\ p.now_read_line_begin = e + 2 - L
  BY <1>2 DEF AfterFields
<1>6. CASE /\ k = e /\ p.h_state = "end_CR" /\ p.notFinish = TRUE
           /\ p.now_read_line_begin = e - 1 - L
  <2>1. k1 = e + 1
    BY <1>3, <1>6
  <2>2. s = "end_LF"
    BY <1>2, <1>6, <2>1 DEF s, c, NextHeaderState
  <2>3. Turn(str, p, i, s, q)
    BY <1>4, <1>6, TurnIs
  <2>4. /\ q.h_state = "end_LF" /\ q.notFinish = TRUE /\ q.headers = p.headers
        /\ q.now_read_line_begin = p.now_read_line_begin
    BY <1>6, <2>2, <2>3, Zenon DEF Turn
  <2>5. AfterFields(r, L, k1, q)
    BY <1>2, <1>5, <1>6, <2>1, <2>4, Zenon DEF AfterFields
  <2>6. QED
    BY <1>3, <2>5 DEF Scanned
<1>7. CASE /\ k = e + 1 /\ p.h_state = "end_LF" /\ p.notFinish = TRUE
           /\ p.now_read_line_begin = e - 1 - L
  <2>1. k1 = e + 2 /\ k1 >= e + 2 /\ i = e + 2 - L
    BY <1>1, <1>3, <1>7, <1>15
  <2>2. s = "end_LF"
    BY <1>7 DEF s, NextHeaderState
  <2>3. Turn(str, p, i, s, q)
    BY <1>4, <1>7, TurnIs
  <2>4. /\ q.h_state = "end_LF" /\ q.notFinish = FALSE /\ q.headers = p.headers
        /\ q.now_read_line_begin = i
    BY <1>7, <2>2, <2>3, Zenon DEF Turn
  <2>5. AfterFields(r, L, k1, q)
    BY <1>2, <1>5, <2>1, <2>4, Zenon DEF AfterFields
  <2>6. QED
    BY <1>3, <2>5 DEF Scanned
<1>8. CASE /\ k >= e + 2 /\ p.h_state = "end_LF" /\ p.notFinish = FALSE
           /\ p.now_read_line_begin = e + 2 - L
  <2>1. q = p
    BY <1>4, <1>8 DEF HeaderStep
  <2>2. k1 >= e + 2
    BY <1>3, <1>8
  <2>3. AfterFields(r, L, k1, q)
    BY <1>2, <1>5, <1>8, <2>1, <2>2, Zenon DEF AfterFields
  <2>4. QED
    BY <1>3, <2>3 DEF Scanned
<1>9. QED
  BY <1>5, <1>6, <1>7, <1>8

\* A turn of the loop.
LEMMA ScanTurn ==
  ASSUME NEW r, NEW L, NEW n, NEW str, Text(r, L, n, str),
         NEW k \in Nat, L <= k, k < n, NEW p, Scanned(r, L, k, p),
         NEW q, q = HeaderStep(str, p, k + 1 - L)
  PROVE  Scanned(r, L, k + 1, q)
PROOF
<1>1. CASE Refused(r, p)
  <2>1. q = p
    BY <1>1 DEF HeaderStep, Refused
  <2>2. QED
    BY <1>1, <2>1 DEF Scanned
<1>2. ASSUME NEW h \in 1 .. Len(r.fields), InField(r, L, h, k, p) PROVE Scanned(r, L, k + 1, q)
  <2>1. IsRequest(r)
    BY DEF Text
  <2>2. h \in DOMAIN r.fields
    BY <2>1, FieldsAscend
  <2>3. QED
    BY <1>2, <2>2, FieldTurn
<1>3. QED
  BY <1>1, <1>2, BeforeTurn, AfterTurn DEF Scanned

\* What the loop starts with.
ScanStart == [h_state |-> "start", notFinish |-> TRUE,
              key_start |-> 0, key_end |-> 0, value_start |-> 0, value_end |-> 0,
              now_read_line_begin |-> 1, headers |-> {}]

\* What the loop ends with.
LEMMA ScanIs ==
  ASSUME NEW r, NEW L, NEW n, NEW str, Text(r, L, n, str)
  PROVE  Scanned(r, L, n, HeaderScan(str, ScanStart))
PROOF
<1>1. /\ L \in Nat /\ n \in Nat /\ L <= n /\ L + 2 = r.at[1]
      /\ Len(str) \in Nat /\ Len(str) = n - L
  BY TextIs
<1>2. PICK g : /\ HeaderScan(str, ScanStart) = g[Len(str)] /\ g[0] = ScanStart
               /\ \A i \in 1 .. Len(str) : g[i] = HeaderStep(str, g[i - 1], i)
  <2>1. Len(str) \in Nat
    BY <1>1
  <2>2. QED
    BY ONLY <2>1, ScanSteps
<1> DEFINE T == {i \in Nat : i <= n - L /\ ~Scanned(r, L, L + i, g[i])}
<1>3. T = {}
  <2>1. SUFFICES ASSUME T # {} PROVE FALSE
    OBVIOUS
  <2>2. PICK i \in T : \A k \in T : i <= k
    <3>1. T \subseteq Nat
      OBVIOUS
    <3> HIDE DEF T
    <3>2. QED
      BY <2>1, <3>1, LeastOf
  <2>3. i \in Nat /\ i <= n - L /\ ~Scanned(r, L, L + i, g[i])
    OBVIOUS
  <2>4. CASE i = 0
    <3>1. L + i = L /\ L < r.at[1]
      BY <1>1, <2>4
    <3>2. /\ ScanStart.h_state = "start" /\ ScanStart.notFinish = TRUE
          /\ ScanStart.headers = {}
      BY DEF ScanStart
    <3>3. Scanned(r, L, L + i, g[i])
      BY <1>2, <2>4, <3>1, <3>2 DEF Scanned, BeforeFields
    <3>4. QED
      BY <2>3, <3>3
  <2>5. CASE i # 0
    <3>1. i - 1 \in Nat /\ i - 1 <= n - L /\ i - 1 \notin T
      BY <1>1, <2>2, <2>3, <2>5
    <3>2. PICK k \in Nat : k = L + (i - 1)
      BY <1>1, <3>1
    <3>3. L <= k /\ k < n /\ k + 1 = L + i /\ k + 1 - L = i /\ i \in 1 .. n - L
      BY <1>1, <2>3, <2>5, <3>2
    <3>4. Scanned(r, L, k, g[i - 1])
      BY <3>1, <3>2
    <3>5. g[i] = HeaderStep(str, g[i - 1], k + 1 - L)
      BY <1>1, <1>2, <3>3
    <3>6. Scanned(r, L, k + 1, g[i])
      BY <3>3, <3>4, <3>5, ScanTurn
    <3>7. QED
      BY <2>3, <3>3, <3>6
  <2>6. QED
    BY <2>4, <2>5
<1>4. n - L \in Nat /\ n - L \notin T /\ L + (n - L) = n
  BY <1>1, <1>3
<1>5. Scanned(r, L, n, g[n - L])
  BY <1>1, <1>4
<1>6. QED
  BY <1>1, <1>2, <1>5

\* A requestData with its fields.
IsData(x) ==
  x = [state |-> x.state, h_state |-> x.h_state, content |-> x.content, method |-> x.method,
       file_name |-> x.file_name, headers |-> x.headers, flag |-> x.flag]

\* The request line has been understood.
LineParsed(r, x) ==
  /\ IsData(x) /\ r.method \in HasGET \cup HasPOST /\ r.version \in HasVersion
  /\ x.method = Taken(r.method) /\ x.file_name = r.file_name

\* So have the headers.
HeadersParsed(r, x) ==
  /\ LineParsed(r, x) /\ x.headers = r.headers
  /\ \A h \in DOMAIN r.fields : ~Overlong(r, h)

\* content holds at most three symbols that are not of the body.
BodyComes(r, n, x) ==
  x.content \in Seq(STRING) /\ Len(x.content) <= n - r.headerEnd + 3

\* parse_Headers after the request line.
LEMMA HeadersAre ==
  ASSUME NEW r, NEW L, NEW n, NEW x, Text(r, L, n, x.content), LineParsed(r, x),
         x.h_state = "start", x.headers = {}, x.flag = "none", x.state = "PARSE_HEADERS",
         NEW y, y = parse_Headers(x)
  PROVE  \/ y.flag = "again" /\ y.state = "PARSE_HEADERS" /\ (n < r.headerEnd \/ r.headers = {})
         \/ y.flag = "error" /\ y.state = "PARSE_HEADERS" /\ ~r.valid
         \/ /\ y.flag = "none" /\ y.state = (IF x.method = "POST" THEN "RECV_BODY" ELSE "ANALYSIS")
            /\ HeadersParsed(r, y) /\ BodyComes(r, n, y)
PROOF
<1> DEFINE str == x.content
<1>1. /\ L \in Nat /\ n \in Nat /\ L <= n /\ IsRequest(r) /\ str \in Seq(STRING)
      /\ Len(str) = n - L /\ L + 2 = r.at[1]
  <2>1. IsRequest(r)
    BY DEF Text
  <2>2. QED
    BY <2>1, TextIs
<1>2. PICK p : p = HeaderScan(str, ScanStart)
  OBVIOUS
<1>3. Scanned(r, L, n, p)
  BY <1>2, ScanIs
<1>4. /\ y.h_state = p.h_state /\ y.headers = p.headers
      /\ y.content = (IF p.h_state = "error" THEN str ELSE SubSeq(str, p.now_read_line_begin, Len(str)))
      /\ y.flag = (CASE p.h_state = "error"  -> "error"
                     [] p.h_state = "end_LF" -> "none"
                     [] OTHER                -> "again")
      /\ y.state = (IF p.h_state # "end_LF" THEN "PARSE_HEADERS"
                    ELSE IF x.method = "POST" THEN "RECV_BODY" ELSE "ANALYSIS")
      /\ y.method = x.method /\ y.file_name = x.file_name /\ IsData(y)
  <2>1. x = [state |-> x.state, h_state |-> x.h_state, content |-> x.content, method |-> x.method,
             file_name |-> x.file_name, headers |-> x.headers, flag |-> x.flag]
    BY DEF LineParsed, IsData
  <2>2. p = HeaderScan(x.content, [h_state |-> x.h_state, notFinish |-> TRUE,
             key_start |-> 0, key_end |-> 0, value_start |-> 0, value_end |-> 0,
             now_read_line_begin |-> 1, headers |-> x.headers])
    BY <1>2 DEF ScanStart
  <2>3. y = [x EXCEPT !.h_state = p.h_state,
                !.headers = p.headers,
                !.content = IF p.h_state = "error" THEN @
                            ELSE SubSeq(@, p.now_read_line_begin, Len(@)),
                !.flag = CASE p.h_state = "error"  -> "error"
                           [] p.h_state = "end_LF" -> @
                           [] OTHER                -> "again",
                !.state = IF p.h_state # "end_LF" THEN @
                          ELSE IF x.method = "POST" THEN "RECV_BODY" ELSE "ANALYSIS"]
    BY <2>2, Zenon DEF parse_Headers
  <2>4. QED
    BY <2>1, <2>3 DEF IsData
<1>5. PICK H \in Nat : /\ H = Len(r.fields) /\ DOMAIN r.fields = 1 .. H
                       /\ r.headerEnd = r.at[H + 1] + 1
                       /\ \A h \in 1 .. H + 1 : r.at[h] \in Nat
                       /\ \A h \in 1 .. H + 1 : \A g \in 1 .. h : r.at[g] <= r.at[h]
  BY <1>1, FieldsAscend
<1>6. PICK e \in Nat : e = r.at[H + 1] /\ r.headerEnd = e + 1 /\ L + 2 <= e
  <2>1. H + 1 \in 1 .. H + 1 /\ 1 \in 1 .. H + 1
    BY <1>5
  <2>2. QED
    BY <1>1, <1>5, <2>1
<1>7. r.headers = HeadersTo(r, H)
  BY <1>1, <1>5 DEF IsRequest, HasFields, HeadersTo
<1>8. CASE BeforeFields(r, n, p)
  <2>1. p.h_state = "start"
    BY <1>8 DEF BeforeFields
  <2>2. y.flag = "again" /\ y.state = "PARSE_HEADERS"
    BY <1>4, <2>1
  <2>3. CASE n < r.at[1]
    BY <1>1, <1>6, <2>2, <2>3
  <2>4. CASE r.fields = <<>>
    <3>1. 1 .. H = {}
      BY <1>5, <2>4
    <3>2. r.headers = {}
      BY <1>7, <3>1 DEF HeadersTo
    <3>3. QED
      BY <2>2, <3>2
  <2>5. QED
    BY <1>8, <2>3, <2>4 DEF BeforeFields
<1>9. ASSUME NEW h \in 1 .. Len(r.fields), InField(r, L, h, n, p)
      PROVE  y.flag = "again" /\ y.state = "PARSE_HEADERS" /\ n < r.headerEnd
  <2>1. p.h_state \in {"key", "colon", "spaces_after_colon", "value", "CR", "LF"}
    BY <1>9 DEF InField
  <2>2. y.flag = "again" /\ y.state = "PARSE_HEADERS"
    BY <1>4, <2>1
  <2>3. h + 1 \in 1 .. H + 1 /\ h + 1 \in 1 .. (H + 1)
    BY <1>5
  <2>4. PICK b \in Nat : b = r.at[h + 1] /\ b <= e
    <3>1. H + 1 \in 1 .. H + 1
      BY <1>5
    <3>2. QED
      BY <1>5, <1>6, <2>3, <3>1
  <2>5. n < b
    BY <1>9, <2>4 DEF InField
  <2>6. n < r.headerEnd
    BY <1>1, <1>6, <2>4, <2>5
  <2>7. QED
    BY <2>2, <2>6
<1>10. CASE Refused(r, p)
  <2>1. p.h_state = "error"
    BY <1>10 DEF Refused
  <2>2. y.flag = "error" /\ y.state = "PARSE_HEADERS"
    BY <1>4, <2>1
  <2>3. ~r.valid
    <3>1. \E h \in DOMAIN r.fields : Contains(r.fields[h].value, "overlong")
      BY <1>5, <1>10 DEF Refused, Overlong
    <3>2. QED
      BY <1>1, <3>1, Zenon DEF IsRequest, IsValid
  <2>4. QED
    BY <2>2, <2>3
<1>11. CASE AfterFields(r, L, n, p)
  <2>1. /\ p.headers = HeadersTo(r, H) /\ \A g \in 1 .. H : ~Overlong(r, g)
        /\ \/ n = e /\ p.h_state = "end_CR"
           \/ n = e + 1 /\ p.h_state = "end_LF" /\ p.now_read_line_begin = e - 1 - L
           \/ n >= e + 2 /\ p.h_state = "end_LF" /\ p.now_read_line_begin = e + 2 - L
    BY <1>5, <1>6, <1>11 DEF AfterFields
  <2>2. CASE n = e /\ p.h_state = "end_CR"
    <3>1. y.flag = "again" /\ y.state = "PARSE_HEADERS"
      BY <1>4, <2>2
    <3>2. n < r.headerEnd
      BY <1>1, <1>6, <2>2
    <3>3. QED
      BY <3>1, <3>2
  <2>3. ASSUME p.h_state = "end_LF",
               NEW b \in Int, p.now_read_line_begin = b, n >= e + 1, b >= e - 1 - L, b <= n - L + 1
        PROVE  /\ y.flag = "none" /\ y.state = (IF x.method = "POST" THEN "RECV_BODY" ELSE "ANALYSIS")
               /\ HeadersParsed(r, y) /\ BodyComes(r, n, y)
    <3>2. y.flag = "none" /\ y.state = (IF x.method = "POST" THEN "RECV_BODY" ELSE "ANALYSIS")
      BY <1>4, <2>3
    <3>3. HeadersParsed(r, y)
      BY <1>4, <1>5, <1>7, <2>1 DEF HeadersParsed, LineParsed
    <3>4. y.content = SubSeq(str, b, Len(str))
      BY <1>4, <2>3
    <3>5. PICK m \in Nat : m = Len(str) /\ m = n - L
      BY <1>1
    <3>6. b >= 1 /\ b <= m + 1
      BY <1>1, <1>6, <2>3, <3>5
    <3>7. y.content \in Seq(STRING) /\ Len(y.content) = m - b + 1
      <4>1. SubSeq(str, b, m) \in Seq(STRING) /\ Len(SubSeq(str, b, m)) = m - b + 1
        BY <1>1, <3>5, <3>6, PartIs
      <4>2. QED
        BY <3>4, <3>5, <4>1
    <3>8. Len(y.content) <= n - r.headerEnd + 3
      <4>1. PICK l \in Int : l = Len(y.content) /\ l = m - b + 1
        BY <3>5, <3>7
      <4>2. PICK E \in Int : E = r.headerEnd /\ E = e + 1
        BY <1>6
      <4>3. l <= n - E + 3
        BY <1>1, <2>3, <3>5, <4>1, <4>2
      <4>4. QED
        BY <4>1, <4>2, <4>3
    <3>9. QED
      BY <3>2, <3>3, <3>7, <3>8 DEF BodyComes
  <2>4. CASE n = e + 1 /\ p.h_state = "end_LF" /\ p.now_read_line_begin = e - 1 - L
    <3>1. PICK b \in Int : b = e - 1 - L
      BY <1>1
    <3>2. n >= e + 1 /\ b >= e - 1 - L /\ b <= n - L + 1
      BY <1>1, <2>4, <3>1
    <3>3. QED
      BY <2>3, <2>4, <3>1, <3>2
  <2>5. CASE n >= e + 2 /\ p.h_state = "end_LF" /\ p.now_read_line_begin = e + 2 - L
    <3>1. PICK b \in Int : b = e + 2 - L
      BY <1>1
    <3>2. n >= e + 1 /\ b >= e - 1 - L /\ b <= n - L + 1
      BY <1>1, <2>5, <3>1
    <3>3. QED
      BY <2>3, <2>5, <3>1, <3>2
  <2>6. QED
    BY <2>1, <2>2, <2>4, <2>5
<1>12. QED
  BY <1>3, <1>8, <1>9, <1>10, <1>11 DEF Scanned

\* The symbols of the request line: a method is at its beginning, if anywhere.
LEMMA LineWords ==
  ASSUME NEW r, IsRequest(r), NEW m, NEW F \in Nat, LineIs(r, m, F), NEW i \in Int, 1 <= i, i <= 7 + F
  PROVE  /\ m[i] # CR
         /\ m[i] \in HasGET => r.method \in HasGET
         /\ m[i] \in HasPOST => r.method \in HasGET \cup HasPOST
         /\ i >= 3 /\ i < 4 + F => m[i] # " "
PROOF
<1>1. r.method # CR /\ r.version # CR /\ IsClear(r)
  BY DEF IsRequest, HasLine
<1>2. /\ m[1] = r.method /\ m[2] = " " /\ m[3] = "/"
      /\ m[4 + F] = " " /\ m[5 + F] = "HTTP" /\ m[6 + F] = "/" /\ m[7 + F] = r.version
  BY DEF LineIs
<1>7. /\ " " # CR /\ "/" # CR /\ "HTTP" # CR
      /\ \A w \in {" ", "/", "HTTP"} : w \notin HasGET /\ w \notin HasPOST
  BY WordsAssumption DEF CR
<1>8. ASSUME NEW w, w = r.version \/ \E j \in DOMAIN r.file : w = r.file[j]
      PROVE  /\ w \in HasGET => r.method \in HasGET
             /\ w \in HasPOST => r.method \in HasGET \cup HasPOST
  <2>1. w \in {r.version} \cup {r.file[j] : j \in DOMAIN r.file}
    BY <1>8, Zenon
  <2>2. QED
    BY <1>1, <2>1 DEF IsClear
<1>3. CASE i = 1 \/ i = 2 \/ i = 3
  <2>1. CASE i = 1
    <3>1. ~(i >= 3)
      BY <2>1
    <3>2. QED
      BY <1>1, <1>2, <2>1, <3>1
  <2>2. CASE i = 2
    <3>1. ~(i >= 3)
      BY <2>2
    <3>2. m[i] = " "
      BY <1>2, <2>2
    <3>3. QED
      BY <1>7, <3>1, <3>2
  <2>3. CASE i = 3
    <3>1. m[i] = "/"
      BY <1>2, <2>3
    <3>2. QED
      BY <1>7, <3>1
  <2>4. QED
    BY <1>3, <2>1, <2>2, <2>3
<1>4. CASE 4 <= i /\ i <= 3 + F
  <2>1. PICK j \in 1 .. F : i = 3 + j
    <3>1. i - 3 \in 1 .. F /\ i = 3 + (i - 3)
      BY <1>4
    <3>2. QED
      BY <3>1
  <2>2. m[i] = r.file[j] /\ m[i] \notin {CR, " "}
    BY <2>1 DEF LineIs
  <2>3. j \in DOMAIN r.file
    <3>1. r.file \in Seq(STRING \ {CR, " "}) /\ F = Len(r.file)
      BY DEF IsRequest, HasLine, LineIs
    <3>2. QED
      BY <3>1, LenProperties
  <2>4. QED
    BY <1>8, <2>2, <2>3
<1>5. CASE i = 4 + F \/ i = 5 + F \/ i = 6 + F \/ i = 7 + F
  <2>1. ~(i < 4 + F)
    BY <1>5
  <2>2. m[i] = " " \/ m[i] = "HTTP" \/ m[i] = "/" \/ m[i] = r.version
    BY <1>2, <1>5, Zenon
  <2>3. QED
    BY <1>1, <1>7, <1>8, <2>1, <2>2
<1>6. QED
  <2>1. i = 1 \/ i = 2 \/ i = 3 \/ (4 <= i /\ i <= 3 + F)
          \/ i = 4 + F \/ i = 5 + F \/ i = 6 + F \/ i = 7 + F
    OBVIOUS
  <2>2. QED
    BY <1>3, <1>4, <1>5, <2>1

\* Nothing happens without the end of the line.
LEMMA LineNotRead ==
  ASSUME NEW x, Len(x.content) \in Nat,
         \A i \in Int : 1 <= i /\ i <= Len(x.content) => x.content[i] # CR
  PROVE  parse_URI(x) = [x EXCEPT !.flag = "again"]
PROOF
<1>1. Find(x.content, {CR}, 1) = 0
  <2>1. PICK s, n, w : s = x.content /\ n = 1 /\ w = CR
    OBVIOUS
  <2>2. n \in Int /\ Len(s) \in Nat /\ \A i \in Int : n <= i /\ i <= Len(s) => s[i] # w
    BY <2>1
  <2>3. Find(s, {w}, n) = 0
    BY <2>2, FindNot
  <2>4. QED
    BY <2>1, <2>3, Zenon
<1>2. QED
  BY <1>1, Zenon DEF parse_URI

\* line is the request line, without its end.
LineRead(r, m, F, line) ==
  /\ IsRequest(r) /\ F \in Nat /\ LineIs(r, m, F)
  /\ line \in Seq(STRING) /\ Len(line) = 7 + F /\ \A i \in 1 .. 7 + F : line[i] = m[i]

\* The positions that parse_URI looks for.
LEMMA LinePositions ==
  ASSUME NEW r, NEW m, NEW F, NEW line, LineRead(r, m, F, line)
  PROVE  /\ Find(line, HasGET, 1) = (IF r.method \in HasGET THEN 1 ELSE 0)
         /\ r.method \notin HasGET => Find(line, HasPOST, 1) = (IF r.method \in HasPOST THEN 1 ELSE 0)
         /\ r.method \in HasGET \cup HasPOST => Find(line, {"/"}, 1) = 3
         /\ Find(line, {" "}, 3) = 4 + F /\ Find(line, {"/"}, 4 + F) = 6 + F
PROOF
<1> SUFFICES ASSUME IsRequest(r), F \in Nat, LineIs(r, m, F), line \in Seq(STRING),
                      Len(line) = 7 + F, \A i \in 1 .. 7 + F : line[i] = m[i]
               PROVE  /\ Find(line, HasGET, 1) = (IF r.method \in HasGET THEN 1 ELSE 0)
                      /\ r.method \notin HasGET => Find(line, HasPOST, 1) = (IF r.method \in HasPOST THEN 1 ELSE 0)
                      /\ r.method \in HasGET \cup HasPOST => Find(line, {"/"}, 1) = 3
                      /\ Find(line, {" "}, 3) = 4 + F /\ Find(line, {"/"}, 4 + F) = 6 + F
  BY Zenon DEF LineRead
<1>1. /\ m[1] = r.method /\ m[2] = " " /\ m[3] = "/"
      /\ m[4 + F] = " " /\ m[5 + F] = "HTTP" /\ m[6 + F] = "/" /\ m[7 + F] = r.version
  BY DEF LineIs
<1>2. Len(line) \in Nat /\ 1 \in 1 .. 7 + F /\ 2 \in 1 .. 7 + F /\ 3 \in 1 .. 7 + F
      /\ \A j \in {4, 5, 6, 7} : j + F \in 1 .. 7 + F
  OBVIOUS
<1>10. line[1] = r.method /\ line[2] = " " /\ line[3] = "/"
  <2>1. line[1] = m[1] /\ line[2] = m[2] /\ line[3] = m[3]
    BY <1>2
  <2>2. QED
    BY <1>1, <2>1
<1>11. line[4 + F] = " " /\ line[5 + F] = "HTTP" /\ line[6 + F] = "/"
  <2>1. 4 + F \in 1 .. 7 + F /\ 5 + F \in 1 .. 7 + F /\ 6 + F \in 1 .. 7 + F
    OBVIOUS
  <2>2. line[4 + F] = m[4 + F] /\ line[5 + F] = m[5 + F] /\ line[6 + F] = m[6 + F]
    BY <2>1
  <2>3. QED
    BY <1>1, <2>2
<1>12. 1 <= Len(line) /\ 3 <= Len(line) /\ 4 + F <= Len(line) /\ 6 + F <= Len(line)
  OBVIOUS
<1>3. ASSUME NEW words, \A i \in Int : 1 <= i /\ i <= 7 + F => m[i] \notin words
      PROVE  Find(line, words, 1) = 0
  <2>1. \A i \in Int : 1 <= i /\ i <= Len(line) => line[i] \notin words
    BY <1>3
  <2>2. QED
    BY <1>2, <2>1, FindNone
<1>4. ASSUME NEW words, r.method \in words PROVE Find(line, words, 1) = 1
  <2>1. line[1] \in words /\ 1 <= Len(line)
    BY <1>4, <1>10, <1>12
  <2>2. \A i \in Int : 1 <= i /\ i < 1 => line[i] \notin words
    OBVIOUS
  <2>3. FirstOf(line, words, 1, 1)
    BY <1>2, <2>1, <2>2 DEF FirstOf
  <2>4. QED
    BY <2>3, FindFirst
<1>13. Find(line, HasGET, 1) = (IF r.method \in HasGET THEN 1 ELSE 0)
  <2>1. ASSUME r.method \notin HasGET, NEW i \in Int, 1 <= i, i <= 7 + F PROVE m[i] \notin HasGET
    BY <2>1, LineWords
  <2>2. QED
    BY <1>3, <1>4, <2>1
<1>14. r.method \notin HasGET => Find(line, HasPOST, 1) = (IF r.method \in HasPOST THEN 1 ELSE 0)
  <2>1. ASSUME r.method \notin HasGET, r.method \notin HasPOST, NEW i \in Int, 1 <= i, i <= 7 + F
        PROVE  m[i] \notin HasPOST
    BY <2>1, LineWords
  <2>2. QED
    BY <1>3, <1>4, <2>1
<1>7. Find(line, {" "}, 3) = 4 + F
  <2>1. PICK a \in Int, k \in Int : a = 3 /\ k = 4 + F /\ a <= k /\ k <= Len(line)
    BY <1>12
  <2>2. PICK w : w = " "
    OBVIOUS
  <2>3. line[k] = w
    BY <1>11, <2>1, <2>2, Zenon
  <2>4. ASSUME NEW i \in Int, a <= i, i < k PROVE line[i] # w
    <3>1. 1 <= i /\ i <= 7 + F /\ i >= 3 /\ i < 4 + F /\ i \in 1 .. 7 + F
      BY <2>1, <2>4
    <3>2. m[i] # " "
      BY <3>1, LineWords
    <3>3. line[i] = m[i]
      BY <3>1
    <3>4. QED
      BY <2>2, <3>2, <3>3, Zenon
  <2>5. Find(line, {w}, a) = k
    <3>1. FirstAt(line, w, a, k)
      BY <1>2, <2>1, <2>3, <2>4 DEF FirstAt
    <3>2. QED
      BY <3>1, FindIs
  <2>6. QED
    BY <2>1, <2>2, <2>5, Zenon
<1>8. Find(line, {"/"}, 4 + F) = 6 + F
  <2>1. PICK k \in Int, a \in Int : k = 6 + F /\ a = 4 + F /\ a <= k /\ k <= Len(line) /\ line[k] = "/"
    <3>1. 4 + F \in Int /\ 6 + F \in Int /\ 4 + F <= 6 + F
      OBVIOUS
    <3>2. QED
      BY <1>11, <1>12, <3>1
  <2>2. ASSUME NEW i \in Int, a <= i, i < k PROVE line[i] # "/"
    <3>1. i = 4 + F \/ i = 5 + F
      BY <2>1, <2>2
    <3>2. line[4 + F] = " " /\ line[5 + F] = "HTTP"
      BY <1>1, <1>2
    <3>3. QED
      BY <3>1, <3>2
  <2>3. Find(line, {"/"}, a) = k
    <3>1. FirstAt(line, "/", a, k)
      BY <1>2, <2>1, <2>2 DEF FirstAt
    <3>2. QED
      BY <3>1, FindIs
  <2>4. QED
    BY <2>1, <2>3
<1>5. ASSUME r.method \in HasGET \cup HasPOST PROVE Find(line, {"/"}, 1) = 3
  <2>1. line[3] = "/" /\ 3 <= Len(line) /\ 1 <= 3
    <3>1. 3 <= Len(line) /\ 1 <= 3
      BY <1>12
    <3>2. QED
      BY <1>10, <3>1
  <2>2. line[1] # "/" /\ line[2] # "/"
    BY <1>5, <1>10, WordsAssumption
  <2>3. \A i \in Int : 1 <= i /\ i < 3 => line[i] # "/"
    BY <2>2
  <2>4. FirstAt(line, "/", 1, 3)
    BY <1>2, <2>1, <2>3 DEF FirstAt
  <2>5. QED
    BY <2>4, FindIs
<1>9. QED
  BY <1>5, <1>7, <1>8, <1>13, <1>14

\* The file's name without the query.
LEMMA FileName ==
  ASSUME NEW r, NEW m, NEW F, NEW line, LineRead(r, m, F, line),
         NEW query, query = Find(SubSeq(line, 1, 4 + F), {"?"}, 3)
  PROVE  r.file_name = IF 4 + F = 3 + 1 THEN <<"index.html">>
                       ELSE SubSeq(line, 3 + 1, (IF query = 0 THEN 4 + F ELSE query) - 1)
PROOF
<1> SUFFICES ASSUME IsRequest(r), F \in Nat, LineIs(r, m, F), line \in Seq(STRING),
                      Len(line) = 7 + F, \A i \in 1 .. 7 + F : line[i] = m[i]
               PROVE  r.file_name = IF 4 + F = 3 + 1 THEN <<"index.html">>
                        ELSE SubSeq(line, 3 + 1, (IF query = 0 THEN 4 + F ELSE query) - 1)
  BY Zenon DEF LineRead
<1>1. r.file \in Seq(STRING \ {CR, " "}) /\ F = Len(r.file)
  BY DEF IsRequest, HasLine, LineIs
<1>2. PICK k \in 0 .. F :
        /\ \A i \in 1 .. k : r.file[i] # "?"
        /\ k = F \/ r.file[k + 1] = "?"
        /\ r.file_name = IF r.file = <<>> THEN <<"index.html">> ELSE SubSeq(r.file, 1, k)
  BY <1>1 DEF IsRequest, HasLine
<1>3. r.file \in Seq(STRING) /\ Len(r.file) = F /\ DOMAIN r.file = 1 .. F
  <2>1. PICK f, S : f = r.file /\ S = STRING \ {CR, " "}
    OBVIOUS
  <2>2. f \in Seq(S) /\ Len(f) = F
    BY <1>1, <2>1, Zenon
  <2>3. \A i \in 1 .. F : f[i] \in S
    BY <2>2, ElementOfSeq
  <2>4. \A i \in S : i \in STRING
    BY <2>1, Zenon
  <2>5. f \in Seq(STRING)
    BY <2>2, <2>3, <2>4, SeqDef
  <2>6. QED
    BY <2>1, <2>2, <2>5, LenProperties
<1>4. CASE F = 0
  <2>1. r.file = <<>>
    BY <1>1, <1>4, EmptySeq
  <2>2. 4 + F = 3 + 1
    BY <1>4
  <2>3. QED
    BY <1>2, <2>1, <2>2, Zenon
<1>5. CASE F # 0
  <2>1. r.file # <<>> /\ 4 + F # 3 + 1 /\ r.file_name = SubSeq(r.file, 1, k)
    <3>1. r.file # <<>>
      BY <1>3, <1>5
    <3>2. 4 + F # 3 + 1
      BY <1>5
    <3>3. QED
      BY <1>2, <3>1, <3>2, Zenon
  <2>2. m[3] = "/" /\ m[4 + F] = " " /\ \A j \in 1 .. F : m[3 + j] = r.file[j]
    BY DEF LineIs
  <2>9. m[3] = "/"
    BY DEF LineIs
  <2>3. PICK w : w = SubSeq(line, 1, 4 + F)
    OBVIOUS
  <2>4. Len(w) = 4 + F /\ \A i \in 1 .. 4 + F : w[i] = m[i]
    <3>1. PICK u \in Int, v \in Int : u = 1 /\ v = 4 + F /\ v <= Len(line) /\ u <= v + 1
                                       /\ v - u + 1 = 4 + F /\ 1 <= u
      OBVIOUS
    <3>2. /\ Len(SubSeq(line, u, v)) = v - u + 1
          /\ \A i \in 1 .. v - u + 1 : SubSeq(line, u, v)[i] = line[u + i - 1]
      BY <3>1, PartIs
    <3>3. \A i \in 1 .. 4 + F : u + i - 1 = i /\ i \in 1 .. 7 + F
      BY <3>1
    <3>4. QED
      BY <2>3, <3>1, <3>2, <3>3
  <2>5. ASSUME NEW i \in Int, 3 <= i, i <= 3 + k PROVE w[i] # "?"
    <3>1. CASE i = 3
      BY <2>4, <2>9, <3>1
    <3>2. CASE i # 3
      <4>1. PICK j \in 1 .. k : j = i - 3 /\ i = 3 + j /\ j \in 1 .. F /\ i \in 1 .. 4 + F
        BY <2>5, <3>2
      <4>2. w[i] = r.file[j]
        BY <2>2, <2>4, <4>1
      <4>3. QED
        BY <1>2, <4>1, <4>2
    <3>3. QED
      BY <3>1, <3>2
  <2>6. (IF query = 0 THEN 4 + F ELSE query) - 1 = 3 + k
    <3>1. PICK a \in Int : a = 3
      OBVIOUS
    <3>2. Len(w) \in Nat
      BY <2>4
    <3>3. CASE k = F
      <4>1. ASSUME NEW i \in Int, a <= i, i <= Len(w) PROVE w[i] # "?"
        <5>1. CASE i <= 3 + k
          BY <2>5, <3>1, <4>1, <5>1
        <5>2. CASE ~(i <= 3 + k)
          <6>1. i = 4 + F /\ i \in 1 .. 4 + F
            BY <2>4, <3>3, <4>1, <5>2
          <6>2. m[4 + F] # "?"
            BY <2>2
          <6>3. QED
            BY <2>4, <6>1, <6>2
        <5>3. QED
          BY <5>1, <5>2
      <4>2. Find(w, {"?"}, a) = 0
        BY <3>2, <4>1, FindNot
      <4>3. query = 0
        BY <2>3, <3>1, <4>2
      <4>4. QED
        BY <3>3, <4>3
    <3>4. CASE k # F
      <4>1. PICK b \in Int : b = 4 + k /\ a <= b /\ b <= Len(w) /\ b = 3 + (k + 1) /\ k + 1 \in 1 .. F
                              /\ b \in 1 .. 4 + F
        BY <2>4, <3>1, <3>4
      <4>2. w[b] = "?"
        BY <1>2, <2>2, <2>4, <3>4, <4>1
      <4>3. \A i \in Int : a <= i /\ i < b => w[i] # "?"
        BY <2>5, <3>1, <4>1
      <4>8. a <= b /\ b <= Len(w)
        BY <4>1
      <4>9. FirstAt(w, "?", a, b)
        BY <3>2, <4>2, <4>3, <4>8 DEF FirstAt
      <4>4. Find(w, {"?"}, a) = b
        BY <4>9, FindIs
      <4>5. query = b
        BY <2>3, <3>1, <4>4
      <4>6. b # 0 /\ b - 1 = 3 + k
        BY <4>1
      <4>7. QED
        BY <4>5, <4>6
    <3>5. QED
      BY <3>3, <3>4
  <2>7. SubSeq(line, 3 + 1, 3 + k) = SubSeq(r.file, 1, k)
    <3>1. PICK t : t = SubSeq(r.file, 1, k)
      OBVIOUS
    <3>2. t \in Seq(STRING) /\ Len(t) = k /\ \A i \in 1 .. k : t[i] = r.file[i]
      <4>1. PICK u \in Int, v \in Int : u = 1 /\ v = k /\ v <= Len(r.file) /\ u <= v + 1
                                         /\ v - u + 1 = k /\ 1 <= u
        BY <1>3
      <4>2. /\ SubSeq(r.file, u, v) \in Seq(STRING) /\ Len(SubSeq(r.file, u, v)) = v - u + 1
            /\ \A i \in 1 .. v - u + 1 : SubSeq(r.file, u, v)[i] = r.file[u + i - 1]
        BY <1>3, <4>1, PartIs
      <4>3. \A i \in 1 .. k : u + i - 1 = i
        BY <4>1
      <4>4. QED
        BY <3>1, <4>1, <4>2, <4>3
    <3>3. PICK u \in Int, v \in Int : u = 3 + 1 /\ v = 3 + k /\ v <= Len(line) /\ u <= v + 1
                                       /\ v - u + 1 = k /\ 1 <= u
      OBVIOUS
    <3>4. ASSUME NEW i \in 1 .. Len(t) PROVE t[i] = line[u + i - 1]
      <4>1. i \in 1 .. k /\ i \in 1 .. F /\ u + i - 1 = 3 + i /\ u + i - 1 \in 1 .. 7 + F
        BY <3>2, <3>3
      <4>2. QED
        BY <2>2, <3>2, <4>1
    <3>5. SubSeq(line, u, v) = t
      BY <3>2, <3>3, <3>4, PartEquals
    <3>6. QED
      BY <3>1, <3>3, <3>5
  <2>8. QED
    BY <2>1, <2>6, <2>7, Zenon
<1>6. QED
  BY <1>4, <1>5

\* The request line.
LEMMA UriIs ==
  ASSUME NEW r, IsRequest(r), NEW n \in Nat, n <= Len(r.message), NEW x, IsData(x),
         x.content = SubSeq(r.message, 1, n), x.flag = "none", x.state = "PARSE_URI",
         NEW y, y = parse_URI(x)
  PROVE  \/ y.flag = "again" /\ y.state = "PARSE_URI" /\ n < r.headerEnd
         \/ y.flag = "error" /\ y.state = "PARSE_URI" /\ ~r.valid
         \/ /\ y.flag = "none" /\ y.state = "PARSE_HEADERS" /\ LineParsed(r, y)
            /\ y.h_state = x.h_state /\ y.headers = x.headers
            /\ Text(r, 8 + Len(r.file), n, y.content)
PROOF
<1>1. PICK F \in Nat : LineIs(r, r.message, F)
  BY LineSymbols
<1>2. PICK m, s : m = r.message /\ s = x.content
  OBVIOUS
<1>3. LineIs(r, m, F) /\ F = Len(r.file) /\ m \in Seq(STRING) /\ n <= Len(m) /\ Len(m) \in Nat
  <2>1. LineIs(r, m, F) /\ n <= Len(m)
    BY <1>1, <1>2, Zenon
  <2>2. F = Len(r.file) /\ m \in Seq(STRING)
    BY <2>1, Zenon DEF LineIs
  <2>3. QED
    BY <2>1, <2>2, LenProperties
<1>4. s \in Seq(STRING) /\ Len(s) = n /\ \A i \in 1 .. n : s[i] = m[i]
  <2>1. PICK u \in Int : u = 1 /\ 1 <= u /\ u <= n + 1 /\ n - u + 1 = n
    OBVIOUS
  <2>2. /\ SubSeq(m, u, n) \in Seq(STRING) /\ Len(SubSeq(m, u, n)) = n - u + 1
        /\ \A i \in 1 .. n - u + 1 : SubSeq(m, u, n)[i] = m[u + i - 1]
    BY <1>3, <2>1, PartIs
  <2>3. \A i \in 1 .. n : u + i - 1 = i
    BY <2>1
  <2>4. QED
    BY <1>2, <2>1, <2>2, <2>3
<1>5. CASE n < 8 + F
  <2>1. ASSUME NEW i \in Int, 1 <= i, i <= n PROVE s[i] # CR
    <3>1. i \in 1 .. n /\ i <= 7 + F
      BY <1>5, <2>1
    <3>2. m[i] # CR
      BY <1>3, <2>1, <3>1, LineWords
    <3>3. QED
      BY <1>4, <3>1, <3>2
  <2>2. y = [x EXCEPT !.flag = "again"]
    BY <1>2, <1>4, <2>1, LineNotRead
  <2>3. y.flag = "again" /\ y.state = "PARSE_URI"
    BY <2>2 DEF IsData
  <2>4. n < r.headerEnd
    <3>1. PICK H \in Nat : /\ r.at[1] = 10 + F /\ r.headerEnd = r.at[H + 1] + 1
                           /\ \A h \in 1 .. H + 1 : r.at[h] \in Nat
                           /\ \A h \in 1 .. H + 1 : \A g \in 1 .. h : r.at[g] <= r.at[h]
      BY <1>3, FieldsAscend
    <3>2. H + 1 \in 1 .. H + 1 /\ 1 \in 1 .. H + 1
      BY <3>1
    <3>3. PICK e \in Nat : e = r.at[H + 1] /\ 10 + F <= e /\ r.headerEnd = e + 1
      BY <3>1, <3>2
    <3>4. QED
      BY <1>5, <3>3
  <2>5. QED
    BY <2>3, <2>4
<1>6. CASE n >= 8 + F
  <2> DEFINE cr == Find(x.content, {CR}, 1)
             line == SubSeq(x.content, 1, cr - 1)
             get == Find(line, HasGET, 1)
             pos == IF get # 0 THEN get ELSE Find(line, HasPOST, 1)
             method == IF get # 0 THEN "GET" ELSE "POST"
             name == Find(line, {"/"}, pos)
             space == Find(line, {" "}, name)
             query == Find(SubSeq(line, 1, space), {"?"}, name)
             slash == Find(line, {"/"}, space)
             rest == [x EXCEPT !.content = SubSeq(@, cr + 1, Len(@))]
             file_name == IF space = name + 1 THEN <<"index.html">>
                          ELSE SubSeq(line, name + 1, (IF query = 0 THEN space ELSE query) - 1)
             bad == \/ pos = 0 \/ name = 0 \/ space = 0 \/ slash = 0 \/ slash = Len(line)
             accepted == line[slash + 1] \in HasVersion
             good == [rest EXCEPT !.method = method, !.file_name = file_name,
                                  !.flag = IF accepted THEN @ ELSE "error",
                                  !.state = IF accepted THEN "PARSE_HEADERS" ELSE @]
  <2>0. y = CASE cr = 0 -> [x EXCEPT !.flag = "again"]
              [] cr # 0 /\ bad -> [rest EXCEPT !.flag = "error"]
              [] OTHER -> good
    BY DEF parse_URI
  <2> HIDE DEF cr, line, get, pos, method, name, space, query, slash, rest, file_name, bad, accepted, good
  <2>1. cr = 8 + F
    <3>1. PICK k \in Int, a \in Int : k = 8 + F /\ a = 1 /\ a <= k /\ k <= n /\ k \in 1 .. n
      BY <1>6
    <3>2. s[k] = CR
      <4>1. m[8 + F] = CR
        BY <1>3 DEF LineIs
      <4>2. QED
        BY <1>4, <3>1, <4>1
    <3>3. ASSUME NEW i \in Int, a <= i, i < k PROVE s[i] # CR
      <4>1. i \in 1 .. n /\ 1 <= i /\ i <= 7 + F
        BY <1>6, <3>1, <3>3
      <4>2. m[i] # CR
        BY <1>3, <4>1, LineWords
      <4>3. QED
        BY <1>4, <4>1, <4>2
    <3>4. FirstAt(s, CR, a, k)
      BY <1>4, <3>1, <3>2, <3>3 DEF FirstAt
    <3>5. Find(s, {CR}, a) = k
      BY <3>4, FindIs
    <3>6. QED
      BY <1>2, <3>1, <3>5 DEF cr
  <2>2. line = SubSeq(s, 1, (8 + F) - 1)
    BY <1>2, <2>1, Zenon DEF line
  <2>3. line \in Seq(STRING) /\ Len(line) = 7 + F /\ \A i \in 1 .. 7 + F : line[i] = m[i]
    <3>1. PICK u \in Int, v \in Int : u = 1 /\ v = 7 + F /\ v = (8 + F) - 1 /\ v <= n
                                       /\ u <= v + 1 /\ v - u + 1 = 7 + F /\ 1 <= u
      BY <1>6
    <3>2. /\ SubSeq(s, u, v) \in Seq(STRING) /\ Len(SubSeq(s, u, v)) = v - u + 1
          /\ \A i \in 1 .. v - u + 1 : SubSeq(s, u, v)[i] = s[u + i - 1]
      BY <1>4, <3>1, PartIs
    <3>3. line = SubSeq(s, u, v)
      BY <2>2, <3>1
    <3>4. ASSUME NEW i \in 1 .. 7 + F PROVE line[i] = m[i]
      <4>1. u + i - 1 = i /\ i \in 1 .. n
        BY <1>6, <3>1
      <4>2. QED
        BY <1>4, <3>1, <3>2, <3>3, <4>1
    <3>5. QED
      BY <3>1, <3>2, <3>3, <3>4
  <2>4. /\ Find(line, HasGET, 1) = (IF r.method \in HasGET THEN 1 ELSE 0)
        /\ r.method \notin HasGET => Find(line, HasPOST, 1) = (IF r.method \in HasPOST THEN 1 ELSE 0)
        /\ r.method \in HasGET \cup HasPOST => Find(line, {"/"}, 1) = 3
        /\ Find(line, {" "}, 3) = 4 + F /\ Find(line, {"/"}, 4 + F) = 6 + F
    <3>1. LineRead(r, m, F, line)
      BY <1>3, <2>3 DEF LineRead
    <3>2. QED
      BY <3>1, LinePositions
  <2>5. Text(r, 8 + F, n, SubSeq(s, (8 + F) + 1, Len(s)))
    <3>1. PICK u \in Int : u = (8 + F) + 1 /\ 1 <= u /\ u <= n + 1
      BY <1>6
    <3>2. PICK t : t = SubSeq(m, u, n)
      OBVIOUS
    <3>3. /\ t \in Seq(STRING) /\ Len(t) = n - u + 1
          /\ \A i \in 1 .. n - u + 1 : t[i] = m[u + i - 1]
      <4>1. n \in Int /\ m \in Seq(STRING) /\ n <= Len(m)
        BY <1>3
      <4>2. QED
        BY <3>1, <3>2, <4>1, PartIs
    <3>4. ASSUME NEW i \in 1 .. Len(t) PROVE t[i] = s[u + i - 1]
      <4>1. i \in 1 .. n - u + 1 /\ u + i - 1 \in 1 .. n
        BY <3>1, <3>3
      <4>2. QED
        BY <1>4, <3>3, <4>1
    <3>5. SubSeq(s, u, n) = t
      BY <1>4, <3>1, <3>3, <3>4, PartEquals
    <3>6. 8 + F <= n
      BY <1>6
    <3>7. QED
      BY <1>2, <1>3, <1>4, <3>1, <3>2, <3>5, <3>6 DEF Text
  <2>6. y = IF bad THEN [rest EXCEPT !.flag = "error"] ELSE good
    <3>1. cr # 0
      BY <2>1
    <3>2. QED
      BY <2>0, <3>1, Zenon
  <2>7. x = [state |-> "PARSE_URI", h_state |-> x.h_state, content |-> x.content,
             method |-> x.method, file_name |-> x.file_name, headers |-> x.headers,
             flag |-> "none"]
    BY DEF IsData
  <2>8. r.valid = IsValid(r)
    BY DEF IsRequest
  <2>9. CASE r.method \notin HasGET \cup HasPOST
    <3>1. bad
      BY <2>4, <2>9 DEF bad, pos, get
    <3>2. y = [rest EXCEPT !.flag = "error"]
      BY <2>6, <3>1, Zenon
    <3>3. y.flag = "error" /\ y.state = "PARSE_URI"
      BY <2>7, <3>2 DEF rest
    <3>4. ~r.valid
      BY <2>8, <2>9 DEF IsValid
    <3>5. QED
      BY <3>3, <3>4
  <2>10. CASE r.method \in HasGET \cup HasPOST
    <3>1. method = Taken(r.method) /\ pos = 1
      <4>1. CASE r.method \in HasGET
        <5>1. get = 1
          BY <2>4, <4>1, Zenon DEF get
        <5>2. get # 0
          BY <5>1
        <5>3. QED
          BY <4>1, <5>1, <5>2, Zenon DEF method, pos, Taken
      <4>2. CASE r.method \notin HasGET
        <5>1. get = 0 /\ r.method \in HasPOST
          BY <2>4, <2>10, <4>2 DEF get
        <5>2. Find(line, HasPOST, 1) = 1
          BY <2>4, <4>2, <5>1
        <5>3. QED
          BY <4>2, <5>1, <5>2, Zenon DEF method, pos, Taken
      <4>3. QED
        BY <4>1, <4>2
    <3>2. name = 3
      BY <2>4, <2>10, <3>1, Zenon DEF name
    <3>3. space = 4 + F
      BY <2>4, <3>2, Zenon DEF space
    <3>4. slash = 6 + F
      BY <2>4, <3>3, Zenon DEF slash
    <3>5. slash + 1 = 7 + F /\ slash # Len(line) /\ slash # 0 /\ space # 0 /\ name # 0 /\ pos # 0
      BY <2>3, <3>1, <3>2, <3>3, <3>4
    <3>6. ~bad
      BY <3>1, <3>5 DEF bad
    <3>7. file_name = r.file_name
      <4>1. query = Find(SubSeq(line, 1, 4 + F), {"?"}, 3)
        BY <3>2, <3>3, Zenon DEF query
      <4>2. r.file_name = IF 4 + F = 3 + 1 THEN <<"index.html">>
                          ELSE SubSeq(line, 3 + 1, (IF query = 0 THEN 4 + F ELSE query) - 1)
        <5>1. LineRead(r, m, F, line)
          BY <1>3, <2>3 DEF LineRead
        <5>2. QED
          BY <4>1, <5>1, FileName
      <4>3. QED
        BY <3>2, <3>3, <4>2, Zenon DEF file_name
    <3>8. accepted <=> r.version \in HasVersion
      <4>1. 7 + F \in 1 .. 7 + F
        OBVIOUS
      <4>2. line[7 + F] = m[7 + F]
        BY <2>3, <4>1
      <4>3. m[7 + F] = r.version
        BY <1>3 DEF LineIs
      <4>4. line[slash + 1] = r.version
        BY <3>5, <4>2, <4>3, Zenon
      <4>5. QED
        BY <4>4, Zenon DEF accepted
    <3>9. y = [rest EXCEPT !.method = Taken(r.method), !.file_name = r.file_name,
                           !.flag = IF accepted THEN @ ELSE "error",
                           !.state = IF accepted THEN "PARSE_HEADERS" ELSE @]
      BY <2>6, <3>1, <3>6, <3>7, Zenon DEF good
    <3>10. y = [state |-> IF accepted THEN "PARSE_HEADERS" ELSE "PARSE_URI", h_state |-> x.h_state,
                content |-> SubSeq(s, (8 + F) + 1, Len(s)), method |-> Taken(r.method), file_name |-> r.file_name,
                headers |-> x.headers, flag |-> IF accepted THEN "none" ELSE "error"]
      <4>1. rest = [x EXCEPT !.content = SubSeq(s, (8 + F) + 1, Len(s))]
        BY <1>2, <2>1, Zenon DEF rest
      <4>2. QED
        BY <2>7, <3>9, <4>1
    <3>11. CASE r.version \in HasVersion
      <4>1. /\ y.flag = "none" /\ y.state = "PARSE_HEADERS" /\ y.h_state = x.h_state
            /\ y.headers = x.headers /\ y.method = Taken(r.method) /\ y.file_name = r.file_name
            /\ y.content = SubSeq(s, (8 + F) + 1, Len(s)) /\ IsData(y)
        <5>1. PICK z : z = SubSeq(s, (8 + F) + 1, Len(s))
          OBVIOUS
        <5>2. y = [state |-> "PARSE_HEADERS", h_state |-> x.h_state, content |-> z,
                   method |-> Taken(r.method), file_name |-> r.file_name,
                   headers |-> x.headers, flag |-> "none"]
          BY <3>8, <3>10, <3>11, <5>1, Zenon
        <5>3. /\ y.flag = "none" /\ y.state = "PARSE_HEADERS" /\ y.h_state = x.h_state
              /\ y.headers = x.headers /\ y.method = Taken(r.method) /\ y.file_name = r.file_name
              /\ y.content = z
          BY <5>2
        <5>4. IsData(y)
          BY <5>2, <5>3, Zenon DEF IsData
        <5>5. QED
          BY <5>1, <5>3, <5>4, Zenon
      <4>2. Text(r, 8 + Len(r.file), n, y.content)
        BY <1>3, <2>5, <4>1, Zenon
      <4>3. LineParsed(r, y)
        BY <2>10, <3>11, <4>1 DEF LineParsed
      <4>4. QED
        BY <4>1, <4>2, <4>3
    <3>12. CASE r.version \notin HasVersion
      <4>1. y.flag = "error" /\ y.state = "PARSE_URI"
        BY <3>8, <3>10, <3>12
      <4>2. ~r.valid
        BY <2>8, <3>12 DEF IsValid
      <4>3. QED
        BY <4>1, <4>2
    <3>13. QED
      BY <3>11, <3>12
  <2>11. QED
    BY <2>9, <2>10
<1>7. QED
  BY <1>5, <1>6

\* Nothing but what was sent is made of n symbols of r.
Understood(r, n, x) ==
  \/ x = requestData /\ n = 0
  \/ /\ x.flag = "again" /\ x.state \in {"PARSE_URI", "PARSE_HEADERS"}
     /\ n < r.headerEnd \/ r.headers = {}
  \/ x.flag = "error" /\ x.state \in {"PARSE_URI", "PARSE_HEADERS", "RECV_BODY"} /\ ~r.valid
  \/ /\ x.flag = "none" /\ x.state = "RECV_BODY" /\ x.method = "POST"
     /\ r.valid /\ IsRequest(r) /\ HeadersParsed(r, x) /\ BodyComes(r, n, x)
  \/ /\ x.flag \in {"none", "error", "success"} /\ x.state \in {"ANALYSIS", "200", "404", "FINISH"}
     /\ r.valid /\ HeadersParsed(r, x)
     /\ x.method = "POST" => n + 3 >= Len(r.message)

\* recv_body, when there is something in content.
LEMMA BodyIs ==
  ASSUME NEW r, IsRequest(r), NEW n \in Int, NEW x, HeadersParsed(r, x), BodyComes(r, n, x),
         x.flag = "none", x.state = "RECV_BODY", x.method = "POST"
  PROVE  Understood(r, n, recv_body(x))
PROOF
<1>1. /\ IsData(x) /\ r.method \in HasGET \cup HasPOST /\ r.version \in HasVersion
      /\ x.method = Taken(r.method) /\ x.file_name = r.file_name /\ x.headers = r.headers
      /\ \A h \in DOMAIN r.fields : ~Overlong(r, h)
  BY DEF HeadersParsed, LineParsed
<1>11. r.method \notin HasGET
  BY <1>1 DEF Taken
<1>2. r.headers = {<<<<r.fields[h].key>>, r.fields[h].value>> : h \in DOMAIN r.fields}
  BY DEF IsRequest, HasFields
<1>3. r.valid <=> \E h \in DOMAIN r.fields : r.fields[h].key = "Content-length"
  <2>1. r.valid = IsValid(r)
    BY DEF IsRequest
  <2>2. IsValid(r) <=> \E h \in DOMAIN r.fields : r.fields[h].key = "Content-length"
    BY <1>1, <1>11, Zenon DEF IsValid, Overlong
  <2>3. QED
    BY <2>1, <2>2, Zenon
<1> DEFINE lengths == {z[2] : z \in {y \in x.headers : y[1] = <<"Content-length">>}}
<1>4. recv_body(x) = IF lengths = {} THEN [x EXCEPT !.flag = "error"]
                     ELSE IF \E v \in lengths : Len(x.content) < stoi(v[1]) THEN x
                     ELSE [x EXCEPT !.state = "ANALYSIS"]
  BY DEF recv_body
<1>5. ASSUME NEW h \in DOMAIN r.fields, r.fields[h].key = "Content-length"
      PROVE  r.fields[h].value \in lengths
  <2>1. PICK z : z = <<<<"Content-length">>, r.fields[h].value>>
    OBVIOUS
  <2>2. z \in x.headers
    BY <1>1, <1>2, <1>5, <2>1, Zenon
  <2>3. z[1] = <<"Content-length">> /\ z[2] = r.fields[h].value
    BY <2>1
  <2>4. QED
    BY <2>2, <2>3, Zenon
<1>6. lengths # {} => r.valid
  <2>1. SUFFICES ASSUME NEW z \in x.headers, z[1] = <<"Content-length">> PROVE r.valid
    BY Zenon
  <2>2. PICK h \in DOMAIN r.fields : z = <<<<r.fields[h].key>>, r.fields[h].value>>
    BY <1>1, <1>2, Zenon
  <2>3. <<r.fields[h].key>> = <<"Content-length">>
    BY <2>1, <2>2
  <2>4. r.fields[h].key = "Content-length"
    BY <2>3
  <2>5. QED
    BY <1>3, <2>4
<1> HIDE DEF lengths
<1>7. CASE lengths = {}
  <2>1. recv_body(x) = [x EXCEPT !.flag = "error"]
    BY <1>4, <1>7, Zenon
  <2>2. PICK y : y = recv_body(x)
    OBVIOUS
  <2>3. y.flag = "error" /\ y.state = "RECV_BODY"
    BY <1>1, <2>1, <2>2 DEF IsData
  <2>4. ~r.valid
    BY <1>3, <1>5, <1>7, Zenon
  <2>5. QED
    BY <2>2, <2>3, <2>4 DEF Understood
<1>8. CASE lengths # {} /\ \E v \in lengths : Len(x.content) < stoi(v[1])
  <2>1. recv_body(x) = x
    BY <1>4, <1>8, Zenon
  <2>2. QED
    BY <1>6, <1>8, <2>1 DEF Understood
<1>9. CASE lengths # {} /\ ~\E v \in lengths : Len(x.content) < stoi(v[1])
  <2>1. recv_body(x) = [x EXCEPT !.state = "ANALYSIS"]
    BY <1>4, <1>9, Zenon
  <2>2. PICK y : y = recv_body(x)
    OBVIOUS
  <2>3. /\ y.flag = "none" /\ y.state = "ANALYSIS" /\ y.method = x.method
        /\ y.file_name = x.file_name /\ y.headers = x.headers
    BY <1>1, <2>1, <2>2 DEF IsData
  <2>4. IsData(y)
    BY <1>1, <2>1, <2>2 DEF IsData
  <2>5. HeadersParsed(r, y)
    BY <1>1, <2>3, <2>4 DEF HeadersParsed, LineParsed
  <2>6. PICK h \in DOMAIN r.fields : r.fields[h].key = "Content-length"
    BY <1>3, <1>6, <1>9
  <2>7. PICK k \in Nat : k = stoi(r.fields[h].value[1]) /\ r.headerEnd + k = Len(r.message)
    BY <2>6 DEF IsRequest, HasBody
  <2>8. ~(Len(x.content) < k)
    BY <1>5, <1>9, <2>6, <2>7, Zenon
  <2>9. PICK E \in Int : E = r.headerEnd
    <3>1. PICK H \in Nat : r.headerEnd = r.at[H + 1] + 1 /\ \A g \in 1 .. H + 1 : r.at[g] \in Nat
      BY FieldsAscend
    <3>2. H + 1 \in 1 .. H + 1
      BY <3>1
    <3>3. QED
      BY <3>1, <3>2
  <2>10. PICK l \in Nat : l = Len(x.content) /\ l <= n - r.headerEnd + 3
    BY LenProperties DEF BodyComes
  <2>11. n + 3 >= E + k
    BY <2>8, <2>9, <2>10
  <2>12. n + 3 >= Len(r.message)
    BY <2>7, <2>9, <2>11
  <2>13. QED
    BY <1>6, <1>9, <2>2, <2>3, <2>5, <2>12, Zenon DEF Understood
<1>10. QED
  BY <1>7, <1>8, <1>9

\* The symbols that have been read are added to content.
Grown(x, reads) == [x EXCEPT !.content = @ \o reads]

\* Nothing else changes.
GrowsTo(x, reads, y) ==
  /\ IsData(y) /\ y.content = x.content \o reads /\ y.state = x.state /\ y.flag = x.flag
  /\ y.h_state = x.h_state /\ y.method = x.method /\ y.file_name = x.file_name
  /\ y.headers = x.headers

\* That is so.
LEMMA ContentGrows ==
  ASSUME NEW x, IsData(x), NEW reads
  PROVE  GrowsTo(x, reads, Grown(x, reads))
PROOF
<1>0. PICK y : y = Grown(x, reads)
  OBVIOUS
<1>1. PICK c : c = x.content \o reads
  OBVIOUS
<1>2. y = [x EXCEPT !.content = c]
  BY <1>0, <1>1 DEF Grown
<1>3. /\ IsData(y) /\ y.content = c /\ y.state = x.state /\ y.flag = x.flag
      /\ y.h_state = x.h_state /\ y.method = x.method /\ y.file_name = x.file_name
      /\ y.headers = x.headers
  BY <1>2 DEF IsData
<1>4. QED
  BY <1>0, <1>1, <1>3, Zenon DEF GrowsTo

\* The first part of what a client sends.
LEMMA ReceivedFirst ==
  ASSUME NEW r, IsFragment(r) \/ IsRequest(r), NEW n \in Nat, n <= Len(r.message)
  PROVE  Understood(r, n, Received(requestData, SubSeq(r.message, 0 + 1, n)))
PROOF
<1> DEFINE reads == SubSeq(r.message, 0 + 1, n)
           x1 == [requestData EXCEPT !.content = @ \o reads]
           x2 == IF x1.state = "PARSE_URI" THEN parse_URI(x1) ELSE x1
           x3 == IF x2.flag = "none" /\ x2.state = "PARSE_HEADERS" THEN parse_Headers(x2) ELSE x2
           x4 == IF x3.flag = "none" /\ x3.state = "RECV_BODY" THEN recv_body(x3) ELSE x3
<1>1. SUFFICES Understood(r, n, x4)
  <2>1. Received(requestData, reads) = x4
    BY DEF Received, AfterLine, AfterHeaders, AfterBody
  <2> HIDE DEF x4
  <2>2. QED
    BY <2>1 DEF reads
<1>2. /\ IsData(requestData) /\ requestData.content = <<>> /\ requestData.state = "PARSE_URI"
      /\ requestData.h_state = "start" /\ requestData.headers = {} /\ requestData.flag = "none"
  BY DEF IsData, requestData
<1>3. PICK m : m = r.message
  OBVIOUS
<1>4. m \in Seq(STRING) /\ Len(m) \in Nat /\ n <= Len(m)
  <2>1. IsRequest(r) => m \in Seq(STRING)
    BY <1>3 DEF IsRequest
  <2>2. ASSUME IsFragment(r) PROVE m \in Seq(STRING)
    <3>1. m \in Seq(STRING \ {CR})
      BY <1>3, <2>2 DEF IsFragment
    <3>2. Len(m) \in Nat /\ \A i \in 1 .. Len(m) : m[i] \in STRING
      BY <3>1, LenProperties, ElementOfSeq
    <3>3. QED
      BY <3>1, <3>2, SeqDef
  <2>3. QED
    BY <1>3, <2>1, <2>2, LenProperties
<1>5. PICK s : s = SubSeq(m, 1, n)
  OBVIOUS
<1>6. s \in Seq(STRING) /\ Len(s) = n /\ \A i \in 1 .. n : s[i] = m[i]
  <2>1. PICK u \in Int : u = 1 /\ 1 <= u /\ u <= n + 1 /\ n - u + 1 = n
    OBVIOUS
  <2>2. /\ SubSeq(m, u, n) \in Seq(STRING) /\ Len(SubSeq(m, u, n)) = n - u + 1
        /\ \A i \in 1 .. n - u + 1 : SubSeq(m, u, n)[i] = m[u + i - 1]
    BY <1>4, <2>1, PartIs
  <2>3. \A i \in 1 .. n : u + i - 1 = i
    BY <2>1
  <2>4. QED
    BY <1>5, <2>1, <2>2, <2>3
<1>7. reads = s
  BY <1>3, <1>5
<1> HIDE DEF reads
<1>8. /\ IsData(x1) /\ x1.content = s /\ x1.state = "PARSE_URI" /\ x1.flag = "none"
      /\ x1.h_state = "start" /\ x1.headers = {}
  <2>1. /\ IsData(x1) /\ x1.content = requestData.content \o reads /\ x1.state = requestData.state
        /\ x1.flag = requestData.flag /\ x1.h_state = requestData.h_state
        /\ x1.headers = requestData.headers
    <3>1. x1 = Grown(requestData, reads)
      BY DEF Grown
    <3> HIDE DEF x1
    <3>2. GrowsTo(requestData, reads, x1)
      BY <1>2, <3>1, ContentGrows, Zenon
    <3>3. QED
      BY <3>2, Zenon DEF GrowsTo
  <2>2. <<>> \o s = s
    BY <1>6
  <2> HIDE DEF x1
  <2>3. QED
    BY <1>2, <1>7, <2>1, <2>2, Zenon
<1> HIDE DEF x1
<1>9. x2 = parse_URI(x1)
  BY <1>8
<1> HIDE DEF x2
<1>10. ASSUME x2.flag \in {"again", "error"}, Understood(r, n, x2)
       PROVE  Understood(r, n, x4)
  <2>1. x3 = x2 /\ x4 = x2
    BY <1>10
  <2>2. QED
    BY <1>10, <2>1
<1>11. CASE IsFragment(r)
  <2>1. ASSUME NEW i \in Int, 1 <= i, i <= n PROVE s[i] # CR
    <3>1. m \in Seq(STRING \ {CR})
      BY <1>3, <1>11 DEF IsFragment
    <3>2. i \in 1 .. Len(m) /\ i \in 1 .. n
      BY <1>4, <2>1
    <3>3. m[i] \in STRING \ {CR}
      BY <3>1, <3>2, ElementOfSeq
    <3>4. QED
      BY <1>6, <3>2, <3>3
  <2>2. x2 = [x1 EXCEPT !.flag = "again"]
    BY <1>6, <1>8, <1>9, <2>1, LineNotRead
  <2>3. x2.flag = "again" /\ x2.state = "PARSE_URI"
    BY <1>8, <2>2 DEF IsData
  <2>4. r.headers = {}
    BY <1>11 DEF IsFragment
  <2>5. Understood(r, n, x2)
    BY <2>3, <2>4 DEF Understood
  <2>6. QED
    BY <1>10, <2>3, <2>5
<1>12. CASE IsRequest(r)
  <2>1. \/ x2.flag = "again" /\ x2.state = "PARSE_URI" /\ n < r.headerEnd
        \/ x2.flag = "error" /\ x2.state = "PARSE_URI" /\ ~r.valid
        \/ /\ x2.flag = "none" /\ x2.state = "PARSE_HEADERS" /\ LineParsed(r, x2)
           /\ x2.h_state = x1.h_state /\ x2.headers = x1.headers
           /\ Text(r, 8 + Len(r.file), n, x2.content)
    BY <1>3, <1>5, <1>8, <1>9, <1>12, UriIs
  <2>2. CASE x2.flag # "none"
    <3>1. Understood(r, n, x2) /\ x2.flag \in {"again", "error"}
      BY <2>1, <2>2 DEF Understood
    <3>2. QED
      BY <1>10, <3>1
  <2>3. CASE x2.flag = "none"
    <3>1. /\ x2.state = "PARSE_HEADERS" /\ LineParsed(r, x2)
          /\ x2.h_state = "start" /\ x2.headers = {}
          /\ Text(r, 8 + Len(r.file), n, x2.content)
      BY <1>8, <2>1, <2>3
    <3>2. x3 = parse_Headers(x2)
      BY <2>3, <3>1
    <3> HIDE DEF x3
    <3>3. \/ x3.flag = "again" /\ x3.state = "PARSE_HEADERS" /\ (n < r.headerEnd \/ r.headers = {})
          \/ x3.flag = "error" /\ x3.state = "PARSE_HEADERS" /\ ~r.valid
          \/ /\ x3.flag = "none" /\ x3.state = (IF x2.method = "POST" THEN "RECV_BODY" ELSE "ANALYSIS")
             /\ HeadersParsed(r, x3) /\ BodyComes(r, n, x3)
      BY <2>3, <3>1, <3>2, HeadersAre
    <3>4. CASE x3.flag # "none"
      <4>1. Understood(r, n, x3)
        BY <3>3, <3>4 DEF Understood
      <4>2. x4 = x3
        BY <3>4
      <4>3. QED
        BY <4>1, <4>2
    <3>8. x3.flag = "none" => HeadersParsed(r, x3) /\ x2.method = x3.method
      BY <3>1, <3>3 DEF HeadersParsed, LineParsed
    <3>5. CASE x3.flag = "none" /\ x3.method = "POST"
      <4>1. x4 = recv_body(x3) /\ x3.state = "RECV_BODY" /\ HeadersParsed(r, x3) /\ BodyComes(r, n, x3)
        BY <3>3, <3>5, <3>8
      <4>2. Understood(r, n, recv_body(x3))
        BY <1>12, <3>5, <4>1, BodyIs
      <4>3. QED
        BY <4>1, <4>2
    <3>6. CASE x3.flag = "none" /\ x3.method # "POST"
      <4>1. x3.state = "ANALYSIS" /\ HeadersParsed(r, x3) /\ x4 = x3
        BY <3>3, <3>6, <3>8
      <4>2. r.valid
        <5>1. /\ r.method \in HasGET /\ r.version \in HasVersion
              /\ \A h \in DOMAIN r.fields : ~Overlong(r, h)
          BY <3>6, <4>1 DEF HeadersParsed, LineParsed, Taken
        <5>2. IsValid(r)
          BY <5>1, Zenon DEF IsValid, Overlong
        <5>3. QED
          BY <1>12, <5>2, Zenon DEF IsRequest
      <4>3. Understood(r, n, x3)
        BY <3>6, <4>1, <4>2 DEF Understood
      <4>4. QED
        BY <4>1, <4>3
    <3>7. QED
      BY <3>4, <3>5, <3>6
  <2>4. QED
    BY <2>2, <2>3
<1>13. QED
  BY <1>11, <1>12

\* What comes when the headers have been read.
LEMMA ReceivedMore ==
  ASSUME NEW r, IsRequest(r), NEW k \in Nat, NEW n \in Nat, k <= n, n <= Len(r.message),
         NEW x, x.flag = "none", x.state = "RECV_BODY", x.method = "POST",
         HeadersParsed(r, x), BodyComes(r, k, x)
  PROVE  Understood(r, n, Received(x, SubSeq(r.message, k + 1, n)))
PROOF
<1>1. PICK m, s : m = r.message /\ s = SubSeq(m, k + 1, n)
  OBVIOUS
<1>2. m \in Seq(STRING) /\ Len(m) \in Nat /\ n <= Len(m)
  BY <1>1 DEF IsRequest
<1>3. s \in Seq(STRING) /\ Len(s) = n - k
  <2>1. PICK u \in Int, v \in Int : u = k + 1 /\ v = n /\ 1 <= u /\ u <= v + 1 /\ v - u + 1 = n - k
    OBVIOUS
  <2>2. /\ SubSeq(m, u, v) \in Seq(STRING) /\ Len(SubSeq(m, u, v)) = v - u + 1
    BY <1>2, <2>1, PartIs
  <2>3. QED
    BY <1>1, <2>1, <2>2
<1>4. PICK y : y = Grown(x, s)
  OBVIOUS
<1>5. IsData(x)
  BY DEF HeadersParsed, LineParsed
<1>6. /\ IsData(y) /\ y.content = x.content \o s /\ y.state = x.state /\ y.flag = x.flag
      /\ y.h_state = x.h_state /\ y.method = x.method /\ y.file_name = x.file_name
      /\ y.headers = x.headers
  <2>1. GrowsTo(x, s, y)
    BY <1>4, <1>5, ContentGrows, Zenon
  <2>2. QED
    BY <2>1, Zenon DEF GrowsTo
<1>7. Received(x, s) = recv_body(y)
  BY <1>4, <1>6 DEF Received, AfterLine, AfterHeaders, AfterBody, Grown
<1>8. HeadersParsed(r, y)
  BY <1>6 DEF HeadersParsed, LineParsed
<1>9. BodyComes(r, n, y)
  <2>1. PICK l \in Nat : x.content \in Seq(STRING) /\ l = Len(x.content) /\ l <= k - r.headerEnd + 3
    BY LenProperties DEF BodyComes
  <2>2. y.content \in Seq(STRING) /\ Len(y.content) = l + (n - k)
    <3>1. PICK c : c = x.content
      OBVIOUS
    <3>2. c \in Seq(STRING) /\ l = Len(c) /\ y.content = c \o s
      BY <1>6, <2>1, <3>1
    <3>3. c \o s \in Seq(STRING) /\ Len(c \o s) = Len(c) + Len(s)
      <4>1. c \in Seq(STRING) /\ s \in Seq(STRING)
        BY <1>3, <3>2
      <4>2. QED
        BY ONLY <4>1, ConcatProperties
    <3>4. QED
      BY <1>3, <3>2, <3>3, Zenon
  <2>3. PICK E \in Int : E = r.headerEnd
    <3>1. PICK H \in Nat : r.headerEnd = r.at[H + 1] + 1 /\ \A g \in 1 .. H + 1 : r.at[g] \in Nat
      BY FieldsAscend
    <3>2. H + 1 \in 1 .. H + 1
      BY <3>1
    <3>3. QED
      BY <3>1, <3>2
  <2>4. l + (n - k) <= n - E + 3
    BY <2>1, <2>3
  <2>5. QED
    BY <2>2, <2>3, <2>4 DEF BodyComes
<1>10. Understood(r, n, recv_body(y))
  BY <1>6, <1>8, <1>9, BodyIs
<1>11. QED
  BY <1>1, <1>7, <1>10

\* Whatever has been read, a requestData has its fields.
LEMMA ReceivedData ==
  ASSUME NEW x, IsData(x), NEW reads
  PROVE  IsData(Received(x, reads))
PROOF
<1>1. ASSUME NEW y, IsData(y), NEW c
      PROVE  IsData([y EXCEPT !.content = c])
  <2>1. PICK z : z = [y EXCEPT !.content = c]
    OBVIOUS
  <2>2. z = [state |-> y.state, h_state |-> y.h_state, content |-> c,
             method |-> y.method, file_name |-> y.file_name, headers |-> y.headers,
             flag |-> y.flag]
    BY <1>1, <2>1 DEF IsData
  <2>3. z.state = y.state /\ z.h_state = y.h_state /\ z.content = c
        /\ z.method = y.method /\ z.file_name = y.file_name
        /\ z.headers = y.headers /\ z.flag = y.flag
    BY <2>2
  <2>4. QED
    BY <2>1, <2>2, <2>3, Zenon DEF IsData
<1>2. ASSUME NEW y, IsData(y), NEW f
      PROVE  IsData([y EXCEPT !.flag = f])
  <2>1. PICK z : z = [y EXCEPT !.flag = f]
    OBVIOUS
  <2>2. z = [state |-> y.state, h_state |-> y.h_state, content |-> y.content,
             method |-> y.method, file_name |-> y.file_name, headers |-> y.headers,
             flag |-> f]
    BY <1>2, <2>1 DEF IsData
  <2>3. z.state = y.state /\ z.h_state = y.h_state /\ z.content = y.content
        /\ z.method = y.method /\ z.file_name = y.file_name
        /\ z.headers = y.headers /\ z.flag = f
    BY <2>2
  <2>4. QED
    BY <2>1, <2>2, <2>3, Zenon DEF IsData
<1>3. ASSUME NEW y, IsData(y), NEW s
      PROVE  IsData([y EXCEPT !.state = s])
  <2>1. PICK z : z = [y EXCEPT !.state = s]
    OBVIOUS
  <2>2. z = [state |-> s, h_state |-> y.h_state, content |-> y.content,
             method |-> y.method, file_name |-> y.file_name, headers |-> y.headers,
             flag |-> y.flag]
    BY <1>3, <2>1 DEF IsData
  <2>3. z.state = s /\ z.h_state = y.h_state /\ z.content = y.content
        /\ z.method = y.method /\ z.file_name = y.file_name
        /\ z.headers = y.headers /\ z.flag = y.flag
    BY <2>2
  <2>4. QED
    BY <2>1, <2>2, <2>3, Zenon DEF IsData
<1>4. ASSUME NEW y, IsData(y), NEW m, NEW n, NEW f, NEW s
      PROVE  IsData([y EXCEPT !.method = m, !.file_name = n, !.flag = f, !.state = s])
  <2>1. PICK z : z = [y EXCEPT !.method = m, !.file_name = n, !.flag = f, !.state = s]
    OBVIOUS
  <2>2. z = [state |-> s, h_state |-> y.h_state, content |-> y.content, method |-> m,
             file_name |-> n, headers |-> y.headers, flag |-> f]
    BY <1>4, <2>1 DEF IsData
  <2>3. z.state = s /\ z.h_state = y.h_state /\ z.content = y.content
        /\ z.method = m /\ z.file_name = n /\ z.headers = y.headers /\ z.flag = f
    BY <2>2
  <2>4. QED
    BY <2>1, <2>2, <2>3, Zenon DEF IsData
<1>5. ASSUME NEW y, IsData(y), NEW h, NEW e, NEW c, NEW f, NEW s
      PROVE  IsData([y EXCEPT !.h_state = h, !.headers = e, !.content = c, !.flag = f,
                              !.state = s])
  <2>1. PICK z : z = [y EXCEPT !.h_state = h, !.headers = e, !.content = c, !.flag = f,
                              !.state = s]
    OBVIOUS
  <2>2. z = [state |-> s, h_state |-> h, content |-> c, method |-> y.method,
             file_name |-> y.file_name, headers |-> e, flag |-> f]
    BY <1>5, <2>1 DEF IsData
  <2>3. z.state = s /\ z.h_state = h /\ z.content = c /\ z.method = y.method
        /\ z.file_name = y.file_name /\ z.headers = e /\ z.flag = f
    BY <2>2
  <2>4. QED
    BY <2>1, <2>2, <2>3, Zenon DEF IsData
<1>6. ASSUME NEW y, IsData(y) PROVE IsData(parse_URI(y))
  <2> DEFINE cr == Find(y.content, {CR}, 1)
             line == SubSeq(y.content, 1, cr - 1)
             get == Find(line, HasGET, 1)
             pos == IF get # 0 THEN get ELSE Find(line, HasPOST, 1)
             name == Find(line, {"/"}, pos)
             space == Find(line, {" "}, name)
             query == Find(SubSeq(line, 1, space), {"?"}, name)
             slash == Find(line, {"/"}, space)
             rest == [y EXCEPT !.content = SubSeq(@, cr + 1, Len(@))]
             method == IF get # 0 THEN "GET" ELSE "POST"
             file_name == IF space = name + 1 THEN <<"index.html">>
                          ELSE SubSeq(line, name + 1, (IF query = 0 THEN space ELSE query) - 1)
             bad == \/ pos = 0 \/ name = 0 \/ space = 0 \/ slash = 0 \/ slash = Len(line)
             accepted == line[slash + 1] \in HasVersion
             good == [rest EXCEPT !.method = method, !.file_name = file_name,
                                  !.flag = IF accepted THEN @ ELSE "error",
                                  !.state = IF accepted THEN "PARSE_HEADERS" ELSE @]
  <2>1. parse_URI(y) = CASE cr = 0 -> [y EXCEPT !.flag = "again"]
                         [] cr # 0 /\ bad -> [rest EXCEPT !.flag = "error"]
                         [] OTHER -> good
    BY DEF parse_URI
  <2>2. rest = [y EXCEPT !.content = SubSeq(y.content, cr + 1, Len(y.content))]
    OBVIOUS
  <2> HIDE DEF cr, line, get, pos, method, name, space, query, slash, rest, file_name, bad, accepted
  <2>3. IsData(rest)
    BY <1>1, <1>6, <2>2, Zenon
  <2>4. good = [rest EXCEPT !.method = method, !.file_name = file_name,
                            !.flag = IF accepted THEN rest.flag ELSE "error",
                            !.state = IF accepted THEN "PARSE_HEADERS" ELSE rest.state]
    OBVIOUS
  <2> HIDE DEF good
  <2>5. IsData(good) /\ IsData([rest EXCEPT !.flag = "error"]) /\ IsData([y EXCEPT !.flag = "again"])
    BY <1>2, <1>4, <1>6, <2>3, <2>4, Zenon
  <2>6. QED
    BY <2>1, <2>5, Zenon
<1>7. ASSUME NEW y, IsData(y) PROVE IsData(parse_Headers(y))
  <2> DEFINE p == HeaderScan(y.content, [h_state |-> y.h_state, notFinish |-> TRUE,
                    key_start |-> 0, key_end |-> 0, value_start |-> 0, value_end |-> 0,
                    now_read_line_begin |-> 1, headers |-> y.headers])
             h == p.h_state
             e == p.headers
             c == IF p.h_state = "error" THEN y.content
                  ELSE SubSeq(y.content, p.now_read_line_begin, Len(y.content))
             f == CASE p.h_state = "error"  -> "error"
                    [] p.h_state = "end_LF" -> y.flag
                    [] OTHER                -> "again"
             s == IF p.h_state # "end_LF" THEN y.state
                  ELSE IF y.method = "POST" THEN "RECV_BODY" ELSE "ANALYSIS"
  <2>1. parse_Headers(y) =
          [y EXCEPT !.h_state = h, !.headers = e, !.content = c, !.flag = f, !.state = s]
    BY DEF parse_Headers
  <2> HIDE DEF h, e, c, f, s
  <2>2. IsData([y EXCEPT !.h_state = h, !.headers = e, !.content = c, !.flag = f, !.state = s])
    BY <1>5, <1>7
  <2>3. QED
    BY <2>1, <2>2, Zenon
<1>8. ASSUME NEW y, IsData(y) PROVE IsData(recv_body(y))
  BY <1>2, <1>3, <1>8, Zenon DEF recv_body
<1>9. PICK y : y = [x EXCEPT !.content = x.content \o reads] /\ IsData(y)
  BY <1>1
<1>10. QED
  <2>1. Received(x, reads) =
          LET r2 == IF y.state = "PARSE_URI" THEN parse_URI(y) ELSE y
              r3 == IF r2.flag = "none" /\ r2.state = "PARSE_HEADERS" THEN parse_Headers(r2) ELSE r2
          IN  IF r3.flag = "none" /\ r3.state = "RECV_BODY" THEN recv_body(r3) ELSE r3
    BY <1>9, Zenon DEF Received, AfterLine, AfterHeaders, AfterBody
  <2>2. PICK r2 : r2 = (IF y.state = "PARSE_URI" THEN parse_URI(y) ELSE y) /\ IsData(r2)
    BY <1>6, <1>9, Zenon
  <2>3. PICK r3 : /\ r3 = (IF r2.flag = "none" /\ r2.state = "PARSE_HEADERS" THEN parse_Headers(r2) ELSE r2)
                  /\ IsData(r3)
    BY <1>7, <2>2, Zenon
  <2>4. Received(x, reads) = IF r3.flag = "none" /\ r3.state = "RECV_BODY" THEN recv_body(r3) ELSE r3
    BY <2>1, <2>2, <2>3, Zenon
  <2>5. QED
    BY <1>8, <2>3, <2>4, Zenon

-----------------------------------------------------------------------------
(* What the server makes of the requests of its clients. *)

\* The requests that are in the pool or may still come into it.
Ahead == InMain \cup InPool \cup backlog \cup {c \in Conns : client[c] = "none"}

\* The pool has a request once.
HeldOnce ==
  /\ \A m, n \in DOMAIN Contents : Contents[m] = Contents[n] => m = n
  /\ \A t \in Threads : \A n \in DOMAIN Contents : task[t] # Contents[n]
  /\ \A t, u \in Threads : task[t] = task[u] /\ task[t] # NoTask => t = u

\* The server has read no more of what a client sends than has been sent.
SentOK ==
  /\ sent \in [Conns -> Nat] /\ read \in [Conns -> Nat]
  /\ req = [c \in Conns |-> req[c]]
  /\ \A c \in Conns : PlanOK(plan[c]) /\ read[c] <= sent[c] /\ sent[c] <= Len(Message(c))

\* A request whose handler has returned does not come into the pool again.
Finished == \A c \in Conns : req[c].flag # "none" => c \notin Ahead

\* The requests are what the clients mean, if it is one that they send.
AllUnderstood ==
  \A c \in Conns : /\ IsData(req[c])
                   /\ IsMeant(c) => Understood(plan[c].request, read[c], req[c])

\* The inductive invariant behind RequestUnderstood: a handler only works on a
\* request that no handler has returned from, which Finished and HeldOnce say.
RequestIInv ==
  /\ ServerIInv /\ SentOK /\ AllUnderstood
  /\ main # "user" => HeldOnce /\ Finished

\* threadpool_add, of a request that the pool does not have.
LEMMA AddHolds ==
  ASSUME IInv, IInv', HeldOnce, NEW c \in Tasks, Add(c), c \notin InPool
  PROVE  HeldOnce'
PROOF
<1>1. Contents \in Seq(Tasks) /\ Contents' = Append(Contents, c)
  <2>1. ContentsInOrder
    BY ContentsSeq
  <2>2. QED
    BY <2>1, AddSubmits DEF Fifo!Submit, ContentsInOrder
<1>2. task' = task
  BY DEF Add
<1>3. /\ \A n \in DOMAIN Contents : Contents[n] # c
      /\ \A t \in Threads : task[t] # c
  BY NoTaskAssumption DEF InPool
<1>4. /\ DOMAIN Contents' = DOMAIN Contents \cup {Len(Contents) + 1}
      /\ \A n \in DOMAIN Contents : Contents'[n] = Contents[n]
      /\ Contents'[Len(Contents) + 1] = c
  BY <1>1, AppendProperties, LenProperties
<1>5. QED
  BY <1>2, <1>3, <1>4, Zenon DEF HeldOnce

\* A thread that takes a task takes it out of the ring.
LEMMA TakeHolds ==
  ASSUME IInv, IInv', HeldOnce, NEW t \in Threads, Take(t)
  PROVE  HeldOnce'
PROOF
<1>1. Contents \in Seq(Tasks) /\ Contents # <<>> /\ Contents' = Tail(Contents)
  <2>1. ContentsInOrder
    BY ContentsSeq
  <2>2. QED
    BY <2>1, TakeExecutes DEF Fifo!Execute, ContentsInOrder
<1>2. /\ \A n \in DOMAIN Contents' : /\ n \in Nat /\ n + 1 \in DOMAIN Contents /\ n + 1 # 1
                                     /\ Contents'[n] = Contents[n + 1]
      /\ 1 \in DOMAIN Contents
  BY <1>1, HeadTailProperties, EmptySeq, LenProperties
<1>3. task' = [task EXCEPT ![t] = Contents[1]]
  <2>1. 1 \in 1 .. count /\ head \in Slots /\ count <= queue_size
    BY PoolAssumption DEF Take, IInv, PoolTypeOK
  <2>2. Contents[1] = queue[Place(head, 1 - 1)] /\ 1 - 1 = 0
    BY <2>1, ContentsSeq DEF ContentsInOrder
  <2>3. Place(head, 0) = head
    BY <2>1, PlaceInRing, PoolAssumption DEF Slots
  <2>4. QED
    BY <2>2, <2>3 DEF Take
<1>4. task \in [Threads -> Tasks \cup {NoTask}]
  BY DEF IInv, PoolTypeOK
<1>5. \A m, n \in DOMAIN Contents' : Contents'[m] = Contents'[n] => m = n
  <2>1. ASSUME NEW m \in DOMAIN Contents', NEW n \in DOMAIN Contents', Contents'[m] = Contents'[n]
        PROVE  m + 1 = n + 1 /\ m \in Nat /\ n \in Nat
    BY <1>2, <2>1 DEF HeldOnce
  <2>2. ASSUME NEW m \in Nat, NEW n \in Nat, m + 1 = n + 1 PROVE m = n
    BY <2>2
  <2>3. QED
    BY <2>1, <2>2
<1>6. \A u \in Threads : \A n \in DOMAIN Contents' : task'[u] # Contents'[n]
  BY <1>2, <1>3, <1>4 DEF HeldOnce
<1>7. \A u, v \in Threads : task'[u] = task'[v] /\ task'[u] # NoTask => u = v
  BY <1>2, <1>3, <1>4 DEF HeldOnce
<1>8. QED
  BY <1>5, <1>6, <1>7 DEF HeldOnce

\* Nor does a thread that returns keep its request.
LEMMA ReturnHolds ==
  ASSUME IInv, HeldOnce, NEW t \in Threads, Return(t)
  PROVE  HeldOnce' /\ task[t] \notin InPool' \ {NoTask}
PROOF
<1>1. Contents' = Contents
  BY DEF Return, ring, Contents
<1>2. task' = [task EXCEPT ![t] = NoTask] /\ task \in [Threads -> Tasks \cup {NoTask}]
  BY DEF Return, IInv, PoolTypeOK
<1>3. \A n \in DOMAIN Contents : Contents[n] # NoTask
  BY ContentsSeq, NoTaskAssumption DEF ContentsInOrder
<1>4. HeldOnce'
  BY <1>1, <1>2, <1>3 DEF HeldOnce
<1>5. QED
  BY <1>1, <1>2, <1>4 DEF HeldOnce, InPool

\* The other steps of the pool move no task.
LEMMA OthersHold ==
  ASSUME IInv, IInv', HeldOnce,
         \/ OwnerStep \/ AddFails \/ UNCHANGED poolVars
         \/ \E how \in {"immediate", "graceful"} : Destroy(how)
         \/ \E t \in Threads : ThreadStep(t) \/ SpuriousWakeup(t) \/ Return(t)
  PROVE  HeldOnce'
PROOF
<1>1. CASE UNCHANGED <<ring, task>>
  BY <1>1 DEF ring, Contents, HeldOnce
<1>2. CASE \E t \in Threads : Take(t)
  BY <1>2, TakeHolds
<1>3. CASE \E t \in Threads : Return(t)
  BY <1>3, ReturnHolds
<1>4. QED
  BY <1>1, <1>2, <1>3
     DEF OwnerStep, ThreadStep, CreateThread, Created, Joined, AddFails, Destroy,
         Enter, Wait, SpuriousWakeup, Exit, poolVars, ring

\* In a server, the pool gets its requests from the main thread only.
LEMMA StepHeld ==
  ASSUME ServerIInv, main # "user", HeldOnce, [Next]_vars
  PROVE  HeldOnce' /\ InPool' \subseteq InPool \cup (ready \ {NoTask})
PROOF
<1>1. IInv /\ IInv' /\ HandedOver
  BY StepPool, StepIInv DEF ServerIInv
<1>2. ASSUME \/ OwnerStep \/ AddFails \/ UNCHANGED poolVars
             \/ \E how \in {"immediate", "graceful"} : Destroy(how)
             \/ \E t \in Threads : ThreadStep(t) \/ SpuriousWakeup(t) \/ Return(t)
      PROVE  HeldOnce' /\ InPool' \subseteq InPool
  BY <1>1, <1>2, OthersHold, OthersGiveNothing
<1>3. ASSUME NEW c \in Conns, HandleIn(c)
      PROVE  HeldOnce' /\ InPool' \subseteq InPool \cup (ready \ {NoTask})
  <2>1. c \in ready \ {NoTask} /\ c \notin InPool /\ c \in Tasks
    BY <1>1, <1>3, NoTaskAssumption DEF HandleIn, Conns, HandedOver, InMain
  <2>2. CASE Add(c)
    BY <1>1, <2>1, <2>2, AddHolds, AddGives
  <2>3. CASE AddFails
    BY <1>2, <2>3
  <2>4. QED
    BY <1>3, <2>2, <2>3 DEF HandleIn
<1>4. CASE Pool
  BY <1>2, <1>4 DEF Pool, PoolStep
<1>5. ASSUME NEW t \in Threads, NEW c \in Conns,
             ReadRequest(t, c) \/ WriteHeader(t, c) \/ WriteContent(t, c)
      PROVE  HeldOnce' /\ InPool' \subseteq InPool
  <2>1. UNCHANGED poolVars \/ Return(t)
    BY <1>5 DEF ReadRequest, WriteHeader, WriteContent, Goto, Finish, Killed
  <2>2. QED
    BY <1>2, <2>1
<1>6. CASE \/ Setup \/ SetupFails \/ WaitEvents \/ Accept \/ EventsDone \/ ExpireDone
           \/ \E c \in Conns : HandleError(c) \/ Expire(c)
  <2>1. UNCHANGED poolVars
    BY <1>6 DEF Setup, SetupFails, WaitEvents, Accept, EventsDone, ExpireDone, HandleError, Expire
  <2>2. QED
    BY <1>2, <2>1
<1>7. CASE Environment
  <2>1. UNCHANGED poolVars
    BY <1>7 DEF Environment, Tick, WaitFails, Connect, Send, Leave
  <2>2. QED
    BY <1>2, <2>1
<1>8. CASE UNCHANGED vars
  BY <1>2, <1>8 DEF vars
<1>9. ~PoolUser
  BY DEF PoolUser
<1>10. QED
  BY <1>3, <1>4, <1>5, <1>6, <1>7, <1>8, <1>9 DEF Next, Main, Handle

\* Once a request has left the pool, nothing brings it back.
LEMMA StepAhead ==
  ASSUME ServerIInv, main # "user", HeldOnce, [Next]_vars
  PROVE  Ahead' \subseteq Ahead
PROOF
<1>1. /\ InPool' \subseteq InPool \cup (ready \ {NoTask}) /\ ServerTypeOK
      /\ client \in [Conns -> {"none", "open", "shut", "reset"}]
  BY StepHeld DEF ServerIInv, ServerTypeOK
<1>2. ASSUME UNCHANGED mainVars, attached' = attached,
             \A c \in Conns : client[c] # "none" => client'[c] # "none"
      PROVE  Ahead' \subseteq Ahead
  BY <1>1, <1>2 DEF Ahead, InMain, mainVars
<1>3. CASE Setup \/ SetupFails \/ EventsDone \/ ExpireDone \/ Pool \/ UNCHANGED vars
  <2>1. UNCHANGED <<mainVars, attached, client>>
    BY <1>3 DEF Setup, SetupFails, EventsDone, ExpireDone, Pool, PoolStep, timerVars, netVars, vars
  <2>2. QED
    BY <1>2, <2>1
<1>4. CASE WaitEvents
  <2>1. PICK conns \in SUBSET armed :
          /\ failed' \subseteq conns
          /\ ready' \subseteq (conns \ failed') \cup {NoTask}
          /\ armed' = armed \ conns
    BY <1>4 DEF WaitEvents, Readable
  <2>2. UNCHANGED <<backlog, client, attached>>
    BY <1>4 DEF WaitEvents, timerVars, netVars
  <2>3. QED
    BY <1>1, <2>1, <2>2 DEF Ahead, InMain
<1>5. CASE Accept
  <2>1. PICK accepted \in SUBSET backlog :
          /\ backlog' = backlog \ accepted /\ ready' = ready \ {NoTask}
          /\ armed' \subseteq armed \cup accepted /\ attached' = attached \cup accepted
          /\ UNCHANGED <<failed, client>>
    BY <1>5 DEF Accept, epoll_add, addTimer, netVars
  <2>2. QED
    BY <1>1, <2>1 DEF Ahead, InMain
<1>6. ASSUME NEW c \in Conns, HandleError(c) \/ HandleIn(c) \/ Expire(c)
      PROVE  Ahead' \subseteq Ahead
  <2>1. /\ armed' \subseteq armed /\ ready' \subseteq ready /\ failed' \subseteq failed
        /\ attached' \subseteq attached /\ UNCHANGED <<backlog, client>>
    BY <1>6 DEF HandleError, HandleIn, Expire, Delete, clearReq, seperateTimer, netVars
  <2>2. QED
    BY <1>1, <2>1 DEF Ahead, InMain
<1>7. ASSUME NEW c \in Conns, Connect(c) PROVE Ahead' \subseteq Ahead
  <2>1. /\ client[c] = "none" /\ client' = [client EXCEPT ![c] = "open"]
        /\ backlog' = backlog \cup {c} /\ UNCHANGED <<armed, ready, failed, attached>>
    BY <1>7 DEF Connect, timerVars
  <2>2. QED
    BY <1>1, <2>1 DEF Ahead, InMain
<1>8. CASE \/ Tick \/ WaitFails
           \/ \E c \in Conns : Send(c) \/ (\E how \in {"shut", "reset"} : Leave(c, how))
  <2>1. UNCHANGED <<mainVars, attached>>
    BY <1>8 DEF Tick, WaitFails, Send, Leave, timerVars
  <2>2. \A c \in Conns : client[c] # "none" => client'[c] # "none"
    BY <1>1, <1>8 DEF Tick, WaitFails, Send, Leave, netVars
  <2>3. QED
    BY <1>2, <2>1, <2>2
<1>9. ASSUME NEW t \in Threads, NEW c \in Conns,
             ReadRequest(t, c) \/ WriteHeader(t, c) \/ WriteContent(t, c)
      PROVE  Ahead' \subseteq Ahead
  <2>1. UNCHANGED <<mainVars, attached>>
    BY <1>9 DEF ReadRequest, WriteHeader, WriteContent, timerVars
  <2>2. \A d \in Conns : client[d] # "none" => client'[d] # "none"
    BY <1>1, <1>9 DEF ReadRequest, WriteHeader, WriteContent, Written, WriteFails, Killed, netVars
  <2>3. QED
    BY <1>2, <2>1, <2>2
<1>10. ~PoolUser
  BY DEF PoolUser
<1>11. QED
  BY <1>3, <1>4, <1>5, <1>6, <1>7, <1>8, <1>9, <1>10 DEF Next, Main, Environment, Handle

\* What is read has been sent.
LEMMA StepSent == SentOK /\ [Next]_vars => SentOK' /\ plan' = plan
PROOF
<1>1. SUFFICES ASSUME SentOK, [Next]_vars PROVE SentOK' /\ plan' = plan
  OBVIOUS
<1>2. \A c \in Conns : /\ Len(Message(c)) \in Nat /\ plan[c].first \in Nat
                        /\ plan[c].first <= Len(Message(c))
  <2>1. SUFFICES ASSUME NEW c \in Conns
                 PROVE  /\ Len(Message(c)) \in Nat /\ plan[c].first \in Nat
                        /\ plan[c].first <= Len(Message(c))
    OBVIOUS
  <2>2. /\ plan[c].first \in 0 .. Len(Message(c))
        /\ \E S : Message(c) \in Seq(S)
    BY <1>1 DEF SentOK, PlanOK, Message
  <2>3. Len(Message(c)) \in Nat
    BY <2>2, LenProperties
  <2>4. QED
    BY <2>2, <2>3
<1>3. ASSUME plan' = plan, sent' = sent, read' = read, req' = req PROVE SentOK'
  BY <1>1, <1>3 DEF SentOK, Message
<1>4. ASSUME NEW c \in Conns, Send(c) PROVE SentOK' /\ plan' = plan
  <2>1. /\ sent' = [sent EXCEPT ![c] = IF sent[c] = 0 THEN plan[c].first ELSE Len(Message(c))]
        /\ UNCHANGED <<plan, read, req>>
    BY <1>4 DEF Send
  <2>2. PICK n \in Nat : /\ sent' = [sent EXCEPT ![c] = n] /\ read[c] <= n /\ n <= Len(Message(c))
    <3>1. PICK n : n = IF sent[c] = 0 THEN plan[c].first ELSE Len(Message(c))
      OBVIOUS
    <3>2. /\ sent[c] \in Nat /\ read[c] \in Nat /\ read[c] <= sent[c] /\ sent[c] <= Len(Message(c))
          /\ Len(Message(c)) \in Nat /\ plan[c].first \in Nat /\ plan[c].first <= Len(Message(c))
      BY <1>1, <1>2 DEF SentOK
    <3>3. n \in Nat /\ read[c] <= n /\ n <= Len(Message(c))
      BY <3>1, <3>2
    <3>4. sent' = [sent EXCEPT ![c] = n]
      BY <2>1, <3>1
    <3>5. QED
      BY <3>3, <3>4
  <2>3. sent' \in [Conns -> Nat]
    BY <1>1, <2>2 DEF SentOK
  <2>4. QED
    BY <1>1, <2>1, <2>2, <2>3 DEF SentOK, Message
<1>5. ASSUME NEW t \in Threads, NEW c \in Conns, ReadRequest(t, c) PROVE SentOK' /\ plan' = plan
  <2>1. PICK n \in {sent[c]} \cup {read[c]} : read' = [read EXCEPT ![c] = n]
    BY <1>5 DEF ReadRequest
  <2>2. /\ UNCHANGED <<plan, sent>>
        /\ \E r : req' = [req EXCEPT ![c] = r]
    BY <1>5 DEF ReadRequest, netVars
  <2>3. n \in Nat /\ n <= sent[c]
    BY <1>1, <2>1 DEF SentOK
  <2>4. read' \in [Conns -> Nat] /\ \A d \in Conns : read'[d] <= sent[d]
    BY <1>1, <2>1, <2>3 DEF SentOK
  <2>5. req' = [d \in Conns |-> req'[d]]
    BY <1>1, <2>2 DEF SentOK
  <2>6. QED
    BY <1>1, <2>2, <2>4, <2>5 DEF SentOK, Message
<1>6. ASSUME NEW t \in Threads, NEW c \in Conns, WriteHeader(t, c) \/ WriteContent(t, c)
      PROVE  SentOK' /\ plan' = plan
  <2>1. UNCHANGED <<plan, sent, read>>
    BY <1>6 DEF WriteHeader, WriteContent
  <2>2. req' = req \/ \E r : req' = [req EXCEPT ![c] = r]
    BY <1>6 DEF WriteHeader, WriteContent, Goto, Finish, Killed
  <2>3. req' = [d \in Conns |-> req'[d]]
    BY <1>1, <2>2 DEF SentOK
  <2>4. QED
    BY <1>1, <2>1, <2>3 DEF SentOK, Message
<1>7. CASE Main \/ Pool \/ PoolUser \/ UNCHANGED vars
  <2>1. plan' = plan /\ sent' = sent /\ read' = read /\ req' = req
    BY <1>7 DEF Main, Setup, SetupFails, WaitEvents, Accept, EventsDone, ExpireDone, HandleError,
                HandleIn, Expire, Pool, PoolStep, PoolUser, netVars, vars
  <2>2. QED
    BY <1>3, <2>1
<1>8. CASE \/ Tick \/ WaitFails
           \/ \E c \in Conns : Connect(c) \/ (\E how \in {"shut", "reset"} : Leave(c, how))
  <2>1. plan' = plan /\ sent' = sent /\ read' = read /\ req' = req
    BY <1>8 DEF Tick, WaitFails, Connect, Leave, netVars
  <2>2. QED
    BY <1>3, <2>1
<1>9. QED
  BY <1>1, <1>4, <1>5, <1>6, <1>7, <1>8 DEF Next, Environment, Handle

\* A thread's request is not finished, and when the thread returns from it, it
\* is not in anyone's hands.
LEMMA WorkEnds ==
  ASSUME RequestIInv, NEW t \in Threads, NEW c \in Conns, Working(t, c)
  PROVE  /\ req[c].flag = "none"
         /\ Return(t) /\ UNCHANGED mainVars /\ attached' = attached
            /\ (\A d \in Conns : client[d] # "none" => client'[d] # "none")
            => c \notin Ahead'
PROOF
<1>1. /\ IInv /\ HeldOnce /\ Finished /\ AcceptedOnce /\ HandedOver /\ AllLive /\ task[t] = c
      /\ c # NoTask
  BY NoTaskAssumption DEF RequestIInv, ServerIInv, Working, Conns
<1>2. c \in InPool
  BY <1>1 DEF InPool
<1>3. c \notin InMain /\ c \notin backlog /\ client[c] # "none"
  BY <1>1, <1>2 DEF HandedOver, AllLive, AcceptedOnce
<1>4. req[c].flag = "none"
  BY <1>1, <1>2 DEF Finished, Ahead
<1>5. ASSUME Return(t), UNCHANGED mainVars, attached' = attached,
             \A d \in Conns : client[d] # "none" => client'[d] # "none"
      PROVE  c \notin Ahead'
  <2>1. c \notin InPool'
    BY <1>1, <1>5, ReturnHolds
  <2>2. QED
    BY <1>3, <1>5, <2>1 DEF Ahead, InMain, mainVars
<1>6. QED
  BY <1>4, <1>5

\* Whatever part of the request a handler reads.
LEMMA ReadUnderstood ==
  ASSUME RequestIInv, NEW c \in Conns, IsMeant(c), req[c].flag = "none",
         req[c].state \in {"PARSE_URI", "RECV_BODY"},
         NEW n \in Nat, read[c] <= n, n <= Len(Message(c))
  PROVE  Understood(plan[c].request, n, Received(req[c], SubSeq(Message(c), read[c] + 1, n)))
PROOF
<1>1. PICK r, x : r = plan[c].request /\ x = req[c]
  OBVIOUS
<1>2. PICK k \in Nat : k = read[c]
  BY DEF RequestIInv, SentOK
<1>3. /\ IsFragment(r) \/ IsRequest(r)
      /\ Understood(r, k, x) /\ Message(c) = r.message
      /\ x.flag = "none" /\ x.state \in {"PARSE_URI", "RECV_BODY"}
      /\ k <= n /\ n <= Len(r.message)
  BY <1>1, <1>2 DEF RequestIInv, SentOK, AllUnderstood, IsMeant, Message
<1>4. CASE x = requestData /\ k = 0
  <2>1. Understood(r, n, Received(requestData, SubSeq(r.message, 0 + 1, n)))
    BY <1>3, ReceivedFirst
  <2>2. QED
    BY <1>1, <1>2, <1>3, <1>4, <2>1, Zenon
<1>5. CASE /\ x.state = "RECV_BODY" /\ x.method = "POST" /\ IsRequest(r)
           /\ HeadersParsed(r, x) /\ BodyComes(r, k, x)
  <2>1. Understood(r, n, Received(x, SubSeq(r.message, k + 1, n)))
    BY <1>3, <1>5, ReceivedMore
  <2>2. QED
    BY <1>1, <1>2, <1>3, <2>1, Zenon
<1>6. QED
  BY <1>3, <1>4, <1>5 DEF Understood

\* y is x with the state and the flag that an answer leaves.
Answered(x, s, f, y) ==
  /\ x.flag = "none" /\ x.state \in {"ANALYSIS", "200", "404"}
  /\ s \in {"ANALYSIS", "200", "404", "FINISH"} /\ f \in {"none", "error", "success"}
  /\ \/ y = [x EXCEPT !.state = s, !.flag = f]
     \/ f = "none" /\ y = [x EXCEPT !.state = s]

\* An answer, or that there is none, changes nothing in what was understood.
LEMMA AnswerUnderstood ==
  ASSUME NEW r, NEW n, NEW x, IsData(x), NEW s, NEW f, NEW y, Answered(x, s, f, y)
  PROVE  IsData(y) /\ y.flag = f /\ (Understood(r, n, x) => Understood(r, n, y))
PROOF
<1>0. /\ x.flag = "none" /\ x.state \in {"ANALYSIS", "200", "404"}
      /\ s \in {"ANALYSIS", "200", "404", "FINISH"} /\ f \in {"none", "error", "success"}
      /\ \/ y = [x EXCEPT !.state = s, !.flag = f]
         \/ f = "none" /\ y = [x EXCEPT !.state = s]
  BY DEF Answered
<1>1. Understood(r, n, x) =>
        r.valid /\ HeadersParsed(r, x) /\ (x.method = "POST" => n + 3 >= Len(r.message))
  BY <1>0 DEF Understood, requestData
<1>2. x = [state |-> x.state, h_state |-> x.h_state, content |-> x.content, method |-> x.method,
           file_name |-> x.file_name, headers |-> x.headers, flag |-> x.flag]
  BY DEF IsData
<1>3. y = [state |-> s, h_state |-> x.h_state, content |-> x.content, method |-> x.method,
           file_name |-> x.file_name, headers |-> x.headers, flag |-> f]
  BY <1>0, <1>2
<1>4. /\ IsData(y) /\ y.flag = f /\ y.state = s /\ y.method = x.method /\ y.file_name = x.file_name
      /\ y.headers = x.headers
  BY <1>3 DEF IsData
<1>5. HeadersParsed(r, x) => HeadersParsed(r, y)
  BY <1>4 DEF HeadersParsed, LineParsed
<1>6. QED
  BY <1>0, <1>1, <1>4, <1>5, Zenon DEF Understood

\* The step of a handler that leaves c with the data y.
LEMMA HandlerKeeps ==
  ASSUME RequestIInv, [Next]_vars, NEW t \in Threads, NEW c \in Conns, Working(t, c),
         UNCHANGED mainVars, attached' = attached,
         \A d \in Conns : client[d] # "none" => client'[d] # "none",
         NEW y, req' = [req EXCEPT ![c] = y],
         \A d \in Conns \ {c} : read'[d] = read[d],
         IsData(y), IsMeant(c) => Understood(plan[c].request, read'[c], y),
         y.flag = "none" \/ Return(t)
  PROVE  RequestIInv'
PROOF
<1>1. /\ ServerIInv' /\ SentOK' /\ plan' = plan /\ main # "user"
      /\ HeldOnce' /\ Ahead' \subseteq Ahead /\ Finished
  BY ServerStepIInv, StepSent, StepHeld, StepAhead DEF RequestIInv, Working
<1>2. /\ \A d \in Conns \ {c} : req'[d] = req[d]
      /\ req'[c] = y
  BY DEF RequestIInv, SentOK
<1>3. AllUnderstood'
  BY <1>1, <1>2 DEF RequestIInv, AllUnderstood, IsMeant
<1>4. y.flag = "none" \/ c \notin Ahead'
  BY WorkEnds
<1>5. Finished'
  BY <1>1, <1>2, <1>4 DEF Finished
<1>6. QED
  BY <1>1, <1>3, <1>5 DEF RequestIInv

\* A handler reads.
LEMMA ReadKeeps ==
  ASSUME RequestIInv, [Next]_vars, NEW t \in Threads, NEW c \in Conns, ReadRequest(t, c)
  PROVE  RequestIInv'
PROOF
<1>1. /\ Working(t, c) /\ req[c].state \in {"PARSE_URI", "RECV_BODY"}
      /\ UNCHANGED mainVars /\ attached' = attached /\ client' = client
  BY DEF ReadRequest, timerVars, netVars
<1>2. req[c].flag = "none"
  BY <1>1, WorkEnds
<1>3. PICK n \in {sent[c]} \cup {read[c]} :
        LET r == Received(req[c], SubSeq(Message(c), read[c] + 1, n))
        IN  /\ req' = [req EXCEPT ![c] = r]
            /\ r.flag = "none" \/ Return(t)
            /\ read' = [read EXCEPT ![c] = n]
  BY DEF ReadRequest
<1>4. PICK y : y = Received(req[c], SubSeq(Message(c), read[c] + 1, n))
  OBVIOUS
<1>5. /\ req' = [req EXCEPT ![c] = y] /\ (y.flag = "none" \/ Return(t))
      /\ read' = [read EXCEPT ![c] = n]
  BY <1>3, <1>4, Zenon
<1>6. n \in Nat /\ read[c] <= n /\ n <= Len(Message(c)) /\ read \in [Conns -> Nat]
  <2>1. /\ sent[c] \in Nat /\ read[c] \in Nat /\ read[c] <= sent[c] /\ sent[c] <= Len(Message(c))
        /\ read \in [Conns -> Nat]
    BY DEF RequestIInv, SentOK
  <2>2. Len(Message(c)) \in Nat
    <3>1. \E S : Message(c) \in Seq(S)
      BY DEF RequestIInv, SentOK, PlanOK, Message
    <3>2. QED
      BY <3>1, LenProperties
  <2>3. QED
    BY <1>3, <2>1, <2>2
<1>7. IsData(y) /\ (IsMeant(c) => Understood(plan[c].request, n, y))
  <2>1. IsMeant(c) =>
          Understood(plan[c].request, n, Received(req[c], SubSeq(Message(c), read[c] + 1, n)))
    BY <1>1, <1>2, <1>6, ReadUnderstood
  <2>2. IsData(req[c])
    BY DEF RequestIInv, AllUnderstood
  <2>3. QED
    BY <1>4, <2>1, <2>2, ReceivedData, Zenon
<1>8. read'[c] = n /\ \A d \in Conns \ {c} : read'[d] = read[d]
  BY <1>5, <1>6
<1>9. QED
  BY <1>1, <1>5, <1>7, <1>8, HandlerKeeps

\* A handler answers.
LEMMA WriteKeeps ==
  ASSUME RequestIInv, [Next]_vars, NEW t \in Threads, NEW c \in Conns,
         WriteHeader(t, c) \/ WriteContent(t, c)
  PROVE  RequestIInv'
PROOF
<1>1. /\ Working(t, c) /\ req[c].state \in {"ANALYSIS", "200", "404"}
      /\ UNCHANGED mainVars /\ attached' = attached /\ read' = read
  BY DEF WriteHeader, WriteContent, timerVars
<1>2. req[c].flag = "none"
  BY <1>1, WorkEnds
<1>3. \A d \in Conns : client[d] # "none" => client'[d] # "none"
  <2>1. client \in [Conns -> {"none", "open", "shut", "reset"}]
    BY DEF RequestIInv, ServerIInv, ServerTypeOK
  <2>2. client' = client \/ client' = [client EXCEPT ![c] = IF @ = "shut" THEN "reset" ELSE @]
    BY DEF WriteHeader, WriteContent, Written, WriteFails, Killed
  <2>3. QED
    BY <2>1, <2>2
<1>4. \/ req' = req
      \/ \E s \in {"200", "404"} : req' = [req EXCEPT ![c].state = s]
      \/ \E s \in {"ANALYSIS", "404", "FINISH"} : \E f \in {"error", "success"} :
           req' = [req EXCEPT ![c].state = s, ![c].flag = f] /\ Return(t)
  BY DEF WriteHeader, WriteContent, Goto, Finish, Killed
<1>5. /\ IsData(req[c]) /\ req = [d \in Conns |-> req[d]]
      /\ IsMeant(c) => Understood(plan[c].request, read[c], req[c])
  BY DEF RequestIInv, AllUnderstood, SentOK
<1>6. CASE req' = req
  <2>1. req' = [req EXCEPT ![c] = req[c]]
    BY <1>5, <1>6
  <2>2. QED
    BY <1>1, <1>2, <1>3, <1>5, <2>1, HandlerKeeps
<1>7. ASSUME NEW s \in {"200", "404"}, req' = [req EXCEPT ![c].state = s] PROVE RequestIInv'
  <2>1. PICK y : y = [req[c] EXCEPT !.state = s]
    OBVIOUS
  <2>2. /\ IsData(y) /\ y.flag = "none"
        /\ IsMeant(c) => Understood(plan[c].request, read[c], y)
    <3>1. Answered(req[c], s, "none", y)
      BY <1>1, <1>2, <2>1 DEF Answered
    <3>2. QED
      BY <1>5, <3>1, AnswerUnderstood
  <2>3. req' = [req EXCEPT ![c] = y]
    BY <1>7, <2>1
  <2>4. QED
    BY <1>1, <1>3, <2>2, <2>3, HandlerKeeps
<1>8. ASSUME NEW s \in {"ANALYSIS", "404", "FINISH"}, NEW f \in {"error", "success"},
             req' = [req EXCEPT ![c].state = s, ![c].flag = f], Return(t)
      PROVE  RequestIInv'
  <2>1. PICK y : y = [req[c] EXCEPT !.state = s, !.flag = f]
    OBVIOUS
  <2>2. IsData(y) /\ (IsMeant(c) => Understood(plan[c].request, read[c], y))
    <3>1. Answered(req[c], s, f, y)
      BY <1>1, <1>2, <2>1 DEF Answered
    <3>2. QED
      BY <1>5, <3>1, AnswerUnderstood, Zenon
  <2>3. req' = [req EXCEPT ![c] = y]
    BY <1>5, <1>8, <2>1
  <2>4. QED
    BY <1>1, <1>3, <1>8, <2>2, <2>3, HandlerKeeps
<1>9. QED
  BY <1>4, <1>6, <1>7, <1>8

\* The other steps do not touch the requests.
LEMMA OthersKeep ==
  ASSUME RequestIInv, [Next]_vars, req' = req, read' = read
  PROVE  RequestIInv'
PROOF
<1>1. ServerIInv' /\ SentOK' /\ plan' = plan
  BY ServerStepIInv, StepSent DEF RequestIInv
<1>2. AllUnderstood'
  BY <1>1 DEF RequestIInv, AllUnderstood, IsMeant
<1>3. ASSUME main' # "user" PROVE HeldOnce' /\ Finished'
  <2>1. main # "user"
    BY <1>3, UserStays
  <2>2. HeldOnce' /\ Ahead' \subseteq Ahead
    BY <2>1, StepHeld, StepAhead DEF RequestIInv
  <2>3. QED
    BY <2>1, <2>2 DEF RequestIInv, Finished
<1>4. QED
  BY <1>1, <1>2, <1>3 DEF RequestIInv

\* Every step preserves the invariant.
LEMMA StepRequest == RequestIInv /\ [Next]_vars => RequestIInv'
PROOF
<1>1. SUFFICES ASSUME RequestIInv, [Next]_vars PROVE RequestIInv'
  OBVIOUS
<1>2. CASE \E t \in Threads : Handle(t)
  BY <1>1, <1>2, ReadKeeps, WriteKeeps DEF Handle
<1>3. CASE Main \/ Pool \/ PoolUser \/ Environment \/ UNCHANGED vars
  <2>1. req' = req /\ read' = read
    BY <1>3 DEF Main, Setup, SetupFails, WaitEvents, Accept, EventsDone, ExpireDone, HandleError,
                HandleIn, Expire, Pool, PoolStep, PoolUser, Environment, Tick, WaitFails, Connect,
                Send, Leave, vars
  <2>2. QED
    BY <1>1, <2>1, OthersKeep
<1>4. QED
  BY <1>1, <1>2, <1>3 DEF Next

\* No request has been read at first.
LEMMA RequestInit == Init => RequestIInv
PROOF
<1>1. SUFFICES ASSUME Init PROVE RequestIInv
  OBVIOUS
<1>2. ServerIInv
  BY <1>1, ServerInitIInv
<1>3. SentOK
  <2>1. /\ sent = [c \in Conns |-> 0] /\ read = [c \in Conns |-> 0]
        /\ req = [c \in Conns |-> requestData]
    BY <1>1 DEF Init
  <2>2. \A c \in Conns : PlanOK(plan[c])
    BY <1>1, PlansAssumption DEF Init, Conns
  <2>3. ASSUME NEW c \in Conns PROVE 0 <= Len(Message(c))
    <3>1. \E S : Message(c) \in Seq(S)
      BY <2>2 DEF PlanOK, Message
    <3>2. QED
      BY <3>1, LenProperties
  <2>4. QED
    BY <2>1, <2>2, <2>3 DEF SentOK
<1>4. AllUnderstood
  BY <1>1 DEF Init, AllUnderstood, Understood, requestData, IsData
<1>5. HeldOnce
  <2>1. DOMAIN Contents = {} /\ task = [t \in Threads |-> NoTask]
    BY <1>1 DEF Init, PoolInit, Contents
  <2>2. QED
    BY <2>1 DEF HeldOnce
<1>6. Finished
  BY <1>1 DEF Init, Finished, requestData
<1>7. QED
  BY <1>2, <1>3, <1>4, <1>5, <1>6 DEF RequestIInv

\* However many clients there are, whatever others of them send (a method inside
\* of other words included), in whatever parts the requests arrive and whichever
\* of them are cut short, malformed or reset: what the server takes a request for
\* is what the client has sent; it refuses no valid request whose headers it has
\* read, and answers a POST with at most three bytes of its body missing.
THEOREM RequestsUnderstood == Spec => []RequestUnderstood
PROOF
<1>1. RequestIInv => RequestUnderstood
  <2>1. SUFFICES ASSUME RequestIInv, NEW c \in Conns, IsMeant(c)
                 PROVE  /\ req[c].state \in {"ANALYSIS", "200", "404", "FINISH"} =>
                             /\ plan[c].request.valid
                             /\ req[c].method = Taken(plan[c].request.method)
                             /\ req[c].file_name = plan[c].request.file_name
                             /\ req[c].headers = plan[c].request.headers
                        /\ req[c].flag = "again" => \/ read[c] < HeaderEnd(c)
                                                    \/ plan[c].request.headers = {}
                        /\ /\ req[c].flag = "error"
                           /\ req[c].state \in {"PARSE_URI", "PARSE_HEADERS", "RECV_BODY"}
                           => ~plan[c].request.valid
                        /\ req[c].state \in {"200", "FINISH"} /\ req[c].method = "POST"
                             => read[c] + 3 >= Len(Message(c))
    BY DEF RequestUnderstood, ParsedAsSent, AnswerFits
  <2>2. Understood(plan[c].request, read[c], req[c])
    BY <2>1 DEF RequestIInv, AllUnderstood
  <2>3. QED
    BY <2>2 DEF Understood, HeadersParsed, LineParsed, requestData, HeaderEnd, Message
<1>2. QED
  BY <1>1, RequestInit, StepRequest, PTL DEF Spec
=============================================================================
