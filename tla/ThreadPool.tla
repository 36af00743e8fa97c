----------------------------- MODULE ThreadPool -----------------------------
(***************************************************************************)
(* The thread pool of the first version (Examples/Ver0.1/threadpool.cpp):  *)
(* a ring of tasks, filled by the thread that owns the pool and emptied by *)
(* the pool's threads.                                                     *)
(*                                                                         *)
(* The pool is accessed under mutexLock only, so that a critical section   *)
(* is one step; pthread_cond_wait splits it in two.  The exception is      *)
(* `started', which is incremented without the mutex, twice for each       *)
(* thread: it is not a variable here but a choice, where it is read.       *)
(***************************************************************************)
EXTENDS Integers, Sequences

CONSTANTS
  NumThreads,   \* thread_count
  queue_size,
  Tasks,        \* the arguments of the tasks, each added at most once (bound)
  NoTask        \* what a slot holds before it is first filled

ASSUME PoolAssumption == NumThreads \in Nat \ {0} /\ queue_size \in Nat \ {0}
ASSUME NoTaskAssumption == NoTask \notin Tasks

Threads == 1 .. NumThreads
Slots == 0 .. queue_size - 1

VARIABLES
  queue, head, tail, count,
  shutdown,      \* "no", "immediate" or "graceful"
  thread_count,  \* threads created so far
  owner,         \* where the owner of the pool is
  thread,        \* where each thread is
  task,          \* what each thread works on
  taken          \* history: the tasks taken from the ring, in order

poolVars == <<queue, head, tail, count, shutdown, thread_count, owner,
              thread, task, taken>>
ring == <<queue, head, tail, count>>

OwnerPcs == {"create",   \* in threadpool_create
             "ready",
             "join",     \* in the pthread_joins of threadpool_destroy
             "kept",     \* threadpool_destroy has returned, but threadpool_free
                         \*   has refused to free the pool
             "freed"}
ThreadPcs == {"none", "entry", "lock", "waiting", "work", "exited"}

PoolTypeOK ==
  /\ queue \in [Slots -> Tasks \cup {NoTask}]
  /\ head \in Slots /\ tail \in Slots /\ count \in 0 .. queue_size
  /\ shutdown \in {"no", "immediate", "graceful"}
  /\ thread_count \in 0 .. NumThreads
  /\ owner \in OwnerPcs
  /\ thread \in [Threads -> ThreadPcs]
  /\ task \in [Threads -> Tasks \cup {NoTask}]
  /\ taken \in Seq(Tasks)

PoolInit ==
  /\ queue = [n \in Slots |-> NoTask]
  /\ head = 0 /\ tail = 0 /\ count = 0
  /\ shutdown = "no" /\ thread_count = 0
  /\ owner = "create"
  /\ thread = [t \in Threads |-> "none"]
  /\ task = [t \in Threads |-> NoTask]
  /\ taken = <<>>

-----------------------------------------------------------------------------
(* The owner. *)

CreateThread ==
  /\ owner = "create"
  /\ thread_count < NumThreads
  /\ thread' = [thread EXCEPT ![thread_count + 1] = "entry"]
  /\ thread_count' = thread_count + 1
  /\ UNCHANGED <<ring, shutdown, owner, task, taken>>

Created ==
  /\ owner = "create"
  /\ thread_count = NumThreads
  /\ owner' = "ready"
  /\ UNCHANGED <<ring, shutdown, thread_count, thread, task, taken>>

\* pthread_cond_signal wakes one of the waiting threads, if there is one;
\* whoever wakes up asks for the mutex again.
Signal ==
  LET waiting == {t \in Threads : thread[t] = "waiting"}
  IN  IF waiting = {} THEN thread' = thread
      ELSE \E t \in waiting : thread' = [thread EXCEPT ![t] = "lock"]

\* Mutant: nobody is woken.
MutAddSilent(arg) ==
  /\ owner = "ready"
  /\ count # queue_size
  /\ shutdown = "no"
  /\ queue' = [queue EXCEPT ![tail] = arg]
  /\ tail' = (tail + 1) % queue_size
  /\ count' = count + 1
  /\ UNCHANGED <<head, shutdown, thread_count, owner, thread, task, taken>>

\* threadpool_add returns 0.
Add(arg) ==
  /\ owner = "ready"
  /\ count # queue_size
  /\ shutdown = "no"
  /\ queue' = [queue EXCEPT ![tail] = arg]
  /\ tail' = (tail + 1) % queue_size
  /\ count' = count + 1
  /\ Signal
  /\ UNCHANGED <<head, shutdown, thread_count, owner, task, taken>>

\* It returns THREADPOOL_QUEUE_FULL or THREADPOOL_SHUTDOWN.
AddFails ==
  /\ owner = "ready"
  /\ count = queue_size \/ shutdown # "no"
  /\ UNCHANGED poolVars

\* pthread_cond_broadcast.
Broadcast ==
  thread' = [t \in Threads |-> IF thread[t] = "waiting" THEN "lock" ELSE thread[t]]

\* threadpool_destroy up to the first pthread_join; also when a thread cannot
\* be created.
Destroy(how) ==
  /\ \/ owner = "ready"
     \/ owner = "create" /\ thread_count < NumThreads /\ how = "immediate"
  /\ shutdown = "no"
  /\ shutdown' = how
  /\ Broadcast
  /\ owner' = "join"
  /\ UNCHANGED <<ring, thread_count, task, taken>>

\* threadpool_free refuses while started > 0.  Each thread has added two and
\* taken away one, but an increment may have got lost in the race.
threadpool_free ==
  owner' \in IF thread_count = 0 THEN {"freed"} ELSE {"kept", "freed"}

\* The last pthread_join returns; threadpool_free.
Joined ==
  /\ owner = "join"
  /\ \A t \in Threads : thread[t] \in {"none", "exited"}
  /\ threadpool_free
  /\ UNCHANGED <<ring, shutdown, thread_count, thread, task, taken>>

-----------------------------------------------------------------------------
(* A thread of the pool: threadpool_thread. *)

Enter(t) ==
  /\ thread[t] = "entry"
  /\ thread' = [thread EXCEPT ![t] = "lock"]
  /\ UNCHANGED <<ring, shutdown, thread_count, owner, task, taken>>

Wait(t) ==
  /\ thread[t] = "lock"
  /\ count = 0 /\ shutdown = "no"
  /\ thread' = [thread EXCEPT ![t] = "waiting"]
  /\ UNCHANGED <<ring, shutdown, thread_count, owner, task, taken>>

\* pthread_cond_wait may return without a signal.
SpuriousWakeup(t) ==
  /\ thread[t] = "waiting"
  /\ thread' = [thread EXCEPT ![t] = "lock"]
  /\ UNCHANGED <<ring, shutdown, thread_count, owner, task, taken>>

\* Mutant: the newest task is taken.
MutTakeNewest(t) ==
  /\ thread[t] = "lock"
  /\ count # 0 /\ shutdown # "immediate"
  /\ tail' = (tail - 1) % queue_size
  /\ task' = [task EXCEPT ![t] = queue[tail']]
  /\ taken' = Append(taken, queue[tail'])
  /\ count' = count - 1
  /\ thread' = [thread EXCEPT ![t] = "work"]
  /\ UNCHANGED <<queue, head, shutdown, thread_count, owner>>

\* Mutant: a single task is not found.
MutTakeSecond(t) ==
  /\ thread[t] = "lock"
  /\ count > 1 /\ shutdown # "immediate"
  /\ task' = [task EXCEPT ![t] = queue[head]]
  /\ taken' = Append(taken, queue[head])
  /\ head' = (head + 1) % queue_size
  /\ count' = count - 1
  /\ thread' = [thread EXCEPT ![t] = "work"]
  /\ UNCHANGED <<queue, tail, shutdown, thread_count, owner>>

\* The slot keeps its contents.
Take(t) ==
  /\ thread[t] = "lock"
  /\ count # 0 /\ shutdown # "immediate"
  /\ task' = [task EXCEPT ![t] = queue[head]]
  /\ taken' = Append(taken, queue[head])
  /\ head' = (head + 1) % queue_size
  /\ count' = count - 1
  /\ thread' = [thread EXCEPT ![t] = "work"]
  /\ UNCHANGED <<queue, tail, shutdown, thread_count, owner>>

\* The function of the task returns.
Return(t) ==
  /\ thread[t] = "work"
  /\ task' = [task EXCEPT ![t] = NoTask]
  /\ thread' = [thread EXCEPT ![t] = "lock"]
  /\ UNCHANGED <<ring, shutdown, thread_count, owner, taken>>

Exit(t) ==
  /\ thread[t] = "lock"
  /\ shutdown = "immediate" \/ (shutdown = "graceful" /\ count = 0)
  /\ thread' = [thread EXCEPT ![t] = "exited"]
  /\ UNCHANGED <<ring, shutdown, thread_count, owner, task, taken>>

-----------------------------------------------------------------------------
\* The steps of the pool that do not depend on what the tasks are.
OwnerStep == CreateThread \/ Created \/ Joined
ThreadStep(t) == Enter(t) \/ Wait(t) \/ Take(t) \/ Exit(t)

PoolNext ==
  \/ OwnerStep \/ AddFails \/ (\E arg \in Tasks : Add(arg))
  \/ (\E how \in {"immediate", "graceful"} : Destroy(how))
  \/ \E t \in Threads : ThreadStep(t) \/ SpuriousWakeup(t) \/ Return(t)

PoolSpec == PoolInit /\ [][PoolNext]_poolVars

-----------------------------------------------------------------------------
(* Properties. *)

\* The tasks in the ring, oldest first.
Contents == [k \in 1 .. count |-> queue[(head + k - 1) % queue_size]]

Fifo == INSTANCE FunctorQueue WITH Functors <- Tasks, waiting <- Contents, done <- taken

\* The ring is a queue: whatever the threads do, tasks are taken once each and
\* in the order threadpool_add accepted them, through every wrap of the head
\* and the tail.
TasksInOrder == Fifo!SafeSpec

\* A task is not left behind in a sleeping pool: while the ring holds one,
\* some thread is awake and will look at the ring again (each threadpool_add
\* signals, and a thread tests the count before it sleeps).
SomeoneAwake ==
  count > 0 /\ owner = "ready" => \E t \in Threads : thread[t] \in {"entry", "lock", "work"}

\* A graceful shutdown returns after the last accepted task has been run, and
\* no shutdown returns, or frees the pool, while a thread still uses it.
ShutdownComplete ==
  owner \in {"kept", "freed"} =>
    /\ \A t \in Threads : thread[t] \in {"none", "exited"}
    /\ shutdown = "graceful" => count = 0

\* The pool neither sleeps through a task nor goes away under one.
PoolKeepsTasks == SomeoneAwake /\ ShutdownComplete
=============================================================================
