--------------------------- MODULE LoopThreadPool ---------------------------
(***************************************************************************)
(* How the worker reactors come to life: EventLoopThreadPool::start, run by*)
(* the thread that starts a Server or a Client, creates one EventLoopThread*)
(* after the other, and startLoop waits until the new thread has published *)
(* the address of the EventLoop on its stack.                              *)
(*                                                                         *)
(* A step is what a thread does between two points where another can see or*)
(* block it.  The address of the loop of thread k is k.                    *)
(***************************************************************************)
EXTENDS Integers, Sequences

CONSTANT NumThreads   \* numThreads_: the constructor aborts unless positive

ASSUME NumThreadsAssumption == NumThreads \in Nat \ {0}

Threads == 1 .. NumThreads
Null == 0

VARIABLES
  starter,    \* where the starting thread is
  current,    \* the EventLoopThread it works on
  loops_,     \* the pool's vector of loops
  mutex_,     \* of each EventLoopThread: who holds it
  loop_,      \* of each EventLoopThread: the published address
  exiting_,   \* of each EventLoopThread
  worker      \* where each new thread is

vars == <<starter, current, loops_, mutex_, loop_, exiting_, worker>>

StarterPcs == {"create",   \* about to make an EventLoopThread and start it
               "lock",     \* blocked in startLoop or in pthread_cond_wait
                           \*   until it gets the mutex
               "test",     \* holds the mutex, about to test loop_
               "wait",     \* holds the mutex, about to wait
               "waiting",  \* in cond_.wait(), mutex released
               "return",   \* mutex released, about to return loop_
               "done",     \* EventLoopThreadPool::start has returned
               "join"}     \* in the destructor of an EventLoopThread

WorkerPcs == {"none",      \* not created
              "failed",    \* pthread_create returned an error
              "entry",     \* in threadFunc, its EventLoop not constructed
              "lock",      \* about to lock mutex_
              "notify",    \* holds the mutex, loop_ set
              "unlock",    \* holds the mutex, cond_ notified
              "loop"}      \* in loop.loop(), which never returns

TypeOK ==
  /\ starter \in StarterPcs
  /\ current \in Threads
  /\ loops_ \in Seq(Threads \cup {Null})
  /\ mutex_ \in [Threads -> {"free", "starter", "worker"}]
  /\ loop_ \in [Threads -> Threads \cup {Null}]
  /\ exiting_ \in [Threads -> BOOLEAN]
  /\ worker \in [Threads -> WorkerPcs]

Init ==
  /\ starter = "create"
  /\ current = 1
  /\ loops_ = <<>>
  /\ mutex_ = [k \in Threads |-> "free"]
  /\ loop_ = [k \in Threads |-> Null]
  /\ exiting_ = [k \in Threads |-> FALSE]
  /\ worker = [k \in Threads |-> "none"]

-----------------------------------------------------------------------------
(* The starting thread. *)

\* new EventLoopThread; thread_.start(): a failing pthread_create is logged
\* and startLoop goes on.
Create ==
  /\ starter = "create"
  /\ \E pc \in {"entry", "failed"} : worker' = [worker EXCEPT ![current] = pc]
  /\ starter' = "lock"
  /\ UNCHANGED <<current, loops_, mutex_, loop_, exiting_>>

LockInStarter ==
  /\ starter = "lock"
  /\ mutex_[current] = "free"
  /\ mutex_' = [mutex_ EXCEPT ![current] = "starter"]
  /\ starter' = "test"
  /\ UNCHANGED <<current, loops_, loop_, exiting_, worker>>

\* loop_ == NULL: it has to wait.
Test ==
  /\ starter = "test"
  /\ loop_[current] = Null
  /\ starter' = "wait"
  /\ UNCHANGED <<current, loops_, mutex_, loop_, exiting_, worker>>

\* cond_.wait() goes to sleep and releases the mutex in one step.
Wait ==
  /\ starter = "wait"
  /\ mutex_' = [mutex_ EXCEPT ![current] = "free"]
  /\ starter' = "waiting"
  /\ UNCHANGED <<current, loops_, loop_, exiting_, worker>>

\* Mutant: `if' for `while': a thread that has waited does not test again.
MutSpuriousWakeup ==
  /\ starter = "waiting"
  /\ starter' = "return"
  /\ UNCHANGED <<current, loops_, mutex_, loop_, exiting_, worker>>

\* pthread_cond_wait may return without a signal.
SpuriousWakeup ==
  /\ starter = "waiting"
  /\ starter' = "lock"
  /\ UNCHANGED <<current, loops_, mutex_, loop_, exiting_, worker>>

\* loop_ != NULL: the guard releases the mutex.
Published ==
  /\ starter = "test"
  /\ loop_[current] # Null
  /\ mutex_' = [mutex_ EXCEPT ![current] = "free"]
  /\ starter' = "return"
  /\ UNCHANGED <<current, loops_, loop_, exiting_, worker>>

\* `return loop_', read without the mutex, and loops_.push_back.
Return ==
  /\ starter = "return"
  /\ loops_' = Append(loops_, loop_[current])
  /\ IF current < NumThreads
       THEN starter' = "create" /\ current' = current + 1
       ELSE starter' = "done" /\ current' = 1
  /\ UNCHANGED <<mutex_, loop_, exiting_, worker>>

\* ~EventLoopThread of the first element: it joins a thread that never ends.
Destroy ==
  /\ starter = "done"
  /\ exiting_' = [exiting_ EXCEPT ![current] = TRUE]
  /\ loop_[current] # Null
  /\ starter' = "join"
  /\ UNCHANGED <<current, loops_, mutex_, loop_, worker>>

-----------------------------------------------------------------------------
(* A new thread: threadFunc. *)

\* EventLoop loop;
Construct(k) ==
  /\ worker[k] = "entry"
  /\ worker' = [worker EXCEPT ![k] = "lock"]
  /\ UNCHANGED <<starter, current, loops_, mutex_, loop_, exiting_>>

\* Mutant: threadFunc does not lock mutex_.
MutPublish(k) ==
  /\ worker[k] = "lock"
  /\ loop_' = [loop_ EXCEPT ![k] = k]
  /\ worker' = [worker EXCEPT ![k] = "notify"]
  /\ UNCHANGED <<starter, current, loops_, mutex_, exiting_>>

\* The guard locks mutex_; loop_ = &loop.
Publish(k) ==
  /\ worker[k] = "lock"
  /\ mutex_[k] = "free"
  /\ mutex_' = [mutex_ EXCEPT ![k] = "worker"]
  /\ loop_' = [loop_ EXCEPT ![k] = k]
  /\ worker' = [worker EXCEPT ![k] = "notify"]
  /\ UNCHANGED <<starter, current, loops_, exiting_>>

\* cond_.notify(): a waiting starter wakes up and asks for the mutex.
Notify(k) ==
  /\ worker[k] = "notify"
  /\ starter' = IF starter = "waiting" /\ current = k THEN "lock" ELSE starter
  /\ worker' = [worker EXCEPT ![k] = "unlock"]
  /\ UNCHANGED <<current, loops_, mutex_, loop_, exiting_>>

\* Mutant: the mutex stays locked while the loop runs.
MutEnterLoop(k) ==
  /\ worker[k] = "unlock"
  /\ worker' = [worker EXCEPT ![k] = "loop"]
  /\ UNCHANGED <<starter, current, loops_, mutex_, loop_, exiting_>>

\* The guard unlocks; loop.loop().
EnterLoop(k) ==
  /\ worker[k] = "unlock"
  /\ mutex_' = [mutex_ EXCEPT ![k] = "free"]
  /\ worker' = [worker EXCEPT ![k] = "loop"]
  /\ UNCHANGED <<starter, current, loops_, loop_, exiting_>>

-----------------------------------------------------------------------------
StarterStep ==
  Create \/ LockInStarter \/ Test \/ Wait \/ Published \/ Return

WorkerStep(k) == Construct(k) \/ Publish(k) \/ Notify(k) \/ EnterLoop(k)

Next ==
  \/ StarterStep \/ SpuriousWakeup \/ Destroy
  \/ \E k \in Threads : WorkerStep(k)

SafeSpec == Init /\ [][Next]_vars

\* Both threads are scheduled, and a thread that asks for a mutex which is
\* free again and again gets it (a starter that wakes up spuriously takes it
\* over and over).  Wakeups without a signal are not relied on.
Spec ==
  SafeSpec /\ WF_vars(StarterStep) /\ \A k \in Threads : SF_vars(WorkerStep(k))

-----------------------------------------------------------------------------
(* Properties. *)

\* startLoop returns the loop of its own thread, after its construction: no
\* null pointer and no unfinished object reaches the pool, in spite of
\* spurious wakeups.
LoopsAreLive ==
  \A n \in DOMAIN loops_ :
    loops_[n] = n /\ worker[n] \in {"notify", "unlock", "loop"}

\* The notification of threadFunc is not lost: a starter that sleeps in
\* cond_.wait() sleeps on a thread that has not notified yet.
NotifyNotLost ==
  starter = "waiting" => worker[current] \in {"failed", "entry", "lock", "notify"}

\* Once begun, EventLoopThreadPool::start returns, unless a thread could not be
\* created.
StartReturns ==
  (starter # "create")
    ~> (starter \in {"done", "join"} \/ \E k \in Threads : worker[k] = "failed")
=============================================================================
