------------------------------- MODULE Thread -------------------------------
(***************************************************************************)
(* base/Thread.cpp: a Thread object, the ThreadData block it passes to the *)
(* thread it creates, and the pthread handle it has to join or detach.     *)
(*                                                                         *)
(* One thread, the owner, uses the objects, as everywhere in the           *)
(* repository, and observes the assertions of start and join.  The threads *)
(* run on their own, and may outlive the object that created them.         *)
(***************************************************************************)
EXTENDS Integers

CONSTANTS
  Objects,     \* Thread objects
  MaxStarts    \* bound: calls of start per object

ASSUME ObjectsAssumption == "none" \notin Objects

VARIABLES
  object,      \* "none", "live" or "gone"
  started_, joined_, name_,
  numCreated_,
  starts,      \* calls of start
  joining,     \* the object whose thread the owner waits for, or "none"
  data,        \* ThreadData blocks of each object that are allocated
  running,     \* its thread: "none", "created", "func_" or "ended"
  handle,      \* its pthread handle: "none", "joinable", "joined" or "detached"
  process      \* "alive" or "aborted"

objectVars == <<object, started_, joined_, name_, numCreated_, starts>>
threadVars == <<objectVars, joining, data, running, handle, process>>

ThreadInit ==
  /\ object = [o \in Objects |-> "none"]
  /\ started_ = [o \in Objects |-> FALSE] /\ joined_ = [o \in Objects |-> FALSE]
  /\ name_ = [o \in Objects |-> -1] /\ numCreated_ = 0
  /\ starts = [o \in Objects |-> 0]
  /\ joining = "none"
  /\ data = [o \in Objects |-> 0]
  /\ running = [o \in Objects |-> "none"]
  /\ handle = [o \in Objects |-> "none"]
  /\ process = "alive"

OwnerRuns == process = "alive" /\ joining = "none"

-----------------------------------------------------------------------------
(* The owner. *)

\* The constructor, with the default name.
Make(o) ==
  /\ OwnerRuns /\ object[o] = "none"
  /\ object' = [object EXCEPT ![o] = "live"]
  /\ name_' = [name_ EXCEPT ![o] = numCreated_]
  /\ numCreated_' = numCreated_ + 1
  /\ UNCHANGED <<started_, joined_, starts, joining, data, running, handle, process>>

\* Mutant: the block stays when there is no thread to delete it.
MutStartThread(o) ==
  /\ OwnerRuns /\ object[o] = "live" /\ ~started_[o] /\ starts[o] < MaxStarts
  /\ starts' = [starts EXCEPT ![o] = @ + 1]
  /\ data' = [data EXCEPT ![o] = @ + 1]
  /\ \/ /\ started_' = [started_ EXCEPT ![o] = TRUE]
        /\ running' = [running EXCEPT ![o] = "created"]
        /\ handle' = [handle EXCEPT ![o] = "joinable"]
     \/ UNCHANGED <<started_, running, handle>>
  /\ UNCHANGED <<object, joined_, name_, numCreated_, joining, process>>

\* start: pthread_create succeeds, or fails and leaves the object as it was.
StartThread(o) ==
  /\ OwnerRuns /\ object[o] = "live" /\ ~started_[o] /\ starts[o] < MaxStarts
  /\ starts' = [starts EXCEPT ![o] = @ + 1]
  /\ \/ /\ started_' = [started_ EXCEPT ![o] = TRUE]
        /\ data' = [data EXCEPT ![o] = @ + 1]
        /\ running' = [running EXCEPT ![o] = "created"]
        /\ handle' = [handle EXCEPT ![o] = "joinable"]
     \/ UNCHANGED <<started_, data, running, handle>>
  /\ UNCHANGED <<object, joined_, name_, numCreated_, joining, process>>

\* join up to pthread_join,
JoinThread(o) ==
  /\ OwnerRuns /\ object[o] = "live" /\ started_[o] /\ ~joined_[o]
  /\ joined_' = [joined_ EXCEPT ![o] = TRUE]
  /\ joining' = o
  /\ UNCHANGED <<object, started_, name_, numCreated_, starts, data, running, handle, process>>

\* which returns when the thread has ended.
Joined(o) ==
  /\ process = "alive" /\ joining = o /\ running[o] = "ended"
  /\ handle' = [handle EXCEPT ![o] = "joined"]
  /\ joining' = "none"
  /\ UNCHANGED <<objectVars, data, running, process>>

\* The destructor.
DestroyThread(o) ==
  /\ OwnerRuns /\ object[o] = "live"
  /\ object' = [object EXCEPT ![o] = "gone"]
  /\ handle' = IF started_[o] /\ ~joined_[o] THEN [handle EXCEPT ![o] = "detached"] ELSE handle
  /\ UNCHANGED <<started_, joined_, name_, numCreated_, starts, joining, data, running, process>>

-----------------------------------------------------------------------------
(* The created thread: startThread. *)

runInThread(o) ==
  /\ process = "alive" /\ running[o] = "created"
  /\ running' = [running EXCEPT ![o] = "func_"]
  /\ UNCHANGED <<objectVars, joining, data, handle, process>>

\* func_ returns: delete data.
FuncReturns(o) ==
  /\ process = "alive" /\ running[o] = "func_"
  /\ data' = [data EXCEPT ![o] = @ - 1]
  /\ running' = [running EXCEPT ![o] = "ended"]
  /\ UNCHANGED <<objectVars, joining, handle, process>>

\* func_ throws: abort(), or the exception leaves the thread, and terminate().
FuncThrows(o) ==
  /\ process = "alive" /\ running[o] = "func_"
  /\ process' = "aborted"
  /\ UNCHANGED <<objectVars, joining, data, running, handle>>

-----------------------------------------------------------------------------
ThreadNext ==
  \E o \in Objects :
    \/ Make(o) \/ StartThread(o) \/ JoinThread(o) \/ Joined(o) \/ DestroyThread(o)
    \/ runInThread(o) \/ FuncReturns(o) \/ FuncThrows(o)

ThreadSpec == ThreadInit /\ [][ThreadNext]_threadVars

-----------------------------------------------------------------------------
(* Properties. *)

\* A created thread has its ThreadData for as long as it needs it, even after
\* the Thread object is gone, and no block is left without a thread that will
\* delete it: not after a pthread_create that failed, nor after a retry.
DataHasItsThread ==
  \A o \in Objects : data[o] = IF running[o] \in {"created", "func_"} THEN 1 ELSE 0

\* No thread handle is lost or given back twice: when the object is gone its
\* thread has been joined or detached, and one that was joined has ended.
HandleGivenBack ==
  \A o \in Objects :
    /\ object[o] = "gone" => handle[o] # "joinable"
    /\ handle[o] = "joined" => running[o] = "ended"

\* Whatever happens to an object, and to the creation of its thread, neither a
\* block nor a handle is left over or used after its end.
ThreadAccounted == DataHasItsThread /\ HandleGivenBack
=============================================================================
