---------------------------- MODULE AsyncLogging ----------------------------
(***************************************************************************)
(* base::AsyncLogging (base/async_logging.h, .cpp): the threads that call  *)
(* append, the backend thread that writes their lines to a file, and the   *)
(* controlling thread that calls start() and stop().                       *)
(*                                                                         *)
(* A buffer is what a FixedBuffer holds: the lines copied into it, each    *)
(* with the number of bytes that were copied, and its length.  A           *)
(* unique_ptr that has been moved from is NoBuffer.                        *)
(*                                                                         *)
(* append is a critical section of mutex_ that does not block and is one   *)
(* step.  The critical section of threadFunc calls cond_.waitForSeconds,   *)
(* which begins by locking mutex_; mutex_ is a default pthread mutex: a    *)
(* thread that locks it waits until it is free, the owner included.        *)
(***************************************************************************)
EXTENDS Integers, Sequences

CONSTANTS
  Lines,       \* the log lines of a run, each appended at most once (bound)
  Size,        \* Size[m]: bytes of line m
  BufferSize,  \* kLargeBuffer
  DropLimit,   \* 25: threadFunc drops the backlog beyond this many buffers
  NoBuffer     \* a null BufferPtr

Buffers == [data : Seq(Lines \X Nat), length : 0 .. BufferSize]

ASSUME SizeAssumption == Size \in [Lines -> Nat]
ASSUME BufferSizeAssumption == BufferSize \in Nat \ {0}
ASSUME DropLimitAssumption == DropLimit \in Nat /\ DropLimit >= 2
ASSUME NoBufferAssumption == NoBuffer \notin Buffers

VARIABLES
  running_,
  latch_,          \* count of latch_
  mutex_,          \* its owner between two steps
  currentBuffer_,
  nextBuffer_,
  buffers_,
  newBuffer1,      \* locals of threadFunc
  newBuffer2,
  buffersToWrite,
  written,         \* buffers of buffersToWrite already written
  backend,         \* where threadFunc is
  control,         \* where the controlling thread is
  file,            \* lines in the log file
  appended,        \* history: lines passed to append, in order
  dropped          \* history: lines erased with the backlog

vars == <<running_, latch_, mutex_, currentBuffer_, nextBuffer_, buffers_,
          newBuffer1, newBuffer2, buffersToWrite, written, backend, control,
          file, appended, dropped>>

\* The variables of each party.
shared == <<currentBuffer_, nextBuffer_, buffers_>>
locals == <<newBuffer1, newBuffer2, buffersToWrite, written>>
histories == <<appended, dropped>>

BackendPcs == {"none",    \* thread_ not created
               "entry",   \* before assert(running_ == true)
               "top",     \* at while (running_)
               "lock",    \* locking mutex_
               "locked",  \* about to inspect buffers_
               "relock",  \* locking mutex_ inside waitForSeconds
               "timed",   \* inside pthread_cond_timedwait
               "check",   \* buffers taken, backlog not yet inspected
               "write",   \* in the for loop of output.append
               "exit"}    \* threadFunc has returned

ControlPcs == {"new",      \* constructed
               "latch",    \* start(): in latch_.wait()
               "started",  \* start() has returned
               "join",     \* stop(): in thread_.join()
               "stopped"}  \* stop() has returned

TypeOK ==
  /\ running_ \in BOOLEAN
  /\ latch_ \in {0, 1}
  /\ mutex_ \in {"free", "backend"}
  /\ currentBuffer_ \in Buffers
  /\ nextBuffer_ \in Buffers \cup {NoBuffer}
  /\ buffers_ \in Seq(Buffers)
  /\ newBuffer1 \in Buffers \cup {NoBuffer}
  /\ newBuffer2 \in Buffers \cup {NoBuffer}
  /\ buffersToWrite \in Seq(Buffers)
  /\ written \in Nat
  /\ backend \in BackendPcs
  /\ control \in ControlPcs
  /\ file \in Seq(Lines \X Nat)
  /\ appended \in Seq(Lines)
  /\ dropped \subseteq Lines

-----------------------------------------------------------------------------
(* FixedBuffer. *)

EmptyBuffer == [data |-> <<>>, length |-> 0]

Avail(b) == BufferSize - b.length

\* FixedBuffer::append copies what fits.
Copied(b, m) == IF Avail(b) > Size[m] THEN Size[m] ELSE Avail(b)

BufferAppend(b, m) ==
  [data |-> Append(b.data, <<m, Copied(b, m)>>),
   length |-> b.length + Copied(b, m)]

-----------------------------------------------------------------------------
Init ==
  /\ running_ = FALSE
  /\ latch_ = 1
  /\ mutex_ = "free"
  /\ currentBuffer_ = EmptyBuffer
  /\ nextBuffer_ = EmptyBuffer
  /\ buffers_ = <<>>
  /\ newBuffer1 = NoBuffer
  /\ newBuffer2 = NoBuffer
  /\ buffersToWrite = <<>>
  /\ written = 0
  /\ backend = "none"
  /\ control = "new"
  /\ file = <<>>
  /\ appended = <<>>
  /\ dropped = {}

-----------------------------------------------------------------------------
(* Any thread: append(). *)

Fresh(m) == \A k \in DOMAIN appended : appended[k] # m

\* The line fits the current buffer.  Its notify() (if sync_) finds no
\* thread in pthread_cond_timedwait.
AppendToCurrent(m) ==
  /\ mutex_ = "free"
  /\ Fresh(m)
  /\ Avail(currentBuffer_) > Size[m]
  /\ currentBuffer_' = BufferAppend(currentBuffer_, m)
  /\ appended' = Append(appended, m)
  /\ UNCHANGED <<running_, latch_, mutex_, nextBuffer_, buffers_, locals,
                 backend, control, file, dropped>>

\* Mutant: the line is copied into the full buffer, not into the next one.
MutAppendToNext(m) ==
  /\ mutex_ = "free"
  /\ Fresh(m)
  /\ Avail(currentBuffer_) <= Size[m]
  /\ buffers_' = Append(buffers_, BufferAppend(currentBuffer_, m))
  /\ currentBuffer_' = IF nextBuffer_ = NoBuffer THEN EmptyBuffer ELSE nextBuffer_
  /\ nextBuffer_' = NoBuffer
  /\ appended' = Append(appended, m)
  /\ UNCHANGED <<running_, latch_, mutex_, locals, backend, control, file,
                 dropped>>

\* The current buffer is full: it joins buffers_, and the next buffer or a
\* newly allocated one takes its place.
AppendToNext(m) ==
  /\ mutex_ = "free"
  /\ Fresh(m)
  /\ Avail(currentBuffer_) <= Size[m]
  /\ buffers_' = Append(buffers_, currentBuffer_)
  /\ currentBuffer_' =
       BufferAppend(IF nextBuffer_ = NoBuffer THEN EmptyBuffer ELSE nextBuffer_, m)
  /\ nextBuffer_' = NoBuffer
  /\ appended' = Append(appended, m)
  /\ UNCHANGED <<running_, latch_, mutex_, locals, backend, control, file,
                 dropped>>

-----------------------------------------------------------------------------
(* The controlling thread: start() and stop(). *)

\* running_ = true; thread_.start(), whose pthread_create may fail: Thread
\* logs that and start() goes on to the latch.
Start ==
  /\ control = "new"
  /\ running_' = TRUE
  /\ backend' \in {"entry", "none"}
  /\ control' = "latch"
  /\ UNCHANGED <<latch_, mutex_, shared, locals, file, histories>>

\* Mutant: start() does not wait for the thread.
MutLatchWait ==
  /\ control = "latch"
  /\ control' = "started"
  /\ UNCHANGED <<running_, latch_, mutex_, shared, locals, backend, file,
                 histories>>

\* latch_.wait() returns.
LatchWait ==
  /\ control = "latch"
  /\ latch_ = 0
  /\ control' = "started"
  /\ UNCHANGED <<running_, latch_, mutex_, shared, locals, backend, file,
                 histories>>

\* stop(), also from ~AsyncLogging: running_ = false, a notify() without a
\* waiter, then thread_.join().
Stop ==
  /\ control = "started"
  /\ running_' = FALSE
  /\ control' = "join"
  /\ UNCHANGED <<latch_, mutex_, shared, locals, backend, file, histories>>

Join ==
  /\ control = "join"
  /\ backend = "exit"
  /\ control' = "stopped"
  /\ UNCHANGED <<running_, latch_, mutex_, shared, locals, backend, file,
                 histories>>

-----------------------------------------------------------------------------
(* The backend thread: threadFunc(). *)

\* The prologue: countDown, the spare buffers.
ThreadEntry ==
  /\ backend = "entry"
  /\ latch_' = latch_ - 1
  /\ newBuffer1' = EmptyBuffer
  /\ newBuffer2' = EmptyBuffer
  /\ backend' = "top"
  /\ UNCHANGED <<running_, mutex_, shared, buffersToWrite, written, control,
                 file, histories>>

\* while (running_)
LoopTest ==
  /\ backend = "top"
  /\ backend' = IF running_ THEN "lock" ELSE "exit"
  /\ UNCHANGED <<running_, latch_, mutex_, shared, locals, control, file,
                 histories>>

\* MutexLock::lock() of the two MutexLockGuards the backend constructs, in
\* threadFunc and in waitForSeconds.
Lock ==
  /\ backend \in {"lock", "relock"}
  /\ mutex_ = "free"
  /\ mutex_' = "backend"
  /\ backend' = IF backend = "lock" THEN "locked" ELSE "timed"
  /\ UNCHANGED <<running_, latch_, shared, locals, control, file, histories>>

\* buffers_.empty(): the backend calls waitForSeconds.
WaitForSeconds ==
  /\ backend = "locked"
  /\ buffers_ = <<>>
  /\ backend' = "relock"
  /\ UNCHANGED <<running_, latch_, mutex_, shared, locals, control, file,
                 histories>>

\* Mutant: the critical section ends without unlocking mutex_.
MutTakeBuffers ==
  /\ backend = "locked"
  /\ buffers_ # <<>>
  /\ buffersToWrite' = Append(buffers_, currentBuffer_)
  /\ buffers_' = buffersToWrite
  /\ currentBuffer_' = newBuffer1
  /\ newBuffer1' = NoBuffer
  /\ nextBuffer_' = IF nextBuffer_ = NoBuffer THEN newBuffer2 ELSE nextBuffer_
  /\ newBuffer2' = IF nextBuffer_ = NoBuffer THEN NoBuffer ELSE newBuffer2
  /\ written' = 0
  /\ backend' = "check"
  /\ UNCHANGED <<running_, latch_, mutex_, control, file, histories>>

\* The rest of the critical section: take every buffer, leave the spares.
TakeBuffers ==
  /\ backend = "locked"
  /\ buffers_ # <<>>
  /\ mutex_' = "free"
  /\ buffersToWrite' = Append(buffers_, currentBuffer_)
  /\ buffers_' = buffersToWrite
  /\ currentBuffer_' = newBuffer1
  /\ newBuffer1' = NoBuffer
  /\ nextBuffer_' = IF nextBuffer_ = NoBuffer THEN newBuffer2 ELSE nextBuffer_
  /\ newBuffer2' = IF nextBuffer_ = NoBuffer THEN NoBuffer ELSE newBuffer2
  /\ written' = 0
  /\ backend' = "check"
  /\ UNCHANGED <<running_, latch_, control, file, histories>>

\* The lines in a sequence of buffers.
LinesOf(bs) ==
  UNION {{bs[k].data[j][1] : j \in DOMAIN bs[k].data} : k \in DOMAIN bs}

\* Mutant: the backlog is cut down to one buffer.
MutDropBacklog ==
  /\ backend = "check"
  /\ IF Len(buffersToWrite) > DropLimit
     THEN /\ buffersToWrite' = SubSeq(buffersToWrite, 1, 1)
          /\ dropped' = dropped \cup
               LinesOf(SubSeq(buffersToWrite, 2, Len(buffersToWrite)))
     ELSE UNCHANGED <<buffersToWrite, dropped>>
  /\ backend' = "write"
  /\ UNCHANGED <<running_, latch_, mutex_, shared, newBuffer1, newBuffer2,
                 written, control, file, appended>>

\* More than DropLimit buffers: all but the first two are erased (the notice
\* that takes their place in the file is left out).
DropBacklog ==
  /\ backend = "check"
  /\ IF Len(buffersToWrite) > DropLimit
     THEN /\ buffersToWrite' = SubSeq(buffersToWrite, 1, 2)
          /\ dropped' = dropped \cup
               LinesOf(SubSeq(buffersToWrite, 3, Len(buffersToWrite)))
     ELSE UNCHANGED <<buffersToWrite, dropped>>
  /\ backend' = "write"
  /\ UNCHANGED <<running_, latch_, mutex_, shared, newBuffer1, newBuffer2,
                 written, control, file, appended>>

\* output.append of one buffer.
WriteBuffer ==
  /\ backend = "write"
  /\ written < Len(buffersToWrite)
  /\ file' = file \o buffersToWrite[written + 1].data
  /\ written' = written + 1
  /\ UNCHANGED <<running_, latch_, mutex_, shared, newBuffer1, newBuffer2,
                 buffersToWrite, backend, control, histories>>

\* resize(2): the buffers that may be used again.
Kept == SubSeq(buffersToWrite, 1,
               IF Len(buffersToWrite) > 2 THEN 2 ELSE Len(buffersToWrite))

\* The end of a round: written buffers, reset, become the spares again.
Recycle ==
  /\ backend = "write"
  /\ written = Len(buffersToWrite)
  /\ newBuffer1' = IF newBuffer1 = NoBuffer THEN EmptyBuffer ELSE newBuffer1
  /\ newBuffer2' = IF newBuffer2 = NoBuffer THEN EmptyBuffer ELSE newBuffer2
  /\ buffersToWrite' = <<>>
  /\ written' = 0
  /\ backend' = "top"
  /\ UNCHANGED <<running_, latch_, mutex_, shared, control, file, histories>>

-----------------------------------------------------------------------------
BackendStep ==
  \/ ThreadEntry \/ LoopTest \/ Lock \/ WaitForSeconds \/ TakeBuffers
  \/ DropBacklog \/ WriteBuffer \/ Recycle

ControlStep == LatchWait \/ Join

Next ==
  \/ BackendStep
  \/ ControlStep \/ Start \/ Stop
  \/ \E m \in Lines : AppendToCurrent(m) \/ AppendToNext(m)

SafeSpec == Init /\ [][Next]_vars

\* The backend and a controlling thread whose wait is over keep running;
\* nobody has to log, to start or to stop.
Spec == SafeSpec /\ WF_vars(BackendStep) /\ WF_vars(ControlStep)

-----------------------------------------------------------------------------
(* Properties. *)

\* A spare buffer is there whenever the critical section or append moves one,
\* and it is empty: the assertions of threadFunc hold, back() and pop_back()
\* never meet an empty vector, and currentBuffer_ never becomes null.
SparesSuffice ==
  /\ backend \in {"top", "lock", "locked", "relock"} =>
       /\ newBuffer1 = EmptyBuffer
       /\ newBuffer2 = EmptyBuffer
       /\ buffersToWrite = <<>>
  /\ backend = "check" => buffersToWrite # <<>>
  /\ backend = "write" =>
       Len(Kept) >= (IF newBuffer1 = NoBuffer THEN 1 ELSE 0)
                  + (IF newBuffer2 = NoBuffer THEN 1 ELSE 0)
  /\ nextBuffer_ \in {EmptyBuffer, NoBuffer}

\* assert(running_ == true) at the entry of threadFunc: a stop() that follows
\* start() at once cannot overtake the new thread, because of latch_.
StartedBeforeStop == backend = "entry" => running_

\* The buffers whose lines the file does not have yet, oldest first.
Unwritten ==
  SubSeq(buffersToWrite, written + 1, Len(buffersToWrite))
    \o Append(buffers_, currentBuffer_)

\* The log: the file, and then what these buffers hold.
Parts == [k \in 0 .. Len(Unwritten) |-> IF k = 0 THEN file ELSE Unwritten[k].data]

\* x was passed to append before y.
Older(x, y) == \E i, j \in DOMAIN appended : i < j /\ appended[i] = x /\ appended[j] = y

\* The lines of the log are in the order of the calls.
LogInOrder ==
  \A k, l \in DOMAIN Parts :
    \A i \in DOMAIN Parts[k], j \in DOMAIN Parts[l] :
      k < l \/ (k = l /\ i < j) => Older(Parts[k][i][1], Parts[l][j][1])

\* A line is cut short only if it is longer than an empty buffer.
Whole(m) == <<m, IF Size[m] < BufferSize THEN Size[m] ELSE BufferSize>>
LogIsWhole ==
  \A k \in DOMAIN Parts : \A i \in DOMAIN Parts[k] : Parts[k][i] = Whole(Parts[k][i][1])

\* The lines that are in the log.
Logged == UNION {{Parts[k][i][1] : i \in DOMAIN Parts[k]} : k \in DOMAIN Parts}

LogIsComplete ==
  {appended[i] : i \in DOMAIN appended} = Logged \cup dropped /\ Logged \cap dropped = {}

\* Every line passed to append is in the file or in a buffer, once, in the
\* order of the calls, unless it was erased with a backlog; and it is cut
\* short only if it is longer than an empty buffer.
LinesAccounted == LogInOrder /\ LogIsWhole /\ LogIsComplete

\* stop() returns, or the backend is stuck inside waitForSeconds: nothing else
\* in the shutdown handshake can block.
StopReturnsUnlessStuck ==
  control = "join" ~> (control = "stopped" \/ backend = "relock")

\* Condition::waitForSeconds returns ("true if time out, false otherwise").
WaitForSecondsReturns == backend = "relock" ~> backend # "relock"
=============================================================================
