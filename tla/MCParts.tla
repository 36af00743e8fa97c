------------------------------- MODULE MCParts -------------------------------
(***************************************************************************)
(* An instance for TLC of the smaller parts of base/ and net/: how the     *)
(* loop threads start, Thread, the poller's tables, the socket helpers,    *)
(* ReadSmallFile, StringPiece and ProcessInfo.  They do not interact here, *)
(* and a behaviour is one of a single part: the others stay in their       *)
(* initial state.                                                          *)
(***************************************************************************)
EXTENDS LoopThreadPool, Thread, Epoll, Util, ReadSmallFile, StringPiece, ProcessInfo

CONSTANTS t1, t2, ch1, ch2, q1, q2

VARIABLE part

\* The starting thread waits for one worker at a time, so that a first, a last
\* and some between them are enough.
MCNumThreads == 4

MCObjects == {t1, t2}

\* Two channels, and a descriptor that both may have in turn.
MCChannels == {ch1, ch2}
MCChannelFds == {1, 2}
MCMasks == {1, 2}

\* Out of range on both sides, and the echo server's.
MCPorts == {-1, 8421, 65536}

\* Less than a piece, more than one, and more than the file.
MCMaxSizes == {1, 3, 5}
MCKinds == {"file", "directory", "missing"}
MCFileSizes == {0, 3}

\* Bytes on both sides of 127, nulls inside and at the ends, prefixes.
MCMemory == <<<<97, 200>>, <<97, 0, 98>>, <<97, 200, 1>>, <<>>>>
MCPieces == {q1, q2}

\* Two threads ask while a third comes and goes.
MCCallers == {5, 9}
MCWorkers == {7}
MCFiles == {3}
MCProcNames == {<<"echo">>, <<"a", ")", "(", "b">>, <<")">>}

poolVars == vars
MCVars == <<part, poolVars, threadVars, epollVars, utilVars, readVars, piece, infoVars>>

RunPool(step) ==
  /\ part = "pool" /\ step
  /\ UNCHANGED <<part, threadVars, epollVars, utilVars, readVars, piece, infoVars>>

RunThread(step) ==
  /\ part = "thread" /\ step
  /\ UNCHANGED <<part, poolVars, epollVars, utilVars, readVars, piece, infoVars>>

RunEpoll(step) ==
  /\ part = "epoll" /\ step
  /\ UNCHANGED <<part, poolVars, threadVars, utilVars, readVars, piece, infoVars>>

RunUtil(step) ==
  /\ part = "util" /\ step
  /\ UNCHANGED <<part, poolVars, threadVars, epollVars, readVars, piece, infoVars>>

RunRead(step) ==
  /\ part = "read" /\ step
  /\ UNCHANGED <<part, poolVars, threadVars, epollVars, utilVars, piece, infoVars>>

RunPiece(step) ==
  /\ part = "piece" /\ step
  /\ UNCHANGED <<part, poolVars, threadVars, epollVars, utilVars, readVars, infoVars>>

RunInfo(step) ==
  /\ part = "info" /\ step
  /\ UNCHANGED <<part, poolVars, threadVars, epollVars, utilVars, readVars, piece>>

MCInit ==
  /\ part \in {"pool", "thread", "epoll", "util", "read", "piece", "info"}
  /\ Init /\ ThreadInit /\ EpollInit /\ UtilInit /\ ReadInit /\ PieceInit /\ InfoInit
  \* one initial state for a part that does not run
  /\ part # "read" => kind = "file" /\ file = <<>> /\ maxSize = 1 /\ wantsSize

MCNext ==
  \/ RunPool(Next) \/ RunThread(ThreadNext) \/ RunEpoll(EpollNext) \/ RunUtil(UtilNext)
  \/ RunRead(ReadNext) \/ RunPiece(PieceNext) \/ RunInfo(InfoNext)

\* The fairness of LoopThreadPool!Spec.
MCSpec ==
  /\ MCInit /\ [][MCNext]_MCVars
  /\ WF_MCVars(RunPool(StarterStep))
  /\ \A k \in Threads : SF_MCVars(RunPool(WorkerStep(k)))
=============================================================================
