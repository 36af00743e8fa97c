------------------------------- MODULE Timer -------------------------------
(***************************************************************************)
(* TimerManager (net/Timer.cpp): timers in a heap that is ordered by the   *)
(* expiry time and emptied from the top only.  Times are taken modulo a    *)
(* cycle (10000 s), without anything for the case that the clock goes      *)
(* round.  Nothing in the library uses TimerManager yet (its calls in      *)
(* Epoll.cpp are commented out); here one thread does.                     *)
(***************************************************************************)
EXTENDS Integers

CONSTANTS
  TimerNodes,   \* each is added at most once (bound)
  Timeouts,
  Cycle,        \* 10000 s, in units of the clock
  MaxClock      \* bound on the clock

ASSUME TimerAssumption ==
  Cycle \in Nat \ {0} /\ Timeouts \subseteq Nat /\ MaxClock \in Nat

VARIABLES
  clock,            \* gettimeofday
  timerNodeQueue,   \* the nodes in the heap
  expiredTime_,
  deleted_,
  handling,         \* handleExpiredEvent is in its loop
  addedAt, dueAt,   \* history: when a node was added, and when it is due
  expired           \* history: the nodes popped because they were not valid

timerManagerVars ==
  <<clock, timerNodeQueue, expiredTime_, deleted_, handling, addedAt, dueAt, expired>>

TimerInit ==
  /\ clock \in {0, Cycle - 1}
  /\ timerNodeQueue = {} /\ deleted_ = {} /\ expired = {}
  /\ handling = FALSE
  /\ expiredTime_ = [n \in TimerNodes |-> 0]
  /\ addedAt = [n \in TimerNodes |-> -1] /\ dueAt = [n \in TimerNodes |-> -1]

ClockTick ==
  /\ clock < MaxClock
  /\ clock' = clock + 1
  /\ UNCHANGED <<timerNodeQueue, expiredTime_, deleted_, handling, addedAt, dueAt, expired>>

\* The constructor of TimerNode.
ExpiryTime(timeout) == (clock % Cycle) + timeout

addTimer(n, timeout) ==
  /\ ~handling /\ addedAt[n] = -1
  /\ timerNodeQueue' = timerNodeQueue \cup {n}
  /\ expiredTime_' = [expiredTime_ EXCEPT ![n] = ExpiryTime(timeout)]
  /\ addedAt' = [addedAt EXCEPT ![n] = clock]
  /\ dueAt' = [dueAt EXCEPT ![n] = clock + timeout]
  /\ UNCHANGED <<clock, deleted_, handling, expired>>

\* clearReq, by the owner of the node: it is marked, and stays in the heap.
clearReq(n) ==
  /\ ~handling /\ n \in timerNodeQueue
  /\ deleted_' = deleted_ \cup {n}
  /\ UNCHANGED <<clock, timerNodeQueue, expiredTime_, handling, addedAt, dueAt, expired>>

isValid(n) == clock % Cycle < expiredTime_[n]

\* Mutant: the later node comes first.
MutTopNode(n) ==
  n \in timerNodeQueue /\ \A m \in timerNodeQueue : expiredTime_[m] <= expiredTime_[n]

\* timerNodeQueue.top(), ordered by TimerCmp.
TopNode(n) ==
  n \in timerNodeQueue /\ \A m \in timerNodeQueue : expiredTime_[n] <= expiredTime_[m]

handleExpiredEvent ==
  /\ ~handling
  /\ handling' = TRUE
  /\ UNCHANGED <<clock, timerNodeQueue, expiredTime_, deleted_, addedAt, dueAt, expired>>

PopNode(n) ==
  /\ handling /\ TopNode(n)
  /\ n \in deleted_ \/ ~isValid(n)
  /\ timerNodeQueue' = timerNodeQueue \ {n}
  /\ expired' = IF n \in deleted_ THEN expired ELSE expired \cup {n}
  /\ deleted_' = deleted_ \cup {n}
  /\ UNCHANGED <<clock, expiredTime_, handling, addedAt, dueAt>>

HandleDone ==
  /\ handling
  /\ timerNodeQueue = {} \/ \E n \in TimerNodes : TopNode(n) /\ n \notin deleted_ /\ isValid(n)
  /\ handling' = FALSE
  /\ UNCHANGED <<clock, timerNodeQueue, expiredTime_, deleted_, addedAt, dueAt, expired>>

TimerNext ==
  \/ ClockTick \/ handleExpiredEvent \/ HandleDone
  \/ \E n \in TimerNodes :
       PopNode(n) \/ clearReq(n) \/ (\E timeout \in Timeouts : addTimer(n, timeout))

TimerSpec == TimerInit /\ [][TimerNext]_timerManagerVars

-----------------------------------------------------------------------------
(* Properties. *)

\* No timer runs out before its time, although isValid compares times of
\* different cycles.
NeverEarly == \A n \in expired : dueAt[n] <= clock

\* After handleExpiredEvent no timer is left that is due and was added in this
\* cycle of the clock.  (Those of an earlier cycle may be left: one that was
\* added with an expiry time past the end of the cycle never runs out.)
DueAreGone ==
  HandleDone =>
    \A n \in timerNodeQueue : addedAt[n] \div Cycle = clock \div Cycle => clock < dueAt[n]

\* Timers run out when they are due.
TimersInTime == [][NeverEarly' /\ DueAreGone]_timerManagerVars
=============================================================================
