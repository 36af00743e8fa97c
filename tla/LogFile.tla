------------------------------- MODULE LogFile -------------------------------
(***************************************************************************)
(* base/log_file.cpp with the AppendFile of base/file_util.cpp: a file that*)
(* is replaced when it is full and when a new day begins, and flushed every*)
(* few seconds; time is looked at every checkEveryN_-th line only.         *)
(*                                                                         *)
(* append and flush run under the mutex, or in the logger's thread alone,  *)
(* so that each is one step.  A line is its length.                        *)
(***************************************************************************)
EXTENDS Integers

CONSTANTS
  RollSize,       \* rollSize_
  FlushInterval,  \* flushInterval_, in seconds
  CheckEveryN,    \* checkEveryN_
  Period,         \* kRollPerSeconds_
  Lens,           \* lengths of lines
  MaxNow,         \* bound: seconds of a run
  MaxLines        \* bound: lines of a run

ASSUME LogFileAssumption ==
  /\ RollSize \in Nat
  /\ FlushInterval \in Nat
  /\ CheckEveryN \in Nat \ {0}
  /\ Period \in Nat \ {0}
  /\ Lens \subseteq Nat
  /\ MaxNow \in Nat \ {0}

VARIABLES
  now,             \* time(NULL)
  count_,          \* lines since time was last looked at
  startOfPeriod_,  \* the period the current file belongs to
  lastRoll_,       \* when the current file was opened
  lastFlush_,
  forbit_write_,   \* the disk was nearly full when the file was opened
  writtenBytes_,   \* of the current file
  lines,           \* history: lines appended in the run
  lastAppend,      \* history: when the last line was appended
  oldest,          \* history: when the oldest line in the stdio buffer was
                   \*   appended, 0 if the buffer is empty
  tardy,           \* history: lines appended more than FlushInterval later
  late,            \* history: lines in the current file of another period
  stepped          \* history: the wall clock has been set back

vars == <<now, count_, startOfPeriod_, lastRoll_, lastFlush_, forbit_write_,
          writtenBytes_, lines, lastAppend, oldest, tardy, late, stepped>>

Times == 0 .. MaxNow

TypeOK ==
  /\ now \in Times \ {0}
  /\ count_ \in 0 .. CheckEveryN - 1
  /\ startOfPeriod_ \in Times
  /\ lastRoll_ \in Times
  /\ lastFlush_ \in Times
  /\ forbit_write_ \in BOOLEAN
  /\ writtenBytes_ \in Nat
  /\ lines \in Nat
  /\ lastAppend \in Times
  /\ oldest \in Times
  /\ tardy \in Nat
  /\ late \in Nat
  /\ stepped \in BOOLEAN

StartOf(t) == (t \div Period) * Period

\* The constructor has called rollFile.
Init ==
  /\ now \in Times \ {0}
  /\ count_ = 0
  /\ startOfPeriod_ = StartOf(now)
  /\ lastRoll_ = now
  /\ lastFlush_ = now
  /\ forbit_write_ \in BOOLEAN
  /\ writtenBytes_ = 0
  /\ lines = 0
  /\ lastAppend = 0
  /\ oldest = 0
  /\ tardy = 0
  /\ late = 0
  /\ stepped = FALSE

-----------------------------------------------------------------------------
(* The parts of append_unlocked. *)

\* AppendFile::append, and DummyIncWrittenBytes when writing is forbidden.
Written(len) == writtenBytes_ + len

\* The line is in the buffer of the current file, or left out.
KeepFile(len) ==
  /\ writtenBytes_' = Written(len)
  /\ late' = IF StartOf(now) # startOfPeriod_ THEN late + 1 ELSE late
  /\ UNCHANGED <<startOfPeriod_, lastRoll_, forbit_write_>>

Buffer ==
  /\ oldest' = IF oldest = 0 /\ ~forbit_write_ THEN now ELSE oldest
  /\ tardy' = IF oldest # 0 /\ now - oldest > FlushInterval THEN tardy + 1
                                                            ELSE tardy

Flushed == oldest' = 0 /\ tardy' = 0

\* Mutant: the new file keeps the period of the old one.
MutNewFile ==
  /\ lastRoll_' = now
  /\ lastFlush_' = now
  /\ forbit_write_' \in BOOLEAN
  /\ writtenBytes_' = 0
  /\ late' = 0
  /\ Flushed
  /\ UNCHANGED startOfPeriod_

\* rollFile opens a file named after the second, if there is none yet of this
\* second; closing the old one writes its buffer.
NewFile ==
  /\ lastRoll_' = now
  /\ lastFlush_' = now
  /\ startOfPeriod_' = StartOf(now)
  /\ forbit_write_' \in BOOLEAN
  /\ writtenBytes_' = 0
  /\ late' = 0
  /\ Flushed

\* rollFile, at the end of an append.
RollFile(len) ==
  \/ now > lastRoll_ /\ NewFile
  \/ now <= lastRoll_ /\ KeepFile(len) /\ Buffer /\ UNCHANGED lastFlush_

\* Mutant: the size is tested before the line is written.
MutFull(len) == writtenBytes_ > RollSize

Full(len) == Written(len) > RollSize

Counted ==
  /\ lines < MaxLines
  /\ lines' = lines + 1
  /\ lastAppend' = now
  /\ UNCHANGED <<now, stepped>>

\* append, if the line fills the file,
AppendFull(len) ==
  /\ Counted
  /\ Full(len)
  /\ RollFile(len)
  /\ UNCHANGED count_

\* if it does not and it is not time to look at the clock,
AppendOnly(len) ==
  /\ Counted
  /\ ~Full(len)
  /\ count_ + 1 < CheckEveryN
  /\ count_' = count_ + 1
  /\ KeepFile(len)
  /\ Buffer
  /\ UNCHANGED lastFlush_

\* if the clock says that it is another period,
AppendNewPeriod(len) ==
  /\ Counted
  /\ ~Full(len)
  /\ count_ + 1 >= CheckEveryN
  /\ count_' = 0
  /\ StartOf(now) # startOfPeriod_
  /\ RollFile(len)

\* Mutant: lastFlush_ is set whether or not the file is flushed.
MutAppendSamePeriod(len) ==
  /\ Counted
  /\ ~Full(len)
  /\ count_ + 1 >= CheckEveryN
  /\ count_' = 0
  /\ StartOf(now) = startOfPeriod_
  /\ KeepFile(len)
  /\ lastFlush_' = now
  /\ \/ now - lastFlush_ > FlushInterval /\ Flushed
     \/ now - lastFlush_ <= FlushInterval /\ Buffer

\* and if it is the same: the file is flushed when it is time.
AppendSamePeriod(len) ==
  /\ Counted
  /\ ~Full(len)
  /\ count_ + 1 >= CheckEveryN
  /\ count_' = 0
  /\ StartOf(now) = startOfPeriod_
  /\ KeepFile(len)
  /\ \/ now - lastFlush_ > FlushInterval /\ lastFlush_' = now /\ Flushed
     \/ now - lastFlush_ <= FlushInterval /\ UNCHANGED lastFlush_ /\ Buffer

Append(len) ==
  AppendFull(len) \/ AppendOnly(len) \/ AppendNewPeriod(len) \/ AppendSamePeriod(len)

\* LogFile::flush.
Flush ==
  /\ Flushed
  /\ UNCHANGED <<now, count_, startOfPeriod_, lastRoll_, lastFlush_,
                 forbit_write_, writtenBytes_, lines, lastAppend, late, stepped>>

\* Time passes,
Tick ==
  /\ now' \in (now + 1) .. MaxNow
  /\ UNCHANGED <<count_, startOfPeriod_, lastRoll_, lastFlush_, forbit_write_,
                 writtenBytes_, lines, lastAppend, oldest, tardy, late, stepped>>

\* or the clock is set back.
StepBack ==
  /\ now' \in 1 .. (now - 1)
  /\ stepped' = TRUE
  /\ UNCHANGED <<count_, startOfPeriod_, lastRoll_, lastFlush_, forbit_write_,
                 writtenBytes_, lines, lastAppend, oldest, tardy, late>>

Next == (\E len \in Lens : Append(len)) \/ Flush \/ Tick \/ StepBack

SafeSpec == Init /\ [][Next]_vars

-----------------------------------------------------------------------------
(* Properties. *)

\* A file grows past rollSize_ only while it cannot be replaced, because the
\* name of its successor would be its own: in the second it was opened, or
\* until a clock that was set back has caught up.
OversizeOnlyInItsSecond == writtenBytes_ > RollSize => lastAppend <= lastRoll_

\* Fewer than checkEveryN_ lines of another day stand in the current file (and
\* the next one replaces it), however appends, full files and rolls that fail
\* are interleaved with midnight, unless the clock was set back.
FewLinesLate == stepped \/ late < CheckEveryN

\* A line stays in the stdio buffer for flushInterval_ seconds and fewer than
\* checkEveryN_ further lines, unless the clock was set back.
FlushedInTime == stepped \/ tardy < CheckEveryN
=============================================================================
