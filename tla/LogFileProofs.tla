---------------------------- MODULE LogFileProofs ----------------------------
(***************************************************************************)
(* The promises of LogFile for all sizes, intervals and runs (MaxNow and   *)
(* MaxLines are arbitrary).  The two bounds by checkEveryN_ hold until the *)
(* clock is set back; both follow from late <= count_ and tardy <= count_, *)
(* which hold because the clock is looked at when count_ is reset.         *)
(***************************************************************************)
EXTENDS LogFile, TLAPS

\* Days are numbered in the order of time.
LEMMA DayMonotone ==
  ASSUME NEW t \in Nat, NEW u \in Nat, t <= u
  PROVE  t \div Period <= u \div Period /\ t \div Period \in Nat
PROOF
  BY LogFileAssumption, Z3

\* The start of a day is a time, not after any time of the day, and later for
\* a later day.
LEMMA StartMonotone ==
  ASSUME NEW t \in Nat, NEW u \in Nat, t <= u
  PROVE  StartOf(t) <= StartOf(u) /\ StartOf(t) \in Nat /\ StartOf(t) <= t
PROOF
  BY LogFileAssumption, DayMonotone, Z3 DEF StartOf

\* The type invariant and the bound on the size of a file, together inductive.
Sized == TypeOK /\ OversizeOnlyInItsSecond

\* They hold after the constructor.
LEMMA InitSized == Init => Sized
PROOF
<1>1. Init => stepped \in BOOLEAN
  BY Zenon DEF Init
<1>2. QED
  BY <1>1, LogFileAssumption, StartMonotone
     DEF Init, Sized, TypeOK, Times, OversizeOnlyInItsSecond

\* Every step preserves the two.
LEMMA NextSized == Sized /\ [Next]_vars => Sized'
PROOF
<1> SUFFICES ASSUME Sized, [Next]_vars PROVE Sized'
  OBVIOUS
<1> USE LogFileAssumption DEF Sized, TypeOK, Times
<1>1. now \in Nat /\ StartOf(now) \in Times
  BY StartMonotone
<1>2. ASSUME NEW len \in Lens, Append(len) PROVE Sized'
  <2>1. len \in Nat /\ Written(len) \in Nat
    BY DEF Written
  <2>2. Counted
    BY <1>2 DEF Append, AppendFull, AppendOnly, AppendNewPeriod, AppendSamePeriod
  <2>3. /\ lastAppend' = now /\ now' = now /\ lines' \in Nat
        /\ lines' = lines + 1 /\ stepped' = stepped
    BY <2>2 DEF Counted
  <2>4. ASSUME RollFile(len), count_' \in 0 .. CheckEveryN - 1 PROVE Sized'
    <3>1. CASE now > lastRoll_ /\ NewFile
      BY <1>1, <2>3, <2>4, <3>1 DEF NewFile, Flushed, OversizeOnlyInItsSecond
    <3>2. CASE now <= lastRoll_ /\ KeepFile(len) /\ Buffer /\ UNCHANGED lastFlush_
      BY <2>1, <2>3, <2>4, <3>2 DEF KeepFile, Buffer, OversizeOnlyInItsSecond
    <3>3. QED
      BY <2>4, <3>1, <3>2 DEF RollFile
  <2>5. ASSUME KeepFile(len), Buffer \/ Flushed, lastFlush_' \in Times, ~Full(len),
               count_' \in 0 .. CheckEveryN - 1
        PROVE  Sized'
    BY <2>1, <2>3, <2>5 DEF KeepFile, Buffer, Flushed, Full, OversizeOnlyInItsSecond
  <2>6. CASE AppendFull(len)
    BY <2>4, <2>6 DEF AppendFull
  <2>7. CASE AppendOnly(len)
    BY <2>5, <2>7 DEF AppendOnly
  <2>8. CASE AppendNewPeriod(len)
    BY <2>4, <2>8 DEF AppendNewPeriod
  <2>9. CASE AppendSamePeriod(len)
    BY <2>5, <2>9 DEF AppendSamePeriod
  <2>10. QED
    BY <1>2, <2>6, <2>7, <2>8, <2>9 DEF Append
<1>3. CASE Flush
  BY <1>3 DEF Flush, Flushed, OversizeOnlyInItsSecond
<1>4. CASE Tick \/ StepBack
  <2>1. stepped' \in BOOLEAN
    BY <1>4, Zenon DEF Tick, StepBack, TypeOK
  <2>2. QED
    BY <1>4, <2>1 DEF Tick, StepBack, OversizeOnlyInItsSecond
<1>5. CASE UNCHANGED vars
  BY <1>5 DEF vars, OversizeOnlyInItsSecond
<1>6. QED
  BY <1>2, <1>3, <1>4, <1>5 DEF Next

\* The type invariant of LogFile, in particular that the clock is looked at
\* before count_ reaches checkEveryN_.
THEOREM TypeCorrect == SafeSpec => []TypeOK
PROOF
<1>1. Sized => TypeOK
  BY DEF Sized
<1>2. QED
  BY <1>1, InitSized, NextSized, PTL DEF SafeSpec

\* A file is larger than rollSize_ only if it could not be replaced yet, for
\* any clock.
THEOREM SizeBounded == SafeSpec => []OversizeOnlyInItsSecond
PROOF
<1>1. Sized => OversizeOnlyInItsSecond
  BY DEF Sized
<1>2. QED
  BY <1>1, InitSized, NextSized, PTL DEF SafeSpec

-----------------------------------------------------------------------------
\* The times that LogFile remembers are in order.
TimesOrdered ==
  /\ lastRoll_ <= lastFlush_
  /\ lastFlush_ <= now
  /\ startOfPeriod_ = StartOf(lastRoll_)
  /\ oldest # 0 => lastFlush_ <= oldest

\* Late lines are there only on another day, and were counted.
LateCounted == late <= count_ /\ (late > 0 => StartOf(now) > startOfPeriod_)

\* Tardy lines are there only behind a line that waits too long, and were
\* counted.
TardyCounted ==
  tardy <= count_ /\ (tardy > 0 => oldest # 0 /\ now - oldest > FlushInterval)

\* What holds as long as the clock is not set back.
Steady == TypeOK /\ TimesOrdered /\ LateCounted /\ TardyCounted

\* These hold after the constructor.
LEMMA InitSteady == Init => Steady
PROOF
  BY LogFileAssumption, InitSized
     DEF Init, Sized, Steady, TypeOK, Times, TimesOrdered, LateCounted, TardyCounted

\* A line that goes into the current file: it is late only on another day than
\* that of the file, tardy only behind a line that waits too long.
LEMMA KeepCounted ==
  ASSUME Steady, NEW len \in Lens, Counted, KeepFile(len)
  PROVE  /\ late' <= late + 1
         /\ late' > 0 => StartOf(now) > startOfPeriod_
         /\ StartOf(now) = startOfPeriod_ => late' = 0
         /\ Buffer => /\ tardy' <= tardy + 1
                      /\ tardy' > 0 => oldest' # 0 /\ now - oldest' > FlushInterval
                      /\ now - lastFlush_ <= FlushInterval => tardy' = 0
                      /\ oldest' # 0 => lastFlush_ <= oldest'
PROOF
<1> USE LogFileAssumption DEF Steady, TypeOK, Times
<1>1. StartOf(lastRoll_) <= StartOf(now) /\ StartOf(now) \in Nat
      /\ StartOf(lastRoll_) \in Nat
  <2>1. lastRoll_ <= now
    BY DEF TimesOrdered
  <2>2. QED
    BY <2>1, StartMonotone
<1>2. /\ late' <= late + 1
      /\ late' > 0 => StartOf(now) > startOfPeriod_
      /\ StartOf(now) = startOfPeriod_ => late' = 0
  BY <1>1 DEF KeepFile, TimesOrdered, LateCounted
<1>3. QED
  BY <1>2 DEF Buffer, TimesOrdered, TardyCounted

\* An append preserves them.
LEMMA AppendSteady ==
  ASSUME Steady, NEW len \in Lens, Append(len), TypeOK'
  PROVE  Steady'
PROOF
<1> USE LogFileAssumption DEF Steady, TypeOK, Times
<1>1. Counted /\ now' = now
  BY DEF Append, AppendFull, AppendOnly, AppendNewPeriod, AppendSamePeriod, Counted
<1>2. CASE NewFile
  BY <1>1, <1>2 DEF NewFile, Flushed, TimesOrdered, LateCounted, TardyCounted
<1>3. CASE KeepFile(len) /\ Buffer /\ UNCHANGED lastFlush_
           /\ (\/ count_' = count_ + 1
               \/ StartOf(now) = startOfPeriod_ /\ now - lastFlush_ <= FlushInterval)
  <2>1. TimesOrdered'
    BY <1>1, <1>3, KeepCounted DEF KeepFile, TimesOrdered
  <2>2. LateCounted'
    <3>1. /\ late' <= late + 1 /\ (late' > 0 => StartOf(now) > startOfPeriod_)
          /\ StartOf(now) = startOfPeriod_ => late' = 0
      BY <1>1, <1>3, KeepCounted
    <3>2. late' <= count_'
      BY <1>3, <3>1 DEF LateCounted
    <3>3. QED
      BY <1>1, <1>3, <3>1, <3>2 DEF KeepFile, LateCounted
  <2>3. TardyCounted'
    <3>1. /\ tardy' <= tardy + 1
          /\ tardy' > 0 => oldest' # 0 /\ now - oldest' > FlushInterval
          /\ now - lastFlush_ <= FlushInterval => tardy' = 0
      BY <1>1, <1>3, KeepCounted
    <3>2. tardy' <= count_'
      BY <1>3, <3>1 DEF TardyCounted
    <3>3. QED
      BY <1>1, <3>1, <3>2 DEF TardyCounted
  <2>4. QED
    BY <2>1, <2>2, <2>3
<1>4. CASE AppendFull(len)
  <2>1. CASE now <= lastRoll_ /\ KeepFile(len) /\ Buffer /\ UNCHANGED lastFlush_
    <3>1. now = lastRoll_ /\ lastFlush_ = now
      BY <2>1 DEF TimesOrdered
    <3>2. QED
      BY <1>3, <2>1, <3>1 DEF TimesOrdered
  <2>2. QED
    BY <1>2, <1>4, <2>1 DEF AppendFull, RollFile
<1>5. CASE AppendOnly(len)
  BY <1>3, <1>5 DEF AppendOnly
<1>6. CASE AppendNewPeriod(len)
  <2>1. now # lastRoll_
    BY <1>6 DEF AppendNewPeriod, TimesOrdered
  <2>2. now > lastRoll_
    BY <2>1 DEF TimesOrdered
  <2>3. QED
    BY <1>2, <1>6, <2>2 DEF AppendNewPeriod, RollFile
<1>7. CASE AppendSamePeriod(len)
  <2>1. CASE now - lastFlush_ > FlushInterval /\ lastFlush_' = now /\ Flushed
             /\ KeepFile(len) /\ StartOf(now) = startOfPeriod_
    <3>1. LateCounted'
      BY <1>1, <2>1, KeepCounted DEF KeepFile, LateCounted
    <3>2. TimesOrdered' /\ TardyCounted'
      BY <1>1, <2>1 DEF KeepFile, Flushed, TimesOrdered, TardyCounted
    <3>3. QED
      BY <3>1, <3>2
  <2>2. QED
    BY <1>3, <1>7, <2>1 DEF AppendSamePeriod
<1>8. QED
  BY <1>4, <1>5, <1>6, <1>7 DEF Append

\* A line that has waited too long waits too long later on.
LEMMA StillWaiting ==
  ASSUME NEW t \in Int, NEW u \in Int, NEW old \in Int, NEW f \in Int,
         u >= t, t - old > f
  PROVE  u - old > f
PROOF
  OBVIOUS

\* Every step preserves them, unless it sets the clock back.
LEMMA NextSteady ==
  ASSUME ~stepped', Steady, TypeOK', [Next]_vars
  PROVE  Steady'
PROOF
<1> USE LogFileAssumption DEF Steady, TypeOK, Times
<1>1. CASE Flush
  BY <1>1 DEF Flush, Flushed, TimesOrdered, LateCounted, TardyCounted
<1>2. CASE Tick
  <2>1. now' >= now
    BY <1>2 DEF Tick
  <2>2. StartOf(now) <= StartOf(now') /\ StartOf(now) \in Nat /\ StartOf(now') \in Nat
    BY <2>1, StartMonotone
  <2>3. TimesOrdered'
    BY <1>2, <2>1 DEF Tick, TimesOrdered
  <2>4. LateCounted'
    BY <1>2, <2>2 DEF Tick, LateCounted
  <2>5. TardyCounted'
    <3>1. count_' = count_ /\ tardy' = tardy /\ oldest' = oldest
      BY <1>2 DEF Tick
    <3>2. ASSUME now - oldest > FlushInterval
          PROVE  now' - oldest > FlushInterval
      <4>1. /\ now \in Int /\ now' \in Int /\ oldest \in Int
            /\ FlushInterval \in Int
        OBVIOUS
      <4>2. QED
        BY <2>1, <3>2, <4>1, StillWaiting
    <3>3. QED
      BY <3>1, <3>2 DEF TardyCounted
  <2>6. QED
    BY <2>3, <2>4, <2>5
<1>3. CASE UNCHANGED vars
  BY <1>3 DEF vars, TimesOrdered, LateCounted, TardyCounted
<1>4. CASE StepBack
  BY <1>4 DEF StepBack
<1>5. QED
  BY <1>1, <1>2, <1>3, <1>4, AppendSteady DEF Next

\* A clock that was set back remains so.
LEMMA SteppedStable == [Next]_vars /\ stepped => stepped'
PROOF
  BY DEF Next, Append, AppendFull, AppendOnly, AppendNewPeriod, AppendSamePeriod,
         Counted, Flush, Tick, StepBack, vars

\* The inductive invariant of a run in which the clock may be set back.
IInv == stepped \/ Steady

\* It holds throughout a run.
LEMMA Invariance == SafeSpec => []IInv
PROOF
<1>1. Init => IInv
  BY InitSteady DEF IInv
<1>2. IInv /\ TypeOK' /\ [Next]_vars => IInv'
  BY NextSteady, SteppedStable DEF IInv
<1>3. QED
  BY <1>1, <1>2, TypeCorrect, PTL DEF SafeSpec

\* The file of a day is replaced before checkEveryN_ lines of another day
\* stand in it, unless the clock was set back.
THEOREM DayIsKept == SafeSpec => []FewLinesLate
PROOF
<1>1. IInv => FewLinesLate
  BY LogFileAssumption DEF IInv, Steady, TypeOK, LateCounted, FewLinesLate
<1>2. QED
  BY <1>1, Invariance, PTL

\* No line waits in the buffer for longer than flushInterval_ and checkEveryN_
\* lines, unless the clock was set back.
THEOREM FlushIsKept == SafeSpec => []FlushedInTime
PROOF
<1>1. IInv => FlushedInTime
  BY LogFileAssumption DEF IInv, Steady, TypeOK, TardyCounted, FlushedInTime
<1>2. QED
  BY <1>1, Invariance, PTL
=============================================================================
