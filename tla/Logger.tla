------------------------------- MODULE Logger -------------------------------
(***************************************************************************)
(* base/Logging.cpp: one thread that logs, while the process sets the level*)
(* and the zone, the clock is read, set back and forth, and the process    *)
(* forks.  A line is built on the stack of its thread, and the caches of   *)
(* the time and of the thread number are thread-local: other threads meet  *)
(* this one in the global settings only.                                   *)
(***************************************************************************)
EXTENDS Timestamp, LogStream

CONSTANTS
  Instants,     \* readings of the clock, in seconds
  Micros,       \* and their microseconds
  MaxStamp,     \* bound: the last time stamp
  LogInstants,  \* the ones at which lines are logged (bound)
  ZoneFiles,    \* zone files the program may load
  SetZoneFiles, \* the ones it sets the zone from (bound)
  Offsets,      \* offsets of the fixed zones it may set
  TextSizes,    \* sizes of streamed text
  Integrals,    \* streamed integers
  SetLevels,    \* levels the process sets,
  SetNames,     \* and names of levels it sets
  MaxPieces,    \* pieces streamed into the first line (bound)
  MaxForks      \* forks of the process (bound)

ASSUME InstantsAssumption == Instants \subseteq Int
\* Within 6000 years of 1970, where the values of Date are positive and fit into
\* an int.
MaxDays == 2190000
ASSUME InstantsRange ==
  \A t \in Instants : t \div kSecondsPerDay \in -MaxDays .. MaxDays
\* A zone file has a type for every transition.
ASSUME ZonesAssumption ==
  /\ Offsets \subseteq Int
  /\ \A f \in ZoneFiles :
       /\ f.have \in Int
       /\ f.types \in Seq([gmtOffset : Int, isDst : BOOLEAN])
       /\ f.trans \in Seq(Int) /\ f.idx \in Seq(Nat) /\ Len(f.idx) = Len(f.trans)
       /\ \A i \in DOMAIN f.idx : f.idx[i] < Len(f.types)
ASSUME MicrosAssumption == Micros \subseteq Nat
ASSUME MaxStampAssumption == MaxStamp \in Nat
\* The clock has left the second 0, which t_lastSecond starts with.
ASSUME LogInstantsAssumption == LogInstants \subseteq Instants \ {0}
ASSUME LogSizesAssumption == TextSizes \subseteq Nat /\ MaxForks \in Nat

\* Integers of at most 64 bits, with or without a sign: from -10^19 to below
\* 19 * 10^18 (in two divisions, for TLC's integers have 32 bits).
Fits64(v) == v \in Int /\ (v \div 1000000000) \div 1000000000 \in -10 .. 18
ASSUME IntegralsAssumption == \A v \in Integrals : Fits64(v)

\* The default-constructed g_logTimeZone, which is not valid().
NoZone == [transitions |-> <<>>, localtimes |-> <<>>, invalid |-> TRUE]
Zones == {readTimeZoneFile(f) : f \in ZoneFiles} \cup {FixedZone(o) : o \in Offsets}
SetZones == {readTimeZoneFile(f) : f \in SetZoneFiles} \cup {FixedZone(o) : o \in Offsets}

VARIABLES
  now,            \* the clock
  g_logLevel,
  g_logTimeZone,
  g_output,       \* where lines go, "stdout" or "async"
  g_flush,        \* what a FATAL line flushes
  t_lastSecond,   \* the second whose text is in t_time
  t_time,
  rezoned,        \* history: setTimeZone was called since t_time was filled
  tid,            \* the thread's number, which a fork changes
  t_cachedTid,
  line,           \* the line being built; NoLine
  pending,        \* history: the outputs that have unflushed lines
  aborted

vars == <<now, g_logLevel, g_logTimeZone, g_output, g_flush, t_lastSecond, t_time,
          rezoned, tid, t_cachedTid, line, pending, aborted>>

settings == <<g_logLevel, g_logTimeZone, g_output, g_flush>>
caches == <<t_lastSecond, t_time, rezoned, tid, t_cachedTid>>

\* enum LogLevel.
TRACE == 0
DEBUG == 1
INFO == 2
WARN == 3
ERROR == 4
FATAL == 5
Levels == TRACE .. FATAL

log_level_map == [trace |-> TRACE, debug |-> DEBUG, info |-> INFO,
                  warning |-> WARN, error |-> ERROR, fatal |-> FATAL]

\* LOG_TRACE, ..., LOG_FATAL, LOG_SYSERR and LOG_SYSFATAL.
Statements == [level : Levels, errno : {0}] \cup [level : {ERROR, FATAL}, errno : {11}]

NoLine == [level |-> -1]
NoText == [year |-> 0]

\* What Logger prints of a broken-down time.
Text(tm) == [year |-> tm.year, month |-> tm.month, day |-> tm.day,
             hour |-> tm.hour, min |-> tm.min, sec |-> tm.sec]

\* The local time of a zone; without one, of the environment (TZ=GMT-8).
LocalText(zone, seconds) ==
  Text(IF zone = NoZone THEN gmtime_r(seconds + 8 * 3600)
                        ELSE toLocalTime(zone, seconds).tm)

TypeOK ==
  /\ now \in Instants /\ g_logLevel \in Levels /\ g_logTimeZone \in Zones \cup {NoZone}
  /\ g_output \in {"stdout", "async"} /\ g_flush \in {"stdout", "async"}
  /\ t_lastSecond \in LogInstants \cup {0}
  /\ tid \in 1 .. MaxForks + 1 /\ t_cachedTid \in 0 .. MaxForks + 1
  /\ line.level \in Levels \cup {-1}
  /\ line # NoLine => line.stream.length \in 0 .. kSmallBuffer
  /\ pending \subseteq {"stdout", "async"} /\ rezoned \in BOOLEAN /\ aborted \in BOOLEAN

Init ==
  /\ now \in Instants
  /\ g_logLevel = INFO /\ g_logTimeZone = NoZone
  /\ g_output = "stdout" /\ g_flush = "stdout"
  /\ t_lastSecond = 0 /\ t_time = NoText /\ rezoned = FALSE
  /\ tid = 1 /\ t_cachedTid \in {0, 1}   \* the main thread caches it at once
  /\ line = NoLine /\ pending = {} /\ aborted = FALSE

-----------------------------------------------------------------------------
\* Bounds: the level and the output are set before the first line, and pieces
\* are streamed into the first line only (the stream of every line starts
\* empty).
Starting == t_lastSecond = 0

\* formatTime: whether the cached text is used.
Cached(seconds) == seconds = t_lastSecond

\* Mutant: a clock that was set back does not refresh the text.
MutFormatTime(seconds) ==
  /\ t_lastSecond' = IF seconds <= t_lastSecond THEN t_lastSecond ELSE seconds
  /\ t_time' = IF seconds <= t_lastSecond THEN t_time
               ELSE LocalText(g_logTimeZone, seconds)
  /\ rezoned' = IF seconds <= t_lastSecond THEN rezoned ELSE FALSE

formatTime(seconds) ==
  /\ t_lastSecond' = seconds
  /\ t_time' = IF Cached(seconds) THEN t_time ELSE LocalText(g_logTimeZone, seconds)
  /\ rezoned' = IF Cached(seconds) THEN rezoned ELSE FALSE

\* The sizes of the head of a line: the time and the microseconds with or
\* without a `Z', the thread number and the level,
TimeAndLevel ==
  AppendTexts(AppendTexts(EmptyStream, 17, IF g_logTimeZone # NoZone THEN 8 ELSE 9), 6, 6)

\* strerror's text with the number,
ErrorText(s) == AppendText(AppendNumber(AppendTexts(s, 20, 8), 2), 2)

\* and for LOG_TRACE and LOG_DEBUG the name of the function.
Head0(st) ==
  IF st.errno # 0 THEN ErrorText(TimeAndLevel)
  ELSE IF st.level <= DEBUG THEN AppendTexts(TimeAndLevel, 9, 1)
  ELSE TimeAndLevel

\* CurrentThread::tid().
cacheTid == t_cachedTid' = IF t_cachedTid = 0 THEN tid ELSE t_cachedTid

\* A LOG_ macro whose level is enabled constructs a Logger: LOG_WARN and above
\* do not look at g_logLevel.
Construct(st) ==
  /\ line = NoLine
  /\ st.level > INFO \/ g_logLevel <= st.level
  /\ formatTime(now)
  /\ cacheTid
  /\ line' = [level |-> st.level, stream |-> Head0(st),
              pieces |-> IF Starting THEN 0 ELSE MaxPieces,
              second |-> now, zone |-> g_logTimeZone, time |-> t_time',
              stale |-> rezoned', tid |-> t_cachedTid', number |-> <<>>]
  /\ UNCHANGED <<now, settings, tid, pending, aborted>>

StreamText(len) ==
  /\ line # NoLine
  /\ line.pieces < MaxPieces
  /\ line' = [line EXCEPT !.stream = AppendText(@, len), !.pieces = @ + 1]
  /\ UNCHANGED <<now, settings, caches, pending, aborted>>

StreamNumber(v) ==
  /\ line # NoLine
  /\ line.pieces < MaxPieces
  /\ LET text == convert(v)
         len == Len(text.digits) + IF text.minus THEN 1 ELSE 0
     IN  line' = [line EXCEPT !.stream = AppendNumber(@, len), !.pieces = @ + 1,
                              !.number = <<v, ReadBack(text, 10)>>]
  /\ UNCHANGED <<now, settings, caches, pending, aborted>>

\* An address, after "0x".
StreamPointer(v) ==
  /\ line # NoLine
  /\ line.pieces < MaxPieces
  /\ LET text == convertHex(v)
     IN  line' = [line EXCEPT !.stream = AppendNumber(@, Len(text.digits) + 2), !.pieces = @ + 1,
                              !.number = <<v, ReadBack(text, 16)>>]
  /\ UNCHANGED <<now, settings, caches, pending, aborted>>

\* " - " file ':' line '\n'.
finish(s) == AppendText(AppendNumber(AppendText(AppendTexts(s, 3, 10), 1), 3), 1)

\* ~Logger: finish, g_output, and for FATAL g_flush and abort.
Destroy ==
  /\ line # NoLine
  /\ line' = NoLine
  /\ pending' = (pending \cup {g_output}) \ IF line.level = FATAL THEN {g_flush} ELSE {}
  /\ aborted' = (line.level = FATAL)
  /\ UNCHANGED <<now, settings, caches>>

-----------------------------------------------------------------------------
(* The rest of the process, between two lines. *)

setLogLevel(level) ==
  /\ line = NoLine
  /\ Starting
  /\ g_logLevel' = level
  /\ UNCHANGED <<now, g_logTimeZone, g_output, g_flush, caches, line, pending, aborted>>

\* By name; a name that is not in the map changes nothing.
setLogLevelByName(name) ==
  /\ name \in DOMAIN log_level_map
  /\ setLogLevel(log_level_map[name])

setTimeZone(zone) ==
  /\ line = NoLine
  /\ g_logTimeZone' = zone
  /\ rezoned' = TRUE
  /\ UNCHANGED <<now, g_logLevel, g_output, g_flush, t_lastSecond, t_time, tid,
                 t_cachedTid, line, pending, aborted>>

setOutput(to) ==
  /\ line = NoLine
  /\ Starting
  /\ g_output' = to
  /\ UNCHANGED <<now, g_logLevel, g_logTimeZone, g_flush, caches, line, pending, aborted>>

setFlush(of) ==
  /\ line = NoLine
  /\ Starting
  /\ g_flush' = of
  /\ UNCHANGED <<now, g_logLevel, g_logTimeZone, g_output, caches, line, pending, aborted>>

\* The clock moves, or is set.
Tick(t) ==
  /\ line = NoLine
  /\ now' = t
  /\ UNCHANGED <<settings, caches, line, pending, aborted>>

\* fork, in the child: pthread_atfork runs afterFork, which caches the new
\* thread number.
Fork ==
  /\ line = NoLine
  /\ tid <= MaxForks
  /\ tid' = tid + 1
  /\ t_cachedTid' = tid + 1
  /\ UNCHANGED <<now, settings, t_lastSecond, t_time, rezoned, line, pending, aborted>>

LogStep ==
  \/ \E st \in Statements : Construct(st)
  \/ \E len \in TextSizes : StreamText(len)
  \/ \E v \in Integrals : StreamNumber(v) \/ (v >= 0 /\ StreamPointer(v))
  \/ Destroy

SettingStep ==
  \/ \E level \in SetLevels : setLogLevel(level)
  \/ \E name \in SetNames : setLogLevelByName(name)
  \/ \E zone \in SetZones : setTimeZone(zone)
  \/ \E to \in {"stdout", "async"} : setOutput(to) \/ setFlush(to)

Next ==
  /\ ~aborted
  /\ \/ \E t \in LogInstants : Tick(t)
     \/ now \in LogInstants /\ (LogStep \/ SettingStep \/ Fork)

Spec == Init /\ [][Next]_vars

-----------------------------------------------------------------------------
(* Properties. *)

\* The project's own calendar agrees with gmtime(3) and timegm(3), as
\* timezone.h says: at month ends, leap days and centuries, and before 1970,
\* where C's division leaves a negative remainder.
UtcAgrees ==
  \A t \in {now, -now} :
    /\ toUtcTime(t) = gmtime_r(t)
    /\ fromUtcTime(toUtcTime(t)) = t

\* Of two texts.
Earlier(a, b) ==
  \E i \in DOMAIN a : a[i] < b[i] /\ \A j \in 1 .. i - 1 : a[j] = b[j]

\* Of two texts of toString: the shorter number of seconds is compared with as
\* many leading digits of the longer, and the point comes before any digit.
StringEarlier(a, b) ==
  LET wa == Digits(a[1])
      wb == Digits(b[1])
  IN  IF wa = wb THEN Earlier(a, b)
      ELSE IF wa < wb THEN a[1] <= b[1] \div 10 ^ (wb - wa)
      ELSE a[1] \div 10 ^ (wa - wb) < b[1]

LastYear == 9999   \* of four digits

\* Of a time stamp and one that is not earlier, the texts of toString, whose seconds
\* are not padded, are in order if these have the same number of digits ...
StringsInOrder(stamp, next) ==
  Digits(toString(stamp)[1]) = Digits(toString(next)[1]) =>
    (StringEarlier(toString(stamp), toString(next)) <=> timeDifferenceUs(next, stamp) > 0)

\* ... and those of toFormattedString as long as the year has four digits.
FormattedInOrder(stamp, next) ==
  toFormattedString(next, FALSE)[1] <= LastYear =>
    /\ Earlier(toFormattedString(stamp, TRUE), toFormattedString(next, TRUE))
         <=> timeDifferenceUs(next, stamp) > 0
    /\ ~Earlier(toFormattedString(next, FALSE), toFormattedString(stamp, FALSE))

\* Lines and files that are sorted by the texts of their time stamps are sorted
\* by time, as far as the widths of the fields allow it: across the ends of
\* seconds, days, months and years the texts of a time stamp and of what addTime
\* makes of it are in order.
StampsInOrder ==
  \A us \in Micros, delta \in Micros : now \in 0 .. MaxStamp \div kMicroSecondsPerSecond =>
    LET stamp == fromUnixTime(now, us)
    IN  valid(stamp) => \A next \in addTime(stamp, delta) :
          StringsInOrder(stamp, next) /\ FormattedInOrder(stamp, next)

\* The summer times of a zone are an hour from the time before them, and last
\* longer than that.
OneHour(zone) ==
  /\ \A i \in DOMAIN zone.transitions :
       LET type == zone.localtimes[zone.transitions[i].localtimeIdx]
           before == IF i = 1 THEN zone.localtimes[1]
                     ELSE zone.localtimes[zone.transitions[i - 1].localtimeIdx]
       IN  type.isDst # before.isDst /\
           (IF type.isDst THEN type.gmtOffset - before.gmtOffset
                          ELSE before.gmtOffset - type.gmtOffset) = 3600
  /\ \A i, j \in DOMAIN zone.transitions :
       i < j => zone.transitions[j].gmttime - zone.transitions[i].gmttime > 3600

\* Local time and back, through the hour that summer time skips and the one
\* it repeats: fromLocalTime looks transitions up by their local times, finds
\* the wrong type in the repeated hour, and corrects itself by an hour.
LocalRoundTrip ==
  \A zone \in Zones :
    zone.localtimes # <<>> /\ OneHour(zone)
      => fromLocalTime(zone, toLocalTime(zone, now)) = now

\* The head of a line carries the thread that logs it and the local time of
\* its second, although both come from caches that forks and a clock that is
\* set back do not clear; unless the zone was set while the cache held the
\* very second.
HeadIsCurrent ==
  line # NoLine =>
    /\ line.tid = tid
    /\ line.time = LocalText(line.zone, line.second) \/ line.stale

\* No conversion writes past the end of the buffer, the terminating null and
\* the least integers included.
WithinBuffer == line # NoLine => finish(line.stream).end <= kSmallBuffer

\* A line that is ended now has all its pieces, or less than kMaxNumericSize
\* bytes were left.  (A number that is left out need not be the last piece: the
\* line goes on after it.)
LineIntact ==
  line # NoLine =>
    LET s == finish(line.stream) IN s.whole \/ s.length > kSmallBuffer - kMaxNumericSize

\* An integer or an address is printed as its value, the least integer included,
\* which has no negative.
NumbersReadBack ==
  line # NoLine /\ line.number # <<>> => line.number[2] = line.number[1]

\* A FATAL line is not lost in abort(): it has left the output it went to,
\* provided that the flush function is that of the output function.
FatalIsFlushed == aborted /\ g_flush = g_output => g_output \notin pending

\* Times are turned into fields and back without error, and their texts sort as
\* they do where the widths of the fields allow it.
TimesConvert == UtcAgrees /\ LocalRoundTrip /\ StampsInOrder

\* A line comes out as it was put together, within its buffer and with its
\* numbers, and comes out although the process then aborts.
LineArrives == WithinBuffer /\ LineIntact /\ NumbersReadBack /\ FatalIsFlushed
=============================================================================
