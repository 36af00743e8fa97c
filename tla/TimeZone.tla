------------------------------ MODULE TimeZone ------------------------------
(***************************************************************************)
(* base/timezone.cpp: a zone is read from a file of transitions, and turns *)
(* UTC into local time and back.  A broken-down time (struct tm) is a      *)
(* record of the fields the code fills in.                                 *)
(***************************************************************************)
EXTENDS Date, CInt, Sequences, FiniteSets, FiniteSetsExt

kSecondsPerDay == 86400

-----------------------------------------------------------------------------
(* The C library's gmtime_r and timegm: the proleptic Gregorian calendar,  *)
(* from the number of leap years and a table of the months.                *)

IsLeap(y) == y % 4 = 0 /\ (y % 100 # 0 \/ y % 400 = 0)
LeapsThrough(y) == y \div 4 - y \div 100 + y \div 400
\* Days from the start of 1970 to that of year y, and from the start of a year
\* to that of month m.
YearStart(y) == 365 * (y - 1970) + LeapsThrough(y - 1) - LeapsThrough(1969)
MonthStart(leap) ==
  IF leap THEN <<0, 31, 60, 91, 121, 152, 182, 213, 244, 274, 305, 335, 366>>
          ELSE <<0, 31, 59, 90, 120, 151, 181, 212, 243, 273, 304, 334, 365>>

\* The year of day d since the start of 1970 (400 years have 146097 days), and
\* the month of a day of the year.
YearOf(d) ==
  LET guess == 1970 + (400 * d) \div 146097
  IN  CHOOSE y \in guess - 1 .. guess + 1 : YearStart(y) <= d /\ d < YearStart(y + 1)
MonthOf(leap, yday) ==
  CHOOSE m \in 1 .. 12 : MonthStart(leap)[m] <= yday /\ yday < MonthStart(leap)[m + 1]

gmtime_r(t) ==
  LET d == t \div kSecondsPerDay
      s == t % kSecondsPerDay
      y == YearOf(d)
      yday == d - YearStart(y)
      m == MonthOf(IsLeap(y), yday)
  IN  [year |-> y, month |-> m, day |-> yday - MonthStart(IsLeap(y))[m] + 1,
       hour |-> s \div 3600, min |-> (s % 3600) \div 60, sec |-> s % 60,
       wday |-> (d + 4) % 7, yday |-> yday]

timegm(tm) ==
  (YearStart(tm.year) + MonthStart(IsLeap(tm.year))[tm.month] + tm.day - 1)
    * kSecondsPerDay + tm.hour * 3600 + tm.min * 60 + tm.sec

-----------------------------------------------------------------------------
(* UTC. *)

fillHMS(seconds) ==
  [hour |-> (seconds \div 60) \div 60, min |-> (seconds \div 60) % 60, sec |-> seconds % 60]

\* With yday = true.  Years are kept as such and not from 1900, months from 1
\* and not from 0.
toUtcTime(secondsSinceEpoch) ==
  LET rem == Rem(secondsSinceEpoch, kSecondsPerDay)
      quot == Quot(secondsSinceEpoch, kSecondsPerDay)
      seconds == IF rem < 0 THEN rem + kSecondsPerDay ELSE rem
      days == IF rem < 0 THEN quot - 1 ELSE quot
      date == days + kJulianDayOf1970_01_01
      ymd == getYearMonthDay(date)
      hms == fillHMS(seconds)
  IN  [year |-> ymd.year, month |-> ymd.month, day |-> ymd.day,
       hour |-> hms.hour, min |-> hms.min, sec |-> hms.sec,
       wday |-> weekDay(date),
       yday |-> date - getJulianDayNumber(ymd.year, 1, 1)]

fromUtcTime(tm) ==
  (getJulianDayNumber(tm.year, tm.month, tm.day) - kJulianDayOf1970_01_01)
    * kSecondsPerDay + tm.hour * 3600 + tm.min * 60 + tm.sec

-----------------------------------------------------------------------------
(* Zones. *)

\* What the constructor for a fixed offset builds.
FixedZone(eastOfUtc) ==
  [transitions |-> <<>>, localtimes |-> <<[gmtOffset |-> eastOfUtc, isDst |-> FALSE]>>]

\* A zone file holds `trans' (transition times), `idx' (for each the type that
\* starts then, from 0) and `types' (offset and summer-time flag).  The first
\* `have' of its fields can be read; -1 if it cannot be opened or is no zone
\* file.  A file that ends too early throws, but the data read so far stay,
\* and the result is true all the same.
readTimeZoneFile(f) ==
  LET typesRead == f.have - 2 * Len(f.trans)
      n == Max({0, Min({typesRead, Len(f.types)})})
  IN  [localtimes |-> SubSeq(f.types, 1, n),
       transitions |->
         IF typesRead < Len(f.types) THEN <<>>
         ELSE [i \in DOMAIN f.trans |->
                 [gmttime |-> f.trans[i],
                  localtime |-> f.trans[i] + f.types[f.idx[i] + 1].gmtOffset,
                  localtimeIdx |-> f.idx[i] + 1]]]

\* The address of the first element of an empty vector.
Null == [gmtOffset |-> 0, isDst |-> FALSE, null |-> TRUE]

\* Comp: transitions are ordered by one of their two times.
TimeOf(transition, compareGmt) ==
  IF compareGmt THEN transition.gmttime ELSE transition.localtime

\* std::lower_bound finds the first transition not before t.
findLocaltime(data, t, compareGmt) ==
  LET tr == data.transitions
      Key(i) == TimeOf(tr[i], compareGmt)
      NotBefore == {i \in DOMAIN tr : Key(i) >= t}
      transI == Min(NotBefore)
  IN  IF tr = <<>> \/ t < Key(1)
        THEN IF data.localtimes = <<>> THEN Null ELSE data.localtimes[1]
      ELSE IF NotBefore = {} THEN data.localtimes[tr[Len(tr)].localtimeIdx]
      ELSE data.localtimes[tr[IF Key(transI) = t THEN transI ELSE transI - 1].localtimeIdx]

\* bzero, which an unreadable zone leaves as it is.
ZeroTm == [year |-> 1900, month |-> 1, day |-> 0, hour |-> 0, min |-> 0, sec |-> 0,
           wday |-> 0, yday |-> 0]

\* The fields, and the type they were reckoned with.
toLocalTime(data, seconds) ==
  LET local == findLocaltime(data, seconds, TRUE)
  IN  [tm |-> IF local = Null THEN ZeroTm ELSE gmtime_r(seconds + local.gmtOffset),
       isDst |-> local.isDst]

\* Mutant: without the correction of the repeated hour.
MutFromLocalTime(data, localTm) ==
  LET seconds == timegm(localTm.tm)
  IN  seconds - findLocaltime(data, seconds, FALSE).gmtOffset

fromLocalTime(data, localTm) ==
  LET seconds == timegm(localTm.tm)
      local == findLocaltime(data, seconds, FALSE)
      try == toLocalTime(data, seconds - local.gmtOffset)
      hack == /\ localTm.isDst /\ ~try.isDst
              /\ try.tm.hour = localTm.tm.hour /\ try.tm.min = localTm.tm.min
  IN  (IF hack THEN seconds - 3600 ELSE seconds) - local.gmtOffset
=============================================================================
