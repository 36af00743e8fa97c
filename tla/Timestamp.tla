----------------------------- MODULE Timestamp -----------------------------
(***************************************************************************)
(* base/timestamp: a time in microseconds since 1970, and its texts.  A    *)
(* text is the sequence of its fields; two texts compare as their fields   *)
(* do where each field has the same width in both.                         *)
(***************************************************************************)
EXTENDS TimeZone

CONSTANT kMicroSecondsPerSecond   \* 1000 * 1000

ASSUME MicroAssumption == kMicroSecondsPerSecond \in Nat \ {0}

fromUnixTime(t, microseconds) == t * kMicroSecondsPerSecond + microseconds

secondsSinceEpoch(stamp) == Quot(stamp, kMicroSecondsPerSecond)

valid(stamp) == stamp > 0

\* `delta' is the number of seconds asked for, in microseconds.  The double
\* nearest to it, times a million, may fall short of it, and the conversion to
\* an integer then drops a microsecond.
addTime(stamp, delta) ==
  {stamp + d : d \in IF delta > 0 THEN {delta - 1, delta}
                     ELSE IF delta < 0 THEN {delta, delta + 1} ELSE {0}}

timeDifferenceUs(high, low) == high - low

\* The width of a number that is not padded; 64 bits have at most 19 digits.
Digits(n) == CHOOSE w \in 1 .. 19 : n < 10 ^ w /\ (w = 1 \/ 10 ^ (w - 1) <= n)

\* The seconds are not padded, the microseconds are.
toString(stamp) ==
  <<Quot(stamp, kMicroSecondsPerSecond), Rem(stamp, kMicroSecondsPerSecond)>>

\* The year has four digits until 9999; the other fields are padded.
toFormattedString(stamp, showMicroseconds) ==
  LET tm == gmtime_r(secondsSinceEpoch(stamp))
      date == <<tm.year, tm.month, tm.day, tm.hour, tm.min, tm.sec>>
  IN  IF showMicroseconds THEN date \o <<Rem(stamp, kMicroSecondsPerSecond)>> ELSE date
=============================================================================
