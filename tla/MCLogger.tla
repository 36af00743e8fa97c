------------------------------ MODULE MCLogger ------------------------------
(* An instance of Logger for TLC. *)
EXTENDS Logger

\* Europe/Berlin in 2019: summer time from March 31 to October 27, 01:00 UTC.
Spring == 1553994000
Autumn == 1572138000
Berlin(have) ==
  [have |-> have, trans |-> <<Spring, Autumn>>, idx |-> <<1, 0>>,
   types |-> <<[gmtOffset |-> 3600, isDst |-> FALSE], [gmtOffset |-> 7200, isDst |-> TRUE]>>]

\* Australia/Lord_Howe, where summer time is half an hour.
LordHowe ==
  [have |-> 4, trans |-> <<1554562800>>, idx |-> <<1>>,
   types |-> <<[gmtOffset |-> 39600, isDst |-> TRUE], [gmtOffset |-> 37800, isDst |-> FALSE]>>]

\* Whole, cut off within the types, without any, and unreadable.
MCZoneFiles == {Berlin(6), Berlin(5), Berlin(4), Berlin(-1), LordHowe}

MCSetZoneFiles == {Berlin(6), Berlin(-1)}

MCOffsets == {28800}

\* On both sides of a transition.
MCLogInstants == {Autumn - 1, Autumn}

\* The first and the last second of the first and the last two days of every
\* month of years around the turn of a century and a leap year, and of years
\* whose mirror before 1970 is used too.
MCInstants ==
  {Spring - 1, Spring, Spring + 1, Autumn - 3601, Autumn - 3600, Autumn - 1, Autumn,
   Autumn + 3599, Autumn + 3600, 1554562800 - 1800, 1554562799, 1554562800} \cup
  {timegm([year |-> y, month |-> m, day |-> d, hour |-> h, min |-> h * 2, sec |-> h * 2])
     : y \in {1970, 1971, 1999, 2000, 2001, 2019, 2020, 2037}, m \in 1 .. 12,
       d \in {1, 2, 27, 28}, h \in {0, 23}}
  \cup {9, 10, 99999999}  \* around which the seconds get another digit
  \cup
  {timegm([year |-> y, month |-> 3, day |-> 1, hour |-> 0, min |-> 0, sec |-> 0]) - k
     : y \in {1971, 1972, 1999, 2000, 2019, 2020}, k \in {1, 86400, 86401}}

\* Of ten, so that the time stamps of the first years fit into TLC's integers.
MCMicros == {0, 1, 4, 9}

\* With a head of 37 bytes or more: from ample room over exactly
\* kMaxNumericSize bytes left, one less, to none.
MCTextSizes == {5, 3930, 3931, 5000}

\* 32-bit integers.
MCNumbers == {-2147483647 - 1, -10, 0, 9, 2147483647}

MCSetLevels == {WARN}
MCSetNames == {"trace", "verbose"}
=============================================================================
