------------------------------- MODULE Calendar -------------------------------
(***************************************************************************)
(* impl/utilities/TimeHelper, Date, Time and TimeOffset: the days of the   *)
(* Gregorian calendar and the times of a day.                              *)
(*                                                                         *)
(* A date is stored as the number of days since the first day of the year  *)
(* 0, and its year, month and day are computed from this number whenever   *)
(* they are read.  Times and offsets are stored as numbers, too.           *)
(***************************************************************************)
EXTENDS Integers, Sequences

Years == 0 .. 9999

DaysPerCycle4 == 1461
DaysPerCycle100 == 36524
DaysPerCycle400 == 146097

\* The days in front of the year 10000.
MaximumDaysSinceEpoch == 25 * DaysPerCycle400

IsLeapYear(year) ==
  year \in Years /\ ((year % 4 = 0 /\ year % 100 # 0) \/ year % 400 = 0)

DaysInMonth(year, month) ==
  IF month = 2 THEN IF IsLeapYear(year) THEN 29 ELSE 28
  ELSE IF month \in {4, 6, 9, 11} THEN 30 ELSE 31

IsValidDate(year, month, day) ==
  year \in Years \ {0} /\ month \in 1 .. 12 /\ day \in 1 .. DaysInMonth(year, month)

-----------------------------------------------------------------------------
(* From a date to its number *)

\* The days in front of a year.  The first year of 400 is a leap year, the
\* first one of each other century is not, then each cycle of 4 starts with one.
DaysBeforeYear(year) ==
  LET inCycle400 == year % 400
      inCycle100 == inCycle400 % 100
      inCycle4   == inCycle100 % 4
  IN
  DaysPerCycle400 * (year \div 400)
    + (IF inCycle400 > 0 THEN 1 ELSE 0)
    + DaysPerCycle100 * (inCycle400 \div 100)
    - (IF inCycle100 > 0 THEN 1 ELSE 0)
    + DaysPerCycle4 * (inCycle100 \div 4)
    + (IF inCycle4 > 0 THEN 1 ELSE 0)
    + inCycle4 * 365

\* The days in front of each month, and of the next year.
MonthStarts(year) ==
  IF IsLeapYear(year)
  THEN <<0, 31, 60, 91, 121, 152, 182, 213, 244, 274, 305, 335, 366>>
  ELSE <<0, 31, 59, 90, 120, 151, 181, 212, 243, 273, 304, 334, 365>>

DaysSinceEpoch(year, month, day) ==
  DaysBeforeYear(year) + MonthStarts(year)[month] + (day - 1)

-----------------------------------------------------------------------------
(* From a number to its date *)

\* The first of 4 years has one day more, unless the cycle begins a century.
ReadInCycle4(start, day) ==
  IF day < 366 THEN <<start, day>>
  ELSE <<start + (day - 1) \div 365, (day - 1) % 365>>

ReadInCentury(start, day) ==
  IF day < 365 THEN <<start, day>>
  ELSE ReadInCycle4(start + 4 * ((day + 1) \div DaysPerCycle4), (day + 1) % DaysPerCycle4)

ReadInCycle400(start, day) ==
  IF day < 366 THEN <<start, day>>
  ELSE ReadInCentury(start + 100 * ((day - 1) \div DaysPerCycle100),
                     (day - 1) % DaysPerCycle100)

\* The year of a day, and the index of the day in this year.
ExtractYearAndDays(days) ==
  IF days <= 0 THEN <<0, 0>>
  ELSE IF days >= MaximumDaysSinceEpoch THEN <<9999, 364>>
  ELSE ReadInCycle400(400 * (days \div DaysPerCycle400), days % DaysPerCycle400)

\* The first month that ends behind a day of the year.
ExtractMonthAndDay(year, dayOfYear) ==
  LET starts == MonthStarts(year)
      month == CHOOSE m \in 1 .. 12 : starts[m] <= dayOfYear /\ dayOfYear < starts[m + 1]
  IN
  <<month, dayOfYear - starts[month] + 1>>

\* Date::year(), month() and day().
DateOf(days) ==
  LET yearAndDay  == ExtractYearAndDays(days)
      monthAndDay == ExtractMonthAndDay(yearAndDay[1], yearAndDay[2])
  IN
  <<yearAndDay[1], monthAndDay[1], monthAndDay[2]>>

-----------------------------------------------------------------------------
(* Times of a day and offsets *)

\* A time is stored as the number of fractions of a second since midnight.
TimeCount(hour, minute, second, fraction, perSecond) ==
  fraction + (second + minute * 60 + hour * 3600) * perSecond

\* Time::hour(), minute(), second() and secondFraction().
TimeOf(count, perSecond) ==
  <<count \div (3600 * perSecond), (count \div (60 * perSecond)) % 60,
    (count \div perSecond) % 60, count % perSecond>>

\* An offset is stored as a number of seconds, local time as a number no offset has.
LocalTimeOffset == 2147483647

OffsetSeconds(isNegative, hours, minutes) ==
  (minutes * 60 + hours * 3600) * (IF isNegative THEN -1 ELSE 1)

\* TimeOffset::isLocalTime(), isNegative(), hours() and minutes().
OffsetOf(offset) ==
  LET seconds == IF offset < 0 THEN -offset ELSE offset IN
  IF offset = LocalTimeOffset THEN "local"
  ELSE <<IF offset < 0 THEN "-" ELSE "+", seconds \div 3600, (seconds \div 60) % 60>>

=============================================================================
