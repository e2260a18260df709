------------------------------ MODULE Calendar ------------------------------
(***************************************************************************)
(* timegm of mruby-time (time.c), the conversion behind Time.utc and       *)
(* Time.new, against the Gregorian calendar.  A behaviour walks through    *)
(* the calendar one day at a time, by the rule every calendar is printed   *)
(* by, and counts the days; timegm has to agree with the count on each.    *)
(* Times of day only add hour * 3600 + min * 60 + sec, so a date stands    *)
(* for its midnight and is counted in units of 24*60*60 seconds.           *)
(***************************************************************************)
EXTENDS Integers

CONSTANTS
  FirstYear, \* the walk starts on the 1st of January of this year
  LastYear   \* bound: and ends with this one

VARIABLES
  year, mon, mday, \* the date, tm_year + 1900, tm_mon + 1 and tm_mday
  day              \* days since 1970-01-01

dateVars == <<year, mon, mday, day>>

------------------------------------------------------------------------------
(* The code.                                                                *)

\* Mutant: every fourth year.
IsJulianLeapyear(y) == y % 4 = 0
\* is_leapyear
IsLeapyear(y) == y % 4 = 0 /\ (y % 100 # 0 \/ y % 400 = 0)

\* ndays
NDays(y) ==
  <<31, IF IsLeapyear(y) THEN 29 ELSE 28, 31, 30, 31, 30,
    31, 31, 30, 31, 30, 31>>

\* The two loops of timegm: days of n years from 1970 on, of n months of y.
DaysOfYears[n \in Nat] ==
  IF n = 0 THEN 0
  ELSE DaysOfYears[n - 1] + IF IsLeapyear(1969 + n) THEN 366 ELSE 365

DaysOfMonths(y) ==
  LET days[n \in 0..11] == IF n = 0 THEN 0 ELSE days[n - 1] + NDays(y)[n]
  IN days

Timegm(y, m, d) ==
  DaysOfYears[IF y < 1970 THEN 0 ELSE y - 1970] + DaysOfMonths(y)[m - 1] + d - 1

------------------------------------------------------------------------------
(* The calendar.                                                            *)

\* The century years that are not leap years are those that 400 does not
\* divide.
LastOfFebruary(y) ==
  CASE y % 400 = 0 -> 29
    [] y % 400 # 0 /\ y % 100 = 0 -> 28
    [] y % 100 # 0 /\ y % 4 = 0 -> 29
    [] OTHER -> 28

LastOfMonth ==
  CASE mon = 2 -> LastOfFebruary(year)
    [] mon \in {4, 6, 9, 11} -> 30
    [] OTHER -> 31

\* Days from 1970-01-01 to the 1st of January of a year, before or after.
NewYear(y) ==
  365 * (y - 1970)
  + ((y - 1) \div 4 - 1969 \div 4)
  - ((y - 1) \div 100 - 1969 \div 100)
  + ((y - 1) \div 400 - 1969 \div 400)

CalendarInit == year = FirstYear /\ mon = 1 /\ mday = 1 /\ day = NewYear(FirstYear)

Today ==
  \/ mday < LastOfMonth /\ mday' = mday + 1 /\ UNCHANGED <<mon, year>>
  \/ mday = LastOfMonth /\ mon < 12 /\ mday' = 1 /\ mon' = mon + 1
     /\ UNCHANGED year
  \/ mday = LastOfMonth /\ mon = 12 /\ mday' = 1 /\ mon' = 1
     /\ year' = year + 1

NextDay == year <= LastYear /\ day' = day + 1 /\ Today

CalendarSpec == CalendarInit /\ [][NextDay]_dateVars

------------------------------------------------------------------------------
\* Time.utc, "Creates an instance of time at the given time in UTC": timegm
\* counts the days of the calendar, through leap years and centuries.
CountsTheDays == Timegm(year, mon, mday) = day
==============================================================================
