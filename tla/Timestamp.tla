----------------------------- MODULE Timestamp ------------------------------
(***************************************************************************)
(* statstool/statstool.c: parse_timestamp(), what becomes of the date and  *)
(* the time of day a line of the log starts with.                          *)
(*                                                                         *)
(* Seconds are counted from the start of the year 3900, which is where     *)
(* mktime() takes a stamp of the year 2000 to be; mktime()'s own origin is *)
(* a constant further back, and its cast to unsigned int takes off another *)
(* one for all stamps from 1976 to 2110.  Fractions of a second pass       *)
(* through unchanged and are left out.                                     *)
(***************************************************************************)
EXTENDS Integers, FiniteSetsExt

CONSTANT DstShift   \* seconds that daylight saving time moves the clock, or 0

ASSUME DstConstant == DstShift \in Nat

\* A time stamp: YYYY-MM-DDThh:mm:ss.
Stamp == [year : Nat, mon : 1..12, mday : 1..31, hour : 0..23, min : 0..59, sec : 0..59]

\* The calendar; months count from 0 here, as they do in struct tm.
Leap(y) == (y % 4 = 0 /\ y % 100 # 0) \/ y % 400 = 0

MonthDays(y, m) ==
  CASE m = 1 -> IF Leap(y) THEN 29 ELSE 28
    [] m \in {3, 5, 8, 10} -> 30
    [] OTHER -> 31

\* The days from the start of 3900 to the start of month m of year y.
DaysBefore(y, m) ==
  MapThenSumSet(LAMBDA i : IF Leap(i) THEN 366 ELSE 365, 3900..(y - 1))
    + MapThenSumSet(LAMBDA i : MonthDays(y, i), 0..(m - 1))

\* mktime(): tm_year counts from 1900, tm_mon from 0; a field outside its range is
\* carried over.  tm_isdst > 0 says that the fields are daylight saving time.
mktime(tm) ==
  LET y == 1900 + tm.tm_year + tm.tm_mon \div 12
  IN 86400 * (DaysBefore(y, tm.tm_mon % 12) + tm.tm_mday - 1)
       + 3600 * tm.tm_hour + 60 * tm.tm_min + tm.tm_sec
       - (IF tm.tm_isdst THEN DstShift ELSE 0)

\* Mutant: the hours of a twelve-hour clock.
parse_timestampTwelve(s, isdst) ==
  mktime([tm_year |-> s.year, tm_mon |-> s.mon, tm_mday |-> s.mday,
          tm_hour |-> s.hour % 12, tm_min |-> s.min, tm_sec |-> s.sec,
          tm_isdst |-> isdst])

\* The year and the month go into struct tm as they are written: the stamp of
\* January is taken for one of February, 1900 years later.  tm_isdst is not set;
\* isdst is what the uninitialised field happens to say.
parse_timestamp(s, isdst) ==
  mktime([tm_year |-> s.year, tm_mon |-> s.mon, tm_mday |-> s.mday,
          tm_hour |-> s.hour, tm_min |-> s.min, tm_sec |-> s.sec,
          tm_isdst |-> isdst])

-----------------------------------------------------------------------------

\* The logger's clock: the stamp secs seconds, less than a day, after s.
Later(s, secs) ==
  LET t == 3600 * s.hour + 60 * s.min + s.sec + secs
      day == s.mday + t \div 86400
      turn == day > MonthDays(s.year, s.mon - 1)
      tod == t % 86400
  IN [year |-> IF turn /\ s.mon = 12 THEN s.year + 1 ELSE s.year,
      mon |-> IF turn THEN (s.mon % 12) + 1 ELSE s.mon,
      mday |-> IF turn THEN 1 ELSE day,
      hour |-> tod \div 3600, min |-> (tod % 3600) \div 60, sec |-> tod % 60]

=============================================================================
