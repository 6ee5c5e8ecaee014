----------------------------- MODULE MCRunStats -----------------------------
(***************************************************************************)
(* Every short sequence of runs of a few samples, for the statistics of    *)
(* RunStats: readings of either sign, evenly or unevenly spaced in time,   *)
(* by a clock that Timestamp reads, in the middle and at the end of a      *)
(* month.                                                                  *)
(***************************************************************************)
EXTENDS RunStats, Timestamp

CONSTANTS
  Readings,    \* the readings of a sample
  Gaps,        \* seconds between two samples
  Starts,      \* stamps of the first line of a log
  MaxSamples,  \* bound of the model: samples in a run
  MaxRuns      \* bound of the model: runs in a test

VARIABLES
  start,  \* the stamp of the first line of the log
  dst,    \* history: tm_isdst when that line was read, then at each sample of the run
  clock,  \* the stamp of its last line
  run,    \* the run being recorded
  times,  \* history: the seconds from the first line to each of its samples
  durs    \* the durations of the runs recorded before it

vars == <<start, dst, clock, run, times, durs>>

MCReadings == {-1, 0, 2}

\* Noon; the ends of the months around a leap day, of a year and of a month of 30
\* days.
At(y, mon, d, h) == [year |-> y, mon |-> mon, mday |-> d, hour |-> h, min |-> 59, sec |-> 58]
MCNoon == {At(2011, 12, 2, 11)}
MCStarts == MCNoon \cup
  {At(2011, 12, 31, 23), At(2012, 1, 31, 23), At(2012, 2, 28, 23),
   At(2012, 2, 29, 23), At(2012, 4, 30, 23)}

ASSUME StatsBounds ==
  /\ Starts \subseteq Stamp
  /\ Gaps \subseteq Nat /\ MaxSamples \in Nat /\ MaxRuns \in Nat

\* What tm_isdst, which nothing sets, may say of a line.
AnyDst == {FALSE, DstShift > 0}

Init ==
  /\ start \in Starts /\ clock = start
  /\ \E isdst \in AnyDst : dst = <<isdst>>
  /\ run = NewRun /\ times = <<>> /\ durs = <<>>

\* The seconds from the first line to the next sample, by the logger's clock.
Elapsed(gap) == (IF times = <<>> THEN 0 ELSE times[Len(times)]) + gap

\* A sample of the current run; tm_isdst says of its line what it said of the first
\* line, or not.
Sample(y, gap, isdst) ==
  /\ Len(run.points) < MaxSamples
  /\ durs # <<>> => isdst = dst[1]   \* bound of the model
  /\ clock' = Later(clock, gap)
  /\ times' = Append(times, Elapsed(gap))
  /\ dst' = Append(dst, isdst)
  /\ run' = AddPoint(run, parse_timestamp(clock', isdst) - parse_timestamp(start, dst[1]), y)
  /\ UNCHANGED <<start, durs>>

\* The run ends and the next one begins.  Bound of the model: in a log that starts
\* at noon, by lines that agree on daylight saving time.
RunEnds ==
  /\ Len(run.points) >= 2
  /\ start.hour < 23 /\ \A i \in 1..Len(times) : run.points[i].x = times[i]
  /\ Len(durs) < MaxRuns - 1
  /\ durs' = Append(durs, Duration(run))
  /\ run' = NewRun
  /\ times' = <<>>
  /\ dst' = <<dst[1]>>
  /\ clock' = start   \* only differences of time matter
  /\ UNCHANGED start

Next ==
  \/ \E y \in Readings, gap \in Gaps, isdst \in AnyDst : Sample(y, gap, isdst)
  \/ RunEnds

Spec == Init /\ [][Next]_vars

-----------------------------------------------------------------------------

Points == run.points
Measured == Len(Points) >= 2
Intervals == 1..(Len(Points) - 1)
Increasing == \A i \in Intervals : Points[i].x < Points[i+1].x

\* The days a stamp of the month after s is off, against one of s: s counts as a
\* day of the month after its own.
MonthEndError(s) ==
  MonthDays(1900 + s.year + s.mon \div 12, s.mon % 12) - MonthDays(s.year, s.mon - 1)

\* What a line taken to be written in daylight saving time loses.
Lost(isdst) == IF isdst THEN DstShift ELSE 0

\* Within a month parse_timestamp() keeps the time between two lines, whatever the
\* hour and the date, as long as the uninitialised tm_isdst says the same of both;
\* if it does not, they are an hour too close or too far apart.  From one month to
\* the next the time is wrong by whole days as well, the difference in length
\* between the second month and the first.
ElapsedKept ==
  \A i \in 1..Len(Points) :
    LET s == Later(start, times[i])
        error == IF s.mon = start.mon THEN 0 ELSE 86400 * MonthEndError(start)
    IN Points[i].x - times[i] = error + Lost(dst[1]) - Lost(dst[i+1])

\* The samples' stamps were read right.
StampsRight == \A i \in 1..Len(Points) : Points[i].x = times[i]

\* "metric:test_duration_seconds_average", of lines whose "Time stamp in format:
\* 2011-12-02T01:03:41.720551" says when they were written: a run's duration is
\* the seconds from its first sample to its last.
DurationInSeconds ==
  Measured => Duration(run) = times[Len(times)] - times[1]

\* The average current data_analyse() prints, the trapezium integral over
\* x_max - x_min, lies between the least and the greatest reading of the run
\* however unevenly the samples are spaced, as long as their stamps increase.
AverageWithinExtremes ==
  (Measured /\ Increasing) =>
    /\ run.y_min * Average(run).den <= Average(run).num
    /\ Average(run).num <= run.y_max * Average(run).den
    /\ \A i \in 1..Len(Points) : Points[i].y \in run.y_min..run.y_max

\* The integral is exact for a reading that drifts linearly: the average is then
\* half the sum of the first and the last reading.
TrapeziumExact ==
  LET first == Points[1]
      last == Points[Len(Points)]
      OnLine(p) == (p.y - first.y) * (last.x - first.x)
                     = (last.y - first.y) * (p.x - first.x)
  IN (Measured /\ Increasing /\ \A i \in 1..Len(Points) : OnLine(Points[i])) =>
       2 * Average(run).num = (first.y + last.y) * Average(run).den

\* With evenly spaced samples Std.Dev. is the population standard deviation of
\* the intervals' mean readings: mean of squares less square of the mean.
DeviationIsPopulation ==
  LET m == Len(Points) - 1
      S1 == MapThenSumSet(LAMBDA i : TwiceY(Points, i), Intervals)
      S2 == MapThenSumSet(LAMBDA i : TwiceY(Points, i) ^ 2, Intervals)
      Even == \A i, j \in Intervals :
                Points[i+1].x - Points[i].x = Points[j+1].x - Points[j].x
  IN (Measured /\ StampsRight /\ Even) =>
       Variance(run).num * 4 * m ^ 2 = (m * S2 - S1 ^ 2) * Variance(run).den

\* The summary's Std.Dev. over the runs of a test is the population standard
\* deviation of the runs' statistics.
SummaryIsPopulation ==
  LET n == Len(durs)
      S2 == MapThenSumSet(LAMBDA i : durs[i] ^ 2, 1..n)
  IN n > 0 =>
       VarianceOf(durs).num * n ^ 2
         = (n * S2 - MeanOf(durs).num ^ 2) * VarianceOf(durs).den

=============================================================================
