------------------------------ MODULE RunStats ------------------------------
(***************************************************************************)
(* statstool/statstool.c: a test run (data_t) and the statistics           *)
(* data_analyse() and calc_average_stddev() compute of it.                 *)
(*                                                                         *)
(* A point is a sample: x seconds into the log, a reading of y.  C works   *)
(* in doubles; here every number is an integer and a quotient is kept as   *)
(* its numerator and its denominator, so a zero denominator is the NaN or  *)
(* the infinity the program would print.                                   *)
(***************************************************************************)
EXTENDS Integers, Sequences, FiniteSetsExt

CONSTANT Big   \* 1E6, where the minima start; the maxima start at -1E6

ASSUME BigConstant == Big \in Nat

Point == [x : Int, y : Int]

\* mem tells whether the list of points is live: "garbage" before the slot is
\* set up, "owned" while data_parse() fills it, "freed" after data_free().
Run == [mem : {"garbage", "owned", "freed"},
        x_min : Int, x_max : Int, y_min : Int, y_max : Int, points : Seq(Point)]

\* A slot of data[] that test_run_begin() has not set up.
Garbage == [mem |-> "garbage",
            x_min |-> 0, x_max |-> 0, y_min |-> 0, y_max |-> 0, points |-> <<>>]

\* test_run_begin(): an empty list, the extrema out of range.
NewRun == [mem |-> "owned", x_min |-> Big, x_max |-> -Big,
           y_min |-> Big, y_max |-> -Big, points |-> <<>>]

Lesser(a, b) == IF a < b THEN a ELSE b
Greater(a, b) == IF a > b THEN a ELSE b

\* Mutant: a sample that lowers the minimum is not looked at as a maximum.
AddPointElseIf(r, x, y) ==
  [r EXCEPT !.x_min = Lesser(x, @),
            !.x_max = IF x < r.x_min THEN @ ELSE Greater(x, @),
            !.y_min = Lesser(y, @),
            !.y_max = IF y < r.y_min THEN @ ELSE Greater(y, @),
            !.points = Append(@, [x |-> x, y |-> y])]

\* Mutant: the first sample of a run never becomes the head of the list.
AddPointHeadless(r, x, y) ==
  [r EXCEPT !.x_min = Lesser(x, @),
            !.x_max = Greater(x, @),
            !.y_min = Lesser(y, @),
            !.y_max = Greater(y, @),
            !.points = IF @ = <<>> THEN @ ELSE Append(@, [x |-> x, y |-> y])]

\* The point becomes the tail of the run's list.
data_append_point(points, x, y) == Append(points, [x |-> x, y |-> y])

\* A sample joins the run: the extrema, then the list.
AddPoint(r, x, y) ==
  [r EXCEPT !.x_min = Lesser(x, @),
            !.x_max = Greater(x, @),
            !.y_min = Lesser(y, @),
            !.y_max = Greater(y, @),
            !.points = data_append_point(@, x, y)]

-----------------------------------------------------------------------------
(* data_analyse(): the statistics of one run *)

\* Twice the mean reading between samples i and i+1.
TwiceY(p, i) == p[i].y + p[i+1].y

\* Mutant: the left-hand reading stands for the whole interval.
Integral2Left(p) ==
  MapThenSumSet(LAMBDA i : 2 * p[i].y * (p[i+1].x - p[i].x), 1..(Len(p) - 1))

\* Twice the integral, by the trapezium rule.
Integral2(p) ==
  MapThenSumSet(LAMBDA i : TwiceY(p, i) * (p[i+1].x - p[i].x), 1..(Len(p) - 1))

Duration(r) == r.x_max - r.x_min

\* The average current: the integral over the duration.
Average(r) == [num |-> Integral2(r.points), den |-> 2 * Duration(r)]

\* Mutant: the sum is divided by the samples, not by the intervals.
VarianceBySamples(r) ==
  LET D == Duration(r)
      I == Integral2(r.points)
  IN [num |-> MapThenSumSet(LAMBDA i : (TwiceY(r.points, i) * D - I) ^ 2,
                            1..(Len(r.points) - 1)),
      den |-> 4 * D ^ 2 * Len(r.points)]

\* The square of the standard deviation: the mean, over the intervals, of the
\* squared difference between the interval's reading and the average.
Variance(r) ==
  LET D == Duration(r)
      I == Integral2(r.points)
  IN [num |-> MapThenSumSet(LAMBDA i : (TwiceY(r.points, i) * D - I) ^ 2,
                            1..(Len(r.points) - 1)),
      den |-> 4 * D ^ 2 * (Len(r.points) - 1)]

-----------------------------------------------------------------------------
(* calc_average_stddev(): one statistic over all the runs *)

Total(v) == MapThenSumSet(LAMBDA i : v[i], 1..Len(v))

MeanOf(v) == [num |-> Total(v), den |-> Len(v)]

\* Mutant: the divisor of a sample's standard deviation instead of a population's.
VarianceOfSample(v) ==
  [num |-> MapThenSumSet(LAMBDA i : (v[i] * Len(v) - Total(v)) ^ 2, 1..Len(v)),
   den |-> Len(v) ^ 2 * (Len(v) - 1)]

VarianceOf(v) ==
  [num |-> MapThenSumSet(LAMBDA i : (v[i] * Len(v) - Total(v)) ^ 2, 1..Len(v)),
   den |-> Len(v) ^ 3]

=============================================================================
