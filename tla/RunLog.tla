------------------------------- MODULE RunLog -------------------------------
(***************************************************************************)
(* What statstool promises about the samples of a log, without the table   *)
(* of runs, the memory behind it and the statistics: the test being read   *)
(* is a sequence of runs, each the sequence of its samples; samples join   *)
(* the latest run while it is open; the end of a test writes out its runs, *)
(* all of them and nothing else, and the next test starts from none.       *)
(***************************************************************************)
EXTENDS Integers, Sequences

CONSTANTS
  Limit,    \* how many runs a test may have, at least one
  Samples   \* what a sample may be

VARIABLES
  runs,     \* the runs of the test being read
  open,     \* the latest run takes samples
  written   \* the tests written out, each as its runs

logVars == <<runs, open, written>>

LogInit == runs = <<>> /\ open = FALSE /\ written = <<>>

\* Another log: a test that did not end in the one before it is dropped.
NewLog == runs' = <<>> /\ open' = FALSE /\ UNCHANGED written

BeginRun ==
  /\ Len(runs) < Limit
  /\ runs' = Append(runs, <<>>)
  /\ open' = TRUE
  /\ UNCHANGED written

EndRun == open' = FALSE /\ UNCHANGED <<runs, written>>

\* t is s and one sample more.
OneMore(s, t) ==
  Len(t) = Len(s) + 1 /\ SubSeq(t, 1, Len(s)) = s /\ t[Len(t)] \in Samples

\* A sample joins the latest run.
AddSample ==
  /\ open /\ runs # <<>>
  /\ Len(runs') = Len(runs)
  /\ \A i \in 1..(Len(runs) - 1) : runs'[i] = runs[i]
  /\ OneMore(runs[Len(runs)], runs'[Len(runs)])
  /\ UNCHANGED <<open, written>>

\* A sample that opens a run of its own (-a).
AddOpening ==
  /\ ~open /\ Len(runs) < Limit
  /\ Len(runs') = Len(runs) + 1
  /\ \A i \in 1..Len(runs) : runs'[i] = runs[i]
  /\ OneMore(<<>>, runs'[Len(runs')])
  /\ open' = TRUE
  /\ UNCHANGED written

\* The test is written out, or cannot be.
EndTest ==
  /\ written' \in {written, Append(written, runs)}
  /\ runs' = <<>>
  /\ UNCHANGED open

\* The end of a log writes out the runs it was still reading (-a).
EndLog ==
  /\ open /\ open' = FALSE
  /\ written' = Append(written, runs)
  /\ UNCHANGED runs

LogNext ==
  NewLog \/ BeginRun \/ EndRun \/ AddSample \/ AddOpening \/ EndTest \/ EndLog

LogSpec == LogInit /\ [][LogNext]_logVars

=============================================================================
