------------------------------- MODULE BusyIo -------------------------------
(***************************************************************************)
(* hdd-monitor-io: busyio.stp, which counts the I/O of a stretch of time   *)
(* and prints it, and busyio.py, which runs it and passes its output on.   *)
(*                                                                         *)
(* The program's life is counted in the turns of its one-second timer.     *)
(* Its lines go through a pipe; the wrapper, which is Python 2 and opens   *)
(* the pipe unbuffered, waits for it with select() and takes one line at a *)
(* time with readline().  Lines of stderr are thrown away and only its end *)
(* matters.  systemtap is external.                                        *)
(***************************************************************************)
EXTENDS Integers, Sequences

CONSTANTS
  BeginDelay,   \* $1, which the wrapper gives as 5
  Durations     \* the durations the wrapper may be asked for, $2

ASSUME BusyConstants == BeginDelay \in Nat \ {0} /\ Durations \subseteq Nat

VARIABLES
  duration,      \* the duration asked for
  stap,          \* "loading", "running" or "exited"
  begin_delay,   \* counts down to -1
  end_after,     \* then counts down to 0
  second,        \* turns of the timer
  io_stat,       \* the seconds whose I/O is counted
  happened,      \* history: the seconds with I/O
  printed,       \* history: the lines printed
  pipe,          \* lines in the pipe
  stdout_open,   \* no end of file seen on stdout
  stderr_open,   \* nor on stderr
  shown,         \* the lines the wrapper wrote
  wrapper        \* "reading" or "exited"

busyVars == <<duration, stap, begin_delay, end_after, second, io_stat, happened,
              printed, pipe, stdout_open, stderr_open, shown, wrapper>>
stapVars == <<duration, stap, begin_delay, end_after, second, io_stat, happened, printed>>
wrapperVars == <<stdout_open, stderr_open, shown, wrapper>>

Printf(lines) == printed' = printed \o lines /\ pipe' = pipe \o lines

BusyInit ==
  /\ duration \in Durations
  /\ stap = "loading" /\ begin_delay = 0 /\ end_after = 0 /\ second = 0
  /\ io_stat = {} /\ happened = {}
  /\ printed = <<>> /\ pipe = <<>>
  /\ stdout_open = TRUE /\ stderr_open = TRUE
  /\ shown = <<>> /\ wrapper = "reading"

\* probe begin
StapBegin ==
  /\ stap = "loading"
  /\ stap' = "running"
  /\ begin_delay' = BeginDelay /\ end_after' = duration
  /\ Printf(<<"SYNC", "Starting">>)
  /\ UNCHANGED <<duration, second, io_stat, happened, wrapperVars>>

\* Mutant: the delay is over a turn later.
InodeIoLate ==
  /\ stap = "running"
  /\ happened' = happened \cup {second}
  /\ io_stat' = IF begin_delay < 0 THEN io_stat \cup {second} ELSE io_stat
  /\ UNCHANGED <<duration, stap, begin_delay, end_after, second, printed, pipe, wrapperVars>>

\* The probes on reads, writes and dirtied inodes.
InodeIo ==
  /\ stap = "running"
  /\ happened' = happened \cup {second}
  /\ io_stat' = IF begin_delay <= 0 THEN io_stat \cup {second} ELSE io_stat
  /\ UNCHANGED <<duration, stap, begin_delay, end_after, second, printed, pipe, wrapperVars>>

\* probe timer.s(1): the report, if it is time.  Without I/O there is nothing to
\* print.  The counters are then deleted and nothing looks at them again; io_stat
\* keeps what was reported.
Announced == IF begin_delay = 0 THEN <<"Recording">> ELSE <<>>
Reported == IF io_stat # {} THEN <<"Report">> ELSE <<>>

TimerReports ==
  /\ stap = "running" /\ end_after = 0
  /\ stap' = "exited" /\ second' = second + 1
  /\ Printf(Announced \o Reported)
  /\ UNCHANGED <<duration, begin_delay, end_after, io_stat, happened, wrapperVars>>

\* The same probe at all other times.
TimerCounts ==
  /\ stap = "running" /\ end_after > 0
  /\ second' = second + 1
  /\ Printf(Announced)
  /\ begin_delay' = IF begin_delay > -1 THEN begin_delay - 1 ELSE begin_delay
  /\ end_after' = IF begin_delay > -1 THEN end_after ELSE end_after - 1
  /\ UNCHANGED <<duration, stap, io_stat, happened, wrapperVars>>

-----------------------------------------------------------------------------

\* select() says that a descriptor is readable: data in the pipe, or its end.
StdoutReadable == pipe # <<>> \/ stap = "exited"

\* proc.stdout.readline(): the next line, or "" at the end.  "SYNC" is acted on, other
\* lines are written.
ReadStdout ==
  /\ wrapper = "reading" /\ StdoutReadable
  /\ IF pipe = <<>>
     THEN stdout_open' = FALSE /\ UNCHANGED <<pipe, shown>>
     ELSE /\ shown' = IF Head(pipe) = "SYNC" THEN shown ELSE Append(shown, Head(pipe))
          /\ pipe' = Tail(pipe)
          /\ UNCHANGED stdout_open
  /\ UNCHANGED <<stapVars, stderr_open, wrapper>>

\* Mutant: the end of stderr is not noted.
ReadStderrUnseen ==
  /\ wrapper = "reading" /\ stap = "exited" /\ stderr_open
  /\ UNCHANGED busyVars

\* proc.stderr.readline() returns "".
ReadStderr ==
  /\ wrapper = "reading" /\ stap = "exited" /\ stderr_open
  /\ stderr_open' = FALSE
  /\ UNCHANGED <<stapVars, pipe, stdout_open, shown, wrapper>>

\* Mutant: "and" for "or", the loop ends when either stream has.
WrapperExitsFirst ==
  /\ wrapper = "reading" /\ (~stdout_open \/ ~stderr_open)
  /\ wrapper' = "exited"
  /\ UNCHANGED <<stapVars, pipe, stdout_open, stderr_open, shown>>

\* The loop ends, proc.wait() returns.
WrapperExits ==
  /\ wrapper = "reading" /\ ~stdout_open /\ ~stderr_open
  /\ wrapper' = "exited"
  /\ UNCHANGED <<stapVars, pipe, stdout_open, stderr_open, shown>>

BusyNext ==
  \/ StapBegin \/ InodeIo \/ TimerReports \/ TimerCounts
  \/ ReadStdout \/ ReadStderr \/ WrapperExits

BusySpec == BusyInit /\ [][BusyNext]_busyVars

\* Whatever the I/O, the timer fires, and the wrapper gets to run.
BusyFairness ==
  /\ WF_busyVars(StapBegin) /\ WF_busyVars(TimerReports \/ TimerCounts)
  /\ WF_busyVars(ReadStdout) /\ WF_busyVars(ReadStderr) /\ WF_busyVars(WrapperExits)

-----------------------------------------------------------------------------

\* The report covers the I/O of one stretch, from the end of the delay on, however the
\* two countdowns and the I/O interleave: two seconds more than the duration asked for,
\* which is what "Now recording %d seconds of samples" announces.  The countdown of the
\* delay goes on to -1 before that of the duration starts, and that ends a turn after it
\* has come to 0.  A duration of 0 reports nothing, at the first turn.
WindowCounted ==
  stap = "exited" =>
    io_stat = happened \cap
      (IF duration = 0 THEN {} ELSE BeginDelay..(BeginDelay + duration + 1))

\* No line is lost, doubled or put out of order on the way: what the wrapper wrote
\* and what is in the pipe are the lines printed, but for the one it acts on.  When
\* it exits, which waits for the end of two streams, there is none left, and no more
\* will come.
LinesInOrder ==
  /\ \/ shown = <<>> /\ pipe = printed
     \/ <<"SYNC">> \o (shown \o pipe) = printed
  /\ wrapper = "exited" => stap = "exited" /\ pipe = <<>>

\* "busyio.py is a wrapper": every line printed is in the end passed on, in order,
\* and the wrapper exits, whichever of its streams ends first.
LinesPassedOn == <>(wrapper = "exited" /\ <<"SYNC">> \o shown = printed)

=============================================================================
