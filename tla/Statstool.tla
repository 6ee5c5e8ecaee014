------------------------------ MODULE Statstool -----------------------------
(***************************************************************************)
(* statstool/statstool.c: reads the log the meter logger writes, gathers   *)
(* the samples of each test run between the tags the client sent, and      *)
(* reports statistics per run and over all runs at the end of each test.   *)
(*                                                                         *)
(* One step reads one line, as one turn of the loop of data_parse() does.  *)
(* A line has a time stamp and is a tag or a sample.  log is a history     *)
(* variable, the lines of the current file read so far; the properties     *)
(* compare what the program reports with it.                               *)
(*                                                                         *)
(* C gives no meaning to a program that indexes outside data[] or prints   *)
(* an uninitialised pointer; pc = "undefined" stands for whatever happens  *)
(* from there on.                                                          *)
(***************************************************************************)
EXTENDS RunStats, FiniteSets

CONSTANTS
  MaxTestRuns,  \* MAX_TEST_RUNS, the length of data[] (128)
  OptionSets,   \* the sets of options the command line may give
  MaxFiles,     \* bound of the model: log files on the command line
  MaxLines,     \* bound of the model: lines in one log file
  Tags,         \* the kinds of lines the logs contain
  Clients,      \* the clients TEST_CLIENT tags name: host (and kernel), machine
  Names,        \* the tests TEST_BEGIN tags name: first word, the rest
  Values,       \* the readings of the meter, after scaling
  StampSteps    \* time stamp increments from one line to the next

Options == {"a", "x", "s", "S"}

AllTags == {"TEST_CLIENT", "TEST_BEGIN", "TEST_END", "TEST_RUN_BEGIN",
            "TEST_RUN_END", "OTHER", "SAMPLE"}

NoClient == [host |-> "", arch |-> ""]
NoName == [word |-> "", rest |-> ""]

\* The architectures data_parse() tells apart.
Archs == {"amd64", "i386", "unknown"}

ASSUME StatsConstants ==
  /\ MaxTestRuns \in Nat \ {0}
  /\ OptionSets \subseteq SUBSET Options
  /\ MaxFiles \in Nat /\ MaxLines \in Nat
  /\ Tags \subseteq AllTags
  /\ NoClient \notin Clients /\ \A c \in Clients : c.arch \in Archs
  /\ NoName \notin Names
  /\ Values \subseteq Int
  /\ StampSteps \subseteq Int

VARIABLES
  pc,          \* "getopt", "main", "reading", "eof", "exited" or "undefined"
  opts,        \* the option bits
  files,       \* log files still to be read
  index,       \* the current element of data[], -1 before the first run
  state,       \* the bits STATE_TEST_BEGIN and STATE_TEST_RUN_BEGIN
  data,        \* the test runs
  start_secs,  \* the stamp of the first line, -1 before it is read
  hostname,    \* host and kernel of the last TEST_CLIENT, "" after a TEST_END
  arch,        \* its architecture, "?" while the pointer is uninitialised
  test,        \* the first word of the test's name, "" after a TEST_END
  heading,     \* the client and the test whose names stdout showed last
  stamp,       \* the stamp of the last line, in seconds
  reports,     \* the reports written, in order
  log          \* history: the lines of this file read so far

scanVars == <<index, state, data>>
nameVars == <<hostname, arch, test, heading>>
vars == <<pc, opts, files, scanVars, start_secs, nameVars, stamp, reports, log>>

Slots == 0..(MaxTestRuns - 1)

-----------------------------------------------------------------------------
(* What a line says, apart from its time stamp *)

Body == [tag : AllTags, who : Clients \cup {NoClient},
         name : Names \cup {NoName}, y : Values \cup {0}]

Bodies ==
  {b \in Body :
     /\ b.tag \in Tags
     /\ (b.tag = "TEST_CLIENT") = (b.who # NoClient)
     /\ (b.tag = "TEST_BEGIN") = (b.name # NoName)
     /\ IF b.tag = "SAMPLE" THEN b.y \in Values ELSE b.y = 0}

-----------------------------------------------------------------------------
(* Functions of statstool.c *)

\* Mutant: the limit is off by one.
test_run_beginOneMore(s, i, d) ==
  IF i + 1 > MaxTestRuns
  THEN [state |-> s, index |-> i, data |-> d]
  ELSE [state |-> s \cup {"TEST_RUN_BEGIN"}, index |-> i + 1,
        data |-> [d EXCEPT ![i + 1] = NewRun]]

\* Mutant: a refused run still opens, on the slot of the one before it.
test_run_beginReopens(s, i, d) ==
  IF i + 1 >= MaxTestRuns
  THEN [state |-> s \cup {"TEST_RUN_BEGIN"}, index |-> i, data |-> d]
  ELSE [state |-> s \cup {"TEST_RUN_BEGIN"}, index |-> i + 1,
        data |-> [d EXCEPT ![i + 1] = NewRun]]

\* The next slot is set up and the run is open; "Too many test runs" leaves all
\* as it was.
test_run_begin(s, i, d) ==
  IF i + 1 >= MaxTestRuns
  THEN [state |-> s, index |-> i, data |-> d]
  ELSE [state |-> s \cup {"TEST_RUN_BEGIN"}, index |-> i + 1,
        data |-> [d EXCEPT ![i + 1] = NewRun]]

\* Mutant: the run stays open.
test_run_endForgotten(s) == s

test_run_end(s) == s \ {"TEST_RUN_BEGIN"}

\* Mutant: the last run is not freed.
data_freeAllButLast(d, n) ==
  [i \in Slots |-> IF i < n - 1 THEN [d[i] EXCEPT !.mem = "freed"] ELSE d[i]]

\* The lists of the first n runs are freed; the slots keep their pointers.
data_free(d, n) ==
  [i \in Slots |-> IF i < n THEN [d[i] EXCEPT !.mem = "freed"] ELSE d[i]]

\* What data_analyse() prints of the first n runs, with or without the per-run
\* and the summary part.  It prints no names: on stdout (<<>>) the report stands under
\* those data_parse() printed last, in a file below the first line of that file.
data_analyse(to, d, n) ==
  [to |-> to,
   client |-> IF to = <<>> THEN heading.client ELSE [host |-> hostname, arch |-> arch],
   test |-> IF to = <<>> THEN heading.test ELSE [word |-> test, rest |-> ""],
   perRun |-> "S" \in opts, summary |-> "s" \in opts,
   runs |-> [i \in 1..n |-> d[i - 1]]]

\* The file -x writes a test's results to.
OutputName == <<hostname, test, arch>>

-----------------------------------------------------------------------------
(* main() and the ends of data_parse() *)

Init ==
  /\ pc = "getopt"
  /\ opts = {}
  /\ files \in 0..MaxFiles
  /\ index = -1
  /\ state = {}
  /\ data = [i \in Slots |-> Garbage]
  /\ start_secs = -1
  /\ hostname = "" /\ arch = "?" /\ test = ""
  /\ heading = [client |-> NoClient, test |-> NoName]
  /\ stamp = 0
  /\ log = <<>>
  /\ reports = <<>>

\* Without -s and -S both parts are printed.
Getopt(o) ==
  /\ pc = "getopt"
  /\ opts' = IF o \cap {"s", "S"} = {} THEN o \cup {"s", "S"} ELSE o
  /\ pc' = "main"
  /\ UNCHANGED <<files, scanVars, start_secs, nameVars, stamp, reports, log>>

\* -h, or an option getopt() does not know: usage, exit.
ShowHelp ==
  /\ pc = "getopt"
  /\ pc' = "exited"
  /\ UNCHANGED <<opts, files, scanVars, start_secs, nameVars, stamp, reports, log>>

\* data_parse() starts on the next file, with locals of its own.
OpenFile ==
  /\ pc = "main" /\ files > 0
  /\ pc' = "reading"
  /\ files' = files - 1
  /\ index' = -1
  /\ state' = {}
  /\ data' = [i \in Slots |-> Garbage]
  /\ start_secs' = -1
  /\ hostname' = "" /\ arch' = "?" /\ test' = ""
  /\ stamp' = 0
  /\ log' = <<>>
  /\ UNCHANGED <<opts, heading, reports>>

\* fopen() fails: data_parse() returns -1, which main() ignores.
OpenFails ==
  /\ pc = "main" /\ files > 0
  /\ files' = files - 1
  /\ UNCHANGED <<pc, opts, scanVars, start_secs, nameVars, stamp, reports, log>>

Exit ==
  /\ pc = "main" /\ files = 0
  /\ pc' = "exited"
  /\ UNCHANGED <<opts, files, scanVars, start_secs, nameVars, stamp, reports, log>>

\* The end of the file, or of the loop: with -a an open run is ended and
\* reported.  The lists of runs still in data[] are not freed.
CloseFile ==
  /\ pc \in {"reading", "eof"}
  /\ pc' = "main"
  /\ IF "a" \in opts /\ "TEST_RUN_BEGIN" \in state
     THEN /\ state' = test_run_end(state)
          /\ reports' = Append(reports, data_analyse(<<>>, data, index + 1))
     ELSE UNCHANGED <<state, reports>>
  /\ UNCHANGED <<opts, files, index, data, start_secs, nameVars, stamp, log>>

-----------------------------------------------------------------------------
(* One turn of the loop of data_parse() *)

\* fgets() and parse_timestamp(); the first stamp is the origin of time.
ReadLine(b, step) ==
  /\ pc = "reading"
  /\ Len(log) < MaxLines
  /\ stamp + step >= 0
  /\ stamp' = stamp + step
  /\ start_secs' = IF start_secs < 0 THEN stamp' ELSE start_secs
  /\ log' = Append(log, [stamp |-> stamp', body |-> b])
  /\ UNCHANGED <<opts, files>>

sec == stamp' - start_secs'

\* Without -x the client's name goes to stdout as it is read.
TestClient(b) ==
  /\ b.tag = "TEST_CLIENT"
  /\ hostname' = b.who.host
  /\ arch' = b.who.arch
  /\ heading' = IF "x" \in opts THEN heading ELSE [heading EXCEPT !.client = b.who]
  /\ UNCHANGED <<pc, scanVars, test, reports>>

\* So does the test's, all of it; sscanf() with %s keeps its first word.
TestBegin(b) ==
  /\ b.tag = "TEST_BEGIN"
  /\ test' = b.name.word
  /\ heading' = IF "x" \in opts THEN heading ELSE [heading EXCEPT !.test = b.name]
  /\ state' = state \cup {"TEST_BEGIN"}
  /\ UNCHANGED <<pc, index, data, hostname, arch, reports>>

\* Mutant: index keeps pointing at the freed runs.
TestEndedKeepsIndex ==
  /\ pc' = pc
  /\ state' = state \ {"TEST_BEGIN"}
  /\ data' = data_free(data, index + 1)
  /\ index' = index
  /\ hostname' = "" /\ test' = ""
  /\ UNCHANGED <<arch, heading>>

\* Mutant: the architecture is forgotten with the client's name.
TestEndedForgetsArch ==
  /\ pc' = pc
  /\ state' = state \ {"TEST_BEGIN"}
  /\ data' = data_free(data, index + 1)
  /\ index' = -1
  /\ hostname' = "" /\ test' = "" /\ arch' = "?"
  /\ UNCHANGED heading

\* What TEST_END does after the report.  STATE_TEST_RUN_BEGIN stays set if a run
\* is open, arch keeps its value, and stdout its last names.
TestEnded ==
  /\ pc' = pc
  /\ state' = state \ {"TEST_BEGIN"}
  /\ data' = data_free(data, index + 1)
  /\ index' = -1
  /\ hostname' = "" /\ test' = ""
  /\ UNCHANGED <<arch, heading>>

TestEndPrints(b) ==
  /\ b.tag = "TEST_END"
  /\ "x" \notin opts
  /\ reports' = Append(reports, data_analyse(<<>>, data, index + 1))
  /\ TestEnded

TestEndExtracts(b) ==
  /\ b.tag = "TEST_END"
  /\ "x" \in opts /\ arch # "?"
  /\ reports' = Append(reports, data_analyse(OutputName, data, index + 1))
  /\ TestEnded

\* Mutant: a test whose results cannot be written is left as it is.
TestEndCannotCreateReturns(b) ==
  /\ b.tag = "TEST_END"
  /\ "x" \in opts /\ arch # "?"
  /\ state' = state \ {"TEST_BEGIN"}
  /\ UNCHANGED <<pc, index, data, nameVars, reports>>

\* "Cannot create": the results of the test are lost.
TestEndCannotCreate(b) ==
  /\ b.tag = "TEST_END"
  /\ "x" \in opts /\ arch # "?"
  /\ UNCHANGED reports
  /\ TestEnded

\* The file's name is built from a pointer nothing has set.
TestEndNoArch(b) ==
  /\ b.tag = "TEST_END"
  /\ "x" \in opts /\ arch = "?"
  /\ pc' = "undefined"
  /\ UNCHANGED <<scanVars, nameVars, reports>>

TestRunBegin(b) ==
  LET r == test_run_begin(state, index, data) IN
  /\ b.tag = "TEST_RUN_BEGIN"
  /\ state' = r.state /\ index' = r.index /\ data' = r.data
  /\ UNCHANGED <<pc, nameVars, reports>>

TestRunEnd(b) ==
  /\ b.tag = "TEST_RUN_END"
  /\ state' = test_run_end(state)
  /\ UNCHANGED <<pc, index, data, nameVars, reports>>

\* A tag the tool does not know (TEST_QUIT, IRQS).
OtherTag(b) ==
  /\ b.tag = "OTHER"
  /\ UNCHANGED <<pc, scanVars, nameVars, reports>>

\* state, index and data when a sample is looked at: with -a it opens a run.
AtSample ==
  IF "a" \in opts /\ "TEST_RUN_BEGIN" \notin state
  THEN test_run_begin(state, index, data)
  ELSE [state |-> state, index |-> index, data |-> data]

SampleSkipped(b) ==
  /\ b.tag = "SAMPLE"
  /\ "TEST_RUN_BEGIN" \notin AtSample.state
  /\ UNCHANGED <<pc, scanVars, nameVars, reports>>

SampleRecorded(b) ==
  LET r == AtSample IN
  /\ b.tag = "SAMPLE"
  /\ "TEST_RUN_BEGIN" \in r.state
  /\ r.index >= 0
  /\ state' = r.state /\ index' = r.index
  /\ data' = [r.data EXCEPT ![r.index] = AddPoint(@, sec, b.y)]
  /\ UNCHANGED <<pc, nameVars, reports>>

\* The run is open but TEST_END has reset index: data[-1].
SampleOutOfBounds(b) ==
  /\ b.tag = "SAMPLE"
  /\ "TEST_RUN_BEGIN" \in AtSample.state
  /\ AtSample.index < 0
  /\ pc' = "undefined"
  /\ UNCHANGED <<scanVars, nameVars, reports>>

\* calloc() fails: the loop ends.
SampleNoMemory(b) ==
  LET r == AtSample IN
  /\ b.tag = "SAMPLE"
  /\ "TEST_RUN_BEGIN" \in r.state
  /\ pc' = "eof"
  /\ state' = r.state /\ index' = r.index /\ data' = r.data
  /\ UNCHANGED <<nameVars, reports>>

Line(b, step) ==
  /\ ReadLine(b, step)
  /\ \/ TestClient(b) \/ TestBegin(b)
     \/ TestEndPrints(b) \/ TestEndExtracts(b)
     \/ TestEndCannotCreate(b) \/ TestEndNoArch(b)
     \/ TestRunBegin(b) \/ TestRunEnd(b) \/ OtherTag(b)
     \/ SampleSkipped(b) \/ SampleRecorded(b)
     \/ SampleOutOfBounds(b) \/ SampleNoMemory(b)

Next ==
  \/ \E o \in OptionSets : Getopt(o)
  \/ ShowHelp \/ OpenFile \/ OpenFails \/ CloseFile \/ Exit
  \/ \E b \in Bodies, step \in StampSteps : Line(b, step)

Spec == Init /\ [][Next]_vars

-----------------------------------------------------------------------------
(* Properties *)

Hosts == {c.host : c \in Clients \cup {NoClient}}
Words == {n.word : n \in Names \cup {NoName}}

AnyClient == Clients \cup {NoClient}
AnyName == Names \cup {NoName}

Report == [to : {<<>>} \cup (Hosts \X Words \X Archs),
           client : AnyClient \cup [host : Hosts, arch : Archs \cup {"?"}],
           test : AnyName \cup [word : Words, rest : {""}],
           perRun : BOOLEAN, summary : BOOLEAN, runs : Seq(Run)]

TypeOK ==
  /\ pc \in {"getopt", "main", "reading", "eof", "exited", "undefined"}
  /\ opts \subseteq Options
  /\ files \in 0..MaxFiles
  /\ index \in -1..(MaxTestRuns - 1)
  /\ state \subseteq {"TEST_BEGIN", "TEST_RUN_BEGIN"}
  /\ data \in [Slots -> Run]
  /\ start_secs \in Nat \cup {-1}
  /\ hostname \in Hosts /\ arch \in Archs \cup {"?"} /\ test \in Words
  /\ heading \in [client : AnyClient, test : AnyName]
  /\ stamp \in Nat
  /\ reports \in Seq(Report)
  /\ log \in Seq([stamp : Nat, body : Body])

\* data[0..index] are exactly the runs whose lists data_parse() owns: every list
\* is freed once at TEST_END, none is used after that, and test_run_begin() never
\* sets up a slot whose list is still owned.
SlotsOwned ==
  pc \in {"reading", "eof"} => \A i \in Slots : data[i].mem = "owned" <=> i <= index

\* The positions in log of the lines with a given tag.
At(tag) == {i \in 1..Len(log) : log[i].body.tag = tag}

\* The greatest of a set of positions, 0 if there is none.
Latest(S) == IF S = {} THEN 0 ELSE Max(S)

\* The k-th smallest of a set of positions.
Nth(S, k) == CHOOSE i \in S : Cardinality({j \in S : j <= i}) = k

\* Where the test that ends at position i starts: after the TEST_END before it.
SectionStart(i) == Latest({e \in At("TEST_END") : e < i})

RunBegins(i) == {j \in At("TEST_RUN_BEGIN") : SectionStart(i) < j /\ j < i}

\* The runs of the test that ends at i: the ones data[] has room for.
RunsOf(i) == Lesser(Cardinality(RunBegins(i)), MaxTestRuns)

\* The samples of its k-th run: those after its TEST_RUN_BEGIN, up to a
\* TEST_RUN_END and up to the next run that is given a slot.
Window(i, k) ==
  LET b == Nth(RunBegins(i), k)
      next == IF k < RunsOf(i) THEN Nth(RunBegins(i), k + 1) ELSE i
  IN {j \in At("SAMPLE") :
        /\ b < j /\ j < next
        /\ \A e \in At("TEST_RUN_END") : ~(b < e /\ e < j)}

PointsOf(S) ==
  [m \in 1..Cardinality(S) |->
     [x |-> log[Nth(S, m)].stamp - log[1].stamp, y |-> log[Nth(S, m)].body.y]]

JustReported ==
  pc = "reading" /\ log # <<>> /\ log[Len(log)].body.tag = "TEST_END"

\* Whatever tags were lost, repeated or reordered on the way to the log, the
\* report printed at a TEST_END has one run per TEST_RUN_BEGIN of the test, up to
\* MAX_TEST_RUNS, and each holds, in order, the samples of its stretch of the log.
\* (Without -a, which opens runs of its own.)
ReportsMatchLog ==
  (JustReported /\ opts \cap {"a", "x"} = {}) =>
    LET i == Len(log)
        runs == reports[Len(reports)].runs
    IN /\ Len(runs) = RunsOf(i)
       /\ \A k \in 1..RunsOf(i) : runs[k].points = PointsOf(Window(i, k))

\* The last position before i with a given tag within the test that ends at i.
LastIn(tag, i) == Latest({j \in At(tag) : SectionStart(i) < j /\ j < i})

\* The last report is named as the test that has just ended announced: the client, the
\* test's name (its first word only, with -x).  With -x what was not announced is
\* empty; on stdout the report then stands under the name of an earlier test.
NamedAsAnnounced ==
  LET i == Len(log)
      r == reports[Len(reports)]
      c == LastIn("TEST_CLIENT", i)
      t == LastIn("TEST_BEGIN", i)
  IN /\ c # 0 => /\ r.client.host = log[c].body.who.host
                 /\ r.client.arch = log[c].body.who.arch
     /\ t # 0 => /\ r.test.word = log[t].body.name.word
                 /\ "x" \notin opts => r.test = log[t].body.name
     /\ "x" \in opts => (c = 0 => r.client.host = "") /\ (t = 0 => r.test.word = "")

\* Whatever tags were lost, repeated or reordered, and even if the file of an earlier
\* test could not be created, the report written at a TEST_END carries the names its
\* own test announced and, with -x, none that an earlier test left behind.
ReportAttribution ==
  [][JustReported' /\ reports' # reports => NamedAsAnnounced']_vars

\* A run is open at position i: the last run tag before it is a TEST_RUN_BEGIN.
OpenAt(i) ==
  \E b \in At("TEST_RUN_BEGIN") :
    /\ b < i
    /\ \A e \in At("TEST_RUN_END") : e < i => e < b

\* No test ends while a run is open and, with -x, a client is named before the
\* first test ends.
Bracketed ==
  \A e \in At("TEST_END") :
    /\ ~OpenAt(e)
    /\ "x" \in opts => \E c \in At("TEST_CLIENT") : c < e

\* On a bracketed log the program stays within data[] and uses no pointer it has
\* not set, whatever else the log lacks or repeats.  (Without -a.)
DefinedOnBracketedLogs ==
  "a" \notin opts /\ Bracketed => pc # "undefined"

\* x_min and x_max of a run are the times of its first and last samples in time, y_min
\* and y_max its least and greatest readings.
MinMaxOf(r) ==
  LET xs == {r.points[m].x : m \in 1..Len(r.points)}
      ys == {r.points[m].y : m \in 1..Len(r.points)}
  IN /\ r.x_min = Min(xs) /\ r.x_max = Max(xs)
     /\ r.y_min = Min(ys) /\ r.y_max = Max(ys)

\* Its samples lie between the values the extrema start from.
InRange(r) ==
  \A m \in 1..Len(r.points) : r.points[m].x \in -Big..Big /\ r.points[m].y \in -Big..Big

\* The extrema of a reported run are those of its samples, if these come within 1E6
\* seconds of the log's first line (either way: the clock may be set back), whatever
\* the runs before it left in its slot.  Beyond that they are not the "Data set min/max"
\* the comment on data_t speaks of, as x_min stays at 1E6.
ExtremaExact ==
  \A i \in 1..Len(reports) : \A k \in 1..Len(reports[i].runs) :
    LET r == reports[i].runs[k]
    IN r.points # <<>> /\ InRange(r) => MinMaxOf(r)

\* show_help(): "-x extract per-test results and each to a file."  Two tests of
\* different names leave their results in different files.
EachTestItsOwnFile ==
  (pc = "main" /\ "x" \in opts) =>
    \A i, j \in At("TEST_END") :
      LET s == LastIn("TEST_BEGIN", i)
          t == LastIn("TEST_BEGIN", j)
      IN (i < j /\ s # 0 /\ t # 0 /\ log[s].body.name # log[t].body.name
          /\ Len(reports) = Cardinality(At("TEST_END")))
           => \A k, m \in 1..Len(reports) : k # m => reports[k].to # reports[m].to

\* The table of runs, seen as the runs of a test.
PointsIn(d, n) == [i \in 1..n |-> d[i - 1].points]
PointsOut(r) == [k \in 1..Len(r.runs) |-> r.runs[k].points]
Written(rs) == [i \in 1..Len(rs) |-> PointsOut(rs[i])]

L == INSTANCE RunLog WITH
       Limit <- MaxTestRuns, Samples <- Point,
       runs <- PointsIn(data, index + 1),
       open <- "TEST_RUN_BEGIN" \in state,
       written <- Written(reports)

\* data_parse() implements RunLog, whatever the log holds and whatever the options:
\* no run takes a sample of another, none survives the end of its test, and what
\* is reported is what was read.
ImplementsRunLog == L!LogSpec

=============================================================================
