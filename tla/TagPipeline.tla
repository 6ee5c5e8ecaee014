----------------------------- MODULE TagPipeline ----------------------------
(***************************************************************************)
(* The whole measurement, end to end: the test scripts of a client send    *)
(* tags over UDP to the log host, udp-relay passes them on to port 3500,   *)
(* the meter logger started by logdata.sh writes them into the log between *)
(* its samples, and statstool reads the log once logging has stopped.      *)
(*                                                                         *)
(* A datagram is <<session, step>>: the tag sent by a step of the script   *)
(* of a session.  A sample's reading is its number, which tells the        *)
(* properties which sample a report counted.  The network may lose,        *)
(* duplicate and reorder datagrams; the logger (logmeter) and sendtag are  *)
(* programs outside the repository.                                        *)
(***************************************************************************)
EXTENDS TestClient

CONSTANTS
  TagPort,       \* the port logdata.sh makes the logger listen on
  Host,          \* the client: host and kernel, machine
  FdLimit,       \* descriptors of the relay (RLIMIT_NOFILE)
  QueueLimit,    \* datagrams the kernel queues for the relay
  MaxTestRuns,   \* MAX_TEST_RUNS of statstool
  OptionSets,    \* the sets of options statstool is run with
  MaxMishaps,    \* bound of the model: datagrams lost, duplicated or overtaken
  MaxInFlight,   \* bound of the model: tags between the client and the log
  MaxSamples,    \* bound of the model: samples taken
  MaxArrivals,   \* bound of the model: datagrams that reach the log host
  MaxLines       \* bound of the model: lines of the log that are read

VARIABLES
  ran,       \* history: the scripts of the sessions so far
  sent,      \* history: the datagrams sent, in order
  net,       \* the datagrams on their way to the log host
  mishaps,   \* datagrams lost, duplicated or overtaken so far
  logging,   \* the logger is running
  taken,     \* datagrams the logger has taken from port 3500
  logfile,   \* the log file
  \* the state of udp-relay
  relay_pc, port, inherited, fds, rxq, rx, tx, arrivals,
  \* the state of statstool
  pc, opts, files, index, state, data, start_secs, hostname, arch, test, heading,
  stamp, reports, log

R == INSTANCE UdpRelay WITH
       pc <- relay_pc, Datagrams <- Seq(Nat), RecvLen <- 1000

\* The names the scripts send with a TEST_BEGIN.
NamesIn(p) == {p[i].name : i \in {j \in 1..Len(p) : p[j].tag = "TEST_BEGIN"}}
TestNames == UNION {NamesIn(Programs[s]) : s \in Scripts}

S == INSTANCE Statstool WITH
       Big <- 1000000, MaxFiles <- 1, Tags <- SentTags \cup {"SAMPLE"},
       Clients <- {Host}, Names <- TestNames, Values <- Nat, StampSteps <- {1}

ASSUME PipelineConstants ==
  /\ Host \in [host : STRING, arch : S!Archs]
  /\ OptionSets \subseteq SUBSET S!Options
  /\ MaxTestRuns \in Nat \ {0} /\ MaxLines \in Nat

relayVars == <<relay_pc, port, inherited, fds, rxq, rx, tx, arrivals>>
toolVars == <<pc, opts, files, index, state, data, start_secs, hostname, arch, test,
              heading, stamp, reports, log>>
pathVars == <<net, mishaps>>
loggerVars == <<logging, taken, logfile>>
historyVars == <<ran, sent>>
pipelineVars == <<clientVars, historyVars, pathVars, relayVars, loggerVars, toolVars>>

\* The port udp-relay sends to.
RelayPort == 3500

-----------------------------------------------------------------------------

PipelineInit ==
  /\ ClientInit
  /\ ran = <<>> /\ sent = <<>>
  /\ net = <<>> /\ mishaps = 0
  \* the relay is up, the logger is running, as README.txt asks for
  /\ relay_pc = "relaying" /\ port = "relay" /\ inherited = 3 /\ fds = 4
  /\ rxq = <<>> /\ rx = <<>> /\ tx = <<>> /\ arrivals = 0
  /\ logging = TRUE /\ taken = 0 /\ logfile = <<>>
  /\ files = 1 /\ S!Init

\* What the client and the relay do once logging has stopped leaves no trace, and
\* is not followed.

\* The client's own steps; a tag leaves the machine as a datagram.
ClientStep ==
  /\ logging
  /\ \/ \E s \in Scripts : StartScript(s) /\ ran' = Append(ran, s)
     \/ (Refuse \/ LocalStep \/ Finish \/ Interrupt) /\ UNCHANGED ran
  /\ UNCHANGED <<sent, pathVars, relayVars, loggerVars, toolVars>>

ClientSends ==
  /\ logging
  /\ Len(net) + Len(rxq) + Len(tx) - taken < MaxInFlight
  /\ SendTag
  /\ sent' = Append(sent, <<sessions, at + 1>>)
  /\ net' = Append(net, <<sessions, at + 1>>)
  /\ UNCHANGED <<ran, mishaps, relayVars, loggerVars, toolVars>>

\* A datagram reaches the log host.
Deliver ==
  /\ logging /\ net # <<>>
  /\ R!Arrive(Head(net))
  /\ net' = Tail(net)
  /\ UNCHANGED <<clientVars, historyVars, mishaps, loggerVars, toolVars>>

\* UDP may lose a datagram, deliver it twice, or let it overtake another.
Mishap ==
  /\ logging
  /\ mishaps < MaxMishaps
  /\ mishaps' = mishaps + 1
  /\ \E i \in 1..Len(net) :
       \/ net' = RemoveAt(net, i)
       \/ net' = Append(net, net[i])
       \/ i > 1 /\ net' = <<net[i]>> \o RemoveAt(net, i)
  /\ UNCHANGED <<clientVars, historyVars, relayVars, loggerVars, toolVars>>

RelayStep ==
  /\ logging
  /\ R!Relay
  /\ UNCHANGED <<clientVars, historyVars, pathVars, loggerVars, toolVars>>

\* The logger writes the tags that come in on its port into the log, in order.
LogTag ==
  /\ logging /\ TagPort = RelayPort
  /\ taken < Len(tx)
  /\ taken' = taken + 1
  /\ logfile' = Append(logfile, [datagram |-> tx[taken + 1], sample |-> 0,
                                 sent |-> 0, current |-> FALSE])
  /\ UNCHANGED <<clientVars, historyVars, pathVars, relayVars, logging, toolVars>>

Samples == {i \in 1..Len(logfile) : logfile[i].sample > 0}
LoggedTags == SubSeq(tx, 1, taken)

\* A reading of the meter.  The line also records, for the properties, how many
\* tags had been sent by then and whether the last tag in the log was the last sent.
LogSample ==
  /\ logging
  /\ Cardinality(Samples) < MaxSamples
  /\ logfile' = Append(logfile,
       [datagram |-> <<>>, sample |-> Cardinality(Samples) + 1, sent |-> Len(sent),
        current |-> taken > 0 /\ tx[taken] = Last(sent)])
  /\ UNCHANGED <<clientVars, historyVars, pathVars, relayVars, logging, taken, toolVars>>

\* Logging ends: the logger is stopped or has its number of samples.
StopLogging ==
  /\ logging
  /\ logging' = FALSE
  /\ UNCHANGED <<clientVars, historyVars, pathVars, relayVars, taken, logfile, toolVars>>

-----------------------------------------------------------------------------

Tag(d) == Programs[ran[d[1]]][d[2]]

\* What statstool makes of a line of the log.
BodyOf(l) ==
  IF l.sample > 0
  THEN [tag |-> "SAMPLE", who |-> S!NoClient, name |-> S!NoName, y |-> l.sample]
  ELSE LET t == Tag(l.datagram) IN
       [tag |-> t.tag,
        who |-> IF t.tag = "TEST_CLIENT" THEN Host ELSE S!NoClient,
        name |-> IF t.tag = "TEST_BEGIN" THEN t.name ELSE S!NoName,
        y |-> 0]

\* statstool reads the log that was written.
Analyse ==
  /\ ~logging
  /\ \/ \E o \in OptionSets : S!Getopt(o)
     \/ S!OpenFile
     \/ Len(log) < Len(logfile) /\ S!Line(BodyOf(logfile[Len(log) + 1]), 1)
     \/ (pc = "eof" \/ Len(log) = Len(logfile)) /\ S!CloseFile
     \/ S!Exit
  /\ UNCHANGED <<clientVars, historyVars, pathVars, relayVars, loggerVars>>

PipelineNext ==
  \/ ClientStep \/ ClientSends
  \/ Deliver \/ Mishap
  \/ RelayStep
  \/ LogTag \/ LogSample \/ StopLogging
  \/ Analyse

PipelineSpec == PipelineInit /\ [][PipelineNext]_pipelineVars

\* The network delivers what it does not lose, and the relay and the logger are
\* processes that keep running.
PipelineFairSpec ==
  /\ PipelineSpec
  /\ WF_pipelineVars(Deliver) /\ WF_pipelineVars(RelayStep)
  /\ WF_pipelineVars(LogTag)

-----------------------------------------------------------------------------
(* Properties *)

\* The tag kinds of the datagrams sent.
SentTag(i) == Tag(sent[i]).tag

\* The tags logged are some of those sent, in the order they were sent.
InSentOrder ==
  LET place(d) == CHOOSE i \in 1..Len(sent) : sent[i] = d
  IN \A i \in 1..(taken - 1) : place(tx[i]) < place(tx[i + 1])

\* The tags statstool cannot do without.
Vital == {"TEST_RUN_END"} \cup (IF "x" \in opts THEN {"TEST_CLIENT"} ELSE {})

\* The scripts and statstool fit together: as long as no script is interrupted
\* and tags arrive in order, losing tags does not make the tool index outside
\* data[] or use an unset pointer, unless a TEST_RUN_END is lost (or, with -x, a
\* TEST_CLIENT) and something sent after it is logged.  (Without -a, which opens runs
\* of its own between the end of one run and the end of its test.)
HarmlessLosses ==
  ("a" \notin opts /\ pc = "undefined") =>
    \/ interrupts > 0
    \/ ~InSentOrder
    \/ \E i \in 1..Len(sent) :
         /\ SentTag(i) \in Vital
         /\ sent[i] \notin Range(LoggedTags)
         /\ \E j \in (i + 1)..Len(sent) : sent[j] \in Range(LoggedTags)

\* statstool has just read the end of a test.  The test's section of the log starts
\* after the TEST_END before it.
EndsRead == {i \in 1..Len(log) : log[i].body.tag = "TEST_END"}
SectionStart == Max({0} \cup (EndsRead \ {Len(log)}))
TagsInFirst(n) == Cardinality({i \in 1..n : logfile[i].sample = 0})
SectionTags == SubSeq(LoggedTags, TagsInFirst(SectionStart) + 1, TagsInFirst(Len(log)))

\* The tags of the section are all those sent from the end of one test to the end
\* of the next, the k-th sent being the first of them.
Whole(tags, k) ==
  /\ k + Len(tags) - 1 <= Len(sent)
  /\ SubSeq(sent, k, k + Len(tags) - 1) = tags
  /\ k > 1 => SentTag(k - 1) = "TEST_END"

RunsIn(tags) == {i \in 1..Len(tags) : Tag(tags[i]).tag = "TEST_RUN_BEGIN"}
Counted(r) == UNION {{p.y : p \in Range(r.runs[k].points)} : k \in 1..Len(r.runs)}

\* statstool has just reported a test all of whose tags are in the log.
WholeTestReported ==
  /\ S!JustReported /\ reports # <<>> /\ "a" \notin opts
  /\ Len(reports) = Cardinality(EndsRead)
  /\ \E k \in 1..Len(sent) : Whole(SectionTags, k)

\* Whatever was lost, duplicated or reordered before it, a test all of whose tags
\* are logged is reported under its own name (with -x, the first word of it) and its
\* client's, with one run for each run its script made; without interruptions all
\* these runs are its own.
TestReportedAsRun ==
  WholeTestReported =>
    LET r == Last(reports)
        tags == SectionTags
        begins == {i \in 1..Len(tags) : Tag(tags[i]).tag = "TEST_BEGIN"}
        name == Tag(tags[Max(begins)]).name
    IN /\ r.test.word = name.word /\ ("x" \notin opts => r.test = name)
       /\ Len(r.runs) = S!Lesser(Cardinality(RunsIn(tags)), MaxTestRuns)
       /\ (\E i \in 1..Len(tags) : Tag(tags[i]).tag = "TEST_CLIENT") =>
            r.client.host = Host.host /\ r.client.arch = Host.arch
       /\ interrupts = 0 =>
            Cardinality(begins) = 1 /\ \A i \in RunsIn(tags) : i > Max(begins)

\* The client was within a run after the first n tags: they begin one, and end
\* neither it nor its test.
WithinRun(n) ==
  \E b \in 1..n :
    /\ SentTag(b) = "TEST_RUN_BEGIN"
    /\ \A e \in b..n : SentTag(e) \notin {"TEST_RUN_END", "TEST_END"}

\* The report of such a test counts exactly the samples taken while the client
\* was within a run; a sample taken while the last tag in the log was not the last
\* one sent may go either way.  Samples of earlier tests are not counted.
MeasuredExactly ==
  WholeTestReported =>
    LET r == Last(reports)
    IN Cardinality(RunsIn(SectionTags)) <= MaxTestRuns =>
         \A i \in Samples :
           LET l == logfile[i] IN
           IF i \in SectionStart..Len(log)
           THEN l.current => (l.sample \in Counted(r) <=> WithinRun(l.sent))
           ELSE l.sample \notin Counted(r)

\* Once a client falls silent every tag it sent ends up in the log, if the network
\* loses none and logging goes on, unless it sent more than the relay has
\* descriptors for.
TagsLogged ==
  (script = "none") ~>
    (LoggedTags = sent \/ ~logging \/ script # "none"
       \/ Len(sent) > FdLimit - inherited - 1)

=============================================================================
