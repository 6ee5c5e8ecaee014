-------------------------- MODULE Statstool_proofs --------------------------
(***************************************************************************)
(* Safety of Statstool for every length of data[], every set of options    *)
(* and every log, and that it implements RunLog.                           *)
(***************************************************************************)
EXTENDS Statstool, SequenceTheorems, TLAPS

\* The runs up to i are the ones whose lists are owned.
Owned(d, i) == \A k \in Slots : d[k].mem = "owned" <=> k <= i

\* The constants as the step lemmas use them.
LEMMA SlotFacts ==
  /\ MaxTestRuns \in Nat \ {0}
  /\ Slots = 0..(MaxTestRuns - 1)
  /\ Big \in Int /\ -Big \in Int
  BY StatsConstants, BigConstant DEF Slots

\* A new run is an empty, owned list.
LEMMA NewRunType == NewRun \in Run /\ NewRun.mem = "owned" /\ Garbage \in Run
  <1>1. <<>> \in Seq(Point)
    OBVIOUS
  <1>2. QED
    BY <1>1, SlotFacts DEF NewRun, Run, Garbage

\* A sample leaves a run a run, and leaves alone who owns its list.
LEMMA AddPointType ==
  ASSUME NEW r \in Run, NEW x \in Int, NEW y \in Int
  PROVE  AddPoint(r, x, y) \in Run /\ AddPoint(r, x, y).mem = r.mem
  <1>1. [x |-> x, y |-> y] \in Point
    BY DEF Point
  <1>2. /\ r.points \in Seq(Point)
        /\ r.x_min \in Int /\ r.x_max \in Int /\ r.y_min \in Int /\ r.y_max \in Int
    BY DEF Run
  <1>3. Append(r.points, [x |-> x, y |-> y]) \in Seq(Point)
    BY <1>1, <1>2
  <1>4. /\ Lesser(x, r.x_min) \in Int /\ Greater(x, r.x_max) \in Int
        /\ Lesser(y, r.y_min) \in Int /\ Greater(y, r.y_max) \in Int
    BY <1>2 DEF Lesser, Greater
  <1>5. QED
    BY <1>3, <1>4 DEF AddPoint, data_append_point, Run

\* test_run_begin() takes the next slot or changes nothing.
LEMMA BeginType ==
  ASSUME NEW s \in SUBSET {"TEST_BEGIN", "TEST_RUN_BEGIN"},
         NEW i \in -1..(MaxTestRuns - 1),
         NEW d \in [Slots -> Run]
  PROVE  LET r == test_run_begin(s, i, d)
         IN /\ r.state \in SUBSET {"TEST_BEGIN", "TEST_RUN_BEGIN"}
            /\ r.index \in -1..(MaxTestRuns - 1)
            /\ r.data \in [Slots -> Run]
            /\ Owned(d, i) => Owned(r.data, r.index)
            /\ r.index >= 0
  <1> DEFINE r == test_run_begin(s, i, d)
  <1>1. CASE i + 1 >= MaxTestRuns
    <2>1. r = [state |-> s, index |-> i, data |-> d]
      BY <1>1 DEF test_run_begin
    <2>2. i = MaxTestRuns - 1 /\ i >= 0
      BY <1>1, SlotFacts
    <2>3. QED
      BY <2>1, <2>2
  <1>2. CASE ~(i + 1 >= MaxTestRuns)
    <2>1. r = [state |-> s \cup {"TEST_RUN_BEGIN"}, index |-> i + 1,
               data |-> [d EXCEPT ![i + 1] = NewRun]]
      BY <1>2 DEF test_run_begin
    <2>2. i + 1 \in Slots /\ i + 1 \in -1..(MaxTestRuns - 1)
      BY <1>2, SlotFacts
    <2>3. r.data \in [Slots -> Run]
      BY <2>1, <2>2, NewRunType
    <2>4. ASSUME Owned(d, i), NEW k \in Slots
          PROVE  r.data[k].mem = "owned" <=> k <= i + 1
      BY <2>1, <2>2, <2>4, NewRunType, SlotFacts DEF Owned
    <2>5. QED
      BY <2>1, <2>2, <2>3, <2>4, SlotFacts DEF Owned
  <1>3. QED
    BY <1>1, <1>2

\* data_free() of the runs up to i leaves no list owned.
LEMMA FreeType ==
  ASSUME NEW d \in [Slots -> Run], NEW i \in -1..(MaxTestRuns - 1), Owned(d, i)
  PROVE  data_free(d, i + 1) \in [Slots -> Run] /\ Owned(data_free(d, i + 1), -1)
  <1> DEFINE f == data_free(d, i + 1)
  <1>1. ASSUME NEW k \in Slots
        PROVE  f[k] \in Run /\ (f[k].mem = "owned" <=> k <= -1)
    <2>1. k \in Nat
      BY SlotFacts
    <2>2. d[k] \in Run
      OBVIOUS
    <2>a. \A r \in Run : /\ [r EXCEPT !.mem = "freed"] \in Run
                         /\ [r EXCEPT !.mem = "freed"].mem = "freed"
      BY DEF Run
    <2>3. CASE k < i + 1
      <3>1. f[k] = [d[k] EXCEPT !.mem = "freed"]
        BY <2>3 DEF data_free
      <3>2. f[k] \in Run /\ f[k].mem = "freed"
        <4> HIDE DEF f
        <4> QED
          BY <3>1, <2>2, <2>a
      <3>3. QED
        BY <3>2, <2>1
    <2>4. CASE ~(k < i + 1)
      <3>1. f[k] = d[k]
        BY <2>4 DEF data_free
      <3>2. ~(k <= i)
        BY <2>4, <2>1
      <3>3. QED
        BY <3>1, <3>2, <2>1, <2>2 DEF Owned
    <2>5. QED
      BY <2>3, <2>4
  <1>2. f = [k \in Slots |-> f[k]]
    BY DEF data_free
  <1>3. f \in [Slots -> Run]
    BY <1>1, <1>2
  <1>4. QED
    BY <1>1, <1>3 DEF Owned

\* What data_analyse() writes is a report.
LEMMA ReportType ==
  ASSUME TypeOK, NEW to \in {<<>>} \cup (Hosts \X Words \X Archs)
  PROVE  data_analyse(to, data, index + 1) \in Report
  <1>1. index + 1 \in Nat /\ \A i \in 1..(index + 1) : data[i - 1] \in Run
    BY SlotFacts DEF TypeOK
  <1>2. [i \in 1..(index + 1) |-> data[i - 1]] \in Seq(Run)
    BY <1>1
  <1> DEFINE c == IF to = <<>> THEN heading.client ELSE [host |-> hostname, arch |-> arch]
             t == IF to = <<>> THEN heading.test ELSE [word |-> test, rest |-> ""]
  <1>3. c \in AnyClient \cup [host : Hosts, arch : Archs \cup {"?"}]
    BY DEF TypeOK
  <1>4. t \in AnyName \cup [word : Words, rest : {""}]
    BY DEF TypeOK
  <1> DEFINE C == AnyClient \cup [host : Hosts, arch : Archs \cup {"?"}]
             T == AnyName \cup [word : Words, rest : {""}]
             O == {<<>>} \cup (Hosts \X Words \X Archs)
             q == [i \in 1..(index + 1) |-> data[i - 1]]
             p == "S" \in opts
             m == "s" \in opts
  <1>5. /\ data_analyse(to, data, index + 1) =
             [to |-> to, client |-> c, test |-> t, perRun |-> p, summary |-> m, runs |-> q]
        /\ Report = [to : O, client : C, test : T,
                     perRun : BOOLEAN, summary : BOOLEAN, runs : Seq(Run)]
    BY DEF data_analyse, Report
  <1>6. p \in BOOLEAN /\ m \in BOOLEAN
    OBVIOUS
  <1>7. q \in Seq(Run) /\ to \in O
    BY <1>2, Zenon
  <1>8. c \in C /\ t \in T
    BY <1>3, <1>4, Zenon
  <1> HIDE DEF c, t, C, T, O, q, p, m
  <1>9. QED
    BY <1>5, <1>6, <1>7, <1>8

\* fgets() and parse_timestamp(): the line is recorded and time has a value.
LEMMA LineType ==
  ASSUME TypeOK, NEW b \in Bodies, NEW step \in StampSteps, ReadLine(b, step)
  PROVE  /\ b \in Body /\ b.y \in Int
         /\ b.who.host \in Hosts /\ b.name.word \in Words
         /\ b.tag = "TEST_CLIENT" => b.who.arch \in Archs
         /\ opts' \subseteq Options /\ files' \in 0..MaxFiles
         /\ stamp' \in Nat
         /\ start_secs' \in Nat \cup {-1}
         /\ log' \in Seq([stamp : Nat, body : Body])
         /\ sec \in Int
         /\ pc = "reading"
  <1>1. b \in Body
    BY DEF Bodies
  <1>a. b.y \in Values \cup {0} /\ b.who \in Clients \cup {NoClient}
              /\ b.name \in Names \cup {NoName}
    BY <1>1 DEF Body
  <1>2. b.y \in Int
    <2>1. \A v \in Values \cup {0} : v \in Int
      BY StatsConstants
    <2>2. QED
      BY <1>a, <2>1
  <1>3. b.who.host \in Hosts /\ b.name.word \in Words
    BY <1>a DEF Hosts, Words
  <1>4. step \in Int
    BY StatsConstants
  <1>5. stamp' \in Nat /\ start_secs' \in Nat \cup {-1}
    BY <1>4 DEF ReadLine, TypeOK
  <1>6. sec \in Int
    BY <1>5 DEF sec
  <1>7. log' \in Seq([stamp : Nat, body : Body])
    <2>1. [stamp |-> stamp', body |-> b] \in [stamp : Nat, body : Body]
      BY <1>1, <1>5
    <2>2. QED
      BY <2>1 DEF ReadLine, TypeOK
  <1>8. b.tag = "TEST_CLIENT" => b.who.arch \in Archs
    <2>1. b.tag = "TEST_CLIENT" => b.who \in Clients
      BY <1>a DEF Bodies
    <2>2. QED
      BY <2>1, StatsConstants
  <1>9. QED
    BY <1>1, <1>2, <1>3, <1>5, <1>6, <1>7, <1>8 DEF ReadLine, TypeOK

\* The state in which a sample is looked at is one data_parse() may be in.
LEMMA AtSampleType ==
  ASSUME TypeOK, Owned(data, index)
  PROVE  /\ AtSample.state \in SUBSET {"TEST_BEGIN", "TEST_RUN_BEGIN"}
         /\ AtSample.index \in -1..(MaxTestRuns - 1)
         /\ AtSample.data \in [Slots -> Run]
         /\ Owned(AtSample.data, AtSample.index)
  <1>1. CASE "a" \in opts /\ "TEST_RUN_BEGIN" \notin state
    <2>1. AtSample = test_run_begin(state, index, data)
      BY <1>1 DEF AtSample
    <2>2. QED
      BY <2>1, BeginType DEF TypeOK
  <1>2. CASE ~("a" \in opts /\ "TEST_RUN_BEGIN" \notin state)
    <2>1. AtSample = [state |-> state, index |-> index, data |-> data]
      BY <1>2 DEF AtSample
    <2>2. QED
      BY <2>1 DEF TypeOK
  <1>3. QED
    BY <1>1, <1>2

-----------------------------------------------------------------------------

\* The two invariants hold together: a report is well typed because index stays
\* within data[], and index stays there because test_run_begin() looks first.
StatsInv == TypeOK /\ SlotsOwned

\* The values the variables of data_parse() start with have their types.
LEMMA FreshTypes ==
  /\ [i \in Slots |-> Garbage] \in [Slots -> Run]
  /\ Owned([i \in Slots |-> Garbage], -1)
  /\ -1 \in -1..(MaxTestRuns - 1)
  /\ "" \in Hosts /\ "" \in Words
  <1>1. [i \in Slots |-> Garbage] \in [Slots -> Run]
    BY NewRunType
  <1>2. Owned([i \in Slots |-> Garbage], -1)
    <2>1. Garbage.mem # "owned"
      BY DEF Garbage
    <2>2. \A k \in Slots : ~(k <= -1)
      BY SlotFacts
    <2>3. QED
      BY <2>1, <2>2 DEF Owned
  <1>3. "" \in Hosts /\ "" \in Words
    <2>1. NoClient.host = "" /\ NoName.word = ""
      BY DEF NoClient, NoName
    <2>2. NoClient.host \in Hosts /\ NoName.word \in Words
      BY DEF Hosts, Words
    <2>3. QED
      BY <2>1, <2>2, Zenon
  <1>4. -1 \in -1..(MaxTestRuns - 1)
    BY SlotFacts
  <1>5. QED
    BY <1>1, <1>2, <1>3, <1>4, Zenon

\* The empty sequence is a sequence over any set.
LEMMA EmptyIsSeq == \A S : <<>> \in Seq(S)
  OBVIOUS

\* The invariant holds before main() looks at its arguments.
LEMMA StatsInit == Init => StatsInv
  <1> SUFFICES ASSUME Init PROVE StatsInv
    OBVIOUS
  <1>1. TypeOK
    <2>1. reports = <<>> /\ log = <<>> /\ reports \in Seq(Report)
              /\ log \in Seq([stamp : Nat, body : Body])
      BY EmptyIsSeq, Zenon DEF Init
    <2>2. data \in [Slots -> Run] /\ index \in -1..(MaxTestRuns - 1)
              /\ hostname \in Hosts /\ test \in Words
      BY FreshTypes DEF Init
    <2>3. heading \in [client : AnyClient, test : AnyName]
      BY DEF Init, AnyClient, AnyName
    <2>4. QED
      BY <2>1, <2>2, <2>3 DEF Init, TypeOK
  <1>2. SlotsOwned
    BY DEF Init, SlotsOwned
  <1>3. QED
    BY <1>1, <1>2 DEF StatsInv

\* A line changes the names stdout shows only by showing those it announces.
LEMMA HeadingType ==
  ASSUME TypeOK, NEW b \in Bodies, NEW step \in StampSteps, Line(b, step)
  PROVE  heading' \in [client : AnyClient, test : AnyName]
  <1>1. heading \in [client : AnyClient, test : AnyName]
    BY DEF TypeOK
  <1>2. b.who \in AnyClient /\ b.name \in AnyName
    BY DEF Bodies, Body, AnyClient, AnyName
  <1>3. CASE TestClient(b) \/ TestBegin(b)
    BY <1>1, <1>2, <1>3 DEF TestClient, TestBegin
  <1>4. CASE TestEnded
    BY <1>1, <1>4 DEF TestEnded
  <1>5. CASE UNCHANGED nameVars
    BY <1>1, <1>5 DEF nameVars
  <1>6. QED
    BY <1>3, <1>4, <1>5
    DEF Line, TestEndPrints, TestEndExtracts, TestEndCannotCreate, TestEndNoArch,
        TestRunBegin, TestRunEnd, OtherTag, SampleSkipped, SampleRecorded,
        SampleOutOfBounds, SampleNoMemory

\* A step that reads a line.
LEMMA LineStep ==
  ASSUME StatsInv, NEW b \in Bodies, NEW step \in StampSteps, Line(b, step)
  PROVE  StatsInv'
  <1>1. TypeOK /\ ReadLine(b, step)
    BY DEF StatsInv, Line
  <1>2. /\ b.y \in Int
        /\ b.who.host \in Hosts /\ b.name.word \in Words
        /\ b.tag = "TEST_CLIENT" => b.who.arch \in Archs
        /\ opts' \subseteq Options /\ files' \in 0..MaxFiles
        /\ stamp' \in Nat
        /\ start_secs' \in Nat \cup {-1}
        /\ log' \in Seq([stamp : Nat, body : Body])
        /\ sec \in Int
        /\ pc = "reading"
    BY <1>1, LineType
  <1>3. Owned(data, index)
    BY <1>2 DEF StatsInv, SlotsOwned, Owned
  <1> SUFFICES /\ pc' \in {"reading", "eof", "undefined"}
               /\ index' \in -1..(MaxTestRuns - 1)
               /\ state' \subseteq {"TEST_BEGIN", "TEST_RUN_BEGIN"}
               /\ data' \in [Slots -> Run]
               /\ hostname' \in Hosts /\ arch' \in Archs \cup {"?"} /\ test' \in Words
               /\ reports' \in Seq(Report)
               /\ Owned(data', index')
    BY <1>1, <1>2, HeadingType DEF StatsInv, TypeOK, SlotsOwned, Owned
  <1>4. /\ index \in -1..(MaxTestRuns - 1)
        /\ state \subseteq {"TEST_BEGIN", "TEST_RUN_BEGIN"}
        /\ data \in [Slots -> Run]
        /\ hostname \in Hosts /\ arch \in Archs \cup {"?"} /\ test \in Words
        /\ reports \in Seq(Report)
    BY <1>1 DEF TypeOK
  <1>5. CASE TestClient(b)
    BY <1>2, <1>3, <1>4, <1>5 DEF TestClient, scanVars
  <1>6. CASE TestBegin(b)
    BY <1>2, <1>3, <1>4, <1>6 DEF TestBegin
  <1>7. ASSUME TestEnded, reports' \in Seq(Report)
        PROVE  /\ pc' = "reading"
               /\ index' \in -1..(MaxTestRuns - 1)
               /\ state' \subseteq {"TEST_BEGIN", "TEST_RUN_BEGIN"}
               /\ data' \in [Slots -> Run]
               /\ hostname' \in Hosts /\ arch' \in Archs \cup {"?"} /\ test' \in Words
               /\ reports' \in Seq(Report)
               /\ Owned(data', index')
    <2>1. /\ data' = data_free(data, index + 1) /\ index' = -1
          /\ hostname' = "" /\ test' = "" /\ arch' = arch /\ pc' = pc
          /\ state' = state \ {"TEST_BEGIN"}
      BY <1>7 DEF TestEnded
    <2>2. data' \in [Slots -> Run] /\ Owned(data', index')
      BY <2>1, <1>3, <1>4, FreeType
    <2>3. QED
      BY <2>1, <2>2, <1>2, <1>4, <1>7, FreshTypes
  <1>8. CASE TestEndPrints(b)
    <2>1. data_analyse(<<>>, data, index + 1) \in Report
      BY <1>1, ReportType
    <2>2. reports' \in Seq(Report)
      BY <2>1, <1>4, <1>8 DEF TestEndPrints
    <2>3. QED
      BY <2>2, <1>7, <1>8 DEF TestEndPrints
  <1>9. CASE TestEndExtracts(b)
    <2>1. OutputName \in Hosts \X Words \X Archs
      BY <1>4, <1>9 DEF OutputName, TestEndExtracts
    <2>2. data_analyse(OutputName, data, index + 1) \in Report
      BY <2>1, <1>1, ReportType
    <2>3. reports' \in Seq(Report)
      BY <2>2, <1>4, <1>9 DEF TestEndExtracts
    <2>4. QED
      BY <2>3, <1>7, <1>9 DEF TestEndExtracts
  <1>10. CASE TestEndCannotCreate(b)
    BY <1>4, <1>7, <1>10 DEF TestEndCannotCreate
  <1>11. CASE TestEndNoArch(b)
    BY <1>3, <1>4, <1>11 DEF TestEndNoArch, scanVars, nameVars
  <1>12. CASE TestRunBegin(b)
    <2> DEFINE r == test_run_begin(state, index, data)
    <2>1. /\ r.state \in SUBSET {"TEST_BEGIN", "TEST_RUN_BEGIN"}
          /\ r.index \in -1..(MaxTestRuns - 1)
          /\ r.data \in [Slots -> Run]
          /\ Owned(r.data, r.index)
      BY <1>3, <1>4, BeginType
    <2>2. state' = r.state /\ index' = r.index /\ data' = r.data
      BY <1>12 DEF TestRunBegin
    <2>3. UNCHANGED <<pc, hostname, arch, test, reports>>
      BY <1>12 DEF TestRunBegin, nameVars
    <2> HIDE DEF r
    <2>4. QED
      BY <2>1, <2>2, <2>3, <1>2, <1>4
  <1>13. CASE TestRunEnd(b)
    BY <1>2, <1>3, <1>4, <1>13 DEF TestRunEnd, test_run_end, nameVars
  <1>14. CASE OtherTag(b)
    BY <1>2, <1>3, <1>4, <1>14 DEF OtherTag, scanVars, nameVars
  <1>15. CASE SampleSkipped(b)
    BY <1>2, <1>3, <1>4, <1>15 DEF SampleSkipped, scanVars, nameVars
  <1>16. /\ AtSample.state \in SUBSET {"TEST_BEGIN", "TEST_RUN_BEGIN"}
         /\ AtSample.index \in -1..(MaxTestRuns - 1)
         /\ AtSample.data \in [Slots -> Run]
         /\ Owned(AtSample.data, AtSample.index)
    BY <1>1, <1>3, AtSampleType
  <1>17. CASE SampleRecorded(b)
    <2> DEFINE d == AtSample.data
               i == AtSample.index
    <2>1. /\ i >= 0
          /\ state' = AtSample.state /\ index' = i
          /\ data' = [d EXCEPT ![i] = AddPoint(d[i], sec, b.y)]
          /\ UNCHANGED <<pc, hostname, arch, test, reports>>
      BY <1>17 DEF SampleRecorded, nameVars
    <2>2. d \in [Slots -> Run] /\ i \in -1..(MaxTestRuns - 1) /\ Owned(d, i)
      BY <1>16
    <2> HIDE DEF d, i
    <2>3. i \in Slots
      BY <2>1, <2>2, SlotFacts
    <2>4. AddPoint(d[i], sec, b.y) \in Run /\ AddPoint(d[i], sec, b.y).mem = d[i].mem
      BY <2>2, <2>3, <1>2, AddPointType
    <2>5. data' \in [Slots -> Run]
      BY <2>1, <2>2, <2>3, <2>4
    <2>6. ASSUME NEW k \in Slots
          PROVE  data'[k].mem = d[k].mem
      BY <2>1, <2>2, <2>3, <2>4
    <2>7. Owned(data', index')
      BY <2>1, <2>2, <2>6 DEF Owned
    <2>8. QED
      BY <2>1, <2>2, <2>5, <2>7, <1>2, <1>4, <1>16
  <1>18. CASE SampleOutOfBounds(b)
    BY <1>3, <1>4, <1>18 DEF SampleOutOfBounds, scanVars, nameVars
  <1>19. CASE SampleNoMemory(b)
    <2>1. /\ state' = AtSample.state /\ index' = AtSample.index
          /\ data' = AtSample.data /\ pc' = "eof"
          /\ UNCHANGED <<hostname, arch, test, reports>>
      BY <1>19 DEF SampleNoMemory, nameVars
    <2>2. QED
      BY <2>1, <1>4, <1>16
  <1>20. QED
    BY <1>5, <1>6, <1>8, <1>9, <1>10, <1>11, <1>12, <1>13, <1>14, <1>15, <1>17,
       <1>18, <1>19 DEF Line

\* Every step of main() and of data_parse() preserves the invariant.
LEMMA StatsStep == StatsInv /\ [Next]_vars => StatsInv'
  <1> SUFFICES ASSUME StatsInv, [Next]_vars
               PROVE  StatsInv'
    OBVIOUS
  <1>1. ASSUME NEW o \in OptionSets, Getopt(o)
        PROVE  StatsInv'
    <2>1. opts' \subseteq Options
      BY <1>1, StatsConstants DEF Getopt, Options
    <2>2. QED
      BY <1>1, <2>1 DEF Getopt, StatsInv, TypeOK, SlotsOwned, scanVars, nameVars
  <1>2. CASE ShowHelp
    BY <1>2 DEF ShowHelp, StatsInv, TypeOK, SlotsOwned, scanVars, nameVars
  <1>3. CASE OpenFile
    <2>1. /\ pc' = "reading" /\ files' = files - 1 /\ files > 0
          /\ index' = -1 /\ state' = {} /\ data' = [i \in Slots |-> Garbage]
          /\ start_secs' = -1 /\ hostname' = "" /\ arch' = "?" /\ test' = ""
          /\ stamp' = 0 /\ log' = <<>>
          /\ opts' = opts /\ heading' = heading /\ reports' = reports
      BY <1>3 DEF OpenFile
    <2>2. data' \in [Slots -> Run] /\ Owned(data', index')
      BY <2>1, FreshTypes
    <2>3. index' \in -1..(MaxTestRuns - 1) /\ hostname' \in Hosts /\ test' \in Words
      BY <2>1, FreshTypes
    <2>4. files' \in 0..MaxFiles
      <3>1. files \in 0..MaxFiles
        BY DEF StatsInv, TypeOK
      <3>2. MaxFiles \in Nat
        BY StatsConstants
      <3>3. files > 0 /\ files' = files - 1
        BY <2>1
      <3>4. QED
        BY <3>1, <3>2, <3>3
    <2>5. log' \in Seq([stamp : Nat, body : Body])
      BY <2>1, EmptyIsSeq, Zenon
    <2>6. TypeOK'
      BY <2>1, <2>2, <2>3, <2>4, <2>5 DEF StatsInv, TypeOK
    <2>7. SlotsOwned'
      BY <2>2 DEF SlotsOwned, Owned
    <2>8. QED
      BY <2>6, <2>7 DEF StatsInv
  <1>4. CASE OpenFails
    <2>1. files' \in 0..MaxFiles
      BY <1>4, StatsConstants DEF OpenFails, StatsInv, TypeOK
    <2>2. QED
      BY <1>4, <2>1 DEF OpenFails, StatsInv, TypeOK, SlotsOwned, scanVars, nameVars
  <1>5. CASE CloseFile
    <2>1. data_analyse(<<>>, data, index + 1) \in Report
      BY ReportType DEF StatsInv
    <2>2. reports' \in Seq(Report) /\ state' \subseteq {"TEST_BEGIN", "TEST_RUN_BEGIN"}
      <3>1. reports \in Seq(Report) /\ state \subseteq {"TEST_BEGIN", "TEST_RUN_BEGIN"}
        BY DEF StatsInv, TypeOK
      <3>2. \/ reports' = reports /\ state' = state
            \/ /\ reports' = Append(reports, data_analyse(<<>>, data, index + 1))
               /\ state' = state \ {"TEST_RUN_BEGIN"}
        BY <1>5 DEF CloseFile, test_run_end
      <3> DEFINE r == data_analyse(<<>>, data, index + 1)
      <3> HIDE DEF r
      <3>3. r \in Report
        BY <2>1 DEF r
      <3>4. Append(reports, r) \in Seq(Report)
        BY <3>1, <3>3
      <3>5. QED
        BY <3>1, <3>2, <3>4 DEF r
    <2>3. pc' = "main" /\ UNCHANGED <<opts, files, index, data, start_secs,
                                      hostname, arch, test, heading, stamp, log>>
      BY <1>5 DEF CloseFile, nameVars
    <2>4. QED
      BY <2>2, <2>3 DEF StatsInv, TypeOK, SlotsOwned
  <1>6. CASE Exit
    BY <1>6 DEF Exit, StatsInv, TypeOK, SlotsOwned, scanVars, nameVars
  <1>7. ASSUME NEW b \in Bodies, NEW step \in StampSteps, Line(b, step)
        PROVE  StatsInv'
    BY <1>7, LineStep
  <1>8. CASE UNCHANGED vars
    BY <1>8 DEF vars, StatsInv, TypeOK, SlotsOwned, scanVars, nameVars
  <1>9. QED
    BY <1>1, <1>2, <1>3, <1>4, <1>5, <1>6, <1>7, <1>8 DEF Next

\* Both halves of the invariant hold in every state of every execution.
LEMMA StatsInvariant == Spec => []StatsInv
  BY StatsInit, StatsStep, PTL DEF Spec

\* Every variable of data_parse() keeps its type; index never leaves data[].
THEOREM StatsTypeCorrect == Spec => []TypeOK
  BY StatsInvariant, PTL DEF StatsInv

\* Whatever the log says, no list of points leaks at a TEST_END, is freed twice or
\* is written after it was freed.
THEOREM StatsSlotsOwned == Spec => []SlotsOwned
  BY StatsInvariant, PTL DEF StatsInv

-----------------------------------------------------------------------------
(* data_parse() is defined on bracketed logs *)

\* Reading a line adds its position to those of its tag, and to no others.
LEMMA AtGrows ==
  ASSUME TypeOK, NEW b \in Bodies, NEW step \in StampSteps, ReadLine(b, step),
         NEW tag
  PROVE  /\ Len(log) \in Nat /\ Len(log') = Len(log) + 1
         /\ \A i : i \in At(tag) => i \in 1..Len(log)
         /\ \A i : i \in At(tag)' <=> i \in At(tag) \/ (i = Len(log) + 1 /\ b.tag = tag)
  <1> DEFINE l == [stamp |-> stamp', body |-> b]
  <1>1. log \in Seq([stamp : Nat, body : Body]) /\ log' = Append(log, l)
    BY DEF TypeOK, ReadLine
  <1>2. l.body.tag = b.tag
    OBVIOUS
  <1> HIDE DEF l
  <1>3. l \in [stamp : Nat, body : Body]
    BY LineType DEF l
  <1>4. Len(log) \in Nat /\ Len(log') = Len(log) + 1
    BY <1>1, <1>3
  <1>5. \A i \in 1..Len(log) : log'[i] = log[i]
    BY <1>1, <1>3
  <1>6. log'[Len(log) + 1] = l
    BY <1>1, <1>3
  <1>7. \A i : i \in 1..Len(log') <=> i \in 1..Len(log) \/ i = Len(log) + 1
    BY <1>4
  <1>8. QED
    BY <1>2, <1>4, <1>5, <1>6, <1>7 DEF At

\* Lines already read decide whether a run was open at them.
LEMMA OpenStable ==
  ASSUME TypeOK, NEW b \in Bodies, NEW step \in StampSteps, ReadLine(b, step),
         NEW i \in 1..(Len(log) + 1), OpenAt(i)
  PROVE  OpenAt(i)'
  <1>1. Len(log) \in Nat
    BY AtGrows
  <1>2. PICK p \in At("TEST_RUN_BEGIN") :
          p < i /\ \A e \in At("TEST_RUN_END") : e < i => e < p
    BY DEF OpenAt
  <1>3. p \in At("TEST_RUN_BEGIN")'
    BY AtGrows
  <1>4. ASSUME NEW e \in At("TEST_RUN_END")', e < i
        PROVE  e < p
    <2>1. e \in At("TEST_RUN_END") \/ e = Len(log) + 1
      BY AtGrows
    <2>2. e # Len(log) + 1
      BY <1>1, <1>4
    <2>3. QED
      BY <1>2, <1>4, <2>1, <2>2
  <1>5. QED
    BY <1>2, <1>3, <1>4 DEF OpenAt

\* A run that is open stays open over a line that is not a TEST_RUN_END.
LEMMA OpenNext ==
  ASSUME TypeOK, NEW b \in Bodies, NEW step \in StampSteps, ReadLine(b, step),
         b.tag # "TEST_RUN_END",
         OpenAt(Len(log) + 1) \/ b.tag = "TEST_RUN_BEGIN"
  PROVE  OpenAt(Len(log) + 1)'
  <1>1. Len(log) \in Nat /\ \A e \in At("TEST_RUN_END")' : e \in At("TEST_RUN_END")
    BY AtGrows
  <1>a. \A e \in At("TEST_RUN_END") : e \in 1..Len(log)
    BY AtGrows
  <1>2. CASE b.tag = "TEST_RUN_BEGIN"
    <2>1. Len(log) + 1 \in At("TEST_RUN_BEGIN")'
      BY <1>2, AtGrows
    <2>2. \A e \in At("TEST_RUN_END")' : e < Len(log) + 1
      BY <1>1, <1>a
    <2>3. Len(log') = Len(log) + 1
      BY AtGrows
    <2>4. QED
      BY <2>1, <2>2, <2>3, <1>1 DEF OpenAt
  <1>3. CASE OpenAt(Len(log) + 1)
    <2>1. PICK p \in At("TEST_RUN_BEGIN") :
            /\ p < Len(log) + 1
            /\ \A e \in At("TEST_RUN_END") : e < Len(log) + 1 => e < p
      BY <1>3 DEF OpenAt
    <2>2. p \in At("TEST_RUN_BEGIN")' /\ p \in 1..Len(log)
      BY AtGrows
    <2>3. \A e \in At("TEST_RUN_END")' : e < p
      BY <1>1, <1>a, <2>1
    <2>4. Len(log') = Len(log) + 1
      BY AtGrows
    <2>5. QED
      BY <2>1, <2>2, <2>3, <2>4, <1>1 DEF OpenAt
  <1>4. QED
    BY <1>2, <1>3

\* Why an open run and index = -1 never meet on a bracketed log: the bit says the
\* log has an open run, and only a TEST_END read in that state resets index and
\* leaves the bit.
RunTracked ==
  (pc \in {"reading", "eof"} /\ "a" \notin opts) =>
    /\ "TEST_RUN_BEGIN" \in state => OpenAt(Len(log) + 1)
    /\ ("TEST_RUN_BEGIN" \in state /\ index < 0) =>
         \E e \in At("TEST_END") : OpenAt(e)
    /\ arch = "?" => At("TEST_CLIENT") = {}

DefinedInv == StatsInv /\ RunTracked /\ DefinedOnBracketedLogs

\* Reading a line keeps track of the open run and, while the log stays bracketed,
\* does not lead outside data[] or to an unset pointer.
LEMMA DefinedLine ==
  ASSUME DefinedInv, NEW b \in Bodies, NEW step \in StampSteps, Line(b, step)
  PROVE  RunTracked' /\ DefinedOnBracketedLogs'
  <1>1. TypeOK /\ ReadLine(b, step) /\ pc = "reading" /\ opts' = opts
    BY DEF DefinedInv, StatsInv, Line, ReadLine
  <1> SUFFICES ASSUME "a" \notin opts
               PROVE  /\ pc' # "undefined" =>
                           /\ "TEST_RUN_BEGIN" \in state' => OpenAt(Len(log) + 1)'
                           /\ ("TEST_RUN_BEGIN" \in state' /\ index' < 0) =>
                                (\E e \in At("TEST_END") : OpenAt(e))'
                           /\ arch' = "?" => At("TEST_CLIENT")' = {}
                      /\ pc' = "undefined" => ~Bracketed'
    BY <1>1 DEF RunTracked, DefinedOnBracketedLogs
  <1>2. /\ "TEST_RUN_BEGIN" \in state => OpenAt(Len(log) + 1)
        /\ ("TEST_RUN_BEGIN" \in state /\ index < 0) => \E e \in At("TEST_END") : OpenAt(e)
        /\ arch = "?" => At("TEST_CLIENT") = {}
    BY <1>1 DEF DefinedInv, RunTracked
  <1>3. (\E e \in At("TEST_END") : OpenAt(e)) => (\E e \in At("TEST_END") : OpenAt(e))'
    <2> SUFFICES ASSUME NEW e \in At("TEST_END"), OpenAt(e)
                 PROVE  (\E f \in At("TEST_END") : OpenAt(f))'
      OBVIOUS
    <2>1. Len(log) \in Nat /\ e \in 1..Len(log) /\ e \in At("TEST_END")'
      BY <1>1, AtGrows
    <2>2. e \in 1..(Len(log) + 1)
      BY <2>1
    <2>3. OpenAt(e)'
      BY <1>1, <2>2, OpenStable
    <2>4. QED
      BY <2>1, <2>3
  <1>4. "TEST_RUN_BEGIN" \in state /\ b.tag # "TEST_RUN_END" => OpenAt(Len(log) + 1)'
    BY <1>1, <1>2, OpenNext
  <1>5. At("TEST_CLIENT") = {} /\ b.tag # "TEST_CLIENT" => At("TEST_CLIENT")' = {}
    BY <1>1, AtGrows
  <1>6. AtSample.state = state /\ AtSample.index = index /\ AtSample.data = data
    BY DEF AtSample
  <1>7. CASE TestClient(b)
    <2>1. arch' \in Archs /\ arch' # "?"
      BY <1>1, <1>7, LineType DEF TestClient, Archs
    <2>2. UNCHANGED <<pc, state, index>> /\ b.tag = "TEST_CLIENT"
      BY <1>7 DEF TestClient, scanVars
    <2>3. QED
      BY <2>1, <2>2, <1>1, <1>2, <1>3, <1>4
  <1>8. CASE TestBegin(b)
    <2>1. /\ UNCHANGED <<pc, index, arch>> /\ b.tag = "TEST_BEGIN"
          /\ "TEST_RUN_BEGIN" \in state' => "TEST_RUN_BEGIN" \in state
      BY <1>8 DEF TestBegin
    <2>2. QED
      BY <2>1, <1>1, <1>2, <1>3, <1>4, <1>5
  <1>9. ASSUME TestEnded, b.tag = "TEST_END"
        PROVE  /\ pc' # "undefined"
               /\ "TEST_RUN_BEGIN" \in state' => OpenAt(Len(log) + 1)'
               /\ "TEST_RUN_BEGIN" \in state' => (\E e \in At("TEST_END") : OpenAt(e))'
               /\ arch' = "?" => At("TEST_CLIENT")' = {}
    <2>1. /\ pc' = pc /\ arch' = arch
          /\ "TEST_RUN_BEGIN" \in state' => "TEST_RUN_BEGIN" \in state
      BY <1>9 DEF TestEnded
    <2>2. ASSUME "TEST_RUN_BEGIN" \in state
          PROVE  (\E e \in At("TEST_END") : OpenAt(e))'
      <3> DEFINE n == Len(log) + 1
      <3>1. n \in 1..(Len(log) + 1) /\ n \in At("TEST_END")'
        BY <1>1, <1>9, AtGrows
      <3>2. OpenAt(n)
        BY <1>2, <2>2
      <3>3. \A i \in 1..(Len(log) + 1) : OpenAt(i) => OpenAt(i)'
        BY <1>1, OpenStable
      <3> QED
        BY <3>1, <3>2, <3>3
    <2>3. QED
      BY <2>1, <2>2, <1>1, <1>2, <1>4, <1>5, <1>9
  <1>10. CASE TestEndPrints(b) \/ TestEndExtracts(b) \/ TestEndCannotCreate(b)
    BY <1>9, <1>10 DEF TestEndPrints, TestEndExtracts, TestEndCannotCreate
  <1>11. CASE TestEndNoArch(b)
    <2>1. b.tag = "TEST_END" /\ "x" \in opts' /\ arch = "?" /\ pc' = "undefined"
      BY <1>1, <1>11 DEF TestEndNoArch
    <2>2. At("TEST_CLIENT")' = {} /\ \E e : e \in At("TEST_END")'
      BY <1>1, <1>2, <1>5, <2>1, AtGrows
    <2>3. ~Bracketed'
      BY <2>1, <2>2 DEF Bracketed
    <2>4. QED
      BY <2>1, <2>3
  <1>12. CASE TestRunBegin(b)
    <2> DEFINE r == test_run_begin(state, index, data)
    <2>1. r.index >= 0 /\ r.index \in -1..(MaxTestRuns - 1)
      BY <1>1, BeginType DEF TypeOK
    <2>2. index' >= 0 /\ index' \in Int
      <3>1. index' = r.index
        BY <1>12 DEF TestRunBegin
      <3> HIDE DEF r
      <3>2. QED
        BY <2>1, <3>1, SlotFacts
    <2> HIDE DEF r
    <2>3. OpenAt(Len(log) + 1)' /\ UNCHANGED <<pc, arch>> /\ b.tag = "TEST_RUN_BEGIN"
      BY <1>1, <1>12, OpenNext DEF TestRunBegin, nameVars
    <2>4. QED
      BY <2>2, <2>3, <1>1, <1>2, <1>5
  <1>13. CASE TestRunEnd(b)
    <2>1. /\ "TEST_RUN_BEGIN" \notin state' /\ UNCHANGED <<pc, arch>>
          /\ b.tag = "TEST_RUN_END"
      BY <1>13 DEF TestRunEnd, test_run_end, nameVars
    <2>2. QED
      BY <2>1, <1>1, <1>2, <1>5
  <1>14. CASE OtherTag(b) \/ SampleSkipped(b)
    <2>1. /\ UNCHANGED <<pc, state, index, arch>>
          /\ b.tag \in {"OTHER", "SAMPLE"}
      BY <1>14 DEF OtherTag, SampleSkipped, scanVars, nameVars
    <2>2. QED
      BY <2>1, <1>1, <1>2, <1>3, <1>4, <1>5
  <1>15. CASE SampleRecorded(b) \/ SampleNoMemory(b)
    <2>1. /\ pc' # "undefined" /\ b.tag = "SAMPLE"
          /\ state' = state /\ index' = index /\ arch' = arch
      BY <1>1, <1>6, <1>15 DEF SampleRecorded, SampleNoMemory, nameVars
    <2>2. QED
      BY <2>1, <1>2, <1>3, <1>4, <1>5
  <1>16. CASE SampleOutOfBounds(b)
    <2>1. "TEST_RUN_BEGIN" \in state /\ index < 0 /\ pc' = "undefined"
      BY <1>6, <1>16 DEF SampleOutOfBounds
    <2>2. (\E e \in At("TEST_END") : OpenAt(e))'
      BY <2>1, <1>2, <1>3
    <2>3. ~Bracketed'
      BY <2>2 DEF Bracketed
    <2>4. QED
      BY <2>1, <2>3
  <1>17. QED
    BY <1>7, <1>8, <1>10, <1>11, <1>12, <1>13, <1>14, <1>15, <1>16 DEF Line

\* Every step of main() and of data_parse() preserves the stronger invariant.
LEMMA DefinedStep == DefinedInv /\ [Next]_vars => DefinedInv'
  <1> SUFFICES ASSUME DefinedInv, [Next]_vars
               PROVE  DefinedInv'
    OBVIOUS
  <1>1. StatsInv'
    BY StatsStep DEF DefinedInv
  <1> SUFFICES RunTracked' /\ DefinedOnBracketedLogs'
    BY <1>1 DEF DefinedInv
  <1>2. CASE \E o \in OptionSets : Getopt(o)
    BY <1>2 DEF Getopt, RunTracked, DefinedOnBracketedLogs
  <1>3. CASE ShowHelp \/ OpenFails \/ CloseFile \/ Exit
    <2>1. pc' = "main" \/ pc' = "exited"
      BY <1>3 DEF ShowHelp, OpenFails, CloseFile, Exit
    <2>2. QED
      BY <2>1 DEF RunTracked, DefinedOnBracketedLogs
  <1>4. CASE OpenFile
    <2>1. pc' = "reading" /\ state' = {} /\ log' = <<>>
      BY <1>4 DEF OpenFile
    <2>2. At("TEST_CLIENT")' = {}
      <3>1. Len(log') = 0
        BY <2>1
      <3>2. 1..Len(log') = {}
        BY <3>1
      <3>3. QED
        BY <3>2 DEF At
    <2>3. QED
      BY <2>1, <2>2 DEF RunTracked, DefinedOnBracketedLogs
  <1>5. CASE \E b \in Bodies, step \in StampSteps : Line(b, step)
    BY <1>5, DefinedLine
  <1>6. CASE UNCHANGED vars
    BY <1>6 DEF vars, scanVars, nameVars, DefinedInv, RunTracked, DefinedOnBracketedLogs,
                Bracketed, OpenAt, At
  <1>7. QED
    BY <1>2, <1>3, <1>4, <1>5, <1>6 DEF Next

\* On every log, of any length, whose tests end with no run open (and, with -x,
\* after a client was named), statstool never indexes outside data[] nor uses an
\* uninitialised pointer.
THEOREM StatsDefined == Spec => []DefinedOnBracketedLogs
  <1>1. Init => DefinedInv
    BY StatsInit DEF Init, DefinedInv, RunTracked, DefinedOnBracketedLogs
  <1>2. DefinedInv => DefinedOnBracketedLogs
    BY DEF DefinedInv
  <1>3. QED
    BY <1>1, <1>2, DefinedStep, PTL DEF Spec

-----------------------------------------------------------------------------
(* The abstract log *)

Lists == Seq(Seq(Point))

\* The first n runs of a table, as lists of points.
LEMMA PointsInType ==
  ASSUME NEW d \in [Slots -> Run], NEW n \in 0..MaxTestRuns
  PROVE  /\ PointsIn(d, n) \in Lists
         /\ Len(PointsIn(d, n)) = n
         /\ \A i \in 1..n : PointsIn(d, n)[i] = d[i - 1].points
  <1>1. n \in Nat
    BY SlotFacts
  <1>2. \A i \in 1..n : d[i - 1].points \in Seq(Point)
    BY SlotFacts DEF Run
  <1>3. QED
    BY <1>1, <1>2 DEF PointsIn, Lists

\* No runs are no lists.
LEMMA PointsInNone ==
  ASSUME NEW d \in [Slots -> Run]
  PROVE  PointsIn(d, 0) = <<>>
  <1>1. 0 \in 0..MaxTestRuns
    BY SlotFacts
  <1>2. PointsIn(d, 0) \in Lists /\ Len(PointsIn(d, 0)) = 0
    BY <1>1, PointsInType
  <1>3. QED
    BY <1>2, EmptyIsSeq DEF Lists

\* test_run_begin() refuses, and changes nothing, or opens a run with no samples
\* after the ones there are.
LEMMA BeginLists ==
  ASSUME NEW s \in SUBSET {"TEST_BEGIN", "TEST_RUN_BEGIN"},
         NEW i \in -1..(MaxTestRuns - 1),
         NEW d \in [Slots -> Run]
  PROVE  LET r == test_run_begin(s, i, d)
         IN \/ r = [state |-> s, index |-> i, data |-> d]
            \/ /\ i + 1 < MaxTestRuns
               /\ "TEST_RUN_BEGIN" \in r.state /\ r.index = i + 1
               /\ r.data = [d EXCEPT ![i + 1] = NewRun]
               /\ PointsIn(r.data, r.index + 1) = Append(PointsIn(d, i + 1), <<>>)
  <1> DEFINE r == test_run_begin(s, i, d)
             e == [d EXCEPT ![i + 1] = NewRun]
  <1>1. CASE i + 1 >= MaxTestRuns
    BY <1>1 DEF test_run_begin
  <1>2. CASE ~(i + 1 >= MaxTestRuns)
    <2>1. r = [state |-> s \cup {"TEST_RUN_BEGIN"}, index |-> i + 1, data |-> e]
      BY <1>2 DEF test_run_begin
    <2>2. /\ i + 1 \in Slots /\ i + 1 \in 0..MaxTestRuns /\ i + 2 \in 0..MaxTestRuns
          /\ i + 1 < MaxTestRuns
      BY <1>2, SlotFacts
    <2>3. e \in [Slots -> Run]
      BY <2>2, NewRunType
    <2>4. e[i + 1].points = <<>> /\ \A k \in 1..(i + 1) : e[k - 1].points = d[k - 1].points
      BY <2>2, SlotFacts DEF NewRun
    <2> DEFINE p == PointsIn(e, i + 2)
               q == PointsIn(d, i + 1)
    <2>5. /\ p \in Lists /\ Len(p) = i + 2
          /\ \A k \in 1..(i + 2) : p[k] = e[k - 1].points
      BY <2>2, <2>3, PointsInType
    <2>6. /\ q \in Lists /\ Len(q) = i + 1
          /\ \A k \in 1..(i + 1) : q[k] = d[k - 1].points
      BY <2>2, PointsInType
    <2> HIDE DEF p, q, e
    <2>7. <<>> \in Seq(Point)
      BY EmptyIsSeq
    <2>8. /\ Append(q, <<>>) \in Lists /\ Len(Append(q, <<>>)) = i + 2
          /\ \A k \in 1..(i + 1) : Append(q, <<>>)[k] = q[k]
          /\ Append(q, <<>>)[i + 2] = <<>>
      BY <2>6, <2>7, AppendProperties DEF Lists
    <2>9. p = Append(q, <<>>)
      <3>1. ASSUME NEW k \in 1..(i + 2) PROVE p[k] = Append(q, <<>>)[k]
        <4>1. CASE k = i + 2
          BY <4>1, <2>2, <2>4, <2>5, <2>8
        <4>2. CASE k # i + 2
          <5>1. k \in 1..(i + 1)
            BY <4>2
          <5>2. QED
            BY <5>1, <2>4, <2>5, <2>6, <2>8
        <4>3. QED
          BY <4>1, <4>2
      <3>2. QED
        BY <3>1, <2>5, <2>8, SeqEqual DEF Lists
    <2>10. /\ r.data = e /\ r.index = i + 1 /\ r.index + 1 = i + 2
           /\ "TEST_RUN_BEGIN" \in r.state
      <3> HIDE DEF r
      <3> QED
        BY <2>1
    <2>11. PointsIn(r.data, r.index + 1) = Append(PointsIn(d, i + 1), <<>>)
      <3> HIDE DEF r
      <3> QED
        BY <2>9, <2>10 DEF p, q
    <2>12. QED
      BY <2>2, <2>10, <2>11 DEF e
  <1>3. QED
    BY <1>1, <1>2

\* A report holds the points of the runs it was written of.
LEMMA ReportLists ==
  ASSUME TypeOK, NEW to
  PROVE  PointsOut(data_analyse(to, data, index + 1)) = PointsIn(data, index + 1)
  <1> DEFINE r == data_analyse(to, data, index + 1)
             n == index + 1
  <1>1. n \in Nat /\ \A i \in 1..n : data[i - 1] \in Run
    BY SlotFacts DEF TypeOK
  <1>2. r.runs = [i \in 1..n |-> data[i - 1]]
    BY DEF data_analyse
  <1> HIDE DEF r, n
  <1>3. Len(r.runs) = n
    BY <1>1, <1>2
  <1>4. \A i \in 1..n : r.runs[i].points = data[i - 1].points
    BY <1>2
  <1>5. QED
    BY <1>3, <1>4 DEF PointsOut, PointsIn, r, n

\* Reports, as the lists of points they hold.
LEMMA WrittenType ==
  ASSUME NEW rs \in Seq(Report)
  PROVE  /\ Written(rs) \in Seq(Lists)
         /\ Len(Written(rs)) = Len(rs)
         /\ \A i \in 1..Len(rs) : Written(rs)[i] = PointsOut(rs[i])
  <1>1. Len(rs) \in Nat
    OBVIOUS
  <1>2. ASSUME NEW i \in 1..Len(rs) PROVE PointsOut(rs[i]) \in Lists
    <2>a. rs[i] \in Report
      BY ElementOfSeq
    <2>1. rs[i].runs \in Seq(Run)
      BY <2>a DEF Report
    <2>b. \A r \in Run : r.points \in Seq(Point)
      BY DEF Run
    <2>2. \A k \in 1..Len(rs[i].runs) : rs[i].runs[k].points \in Seq(Point)
      BY <2>1, <2>b, ElementOfSeq
    <2>3. Len(rs[i].runs) \in Nat
      BY <2>1
    <2>4. QED
      BY <2>2, <2>3 DEF PointsOut, Lists
  <1>3. QED
    BY <1>1, <1>2 DEF Written

\* Writing a report appends the lists it holds.
LEMMA WrittenAppend ==
  ASSUME NEW rs \in Seq(Report), NEW r \in Report
  PROVE  Written(Append(rs, r)) = Append(Written(rs), PointsOut(r))
  <1> DEFINE n == Len(rs)
             w == Written(rs)
             v == Written(Append(rs, r))
  <1>1. /\ Append(rs, r) \in Seq(Report) /\ Len(Append(rs, r)) = n + 1 /\ n \in Nat
        /\ \A i \in 1..n : Append(rs, r)[i] = rs[i]
        /\ Append(rs, r)[n + 1] = r
    BY AppendProperties
  <1>2. /\ w \in Seq(Lists) /\ Len(w) = n
        /\ \A i \in 1..n : w[i] = PointsOut(rs[i])
    BY WrittenType
  <1>3. /\ v \in Seq(Lists) /\ Len(v) = n + 1
        /\ \A i \in 1..(n + 1) : v[i] = PointsOut(Append(rs, r)[i])
    BY <1>1, WrittenType
  <1> HIDE DEF n, w, v
  <1>4. PointsOut(r) \in Lists
    <2>1. n + 1 \in 1..Len(v)
      BY <1>1, <1>3
    <2>2. v[n + 1] \in Lists
      BY <1>3, <2>1, ElementOfSeq
    <2>3. QED
      BY <1>1, <1>3, <2>1, <2>2
  <1>5. /\ Append(w, PointsOut(r)) \in Seq(Lists) /\ Len(Append(w, PointsOut(r))) = n + 1
        /\ \A i \in 1..n : Append(w, PointsOut(r))[i] = w[i]
        /\ Append(w, PointsOut(r))[n + 1] = PointsOut(r)
    BY <1>2, <1>4, AppendProperties
  <1>6. ASSUME NEW i \in 1..(n + 1) PROVE v[i] = Append(w, PointsOut(r))[i]
    <2>1. CASE i = n + 1
      BY <2>1, <1>1, <1>3, <1>5
    <2>2. CASE i # n + 1
      <3>1. i \in 1..n
        BY <2>2, <1>1
      <3>2. QED
        BY <3>1, <1>1, <1>2, <1>3, <1>5
    <2>3. QED
      BY <2>1, <2>2
  <1>7. v = Append(w, PointsOut(r))
    BY <1>3, <1>5, <1>6, SeqEqual
  <1>8. QED
    BY <1>7 DEF w, v

\* So the report that TEST_END writes appends the runs of the test.
LEMMA ReportWritten ==
  ASSUME TypeOK, NEW to \in {<<>>} \cup (Hosts \X Words \X Archs),
         reports' = Append(reports, data_analyse(to, data, index + 1))
  PROVE  Written(reports') = Append(Written(reports), PointsIn(data, index + 1))
  <1>1. data_analyse(to, data, index + 1) \in Report
    BY ReportType
  <1>2. reports \in Seq(Report)
    BY DEF TypeOK
  <1>3. QED
    BY <1>1, <1>2, WrittenAppend, ReportLists

-----------------------------------------------------------------------------

\* Appending a point is one sample more.
LEMMA OneMoreAppend ==
  ASSUME NEW s \in Seq(Point), NEW p \in Point
  PROVE  L!OneMore(s, Append(s, p))
  <1> DEFINE t == Append(s, p)
             u == SubSeq(t, 1, Len(s))
  <1>1. /\ t \in Seq(Point) /\ Len(t) = Len(s) + 1 /\ Len(s) \in Nat
        /\ \A i \in 1..Len(s) : t[i] = s[i]
        /\ t[Len(s) + 1] = p
    BY AppendProperties
  <1> HIDE DEF t
  <1>2. \A i \in 1..Len(s) : t[i] \in Point
    BY <1>1, ElementOfSeq
  <1>3. /\ u \in Seq(Point)
        /\ Len(u) = IF 1 <= Len(s) THEN Len(s) - 1 + 1 ELSE 0
        /\ \A i \in 1..(Len(s) - 1 + 1) : u[i] = t[1 + i - 1]
    BY <1>1, <1>2, SubSeqProperties
  <1> HIDE DEF u
  <1>4. Len(u) = Len(s) /\ \A i \in 1..Len(s) : u[i] = s[i]
    BY <1>1, <1>3
  <1>5. u = s
    BY <1>3, <1>4, SeqEqual
  <1>6. QED
    BY <1>1, <1>5 DEF L!OneMore, t, u

\* Table e is table d with a sample added to run i.
Added(d, e, i, x, y) ==
  e[i] = AddPoint(d[i], x, y) /\ \A k \in Slots : k # i => e[k] = d[k]

\* The lists of e are those of d, the last with one sample more.
LastGrew(d, e, i) ==
  LET p == PointsIn(d, i + 1)
      q == PointsIn(e, i + 1)
  IN /\ Len(p) = i + 1 /\ Len(q) = i + 1
     /\ \A k \in 1..i : q[k] = p[k]
     /\ L!OneMore(p[i + 1], q[i + 1])

\* A sample added to run i is one sample more in its list, and in no other.
LEMMA AddLists ==
  ASSUME NEW d \in [Slots -> Run], NEW e \in [Slots -> Run],
         NEW i \in Slots, NEW x \in Int, NEW y \in Int,
         Added(d, e, i, x, y)
  PROVE  LastGrew(d, e, i)
  <1> DEFINE p == PointsIn(d, i + 1)
             q == PointsIn(e, i + 1)
             pt == [x |-> x, y |-> y]
  <1>1. i \in Nat /\ i + 1 \in 0..MaxTestRuns /\ \A k \in 1..i : k - 1 \in Slots /\ k - 1 # i
    BY SlotFacts
  <1>3. pt \in Point /\ d[i].points \in Seq(Point)
    BY DEF Point, Run
  <1>4. AddPoint(d[i], x, y).points = Append(d[i].points, pt)
    BY DEF AddPoint, data_append_point, Run
  <1>5. e[i].points = Append(d[i].points, pt) /\ \A k \in 1..i : e[k - 1] = d[k - 1]
    BY <1>1, <1>4 DEF Added
  <1> HIDE DEF pt
  <1>6. /\ Len(p) = i + 1 /\ Len(q) = i + 1
        /\ \A k \in 1..(i + 1) : p[k] = d[k - 1].points /\ q[k] = e[k - 1].points
    BY <1>1, PointsInType
  <1> HIDE DEF p, q
  <1>7. p[i + 1] = d[i].points /\ q[i + 1] = e[i].points
    BY <1>1, <1>6
  <1>8. L!OneMore(p[i + 1], q[i + 1])
    BY <1>3, <1>5, <1>7, OneMoreAppend
  <1>9. ASSUME NEW k \in 1..i PROVE q[k] = p[k]
    <2>1. k \in 1..(i + 1)
      BY <1>1
    <2>2. p[k] = d[k - 1].points /\ q[k] = e[k - 1].points
      BY <1>6, <2>1
    <2>3. e[k - 1] = d[k - 1]
      BY <1>5
    <2>4. QED
      BY <2>2, <2>3
  <1>10. QED
    BY <1>6, <1>8, <1>9 DEF p, q, LastGrew

\* The initial states.
LEMMA LogStart == Init => L!LogInit
  <1> SUFFICES ASSUME Init PROVE L!LogInit
    OBVIOUS
  <1>a. index = -1 /\ reports = <<>> /\ state = {} /\ data = [i \in Slots |-> Garbage]
    BY DEF Init
  <1>b. data \in [Slots -> Run]
    BY <1>a, FreshTypes
  <1>1. data \in [Slots -> Run] /\ index + 1 = 0 /\ reports = <<>> /\ state = {}
    BY <1>a, <1>b
  <1>2. PointsIn(data, index + 1) = <<>>
    BY <1>1, PointsInNone
  <1>3. Written(reports) = <<>>
    <2>1. reports \in Seq(Report) /\ Len(reports) = 0
      BY <1>1, EmptyIsSeq
    <2>2. Written(reports) \in Seq(Lists) /\ Len(Written(reports)) = 0
      BY <2>1, WrittenType
    <2>3. QED
      BY <2>2
  <1>4. QED
    BY <1>1, <1>2, <1>3 DEF L!LogInit

\* A step that leaves the table, its length, the open bit and the reports alone.
LEMMA LogStutters ==
  ASSUME UNCHANGED <<index, data, reports>>,
         ("TEST_RUN_BEGIN" \in state') = ("TEST_RUN_BEGIN" \in state)
  PROVE  UNCHANGED L!logVars
  BY DEF L!logVars

\* The end of a test: its runs are gone, whether they were written or not.
LEMMA LogEndTest ==
  ASSUME StatsInv, StatsInv', TestEnded,
         \/ UNCHANGED reports
         \/ \E to \in {<<>>} \cup (Hosts \X Words \X Archs) :
              reports' = Append(reports, data_analyse(to, data, index + 1))
  PROVE  L!EndTest
  <1>a. index' = -1 /\ state' = state \ {"TEST_BEGIN"}
    BY DEF TestEnded
  <1>b. TypeOK'
    BY DEF StatsInv
  <1>1. data' \in [Slots -> Run] /\ index' + 1 = 0
    BY <1>a, <1>b DEF TypeOK
  <1>2. PointsIn(data', index' + 1) = <<>>
    BY <1>1, PointsInNone
  <1>3. ("TEST_RUN_BEGIN" \in state') = ("TEST_RUN_BEGIN" \in state)
    BY <1>a
  <1>4. \/ Written(reports') = Written(reports)
        \/ Written(reports') = Append(Written(reports), PointsIn(data, index + 1))
    BY ReportWritten DEF StatsInv
  <1>5. QED
    BY <1>2, <1>3, <1>4 DEF L!EndTest

\* test_run_begin() as a step of its own.
LEMMA LogBegin ==
  ASSUME StatsInv,
         state' = test_run_begin(state, index, data).state,
         index' = test_run_begin(state, index, data).index,
         data' = test_run_begin(state, index, data).data,
         UNCHANGED reports
  PROVE  L!BeginRun \/ UNCHANGED L!logVars
  <1> DEFINE r == test_run_begin(state, index, data)
  <1>1. /\ state \in SUBSET {"TEST_BEGIN", "TEST_RUN_BEGIN"}
        /\ index \in -1..(MaxTestRuns - 1) /\ data \in [Slots -> Run]
        /\ index + 1 \in 0..MaxTestRuns
    BY SlotFacts DEF StatsInv, TypeOK
  <1>2. CASE r = [state |-> state, index |-> index, data |-> data]
    <2>1. state' = state /\ index' = index /\ data' = data
      BY <1>2
    <2>2. QED
      BY <2>1, LogStutters
  <1>3. CASE r # [state |-> state, index |-> index, data |-> data]
    <2>1. /\ index + 1 < MaxTestRuns
          /\ "TEST_RUN_BEGIN" \in r.state
          /\ PointsIn(r.data, r.index + 1) = Append(PointsIn(data, index + 1), <<>>)
      BY <1>1, <1>3, BeginLists
    <2>2. Len(PointsIn(data, index + 1)) < MaxTestRuns
      BY <1>1, <2>1, PointsInType
    <2>3. QED
      BY <2>1, <2>2 DEF L!BeginRun
  <1>4. QED
    BY <1>2, <1>3

\* A sample that is recorded joins the latest run, or opens one of its own.
LEMMA LogSample ==
  ASSUME StatsInv, NEW b \in Bodies, NEW step \in StampSteps,
         ReadLine(b, step), SampleRecorded(b)
  PROVE  L!AddSample \/ L!AddOpening
  <1>1. /\ state \in SUBSET {"TEST_BEGIN", "TEST_RUN_BEGIN"}
        /\ index \in -1..(MaxTestRuns - 1) /\ data \in [Slots -> Run]
        /\ index + 1 \in 0..MaxTestRuns
    BY SlotFacts DEF StatsInv, TypeOK
  <1>2. sec \in Int /\ b.y \in Int
    BY LineType DEF StatsInv
  <1>3. /\ "TEST_RUN_BEGIN" \in AtSample.state /\ AtSample.index >= 0
        /\ state' = AtSample.state /\ index' = AtSample.index
        /\ data' = [AtSample.data EXCEPT ![AtSample.index] = AddPoint(@, sec, b.y)]
        /\ reports' = reports
    BY DEF SampleRecorded
  <1> DEFINE p == PointsIn(data, index + 1)
             q == PointsIn(data', index' + 1)
  <1>4. p \in Lists /\ Len(p) = index + 1
    BY <1>1, PointsInType
  <1>5. CASE ~("a" \in opts /\ "TEST_RUN_BEGIN" \notin state)
    <2>1. AtSample = [state |-> state, index |-> index, data |-> data]
      BY <1>5 DEF AtSample
    <2>2. /\ "TEST_RUN_BEGIN" \in state /\ index \in Slots
          /\ state' = state /\ index' = index
          /\ data' = [data EXCEPT ![index] = AddPoint(@, sec, b.y)]
      BY <1>1, <1>3, <2>1, SlotFacts
    <2>a. data' \in [Slots -> Run] /\ Added(data, data', index, sec, b.y)
      BY <1>1, <1>2, <2>2, AddPointType DEF Added
    <2>b. LastGrew(data, data', index)
      BY <1>1, <1>2, <2>2, <2>a, AddLists
    <2>3. /\ Len(q) = index + 1
          /\ \A k \in 1..index : q[k] = p[k]
          /\ L!OneMore(p[index + 1], q[index + 1])
      BY <2>2, <2>b DEF LastGrew
    <2> HIDE DEF p, q
    <2>4. p # <<>> /\ Len(p) - 1 = index
      BY <1>1, <1>4, <2>2, SlotFacts
    <2>5. /\ Len(q) = Len(p)
          /\ \A k \in 1..(Len(p) - 1) : q[k] = p[k]
          /\ L!OneMore(p[Len(p)], q[Len(p)])
      BY <1>4, <2>3, <2>4
    <2>6. QED
      BY <1>3, <2>2, <2>4, <2>5 DEF L!AddSample, p, q
  <1>6. CASE "a" \in opts /\ "TEST_RUN_BEGIN" \notin state
    <2> DEFINE r == test_run_begin(state, index, data)
    <2>1. AtSample = r
      BY <1>6 DEF AtSample
    <2>2. r # [state |-> state, index |-> index, data |-> data]
      BY <1>3, <1>6, <2>1
    <2>3. /\ index + 1 < MaxTestRuns /\ r.index = index + 1
          /\ r.data = [data EXCEPT ![index + 1] = NewRun]
          /\ PointsIn(r.data, r.index + 1) = Append(p, <<>>)
      BY <1>1, <2>2, BeginLists
    <2> HIDE DEF r
    <2>4. index + 1 \in Slots /\ r.data \in [Slots -> Run]
      BY <1>1, <2>3, NewRunType, SlotFacts
    <2>5. /\ index' = index + 1
          /\ data' = [r.data EXCEPT ![index + 1] = AddPoint(@, sec, b.y)]
      BY <1>3, <2>1, <2>3
    <2> DEFINE j == index + 1
               m == PointsIn(r.data, j + 1)
    <2>a. /\ j \in Slots /\ j \in Nat /\ Len(p) = j
          /\ r.index = j /\ index' = j
          /\ data' = [r.data EXCEPT ![j] = AddPoint(@, sec, b.y)]
      BY <1>4, <2>3, <2>4, <2>5, SlotFacts
    <2> HIDE DEF j
    <2>6. m = Append(p, <<>>)
      BY <2>3, <2>a
    <2>7. /\ Len(q) = j + 1
          /\ \A k \in 1..j : q[k] = m[k]
          /\ L!OneMore(m[j + 1], q[j + 1])
      <3>1. data' \in [Slots -> Run] /\ Added(r.data, data', j, sec, b.y)
        BY <1>2, <2>4, <2>a, AddPointType DEF Added
      <3>2. LastGrew(r.data, data', j)
        BY <1>2, <2>4, <2>a, <3>1, AddLists
      <3>3. QED
        BY <2>a, <3>2 DEF LastGrew
    <2> HIDE DEF p, q, m
    <2>8. /\ \A k \in 1..j : m[k] = p[k]
          /\ m[j + 1] = <<>>
      <3>1. <<>> \in Seq(Point)
        BY EmptyIsSeq
      <3>2. /\ \A k \in 1..Len(p) : Append(p, <<>>)[k] = p[k]
            /\ Append(p, <<>>)[Len(p) + 1] = <<>>
        BY <1>4, <3>1, AppendProperties DEF Lists
      <3>3. QED
        BY <2>a, <2>6, <3>2
    <2>9. /\ Len(q) = Len(p) + 1 /\ Len(p) < MaxTestRuns
          /\ \A k \in 1..Len(p) : q[k] = p[k]
          /\ L!OneMore(<<>>, q[Len(q)])
      BY <2>3, <2>a, <2>7, <2>8 DEF j
    <2>10. QED
      BY <1>3, <1>6, <2>9 DEF L!AddOpening, p, q
  <1>7. QED
    BY <1>5, <1>6

\* Every line read is a step of RunLog or none.
LEMMA LogLine ==
  ASSUME StatsInv, NEW b \in Bodies, NEW step \in StampSteps, Line(b, step)
  PROVE  L!LogNext \/ UNCHANGED L!logVars
  <1>1. ReadLine(b, step) /\ StatsInv'
    BY LineStep DEF Line
  <1>2. CASE \/ TestClient(b) \/ TestEndNoArch(b) \/ OtherTag(b)
             \/ SampleSkipped(b) \/ SampleOutOfBounds(b)
    <2>1. UNCHANGED <<index, data, reports, state>>
      BY <1>2 DEF TestClient, TestEndNoArch, OtherTag, SampleSkipped, SampleOutOfBounds,
                  scanVars
    <2>2. QED
      BY <2>1, LogStutters
  <1>3. CASE TestBegin(b)
    <2>1. UNCHANGED <<index, data, reports>> /\ state' = state \cup {"TEST_BEGIN"}
      BY <1>3 DEF TestBegin
    <2>2. ("TEST_RUN_BEGIN" \in state') = ("TEST_RUN_BEGIN" \in state)
      BY <2>1
    <2>3. QED
      BY <2>1, <2>2, LogStutters
  <1>4. CASE TestEndPrints(b)
    <2>1. TestEnded /\ reports' = Append(reports, data_analyse(<<>>, data, index + 1))
      BY <1>4 DEF TestEndPrints
    <2>2. QED
      BY <1>1, <2>1, LogEndTest DEF L!LogNext
  <1>5. CASE TestEndExtracts(b)
    <2>1. /\ TestEnded /\ arch # "?"
          /\ reports' = Append(reports, data_analyse(OutputName, data, index + 1))
      BY <1>5 DEF TestEndExtracts
    <2>2. OutputName \in Hosts \X Words \X Archs
      BY <2>1 DEF StatsInv, TypeOK, OutputName
    <2>3. QED
      BY <1>1, <2>1, <2>2, LogEndTest DEF L!LogNext
  <1>6. CASE TestEndCannotCreate(b)
    <2>1. TestEnded /\ UNCHANGED reports
      BY <1>6 DEF TestEndCannotCreate
    <2>2. QED
      BY <1>1, <2>1, LogEndTest DEF L!LogNext
  <1>7. CASE TestRunBegin(b)
    <2>1. L!BeginRun \/ UNCHANGED L!logVars
      BY <1>7, LogBegin DEF TestRunBegin
    <2>2. QED
      BY <2>1 DEF L!LogNext
  <1>8. CASE TestRunEnd(b)
    <2>1. UNCHANGED <<index, data, reports>> /\ "TEST_RUN_BEGIN" \notin state'
      BY <1>8 DEF TestRunEnd, test_run_end
    <2>2. L!EndRun
      BY <2>1 DEF L!EndRun
    <2>3. QED
      BY <2>2 DEF L!LogNext
  <1>9. CASE SampleRecorded(b)
    <2>1. L!AddSample \/ L!AddOpening
      BY <1>1, <1>9, LogSample
    <2>2. QED
      BY <2>1 DEF L!LogNext
  <1>10. CASE SampleNoMemory(b)
    <2>1. /\ state' = AtSample.state /\ index' = AtSample.index /\ data' = AtSample.data
          /\ UNCHANGED reports
      BY <1>10 DEF SampleNoMemory
    <2>2. CASE "a" \in opts /\ "TEST_RUN_BEGIN" \notin state
      <3>1. AtSample = test_run_begin(state, index, data)
        BY <2>2 DEF AtSample
      <3>2. L!BeginRun \/ UNCHANGED L!logVars
        BY <2>1, <3>1, LogBegin
      <3>3. QED
        BY <3>2 DEF L!LogNext
    <2>3. CASE ~("a" \in opts /\ "TEST_RUN_BEGIN" \notin state)
      <3>1. AtSample = [state |-> state, index |-> index, data |-> data]
        BY <2>3 DEF AtSample
      <3>2. UNCHANGED <<index, data, reports, state>>
        BY <2>1, <3>1
      <3>3. QED
        BY <3>2, LogStutters
    <2>4. QED
      BY <2>2, <2>3
  <1>11. QED
    BY <1>2, <1>3, <1>4, <1>5, <1>6, <1>7, <1>8, <1>9, <1>10 DEF Line

\* Every step of statstool is a step of RunLog or none.
LEMMA LogStep ==
  StatsInv /\ [Next]_vars => [L!LogNext]_(L!logVars)
  <1> SUFFICES ASSUME StatsInv, [Next]_vars
               PROVE  L!LogNext \/ UNCHANGED L!logVars
    OBVIOUS
  <1>1. CASE \/ UNCHANGED vars \/ ShowHelp \/ OpenFails \/ Exit
             \/ \E o \in OptionSets : Getopt(o)
    <2>1. UNCHANGED <<index, data, reports, state>>
      BY <1>1 DEF vars, scanVars, ShowHelp, OpenFails, Exit, Getopt
    <2>2. QED
      BY <2>1, LogStutters
  <1>2. CASE OpenFile
    <2>1. /\ index' = -1 /\ state' = {} /\ reports' = reports
          /\ data' = [i \in Slots |-> Garbage]
      BY <1>2 DEF OpenFile
    <2>2. data' \in [Slots -> Run]
      BY <2>1, FreshTypes
    <2>a. index' + 1 = 0
      BY <2>1
    <2>3. PointsIn(data', index' + 1) = <<>>
      BY <2>2, <2>a, PointsInNone
    <2>4. L!NewLog
      BY <2>1, <2>3 DEF L!NewLog
    <2>5. QED
      BY <2>4 DEF L!LogNext
  <1>3. CASE CloseFile
    <2>1. index' = index /\ data' = data
      BY <1>3 DEF CloseFile
    <2>2. CASE "a" \in opts /\ "TEST_RUN_BEGIN" \in state
      <3>1. /\ "TEST_RUN_BEGIN" \notin state'
            /\ reports' = Append(reports, data_analyse(<<>>, data, index + 1))
        BY <1>3, <2>2 DEF CloseFile, test_run_end
      <3>2. Written(reports') = Append(Written(reports), PointsIn(data, index + 1))
        BY <3>1, ReportWritten DEF StatsInv
      <3>3. L!EndLog
        BY <2>1, <2>2, <3>1, <3>2 DEF L!EndLog
      <3>4. QED
        BY <3>3 DEF L!LogNext
    <2>3. CASE ~("a" \in opts /\ "TEST_RUN_BEGIN" \in state)
      <3>1. UNCHANGED <<index, data, reports, state>>
        BY <1>3, <2>1, <2>3 DEF CloseFile
      <3>2. QED
        BY <3>1, LogStutters
    <2>4. QED
      BY <2>2, <2>3
  <1>4. ASSUME NEW b \in Bodies, NEW step \in StampSteps, Line(b, step)
        PROVE  L!LogNext \/ UNCHANGED L!logVars
    BY <1>4, LogLine
  <1>5. QED
    BY <1>1, <1>2, <1>3, <1>4 DEF Next

\* statstool implements RunLog: whatever lines it reads, runs are opened, filled,
\* ended and written out as they are there, up to MAX_TEST_RUNS of them, and no
\* run of one test or file gets into the report of another.
THEOREM StatsImplementsRunLog == Spec => ImplementsRunLog
  <1>1. Init => L!LogInit
    BY LogStart
  <1>2. StatsInv /\ [Next]_vars => [L!LogNext]_(L!logVars)
    BY LogStep
  <1>3. QED
    BY <1>1, <1>2, StatsInvariant, PTL DEF Spec, ImplementsRunLog, L!LogSpec

=============================================================================
