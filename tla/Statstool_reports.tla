------------------------- MODULE Statstool_reports --------------------------
(***************************************************************************)
(* What the reports of Statstool say of the log, for every log of any      *)
(* length: the names they carry, the extrema and the samples of the runs.  *)
(***************************************************************************)
EXTENDS Statstool_proofs, FiniteSetTheorems, WellFoundedInduction

-----------------------------------------------------------------------------
(* Sets of positions *)

\* Naturals that are some have a least.
LEMMA LeastExists ==
  ASSUME NEW S \in SUBSET Nat, S # {}
  PROVE  \E m \in S : \A j \in S : m <= j
  <1> DEFINE R == OpToRel(<, Nat)
  <1>1. IsWellFoundedOn(R, Nat)
    BY NatLessThanWellFounded
  <1>2. \A x, y \in Nat : <<y, x>> \in R <=> y < x
    BY DEF OpToRel
  <1> HIDE DEF R
  <1>3. PICK x \in S : \A y \in S : ~(<<y, x>> \in R)
    BY <1>1, WFMin
  <1>4. \A y \in S : y \in Nat /\ x \in Nat /\ ~(y < x)
    BY <1>2, <1>3
  <1>5. QED
    BY <1>4

\* And a greatest, if they are bounded.
LEMMA GreatestExists ==
  ASSUME NEW n \in Nat, NEW S \in SUBSET (0..n), S # {}
  PROVE  \E m \in S : \A j \in S : j <= m
  <1> DEFINE T == {j \in 0..n : n - j \in S}
  <1>1. T \in SUBSET Nat /\ T # {}
    <2>1. PICK i : i \in S
      OBVIOUS
    <2>2. n - i \in 0..n /\ n - (n - i) = i
      BY <2>1
    <2>3. n - i \in T
      BY <2>1, <2>2
    <2>4. \A j \in 0..n : j \in Nat
      OBVIOUS
    <2>5. QED
      BY <2>3, <2>4
  <1>2. PICK m \in T : \A j \in T : m <= j
    <2> HIDE DEF T
    <2> QED
      BY <1>1, LeastExists
  <1>3. ASSUME NEW j \in S PROVE j <= n - m
    <2>1. j \in 0..n /\ n - j \in 0..n /\ n - (n - j) = j
      OBVIOUS
    <2>2. n - j \in T
      BY <2>1
    <2>3. m <= n - j /\ m \in 0..n
      BY <1>2, <2>2
    <2>4. QED
      BY <2>1, <2>3
  <1>4. QED
    BY <1>2, <1>3

\* The latest of some positions is one of them, and none is later.
LEMMA LatestIs ==
  ASSUME NEW n \in Nat, NEW S \in SUBSET (1..n)
  PROVE  /\ Latest(S) \in 0..n
         /\ \A j \in S : j <= Latest(S)
         /\ IF S = {} THEN Latest(S) = 0 ELSE Latest(S) \in S
  <1>1. CASE S = {}
    BY <1>1 DEF Latest
  <1>2. CASE S # {}
    <2>1. S \in SUBSET (0..n)
      OBVIOUS
    <2>2. \E m \in S : \A j \in S : j <= m
      BY <1>2, <2>1, GreatestExists
    <2>3. Max(S) \in S /\ \A j \in S : j <= Max(S)
      <3>1. \A m, j \in S : j <= m <=> m >= j
        OBVIOUS
      <3>2. \E m \in S : \A j \in S : m >= j
        BY <2>2, <3>1
      <3>3. Max(S) \in S /\ \A j \in S : Max(S) >= j
        BY <3>2 DEF Max
      <3>4. QED
        BY <3>1, <3>3
    <2>4. Latest(S) = Max(S)
      BY <1>2 DEF Latest
    <2>5. QED
      BY <1>2, <2>1, <2>3, <2>4
  <1>3. QED
    BY <1>1, <1>2

\* The latest of some positions and a later one.
LEMMA LatestOfMore ==
  ASSUME NEW S \in SUBSET Int, NEW n \in Int, \A i \in S : i < n
  PROVE  Latest(S \cup {n}) = n
  <1> DEFINE T == S \cup {n}
  <1>1. n \in T /\ \A y \in T : n >= y
    OBVIOUS
  <1>2. \A x \in T : (\A y \in T : x >= y) => x = n
    OBVIOUS
  <1>3. Max(T) = n
    <2> HIDE DEF T
    <2>1. Max(T) \in T /\ \A y \in T : Max(T) >= y
      BY <1>1 DEF Max
    <2>2. QED
      BY <1>2, <2>1
  <1>4. QED
    BY <1>3 DEF Latest

\* The lines read before this one keep their place.
LEMMA LogGrows ==
  ASSUME TypeOK, NEW b \in Bodies, NEW step \in StampSteps, ReadLine(b, step)
  PROVE  /\ Len(log) \in Nat /\ Len(log') = Len(log) + 1
         /\ \A i \in 1..Len(log) : log'[i] = log[i]
         /\ log'[Len(log) + 1] = [stamp |-> stamp', body |-> b]
  <1> DEFINE l == [stamp |-> stamp', body |-> b]
  <1>1. log \in Seq([stamp : Nat, body : Body]) /\ log' = Append(log, l)
    BY DEF TypeOK, ReadLine
  <1>2. l \in [stamp : Nat, body : Body]
    BY LineType
  <1> HIDE DEF l
  <1>3. QED
    BY <1>1, <1>2 DEF l

\* The place of the line that is read next.
Here == Len(log) + 1

\* What a line changes of where the test started, and of its latest tags: the test
\* starts anew after a TEST_END, and a tag is the latest of its kind.
LEMMA SectionGrows ==
  ASSUME TypeOK, NEW b \in Bodies, NEW step \in StampSteps, ReadLine(b, step),
         SectionStart(Here) \in 0..Len(log),
         NEW tag
  PROVE  /\ SectionStart(Here)' = IF b.tag = "TEST_END" THEN Here ELSE SectionStart(Here)
         /\ SectionStart(Len(log))' = SectionStart(Here)
         /\ LastIn(tag, Len(log))' = LastIn(tag, Here)
         /\ LastIn(tag, Here)' = IF b.tag = "TEST_END" THEN 0
                                 ELSE IF b.tag = tag THEN Here ELSE LastIn(tag, Here)
  <1>a. /\ Len(log) \in Nat /\ Len(log') = Here
        /\ Here \in Int /\ Here \in Nat /\ Here' = Here + 1
    BY AtGrows DEF Here
  <1>b. /\ \A i : i \in At(tag) => i \in 1..Len(log) /\ i \in Int /\ i < Here
        /\ \A i : i \in At(tag)' <=> i \in At(tag) \/ (i = Here /\ b.tag = tag)
    BY <1>a, AtGrows DEF Here
  <1>1. /\ \A i : i \in At("TEST_END") => i \in 1..Len(log) /\ i \in Int /\ i < Here
        /\ \A i : i \in At("TEST_END")' <=>
                     i \in At("TEST_END") \/ (i = Here /\ b.tag = "TEST_END")
    BY <1>a, AtGrows DEF Here
  <1>2. SectionStart(Len(log))' = SectionStart(Here)
    <2>1. {e \in At("TEST_END")' : e < Len(log')} = {e \in At("TEST_END") : e < Here}
      BY <1>a, <1>1
    <2>2. QED
      BY <2>1 DEF SectionStart
  <1>3. LastIn(tag, Len(log))' = LastIn(tag, Here)
    <2>1. {j \in At(tag)' : SectionStart(Len(log))' < j /\ j < Len(log')}
            = {j \in At(tag) : SectionStart(Here) < j /\ j < Here}
      BY <1>a, <1>b, <1>2
    <2>2. QED
      BY <2>1 DEF LastIn
  <1>4. SectionStart(Here)' = IF b.tag = "TEST_END" THEN Here ELSE SectionStart(Here)
    <2> DEFINE S == {e \in At("TEST_END") : e < Here}
               T == {e \in At("TEST_END")' : e < Here + 1}
    <2>1. S \in SUBSET Int /\ \A i \in S : i < Here
      BY <1>1
    <2>a. SectionStart(Here) = Latest(S) /\ SectionStart(Here)' = Latest(T)
      BY <1>a DEF SectionStart, Latest
    <2>2. CASE b.tag = "TEST_END"
      <3>1. T = S \cup {Here}
        BY <1>a, <1>1, <2>2
      <3>2. Latest(T) = Here
        <4> HIDE DEF S, T
        <4>1. Latest(S \cup {Here}) = Here
          BY <1>a, <2>1, LatestOfMore
        <4>2. QED
          BY <3>1, <4>1
      <3>3. QED
        BY <2>a, <2>2, <3>2
    <2>3. CASE b.tag # "TEST_END"
      <3>1. T = S
        BY <1>a, <1>1, <2>3
      <3>2. QED
        <4> HIDE DEF S, T
        <4> QED
          BY <2>a, <2>3, <3>1
    <2>4. QED
      BY <2>2, <2>3
  <1>5. LastIn(tag, Here)' =
          IF b.tag = "TEST_END" THEN 0
          ELSE IF b.tag = tag THEN Here ELSE LastIn(tag, Here)
    <2> DEFINE S == {j \in At(tag) : SectionStart(Here) < j /\ j < Here}
               T == {j \in At(tag)' : SectionStart(Here)' < j /\ j < Here'}
    <2>1. LastIn(tag, Here) = Latest(S) /\ LastIn(tag, Here)' = Latest(T)
      BY DEF LastIn, Latest
    <2>2. CASE b.tag = "TEST_END"
      <3>1. T = {}
        BY <1>a, <1>b, <1>4, <2>2
      <3>2. QED
        BY <2>1, <2>2, <3>1 DEF Latest
    <2>3. CASE b.tag # "TEST_END" /\ b.tag = tag
      <3>a. S \in SUBSET Int /\ \A i \in S : i < Here
        BY <1>b
      <3>b. SectionStart(Here)' = SectionStart(Here) /\ SectionStart(Here) < Here
        BY <1>4, <2>3 DEF Here
      <3>c. \A i : i \in T <=> i \in S \cup {Here}
        BY <1>a, <1>b, <2>3, <3>b
      <3>1. T = S \cup {Here} /\ S \in SUBSET Int /\ \A i \in S : i < Here
        <4> HIDE DEF S, T
        <4> QED
          BY <3>a, <3>c
      <3>2. Latest(T) = Here
        <4> HIDE DEF S, T
        <4>1. Latest(S \cup {Here}) = Here
          BY <1>a, <3>1, LatestOfMore
        <4>2. QED
          BY <3>1, <4>1
      <3> HIDE DEF S, T
      <3>3. QED
        BY <2>1, <2>3, <3>2
    <2>4. CASE b.tag # "TEST_END" /\ b.tag # tag
      <3>1. T = S
        BY <1>a, <1>b, <1>4, <2>4
      <3> HIDE DEF S, T
      <3>2. QED
        BY <2>1, <2>4, <3>1
    <2>5. QED
      BY <2>2, <2>3, <2>4
  <1>6. QED
    BY <1>2, <1>3, <1>4, <1>5

-----------------------------------------------------------------------------
(* The names *)

\* hostname, arch and test are what the test being read has announced last, and
\* empty if it has not: TEST_END forgets them.  (arch, which it does not forget, is
\* what the client named last, if any.)  Without -x stdout shows what it announced.
NamesTracked ==
  pc = "reading" =>
    LET c == LastIn("TEST_CLIENT", Here)
        t == LastIn("TEST_BEGIN", Here)
    IN /\ SectionStart(Here) \in 0..Len(log)
       /\ c \in 0..Len(log) /\ t \in 0..Len(log)
       /\ hostname = (IF c = 0 THEN "" ELSE log[c].body.who.host)
       /\ c # 0 => arch = log[c].body.who.arch
       /\ test = (IF t = 0 THEN "" ELSE log[t].body.name.word)
       /\ "x" \notin opts => /\ c # 0 => heading.client = log[c].body.who
                             /\ t # 0 => heading.test = log[t].body.name

NamesInv == StatsInv /\ NamesTracked

\* What a line does to the names, when data_parse() goes on after it.
LEMMA LineNames ==
  ASSUME TypeOK, NEW b \in Bodies, NEW step \in StampSteps, Line(b, step), pc' = "reading"
  PROVE  /\ b.tag = "TEST_CLIENT" =>
              hostname' = b.who.host /\ arch' = b.who.arch /\ test' = test
         /\ b.tag = "TEST_BEGIN" =>
              hostname' = hostname /\ arch' = arch /\ test' = b.name.word
         /\ b.tag = "TEST_END" =>
              hostname' = "" /\ arch' = arch /\ test' = ""
         /\ b.tag \notin {"TEST_CLIENT", "TEST_BEGIN", "TEST_END"} => UNCHANGED nameVars
  BY DEF Line, TestClient, TestBegin, TestEndPrints, TestEndExtracts, TestEndCannotCreate,
         TestEndNoArch, TestRunBegin, TestRunEnd, OtherTag, SampleSkipped, SampleRecorded,
         SampleOutOfBounds, SampleNoMemory, TestEnded, nameVars

\* What it shows on stdout.
LEMMA LineHeading ==
  ASSUME TypeOK, NEW b \in Bodies, NEW step \in StampSteps, Line(b, step), pc' = "reading",
         "x" \notin opts
  PROVE  /\ heading'.client = IF b.tag = "TEST_CLIENT" THEN b.who ELSE heading.client
         /\ heading'.test = IF b.tag = "TEST_BEGIN" THEN b.name ELSE heading.test
  <1>1. heading \in [client : AnyClient, test : AnyName]
    BY DEF TypeOK
  <1>2. CASE TestClient(b)
    BY <1>1, <1>2 DEF TestClient
  <1>3. CASE TestBegin(b)
    BY <1>1, <1>3 DEF TestBegin
  <1>4. CASE ~(TestClient(b) \/ TestBegin(b))
    <2>1. heading' = heading /\ b.tag \notin {"TEST_CLIENT", "TEST_BEGIN"}
      BY <1>4 DEF Line, TestEndPrints, TestEndExtracts, TestEndCannotCreate, TestEndNoArch,
                  TestRunBegin, TestRunEnd, OtherTag, SampleSkipped, SampleRecorded,
                  SampleOutOfBounds, SampleNoMemory, TestEnded, nameVars
    <2>2. QED
      BY <2>1
  <1>5. QED
    BY <1>2, <1>3, <1>4

\* What a line does to the reports, when data_parse() goes on after it.
LEMMA LineReports ==
  ASSUME TypeOK, NEW b \in Bodies, NEW step \in StampSteps, Line(b, step), pc' = "reading"
  PROVE  \/ reports' = reports
         \/ /\ b.tag = "TEST_END"
            /\ \E to \in {<<>>} \cup (Hosts \X Words \X Archs) :
                 /\ to = <<>> <=> "x" \notin opts
                 /\ reports' = Append(reports, data_analyse(to, data, index + 1))
  <1>1. CASE TestEndPrints(b)
    BY <1>1 DEF TestEndPrints
  <1>2. CASE TestEndExtracts(b)
    <2>1. PICK to \in Hosts \X Words \X Archs : to = OutputName
      BY <1>2 DEF TestEndExtracts, OutputName, TypeOK
    <2>2. to # <<>>
      OBVIOUS
    <2>3. QED
      BY <1>2, <2>1, <2>2 DEF TestEndExtracts
  <1>3. CASE TestEndCannotCreate(b)
    BY <1>3 DEF TestEndCannotCreate
  <1>4. QED
    BY <1>1, <1>2, <1>3
    DEF Line, TestClient, TestBegin, TestEndNoArch, TestRunBegin, TestRunEnd, OtherTag,
        SampleSkipped, SampleRecorded, SampleOutOfBounds, SampleNoMemory

\* A report that is written carries the names the test announced, wherever it is
\* written to.
LEMMA NamesWritten ==
  ASSUME StatsInv, NamesTracked, pc = "reading",
         NEW b \in Bodies, NEW step \in StampSteps, ReadLine(b, step),
         NEW to \in {<<>>} \cup (Hosts \X Words \X Archs), to = <<>> <=> "x" \notin opts,
         reports' = Append(reports, data_analyse(to, data, index + 1))
  PROVE  NamedAsAnnounced'
  <1>1. TypeOK /\ opts' = opts
    BY DEF StatsInv, ReadLine
  <1>2. PICK n \in Nat : n = Len(log)
    BY <1>1, LogGrows
  <1>3. PICK c \in 0..n, t \in 0..n :
          /\ c = LastIn("TEST_CLIENT", Here) /\ t = LastIn("TEST_BEGIN", Here)
          /\ hostname = (IF c = 0 THEN "" ELSE log[c].body.who.host)
          /\ c # 0 => arch = log[c].body.who.arch
          /\ test = (IF t = 0 THEN "" ELSE log[t].body.name.word)
          /\ "x" \notin opts => /\ c # 0 => heading.client = log[c].body.who
                                /\ t # 0 => heading.test = log[t].body.name
    BY <1>2 DEF NamesTracked
  <1>4. SectionStart(Here) \in 0..Len(log)
    BY DEF NamesTracked
  <1>5. LastIn("TEST_CLIENT", Len(log))' = c /\ LastIn("TEST_BEGIN", Len(log))' = t
    BY <1>1, <1>3, <1>4, SectionGrows
  <1>6. \A i \in 1..n : log'[i].body = log[i].body
    BY <1>1, <1>2, LogGrows
  <1> DEFINE r == data_analyse(to, data, index + 1)
  <1>7. IF "x" \in opts
        THEN r.client.host = hostname /\ r.client.arch = arch /\ r.test.word = test
        ELSE r.client = heading.client /\ r.test = heading.test
    BY DEF data_analyse
  <1>8. r \in Report /\ reports \in Seq(Report)
    BY <1>1, ReportType DEF TypeOK
  <1> HIDE DEF r
  <1>9. reports'[Len(reports')] = r
    BY <1>8 DEF r
  <1>10. (c # 0 => log'[c].body = log[c].body) /\ (t # 0 => log'[t].body = log[t].body)
    BY <1>6
  <1>11. CASE "x" \in opts
    BY <1>1, <1>3, <1>5, <1>7, <1>9, <1>10, <1>11 DEF NamedAsAnnounced
  <1>12. CASE "x" \notin opts
    BY <1>1, <1>3, <1>5, <1>7, <1>9, <1>10, <1>12 DEF NamedAsAnnounced
  <1>13. QED
    BY <1>11, <1>12

LEMMA NamesLine ==
  ASSUME NamesInv, NEW b \in Bodies, NEW step \in StampSteps, Line(b, step)
  PROVE  NamesTracked'
  <1>1. TypeOK /\ ReadLine(b, step) /\ pc = "reading" /\ opts' = opts
    BY DEF NamesInv, StatsInv, Line, ReadLine
  <1> SUFFICES ASSUME pc' = "reading"
               PROVE  NamesTracked'
    BY DEF NamesTracked
  <1>n. PICK n \in Nat : n = Len(log)
    BY <1>1, LogGrows
  <1>2. PICK c \in 0..n, t \in 0..n :
          /\ n = Len(log) /\ SectionStart(Here) \in 0..n
          /\ c = LastIn("TEST_CLIENT", Here) /\ t = LastIn("TEST_BEGIN", Here)
          /\ hostname = (IF c = 0 THEN "" ELSE log[c].body.who.host)
          /\ c # 0 => arch = log[c].body.who.arch
          /\ test = (IF t = 0 THEN "" ELSE log[t].body.name.word)
          /\ "x" \notin opts => /\ c # 0 => heading.client = log[c].body.who
                                /\ t # 0 => heading.test = log[t].body.name
    BY <1>1, <1>n DEF NamesInv, NamesTracked
  <1>3. /\ SectionStart(Here)' = IF b.tag = "TEST_END" THEN n + 1 ELSE SectionStart(Here)
        /\ LastIn("TEST_CLIENT", Here)' =
             IF b.tag = "TEST_END" THEN 0 ELSE IF b.tag = "TEST_CLIENT" THEN n + 1 ELSE c
        /\ LastIn("TEST_BEGIN", Here)' =
             IF b.tag = "TEST_END" THEN 0 ELSE IF b.tag = "TEST_BEGIN" THEN n + 1 ELSE t
        /\ LastIn("TEST_CLIENT", Len(log))' = c
        /\ LastIn("TEST_BEGIN", Len(log))' = t
    <2>1. Here = n + 1
      BY <1>2 DEF Here
    <2>2. SectionStart(Here) \in 0..Len(log)
      BY <1>2
    <2>3. QED
      BY <1>1, <1>2, <2>1, <2>2, SectionGrows
  <1>4. /\ Len(log') = n + 1
        /\ \A i \in 1..n : log'[i] = log[i]
        /\ log'[n + 1] = [stamp |-> stamp', body |-> b]
    BY <1>1, <1>2, LogGrows
  <1>g. /\ \A i \in 1..n : log'[i].body = log[i].body
        /\ log'[n + 1].body = b
    BY <1>4
  <1>l. Len(log') = n + 1
    BY <1>4
  <1>5. NamesTracked'
    <2>1. PICK d \in 0..(n + 1), u \in 0..(n + 1) :
            /\ d = LastIn("TEST_CLIENT", Here)' /\ u = LastIn("TEST_BEGIN", Here)'
            /\ d = (IF b.tag = "TEST_END" THEN 0 ELSE IF b.tag = "TEST_CLIENT" THEN n + 1 ELSE c)
            /\ u = (IF b.tag = "TEST_END" THEN 0 ELSE IF b.tag = "TEST_BEGIN" THEN n + 1 ELSE t)
      BY <1>3
    <2>s. PICK s \in 0..n : s = SectionStart(Here)
      BY <1>2
    <2>2. SectionStart(Here)' \in 0..Len(log')
      <3>1. SectionStart(Here)' = (IF b.tag = "TEST_END" THEN n + 1 ELSE s)
        BY <1>3, <2>s
      <3>2. (IF b.tag = "TEST_END" THEN n + 1 ELSE s) \in 0..(n + 1)
        OBVIOUS
      <3>3. QED
        BY <3>1, <3>2, <1>l
    <2>3. /\ hostname' = (IF d = 0 THEN "" ELSE log'[d].body.who.host)
          /\ d # 0 => arch' = log'[d].body.who.arch
          /\ test' = (IF u = 0 THEN "" ELSE log'[u].body.name.word)
      <3>a. /\ c # 0 => log'[c].body = log[c].body
            /\ t # 0 => log'[t].body = log[t].body
        BY <1>g
      <3>1. CASE b.tag = "TEST_CLIENT"
        <4>1. d = n + 1 /\ u = t /\ d # 0
          BY <2>1, <3>1
        <4>2. hostname' = b.who.host /\ arch' = b.who.arch /\ test' = test
          BY <1>1, <3>1, LineNames
        <4>3. log'[d].body = b
          BY <1>g, <4>1
        <4>4. test' = (IF u = 0 THEN "" ELSE log'[u].body.name.word)
          BY <1>2, <3>a, <4>1, <4>2
        <4>5. QED
          BY <4>1, <4>2, <4>3, <4>4
      <3>2. CASE b.tag = "TEST_BEGIN"
        <4>1. d = c /\ u = n + 1 /\ u # 0
          BY <2>1, <3>2
        <4>2. hostname' = hostname /\ arch' = arch /\ test' = b.name.word
          BY <1>1, <3>2, LineNames
        <4>3. log'[u].body = b
          BY <1>g, <4>1
        <4>4. QED
          BY <1>2, <3>a, <4>1, <4>2, <4>3
      <3>3. CASE b.tag = "TEST_END"
        <4>1. d = 0 /\ u = 0
          BY <2>1, <3>3
        <4>2. hostname' = "" /\ test' = ""
          BY <1>1, <3>3, LineNames
        <4>3. QED
          BY <4>1, <4>2
      <3>4. CASE b.tag \notin {"TEST_CLIENT", "TEST_BEGIN", "TEST_END"}
        <4>1. d = c /\ u = t
          BY <2>1, <3>4
        <4>2. hostname' = hostname /\ arch' = arch /\ test' = test
          BY <1>1, <3>4, LineNames DEF nameVars
        <4>3. QED
          BY <1>2, <3>a, <4>1, <4>2
      <3>5. QED
        BY <3>1, <3>2, <3>3, <3>4
    <2>4. ASSUME "x" \notin opts'
          PROVE  /\ d # 0 => heading'.client = log'[d].body.who
                 /\ u # 0 => heading'.test = log'[u].body.name
      <3>1. "x" \notin opts
        BY <1>1, <2>4
      <3>2. /\ heading'.client = IF b.tag = "TEST_CLIENT" THEN b.who ELSE heading.client
            /\ heading'.test = IF b.tag = "TEST_BEGIN" THEN b.name ELSE heading.test
        BY <1>1, <3>1, LineHeading
      <3>3. /\ c # 0 => log'[c].body = log[c].body
            /\ t # 0 => log'[t].body = log[t].body
            /\ log'[n + 1].body = b
        BY <1>g
      <3>4. d # 0 => heading'.client = log'[d].body.who
        BY <1>2, <2>1, <3>1, <3>2, <3>3
      <3>5. u # 0 => heading'.test = log'[u].body.name
        BY <1>2, <2>1, <3>1, <3>2, <3>3
      <3>6. QED
        BY <3>4, <3>5
    <2>5. QED
      BY <1>l, <2>1, <2>2, <2>3, <2>4 DEF NamesTracked
  <1>6. QED
    BY <1>5

LEMMA NamesStep == NamesInv /\ [Next]_vars => NamesInv'
  <1> SUFFICES ASSUME NamesInv, [Next]_vars
               PROVE  NamesInv'
    OBVIOUS
  <1>1. StatsInv'
    BY StatsStep DEF NamesInv
  <1> SUFFICES NamesTracked'
    BY <1>1 DEF NamesInv
  <1>2. CASE \E o \in OptionSets : Getopt(o)
    BY <1>2 DEF Getopt, NamesTracked
  <1>3. CASE ShowHelp \/ OpenFails \/ CloseFile \/ Exit
    <2>1. pc' = "main" \/ pc' = "exited"
      BY <1>3 DEF ShowHelp, OpenFails, CloseFile, Exit
    <2>2. QED
      BY <2>1 DEF NamesTracked
  <1>4. CASE OpenFile
    <2>1. log' = <<>> /\ hostname' = "" /\ test' = ""
      BY <1>4 DEF OpenFile
    <2>2. Len(log') = 0 /\ 1..Len(log') = {}
      <3>1. Len(log') = 0
        BY <2>1
      <3>2. QED
        BY <3>1
    <2>3. /\ At("TEST_END")' = {} /\ At("TEST_CLIENT")' = {} /\ At("TEST_BEGIN")' = {}
      BY <2>2 DEF At
    <2>4. SectionStart(Here)' = 0
      BY <2>3 DEF SectionStart, Latest
    <2>5. LastIn("TEST_CLIENT", Here)' = 0 /\ LastIn("TEST_BEGIN", Here)' = 0
      BY <2>3 DEF LastIn, Latest
    <2>6. NamesTracked'
      <3>1. 0 \in 0..Len(log')
        BY <2>2
      <3>2. QED
        BY <2>1, <2>4, <2>5, <3>1 DEF NamesTracked
    <2>7. QED
      BY <2>6
  <1>5. CASE \E b \in Bodies, step \in StampSteps : Line(b, step)
    BY <1>5, NamesLine
  <1>6. CASE UNCHANGED vars
    BY <1>6 DEF vars, scanVars, nameVars, NamesInv, NamesTracked, SectionStart, LastIn,
                At, Here
  <1>7. QED
    BY <1>2, <1>3, <1>4, <1>5, <1>6 DEF Next

\* Only a line that ends a test writes a report while the log is read.
LEMMA NamesAnnounced ==
  NamesInv /\ [Next]_vars => (JustReported' /\ reports' # reports => NamedAsAnnounced')
  <1> SUFFICES ASSUME NamesInv, [Next]_vars, JustReported', reports' # reports
               PROVE  NamedAsAnnounced'
    OBVIOUS
  <1>1. pc' = "reading"
    BY DEF JustReported
  <1>2. PICK b \in Bodies, step \in StampSteps : Line(b, step)
    <2>1. ~((\E o \in OptionSets : Getopt(o)) \/ ShowHelp \/ OpenFile \/ OpenFails \/ CloseFile
              \/ Exit \/ UNCHANGED vars)
      BY <1>1 DEF Getopt, ShowHelp, OpenFile, OpenFails, CloseFile, Exit, vars
    <2>2. QED
      BY <2>1 DEF Next
  <1>3. TypeOK /\ StatsInv /\ NamesTracked /\ ReadLine(b, step) /\ pc = "reading"
    BY <1>2 DEF NamesInv, StatsInv, Line, ReadLine
  <1>4. PICK to \in {<<>>} \cup (Hosts \X Words \X Archs) :
          /\ to = <<>> <=> "x" \notin opts
          /\ reports' = Append(reports, data_analyse(to, data, index + 1))
    BY <1>1, <1>2, <1>3, LineReports
  <1>5. QED
    BY <1>3, <1>4, NamesWritten

\* On every log, of any length and order, and whatever files could not be created, a
\* report carries the names its own test announced and, with -x, none of an earlier
\* test.
THEOREM StatsAttribution == Spec => ReportAttribution
  <1>1. Init => NamesInv
    BY StatsInit DEF Init, NamesInv, NamesTracked
  <1>2. QED
    BY <1>1, NamesStep, NamesAnnounced, PTL DEF Spec, ReportAttribution

-----------------------------------------------------------------------------
(* The extrema *)

IsLeast(v, S) == v \in S /\ \A w \in S : v <= w
IsGreatest(v, S) == v \in S /\ \A w \in S : v >= w

XsOf(r) == {r.points[m].x : m \in 1..Len(r.points)}
YsOf(r) == {r.points[m].y : m \in 1..Len(r.points)}

\* The extrema of a run are those of its samples and of the values they start from.
Clamped(r) ==
  /\ IsLeast(r.x_min, XsOf(r) \cup {Big}) /\ IsGreatest(r.x_max, XsOf(r) \cup {-Big})
  /\ IsLeast(r.y_min, YsOf(r) \cup {Big}) /\ IsGreatest(r.y_max, YsOf(r) \cup {-Big})

\* One more value.
LEMMA LeastOfMore ==
  ASSUME NEW S \in SUBSET Int, NEW v \in Int, IsLeast(v, S), NEW x \in Int
  PROVE  IsLeast(Lesser(x, v), S \cup {x})
  <1>1. v \in S /\ \A w \in S : w \in Int /\ v <= w
    BY DEF IsLeast
  <1>2. CASE x < v
    BY <1>1, <1>2 DEF IsLeast, Lesser
  <1>3. CASE ~(x < v)
    BY <1>1, <1>3 DEF IsLeast, Lesser
  <1>4. QED
    BY <1>2, <1>3

LEMMA GreatestOfMore ==
  ASSUME NEW S \in SUBSET Int, NEW v \in Int, IsGreatest(v, S), NEW x \in Int
  PROVE  IsGreatest(Greater(x, v), S \cup {x})
  <1>1. v \in S /\ \A w \in S : w \in Int /\ v >= w
    BY DEF IsGreatest
  <1>2. CASE x > v
    BY <1>1, <1>2 DEF IsGreatest, Greater
  <1>3. CASE ~(x > v)
    BY <1>1, <1>3 DEF IsGreatest, Greater
  <1>4. QED
    BY <1>2, <1>3

\* The least and the greatest of a set are the ones.
LEMMA LeastIsMin ==
  ASSUME NEW S \in SUBSET Int, NEW v, IsLeast(v, S)
  PROVE  v = Min(S)
  <1>1. v \in S /\ \A w \in S : v <= w /\ w \in Int
    BY DEF IsLeast
  <1>2. Min(S) \in S /\ \A w \in S : Min(S) <= w
    BY <1>1 DEF Min
  <1>3. v <= Min(S) /\ Min(S) <= v /\ v \in Int /\ Min(S) \in Int
    BY <1>1, <1>2
  <1>4. QED
    BY <1>3

LEMMA GreatestIsMax ==
  ASSUME NEW S \in SUBSET Int, NEW v, IsGreatest(v, S)
  PROVE  v = Max(S)
  <1>1. v \in S /\ \A w \in S : v >= w /\ w \in Int
    BY DEF IsGreatest
  <1>2. Max(S) \in S /\ \A w \in S : Max(S) >= w
    BY <1>1 DEF Max
  <1>3. v >= Max(S) /\ Max(S) >= v /\ v \in Int /\ Max(S) \in Int
    BY <1>1, <1>2
  <1>4. QED
    BY <1>3

\* The samples of a run have times and readings.
LEMMA PointTypes ==
  ASSUME NEW r \in Run
  PROVE  /\ XsOf(r) \in SUBSET Int /\ YsOf(r) \in SUBSET Int
         /\ r.x_min \in Int /\ r.x_max \in Int /\ r.y_min \in Int /\ r.y_max \in Int
  <1>1. /\ r.points \in Seq(Point)
        /\ r.x_min \in Int /\ r.x_max \in Int /\ r.y_min \in Int /\ r.y_max \in Int
    BY DEF Run
  <1>2. \A m \in 1..Len(r.points) : r.points[m] \in Point
    BY <1>1, ElementOfSeq
  <1>3. \A q \in Point : q.x \in Int /\ q.y \in Int
    BY DEF Point
  <1>4. QED
    BY <1>1, <1>2, <1>3 DEF XsOf, YsOf

\* A sample adds its time and its reading.
LEMMA AddPointSets ==
  ASSUME NEW r \in Run, NEW x \in Int, NEW y \in Int
  PROVE  /\ XsOf(AddPoint(r, x, y)) = XsOf(r) \cup {x}
         /\ YsOf(AddPoint(r, x, y)) = YsOf(r) \cup {y}
         /\ AddPoint(r, x, y).x_min = Lesser(x, r.x_min)
         /\ AddPoint(r, x, y).x_max = Greater(x, r.x_max)
         /\ AddPoint(r, x, y).y_min = Lesser(y, r.y_min)
         /\ AddPoint(r, x, y).y_max = Greater(y, r.y_max)
  <1> DEFINE pt == [x |-> x, y |-> y]
             q == Append(r.points, pt)
             n == Len(r.points)
  <1>1. r.points \in Seq(Point) /\ pt \in Point /\ pt.x = x /\ pt.y = y
    BY DEF Run, Point
  <1>2. /\ AddPoint(r, x, y).points = q
        /\ AddPoint(r, x, y).x_min = Lesser(x, r.x_min)
        /\ AddPoint(r, x, y).x_max = Greater(x, r.x_max)
        /\ AddPoint(r, x, y).y_min = Lesser(y, r.y_min)
        /\ AddPoint(r, x, y).y_max = Greater(y, r.y_max)
    BY DEF AddPoint, data_append_point, Run
  <1> HIDE DEF pt
  <1>3. /\ n \in Nat /\ Len(q) = n + 1 /\ q[n + 1] = pt
        /\ \A m \in 1..n : q[m] = r.points[m]
    BY <1>1, AppendProperties
  <1> HIDE DEF q, n
  <1>4. {q[m].x : m \in 1..Len(q)} = {r.points[m].x : m \in 1..n} \cup {x}
    BY <1>1, <1>3
  <1>5. {q[m].y : m \in 1..Len(q)} = {r.points[m].y : m \in 1..n} \cup {y}
    BY <1>1, <1>3
  <1>6. QED
    BY <1>2, <1>4, <1>5 DEF XsOf, YsOf, n

LEMMA AddPointClamped ==
  ASSUME NEW r \in Run, Clamped(r), NEW x \in Int, NEW y \in Int
  PROVE  Clamped(AddPoint(r, x, y))
  <1> DEFINE e == AddPoint(r, x, y)
  <1>1. /\ XsOf(r) \cup {Big} \in SUBSET Int /\ XsOf(r) \cup {-Big} \in SUBSET Int
        /\ YsOf(r) \cup {Big} \in SUBSET Int /\ YsOf(r) \cup {-Big} \in SUBSET Int
        /\ r.x_min \in Int /\ r.x_max \in Int /\ r.y_min \in Int /\ r.y_max \in Int
    BY PointTypes, SlotFacts
  <1>2. /\ IsLeast(Lesser(x, r.x_min), (XsOf(r) \cup {Big}) \cup {x})
        /\ IsLeast(Lesser(y, r.y_min), (YsOf(r) \cup {Big}) \cup {y})
    BY <1>1, LeastOfMore DEF Clamped
  <1>3. /\ IsGreatest(Greater(x, r.x_max), (XsOf(r) \cup {-Big}) \cup {x})
        /\ IsGreatest(Greater(y, r.y_max), (YsOf(r) \cup {-Big}) \cup {y})
    BY <1>1, GreatestOfMore DEF Clamped
  <1>4. /\ XsOf(e) = XsOf(r) \cup {x} /\ YsOf(e) = YsOf(r) \cup {y}
        /\ e.x_min = Lesser(x, r.x_min) /\ e.x_max = Greater(x, r.x_max)
        /\ e.y_min = Lesser(y, r.y_min) /\ e.y_max = Greater(y, r.y_max)
    BY AddPointSets
  <1> HIDE DEF e
  <1>5. /\ XsOf(e) \cup {Big} = (XsOf(r) \cup {Big}) \cup {x}
        /\ XsOf(e) \cup {-Big} = (XsOf(r) \cup {-Big}) \cup {x}
        /\ YsOf(e) \cup {Big} = (YsOf(r) \cup {Big}) \cup {y}
        /\ YsOf(e) \cup {-Big} = (YsOf(r) \cup {-Big}) \cup {y}
    BY <1>4
  <1>6. Clamped(e)
    BY <1>2, <1>3, <1>4, <1>5 DEF Clamped
  <1>7. QED
    BY <1>6 DEF e

LEMMA NewRunClamped == Clamped(NewRun)
  <1>1. XsOf(NewRun) = {} /\ YsOf(NewRun) = {}
    BY DEF XsOf, YsOf, NewRun
  <1>2. QED
    BY <1>1, SlotFacts DEF Clamped, IsLeast, IsGreatest, NewRun

\* The runs of the test being read, and those of every report, are clamped.
ClampedRuns(d, i) == \A k \in Slots : k <= i => Clamped(d[k])
ClampedReport(r) == \A k \in 1..Len(r.runs) : Clamped(r.runs[k])
ExtremaClamped == ClampedRuns(data, index) /\ \A i \in 1..Len(reports) : ClampedReport(reports[i])

ExtremaInv == StatsInv /\ ExtremaClamped

\* test_run_begin() sets the extrema up, and a sample starts from them.
LEMMA BeginClamped ==
  ASSUME NEW s, NEW i \in -1..(MaxTestRuns - 1), NEW d \in [Slots -> Run],
         ClampedRuns(d, i)
  PROVE  LET r == test_run_begin(s, i, d) IN ClampedRuns(r.data, r.index)
  <1> DEFINE r == test_run_begin(s, i, d)
  <1>1. CASE i + 1 >= MaxTestRuns
    <2>1. r.index = i /\ r.data = d
      BY <1>1 DEF test_run_begin
    <2>2. QED
      BY <2>1
  <1>2. CASE ~(i + 1 >= MaxTestRuns)
    <2>1. r.index = i + 1 /\ r.data = [d EXCEPT ![i + 1] = NewRun]
      BY <1>2 DEF test_run_begin
    <2>2. i + 1 \in Slots /\ \A k \in Slots : k \in Int
      BY <1>2, SlotFacts
    <2> HIDE DEF r
    <2>3. ASSUME NEW k \in Slots, k <= i + 1 PROVE Clamped(r.data[k])
      <3>1. CASE k = i + 1
        <4>1. r.data[k] = NewRun
          BY <2>1, <2>2, <3>1
        <4>2. QED
          BY <4>1, NewRunClamped
      <3>2. CASE k # i + 1
        <4>1. r.data[k] = d[k] /\ k <= i
          BY <2>1, <2>2, <2>3, <3>2
        <4>2. QED
          BY <4>1 DEF ClampedRuns
      <3>3. QED
        BY <3>1, <3>2
    <2>4. ClampedRuns(r.data, r.index)
      BY <2>1, <2>3 DEF ClampedRuns
    <2>5. QED
      BY <2>4 DEF r
  <1>3. QED
    BY <1>1, <1>2

LEMMA AtSampleClamped ==
  ASSUME ExtremaInv
  PROVE  ClampedRuns(AtSample.data, AtSample.index)
  <1>1. /\ index \in -1..(MaxTestRuns - 1) /\ data \in [Slots -> Run]
        /\ ClampedRuns(data, index)
    BY DEF ExtremaInv, StatsInv, TypeOK, ExtremaClamped
  <1>2. CASE "a" \in opts /\ "TEST_RUN_BEGIN" \notin state
    <2>1. AtSample = test_run_begin(state, index, data)
      BY <1>2 DEF AtSample
    <2>2. QED
      BY <1>1, <2>1, BeginClamped
  <1>3. CASE ~("a" \in opts /\ "TEST_RUN_BEGIN" \notin state)
    <2>1. AtSample.data = data /\ AtSample.index = index
      BY <1>3 DEF AtSample
    <2>2. QED
      BY <1>1, <2>1
  <1>4. QED
    BY <1>2, <1>3

\* A report that is appended shows the runs of the test being read.
LEMMA ReportClamped ==
  ASSUME ExtremaInv, NEW to \in {<<>>} \cup (Hosts \X Words \X Archs),
         reports' = Append(reports, data_analyse(to, data, index + 1))
  PROVE  \A i \in 1..Len(reports') : ClampedReport(reports'[i])
  <1> DEFINE r == data_analyse(to, data, index + 1)
             n == Len(reports)
  <1>1. TypeOK /\ index \in -1..(MaxTestRuns - 1) /\ reports \in Seq(Report)
    BY DEF ExtremaInv, StatsInv, TypeOK
  <1>2. r \in Report
    BY <1>1, ReportType
  <1>3. ClampedReport(r)
    <2>1. /\ index + 1 \in Nat
          /\ \A k \in 1..(index + 1) : k - 1 \in Slots /\ k - 1 <= index
      BY <1>1, SlotFacts
    <2>2. r.runs = [i \in 1..(index + 1) |-> data[i - 1]]
      BY DEF data_analyse
    <2> HIDE DEF r
    <2>3. Len(r.runs) = index + 1
      BY <2>1, <2>2
    <2>4. ASSUME NEW k \in 1..(index + 1) PROVE Clamped(r.runs[k])
      <3>1. r.runs[k] = data[k - 1]
        BY <2>2
      <3>2. QED
        BY <2>1, <3>1 DEF ExtremaInv, ExtremaClamped, ClampedRuns
    <2>5. QED
      BY <2>3, <2>4 DEF ClampedReport
  <1>4. reports' = Append(reports, r)
    OBVIOUS
  <1> HIDE DEF r
  <1>5. /\ n \in Nat /\ Len(reports') = n + 1 /\ reports'[n + 1] = r
        /\ \A i \in 1..n : reports'[i] = reports[i]
    BY <1>1, <1>2, <1>4, AppendProperties
  <1>6. \A i \in 1..n : ClampedReport(reports[i])
    BY DEF ExtremaInv, ExtremaClamped
  <1> HIDE DEF n
  <1>7. ASSUME NEW i \in 1..(n + 1) PROVE ClampedReport(reports'[i])
    <2>1. CASE i = n + 1
      BY <1>3, <1>5, <2>1
    <2>2. CASE i # n + 1
      <3>1. i \in 1..n
        BY <1>5, <2>2
      <3>2. QED
        BY <1>5, <1>6, <3>1
    <2>3. QED
      BY <2>1, <2>2
  <1>8. QED
    BY <1>5, <1>7

\* Only a run tag, a sample and the end of a test or of the log change a run or add
\* a report.
LEMMA ExtremaStep == ExtremaInv /\ [Next]_vars => ExtremaInv'
  <1> SUFFICES ASSUME ExtremaInv, [Next]_vars
               PROVE  ExtremaInv'
    OBVIOUS
  <1>1. StatsInv'
    BY StatsStep DEF ExtremaInv
  <1> SUFFICES ExtremaClamped'
    BY <1>1 DEF ExtremaInv
  <1>2. /\ TypeOK /\ index \in -1..(MaxTestRuns - 1) /\ data \in [Slots -> Run]
        /\ ClampedRuns(data, index) /\ \A i \in 1..Len(reports) : ClampedReport(reports[i])
        /\ \A k \in Slots : k \in Nat
    BY SlotFacts DEF ExtremaInv, StatsInv, TypeOK, ExtremaClamped
  <1>3. \A d : ClampedRuns(d, -1)
    BY <1>2 DEF ClampedRuns
  <1>4. ASSUME UNCHANGED <<index, data, reports>>
        PROVE  ExtremaClamped'
    BY <1>2, <1>4 DEF ExtremaClamped
  <1>5. ASSUME index' = -1,
               \/ UNCHANGED reports
               \/ \E to \in {<<>>} \cup (Hosts \X Words \X Archs) :
                    reports' = Append(reports, data_analyse(to, data, index + 1))
        PROVE  ExtremaClamped'
    <2>1. \A i \in 1..Len(reports') : ClampedReport(reports'[i])
      BY <1>2, <1>5, ReportClamped
    <2>2. QED
      BY <1>3, <1>5, <2>1 DEF ExtremaClamped
  <1>6. CASE OpenFile
    BY <1>5, <1>6 DEF OpenFile
  <1>7. CASE CloseFile
    <2>1. CASE "a" \in opts /\ "TEST_RUN_BEGIN" \in state
      <3>1. /\ index' = index /\ data' = data
            /\ reports' = Append(reports, data_analyse(<<>>, data, index + 1))
        BY <1>7, <2>1 DEF CloseFile
      <3>2. \A i \in 1..Len(reports') : ClampedReport(reports'[i])
        BY <3>1, ReportClamped
      <3>3. QED
        BY <1>2, <3>1, <3>2 DEF ExtremaClamped
    <2>2. CASE ~("a" \in opts /\ "TEST_RUN_BEGIN" \in state)
      BY <1>4, <1>7, <2>2 DEF CloseFile
    <2>3. QED
      BY <2>1, <2>2
  <1>8. ASSUME NEW b \in Bodies, NEW step \in StampSteps, Line(b, step)
        PROVE  ExtremaClamped'
    <2>1. ReadLine(b, step) /\ sec \in Int /\ b.y \in Int
      BY <1>2, <1>8, LineType DEF Line
    <2>2. CASE TestClient(b) \/ TestBegin(b) \/ TestRunEnd(b) \/ OtherTag(b)
               \/ SampleSkipped(b) \/ SampleOutOfBounds(b) \/ TestEndNoArch(b)
      BY <1>4, <2>2 DEF TestClient, TestBegin, TestRunEnd, OtherTag, SampleSkipped,
                        SampleOutOfBounds, TestEndNoArch, scanVars
    <2>3. CASE TestEndPrints(b)
      BY <1>5, <2>3 DEF TestEndPrints, TestEnded
    <2>4. CASE TestEndExtracts(b)
      <3>1. OutputName \in Hosts \X Words \X Archs
        BY <1>2, <2>4 DEF OutputName, TestEndExtracts, TypeOK
      <3>2. QED
        BY <1>5, <2>4, <3>1 DEF TestEndExtracts, TestEnded
    <2>5. CASE TestEndCannotCreate(b)
      BY <1>5, <2>5 DEF TestEndCannotCreate, TestEnded
    <2>6. CASE TestRunBegin(b)
      <3>1. /\ data' = test_run_begin(state, index, data).data
            /\ index' = test_run_begin(state, index, data).index
            /\ reports' = reports
        BY <2>6 DEF TestRunBegin
      <3>2. ClampedRuns(data', index')
        BY <1>2, <3>1, BeginClamped
      <3>3. QED
        BY <1>2, <3>1, <3>2 DEF ExtremaClamped
    <2>7. CASE SampleNoMemory(b)
      <3>1. data' = AtSample.data /\ index' = AtSample.index /\ reports' = reports
        BY <2>7 DEF SampleNoMemory
      <3>2. QED
        BY <1>2, <3>1, AtSampleClamped DEF ExtremaClamped
    <2>8. CASE SampleRecorded(b)
      <3> DEFINE d == AtSample.data
                 i == AtSample.index
      <3>1. /\ i >= 0 /\ index' = i /\ reports' = reports
            /\ data' = [d EXCEPT ![i] = AddPoint(d[i], sec, b.y)]
        BY <2>8 DEF SampleRecorded
      <3>2. d \in [Slots -> Run] /\ i \in -1..(MaxTestRuns - 1) /\ ClampedRuns(d, i)
        <4>1. Owned(data, index)
          BY <2>1 DEF ExtremaInv, StatsInv, SlotsOwned, Owned, ReadLine
        <4>2. QED
          BY <1>2, <4>1, AtSampleType, AtSampleClamped
      <3> HIDE DEF d, i
      <3>3. i \in Slots
        BY <3>1, <3>2, SlotFacts
      <3>4. Clamped(AddPoint(d[i], sec, b.y))
        <4>1. d[i] \in Run /\ Clamped(d[i])
          BY <1>2, <3>2, <3>3 DEF ClampedRuns
        <4>2. QED
          BY <2>1, <4>1, AddPointClamped
      <3>5. ASSUME NEW k \in Slots, k <= i PROVE Clamped(data'[k])
        BY <3>1, <3>2, <3>3, <3>4, <3>5 DEF ClampedRuns
      <3>6. QED
        BY <1>2, <3>1, <3>5 DEF ExtremaClamped, ClampedRuns
    <2>9. QED
      BY <1>8, <2>2, <2>3, <2>4, <2>5, <2>6, <2>7, <2>8 DEF Line
  <1>9. CASE (\E o \in OptionSets : Getopt(o)) \/ ShowHelp \/ OpenFails \/ Exit
             \/ UNCHANGED vars
    BY <1>4, <1>9 DEF Getopt, ShowHelp, OpenFails, Exit, vars, scanVars
  <1>10. QED
    BY <1>6, <1>7, <1>8, <1>9 DEF Next

\* On every log, of any length, the extrema of every run, of the test being read and
\* of every report, are those of its samples and of the values they start from: no
\* sample is left out of them, in whatever order the samples come.
THEOREM StatsExtremaClamped == Spec => []ExtremaClamped
  <1>1. Init => ExtremaInv
    <2> SUFFICES ASSUME Init PROVE ExtremaInv
      OBVIOUS
    <2>1. \A k \in Slots : k \in Nat
      BY SlotFacts
    <2>2. index = -1 /\ reports = <<>>
      BY DEF Init
    <2>3. Len(reports) = 0
      BY <2>2
    <2>4. QED
      BY <2>1, <2>2, <2>3, StatsInit DEF ExtremaInv, ExtremaClamped, ClampedRuns
  <1>2. ExtremaInv => ExtremaClamped
    BY DEF ExtremaInv
  <1>3. QED
    BY <1>1, <1>2, ExtremaStep, PTL DEF Spec

\* A starting value that no value passes is not needed.
LEMMA LeastInRange ==
  ASSUME NEW S \in SUBSET Int, S # {}, \A w \in S : w <= Big,
         NEW v, IsLeast(v, S \cup {Big})
  PROVE  v = Min(S)
  <1>1. PICK w \in S : w \in Int
    OBVIOUS
  <1>2. v \in S
    BY <1>1, SlotFacts DEF IsLeast
  <1>3. QED
    BY <1>2, LeastIsMin DEF IsLeast

LEMMA GreatestInRange ==
  ASSUME NEW S \in SUBSET Int, S # {}, \A w \in S : w >= -Big,
         NEW v, IsGreatest(v, S \cup {-Big})
  PROVE  v = Max(S)
  <1>1. PICK w \in S : w \in Int
    OBVIOUS
  <1>2. v \in S
    BY <1>1, SlotFacts DEF IsGreatest
  <1>3. QED
    BY <1>2, GreatestIsMax DEF IsGreatest

\* On every log the extrema reported of a run whose samples lie between the values they
\* start from (1E6 seconds and 1E6 units of current, either way) are the ones of its
\* samples.  A sample beyond them is the one case in which they are not.
THEOREM StatsExtremaExact == Spec => []ExtremaExact
  <1>1. TypeOK /\ ExtremaClamped => ExtremaExact
    <2> SUFFICES ASSUME TypeOK, ExtremaClamped,
                        NEW i \in 1..Len(reports), NEW k \in 1..Len(reports[i].runs),
                        reports[i].runs[k].points # <<>>, InRange(reports[i].runs[k])
                 PROVE  LET r == reports[i].runs[k]
                        IN /\ r.x_min = Min(XsOf(r)) /\ r.x_max = Max(XsOf(r))
                           /\ r.y_min = Min(YsOf(r)) /\ r.y_max = Max(YsOf(r))
      BY DEF ExtremaExact, MinMaxOf, XsOf, YsOf
    <2>1. PICK r : r = reports[i].runs[k]
      OBVIOUS
    <2>2. r \in Run /\ Clamped(r)
      <3>1. reports[i] \in Report
        BY ElementOfSeq DEF TypeOK
      <3>2. reports[i].runs \in Seq(Run)
        BY <3>1 DEF Report
      <3>3. reports[i].runs[k] \in Run
        BY <3>2, ElementOfSeq
      <3>4. QED
        BY <2>1, <3>3 DEF ExtremaClamped, ClampedReport
    <2>3. XsOf(r) \in SUBSET Int /\ YsOf(r) \in SUBSET Int
      BY <2>2, PointTypes
    <2>4. XsOf(r) # {} /\ YsOf(r) # {}
      <3>1. r.points \in Seq(Point) /\ r.points # <<>>
        BY <2>1, <2>2 DEF Run
      <3>2. 1 \in 1..Len(r.points)
        BY <3>1
      <3>3. QED
        BY <3>2 DEF XsOf, YsOf
    <2>5. /\ \A w \in XsOf(r) : w <= Big /\ w >= -Big
          /\ \A w \in YsOf(r) : w <= Big /\ w >= -Big
      <3>1. \A m \in 1..Len(r.points) :
              r.points[m].x \in -Big..Big /\ r.points[m].y \in -Big..Big
        BY <2>1 DEF InRange
      <3>2. \A w \in -Big..Big : w <= Big /\ w >= -Big
        BY SlotFacts
      <3>3. QED
        BY <3>1, <3>2 DEF XsOf, YsOf
    <2>6. /\ r.x_min = Min(XsOf(r)) /\ r.x_max = Max(XsOf(r))
          /\ r.y_min = Min(YsOf(r)) /\ r.y_max = Max(YsOf(r))
      BY <2>2, <2>3, <2>4, <2>5, LeastInRange, GreatestInRange DEF Clamped
    <2>7. QED
      BY <2>1, <2>6
  <1>2. QED
    BY <1>1, StatsTypeCorrect, StatsExtremaClamped, PTL

-----------------------------------------------------------------------------
(* The runs and their samples *)

\* Every k has a k-th position of S.
Listed(S) ==
  /\ IsFiniteSet(S)
  /\ \A k \in 1..Cardinality(S) :
       Nth(S, k) \in S /\ Cardinality({j \in S : j <= Nth(S, k)}) = k

LEMMA ListedNone == Listed({}) /\ Cardinality({}) = 0
  <1>1. IsFiniteSet({}) /\ Cardinality({}) = 0
    BY FS_EmptySet
  <1>2. 1..0 = {}
    OBVIOUS
  <1>3. QED
    BY <1>1, <1>2 DEF Listed

\* Two positions are not both the k-th.
LEMMA OneNth ==
  ASSUME NEW S \in SUBSET Int, IsFiniteSet(S), NEW i \in S, NEW m \in S,
         Cardinality({j \in S : j <= i}) = Cardinality({j \in S : j <= m})
  PROVE  i = m
  <1>1. ASSUME NEW p \in S, NEW q \in S, p < q,
               Cardinality({j \in S : j <= p}) = Cardinality({j \in S : j <= q})
        PROVE  FALSE
    <2> DEFINE P == {j \in S : j <= p}
               Q == {j \in S : j <= q}
    <2>1. IsFiniteSet(Q)
      BY FS_Subset
    <2>2. P \in SUBSET Q
      <3>1. \A j \in S : j \in Int /\ (j <= p => j <= q)
        BY <1>1
      <3>2. QED
        BY <3>1
    <2>3. q \in Q /\ q \notin P
      BY <1>1
    <2>4. Cardinality(Q) = Cardinality(P)
      BY <1>1
    <2> HIDE DEF P, Q
    <2>5. QED
      BY <2>1, <2>2, <2>3, <2>4, FS_Subset
  <1>2. i < m \/ m < i \/ i = m
    OBVIOUS
  <1>3. QED
    BY <1>1, <1>2

\* The k-th is the position with k up to it.
LEMMA NthIs ==
  ASSUME NEW S \in SUBSET Int, IsFiniteSet(S), NEW i \in S, NEW k,
         Cardinality({j \in S : j <= i}) = k
  PROVE  Nth(S, k) = i
  <1> DEFINE R(m) == Cardinality({j \in S : j <= m}) = k
  <1>1. R(i) /\ \A m \in S : R(m) => m = i
    BY OneNth
  <1> HIDE DEF R
  <1>2. (CHOOSE m \in S : R(m)) = i
    BY <1>1
  <1>3. QED
    BY <1>2 DEF Nth, R

\* A later position is the last of the set it joins, and moves no other.
LEMMA ListedMore ==
  ASSUME NEW S \in SUBSET Int, Listed(S), NEW n \in Int, \A i \in S : i < n
  PROVE  /\ Listed(S \cup {n})
         /\ Cardinality(S) \in Nat
         /\ Cardinality(S \cup {n}) = Cardinality(S) + 1
         /\ Nth(S \cup {n}, Cardinality(S) + 1) = n
         /\ \A k \in 1..Cardinality(S) : Nth(S \cup {n}, k) = Nth(S, k)
  <1> DEFINE T == S \cup {n}
             c == Cardinality(S)
  <1>1. IsFiniteSet(S) /\ n \notin S /\ T \in SUBSET Int
    BY DEF Listed
  <1>2. c \in Nat /\ IsFiniteSet(T) /\ Cardinality(T) = c + 1
    BY <1>1, FS_AddElement, FS_CardinalityType
  <1>3. {j \in T : j <= n} = T
    <2>1. \A j \in T : j <= n
      OBVIOUS
    <2> HIDE DEF T
    <2>2. QED
      BY <2>1
  <1>4. \A i \in S : {j \in T : j <= i} = {j \in S : j <= i}
    OBVIOUS
  <1>5. n \in T /\ S \subseteq T
    OBVIOUS
  <1>6. \A k \in 1..c : Nth(S, k) \in S /\ Cardinality({j \in S : j <= Nth(S, k)}) = k
    BY DEF Listed
  <1> HIDE DEF T, c
  <1>7. Nth(T, c + 1) = n
    BY <1>1, <1>2, <1>3, <1>5, NthIs
  <1>8. ASSUME NEW k \in 1..c PROVE Nth(T, k) = Nth(S, k)
    <2>1. Nth(S, k) \in T /\ Cardinality({j \in T : j <= Nth(S, k)}) = k
      BY <1>4, <1>5, <1>6
    <2>2. QED
      BY <1>1, <1>2, <2>1, NthIs
  <1>9. ASSUME NEW k \in 1..(c + 1)
        PROVE  Nth(T, k) \in T /\ Cardinality({j \in T : j <= Nth(T, k)}) = k
    <2>1. CASE k = c + 1
      BY <1>2, <1>3, <1>5, <1>7, <2>1
    <2>2. CASE k # c + 1
      <3>1. k \in 1..c
        BY <1>2, <2>2
      <3>2. Nth(T, k) = Nth(S, k)
        BY <1>8, <3>1
      <3>3. Nth(S, k) \in S /\ Cardinality({j \in S : j <= Nth(S, k)}) = k
        BY <1>6, <3>1
      <3>4. QED
        BY <1>4, <1>5, <3>2, <3>3
    <2>3. QED
      BY <2>1, <2>2
  <1>10. Listed(T)
    BY <1>2, <1>9 DEF Listed
  <1>11. QED
    BY <1>2, <1>7, <1>8, <1>10 DEF T, c

\* Window and PointsOf, of the positions of the tags and of the lines.
WindowIn(B, A, E, i, k) ==
  LET b == Nth(B, k)
      next == IF k < Lesser(Cardinality(B), MaxTestRuns) THEN Nth(B, k + 1) ELSE i
  IN {j \in A : b < j /\ j < next /\ \A e \in E : ~(b < e /\ e < j)}

SampleAt(l, i) == [x |-> l[i].stamp - l[1].stamp, y |-> l[i].body.y]
PointsAt(l, S) == [m \in 1..Cardinality(S) |-> SampleAt(l, Nth(S, m))]

\* Of the positions up to n, and n + 1.
UpTo(n, S, T) == S \subseteq 1..n /\ S \subseteq T /\ T \subseteq S \cup {n + 1}

\* The window of a run is what it was before the next line, unless that line is a
\* sample and the run is the last one and has not ended.
LEMMA WindowSame ==
  ASSUME NEW n \in Nat, NEW A, NEW A1, NEW B, NEW B1, NEW E, NEW E1,
         UpTo(n, A, A1), UpTo(n, E, E1), UpTo(n, B, B1), B1 = B \/ B1 = B \cup {n + 1},
         Listed(B), NEW k \in 1..Lesser(Cardinality(B), MaxTestRuns),
         (n + 1 \in A1 /\ k = Lesser(Cardinality(B), MaxTestRuns)) =>
            B1 = B /\ \E e \in E : Nth(B, k) < e
  PROVE  WindowIn(B1, A1, E1, n + 2, k) = WindowIn(B, A, E, n + 1, k)
  <1> DEFINE c == Cardinality(B)
             R == Lesser(c, MaxTestRuns)
             R1 == Lesser(Cardinality(B1), MaxTestRuns)
             next == IF k < R THEN Nth(B, k + 1) ELSE n + 1
             next1 == IF k < R1 THEN Nth(B1, k + 1) ELSE n + 2
  <1>1. n + 1 \in Int /\ B \in SUBSET Int /\ \A i \in B : i \in 1..n /\ i < n + 1
    BY DEF UpTo
  <1>2. /\ c \in Nat
        /\ Cardinality(B \cup {n + 1}) = c + 1
        /\ Nth(B \cup {n + 1}, c + 1) = n + 1
        /\ \A m \in 1..c : Nth(B \cup {n + 1}, m) = Nth(B, m)
    BY <1>1, ListedMore
  <1>3. \A m \in 1..c : Nth(B, m) \in 1..n /\ Nth(B1, m) = Nth(B, m)
    BY <1>1, <1>2 DEF Listed
  <1>4. R \in Nat /\ R <= c /\ k \in 1..R /\ k \in 1..c /\ (k < R => k + 1 \in 1..c)
    BY <1>2, SlotFacts DEF Lesser
  <1>5. R1 = R \/ (B1 = B \cup {n + 1} /\ R1 = Lesser(c + 1, MaxTestRuns))
    BY <1>2
  <1>6. \/ next1 = next /\ next \in 1..n
        \/ k = R /\ next = n + 1 /\ next1 \in {n + 1, n + 2}
    <2>1. CASE k < R
      <3>1. k < R1
        BY <1>2, <1>4, <1>5, <2>1, SlotFacts DEF Lesser
      <3>2. Nth(B1, k + 1) = Nth(B, k + 1) /\ Nth(B, k + 1) \in 1..n
        BY <1>3, <1>4, <2>1
      <3>3. QED
        BY <2>1, <3>1, <3>2
    <2>2. CASE ~(k < R)
      <3>1. k = R /\ next = n + 1
        BY <1>4, <2>2
      <3>2. next1 = n + 2 \/ (k < R1 /\ next1 = Nth(B1, k + 1))
        OBVIOUS
      <3>3. k < R1 => B1 = B \cup {n + 1} /\ k = c
        BY <1>2, <1>4, <1>5, <3>1, SlotFacts DEF Lesser
      <3>4. k < R1 => Nth(B1, k + 1) = n + 1
        BY <1>2, <3>3
      <3>5. QED
        BY <3>1, <3>2, <3>4
    <2>3. QED
      BY <2>1, <2>2
  <1>7. Nth(B, k) = Nth(B1, k) /\ Nth(B, k) \in 1..n
    BY <1>3, <1>4
  <1>8. PICK b \in 1..n : b = Nth(B, k) /\ b = Nth(B1, k)
    BY <1>7
  <1>9. /\ WindowIn(B, A, E, n + 1, k) =
             {j \in A : b < j /\ j < next /\ \A e \in E : ~(b < e /\ e < j)}
        /\ WindowIn(B1, A1, E1, n + 2, k) =
             {j \in A1 : b < j /\ j < next1 /\ \A e \in E1 : ~(b < e /\ e < j)}
    BY <1>8 DEF WindowIn
  <1>10. k = R /\ n + 1 \in A1 => \E e \in E : b < e
    BY <1>8
  <1> HIDE DEF next, next1, R, R1, c
  <1>11. ASSUME NEW j
         PROVE  (j \in A /\ b < j /\ j < next /\ \A e \in E : ~(b < e /\ e < j))
                  <=> (j \in A1 /\ b < j /\ j < next1 /\ \A e \in E1 : ~(b < e /\ e < j))
    <2>1. CASE j \in A
      <3>1. j \in 1..n /\ j \in A1 /\ (j < next <=> j < next1)
        BY <1>6, <2>1 DEF UpTo
      <3>2. (\A e \in E : ~(b < e /\ e < j)) <=> (\A e \in E1 : ~(b < e /\ e < j))
        BY <3>1 DEF UpTo
      <3>3. QED
        BY <2>1, <3>1, <3>2
    <2>2. CASE j \notin A /\ j \in A1
      <3>1. j = n + 1
        BY <2>2 DEF UpTo
      <3>2. CASE next1 = next /\ next \in 1..n
        BY <2>2, <3>1, <3>2
      <3>3. CASE k = R
        <4>1. PICK e \in E : b < e
          BY <1>10, <2>2, <3>1, <3>3
        <4>2. e \in E1 /\ e < j
          BY <3>1 DEF UpTo
        <4>3. QED
          BY <2>2, <4>1, <4>2
      <3>4. QED
        BY <1>6, <3>2, <3>3
    <2>3. QED
      BY <2>1, <2>2 DEF UpTo
  <1>12. QED
    BY <1>9, <1>11

\* The samples up to n are read from the lines up to n.
LEMMA PointsSame ==
  ASSUME NEW n \in Nat, NEW W \in SUBSET (1..n), Listed(W), NEW l, NEW m,
         \A j \in 1..n : m[j] = l[j]
  PROVE  PointsAt(m, W) = PointsAt(l, W)
  <1>1. ASSUME NEW k \in 1..Cardinality(W)
        PROVE  SampleAt(m, Nth(W, k)) = SampleAt(l, Nth(W, k))
    <2>1. Nth(W, k) \in 1..n
      BY DEF Listed
    <2>2. 1 \in 1..n
      BY <2>1
    <2>3. QED
      BY <2>1, <2>2 DEF SampleAt
  <1>2. QED
    BY <1>1 DEF PointsAt

\* The next line adds its sample to them.
LEMMA PointsMore ==
  ASSUME NEW n \in Nat, NEW h, h = n + 1, NEW W \in SUBSET (1..n), Listed(W),
         NEW l, NEW m, \A j \in 1..n : m[j] = l[j],
         PointsAt(l, W) \in Seq(Point),
         NEW x \in Int, NEW y \in Int, SampleAt(m, h) = [x |-> x, y |-> y]
  PROVE  PointsAt(m, W \cup {h}) = data_append_point(PointsAt(l, W), x, y)
  <1> DEFINE c == Cardinality(W)
             V == W \cup {h}
             p == PointsAt(l, W)
             q == PointsAt(m, V)
             pt == [x |-> x, y |-> y]
  <1>1. h \in Int /\ W \in SUBSET Int /\ \A i \in W : i < h
    OBVIOUS
  <1>2. /\ c \in Nat /\ Cardinality(V) = c + 1 /\ Nth(V, c + 1) = h
        /\ \A k \in 1..c : Nth(V, k) = Nth(W, k)
    BY <1>1, ListedMore
  <1>3. p = PointsAt(m, W)
    BY PointsSame
  <1>4. /\ Len(p) = c /\ p \in Seq(Point)
        /\ \A k \in 1..c : p[k] = SampleAt(m, Nth(W, k))
    BY <1>2, <1>3 DEF PointsAt
  <1>5. q = [k \in 1..(c + 1) |-> SampleAt(m, Nth(V, k))]
    BY <1>2 DEF PointsAt
  <1>6. pt \in Point
    BY DEF Point
  <1>7. Nth(V, c + 1) = h => SampleAt(m, Nth(V, c + 1)) = pt
    OBVIOUS
  <1> HIDE DEF p, q, V, c, pt
  <1>8. \A k \in 1..c : q[k] = p[k] /\ p[k] \in Point
    BY <1>2, <1>4, <1>5, ElementOfSeq
  <1>9. q[c + 1] = pt
    BY <1>2, <1>5, <1>7
  <1>10. \A k \in 1..(c + 1) : q[k] \in Point
    BY <1>2, <1>6, <1>8, <1>9
  <1>11. q \in Seq(Point) /\ Len(q) = c + 1
    BY <1>2, <1>5, <1>10
  <1>12. /\ Append(p, pt) \in Seq(Point) /\ Len(Append(p, pt)) = c + 1
         /\ \A k \in 1..c : Append(p, pt)[k] = p[k]
         /\ Append(p, pt)[c + 1] = pt
    BY <1>4, <1>6, AppendProperties
  <1>13. ASSUME NEW k \in 1..(c + 1) PROVE q[k] = Append(p, pt)[k]
    <2>1. CASE k = c + 1
      BY <1>9, <1>12, <2>1
    <2>2. CASE k # c + 1
      <3>1. k \in 1..c
        BY <1>2, <2>2
      <3>2. QED
        BY <1>8, <1>12, <3>1
    <2>3. QED
      BY <2>1, <2>2
  <1>14. q = Append(p, pt)
    BY <1>11, <1>12, <1>13, SeqEqual
  <1>15. QED
    BY <1>14 DEF p, q, V, pt, data_append_point

\* The runs of the test being read, those of data[0..i], are the ones that begin at
\* the positions B, and hold the samples of their windows; the last one is open
\* unless a TEST_RUN_END has followed it.  l is the log, A and E are the positions of
\* the samples and of the ends of runs, h is that of the line read next.
Matches(l, B, A, E, h, i, d, s) ==
  /\ Listed(B)
  /\ i + 1 = Lesser(Cardinality(B), MaxTestRuns)
  /\ \A k \in 1..(i + 1) :
       /\ Listed(WindowIn(B, A, E, h, k))
       /\ d[k - 1].points = PointsAt(l, WindowIn(B, A, E, h, k))
  /\ i >= 0 => ("TEST_RUN_BEGIN" \in s <=> \A e \in E : ~(Nth(B, i + 1) < e))

\* A test that has begun no run.
LEMMA MatchesNone ==
  ASSUME NEW l, NEW B, B = {}, NEW A, NEW E, NEW h, NEW i, i = -1, NEW d, NEW s
  PROVE  Matches(l, B, A, E, h, i, d, s)
  <1>1. Lesser(Cardinality({}), MaxTestRuns) = 0
    BY ListedNone, SlotFacts DEF Lesser
  <1>2. QED
    BY <1>1, ListedNone DEF Matches

\* A line that adds no run and no sample: it is neither, or there is no room for the
\* run, or no run is open.
LineKept(n, h, g, l, m, A, A1, B, B1, E, E1, i, d, s, t) ==
  /\ n \in Nat /\ h = n + 1 /\ g = n + 2
  /\ i \in -1..(MaxTestRuns - 1)
  /\ UpTo(n, A, A1) /\ UpTo(n, E, E1) /\ UpTo(n, B, B1)
  /\ \A j \in 1..n : m[j] = l[j]
  /\ Matches(l, B, A, E, h, i, d, s)
  /\ B1 = B \/ (B1 = B \cup {h} /\ A1 = A /\ E1 = E /\ Cardinality(B) >= MaxTestRuns)
  /\ h \in A1 => "TEST_RUN_BEGIN" \notin s
  /\ "TEST_RUN_BEGIN" \in t <=> "TEST_RUN_BEGIN" \in s /\ h \notin E1

LEMMA MatchesKept ==
  ASSUME NEW n, NEW h, NEW g, NEW l, NEW m, NEW A, NEW A1, NEW B, NEW B1, NEW E, NEW E1,
         NEW i, NEW d, NEW s, NEW t,
         LineKept(n, h, g, l, m, A, A1, B, B1, E, E1, i, d, s, t)
  PROVE  Matches(m, B1, A1, E1, g, i, d, t)
  <1> SUFFICES ASSUME n \in Nat, h = n + 1, g = n + 2, i \in -1..(MaxTestRuns - 1),
                      UpTo(n, A, A1), UpTo(n, E, E1), UpTo(n, B, B1),
                      \A j \in 1..n : m[j] = l[j],
                      Matches(l, B, A, E, h, i, d, s),
                      B1 = B \/ (B1 = B \cup {h} /\ A1 = A /\ E1 = E
                                  /\ Cardinality(B) >= MaxTestRuns),
                      h \in A1 => "TEST_RUN_BEGIN" \notin s,
                      "TEST_RUN_BEGIN" \in t <=> "TEST_RUN_BEGIN" \in s /\ h \notin E1
               PROVE  Matches(m, B1, A1, E1, g, i, d, t)
    BY DEF LineKept
  <1> DEFINE c == Cardinality(B)
  <1>1. /\ Listed(B) /\ i + 1 = Lesser(c, MaxTestRuns)
        /\ \A k \in 1..(i + 1) :
             /\ Listed(WindowIn(B, A, E, n + 1, k))
             /\ d[k - 1].points = PointsAt(l, WindowIn(B, A, E, n + 1, k))
        /\ i >= 0 => ("TEST_RUN_BEGIN" \in s <=> \A e \in E : ~(Nth(B, i + 1) < e))
    <2>1. Matches(l, B, A, E, n + 1, i, d, s)
      OBVIOUS
    <2>2. QED
      BY <2>1 DEF Matches
  <1>2. /\ n + 1 \in Int /\ n + 1 \notin A /\ n + 1 \notin E
        /\ B \in SUBSET Int /\ \A j \in B : j \in 1..n /\ j < n + 1
    BY DEF UpTo
  <1>3. /\ c \in Nat /\ Listed(B \cup {n + 1}) /\ Cardinality(B \cup {n + 1}) = c + 1
        /\ \A k \in 1..c : Nth(B \cup {n + 1}, k) = Nth(B, k)
    BY <1>1, <1>2, ListedMore
  <1>4. i + 1 <= c /\ (i >= 0 => i + 1 \in 1..c)
    BY <1>1, <1>3, SlotFacts DEF Lesser
  <1>5. Listed(B1) /\ (\A k \in 1..c : Nth(B1, k) = Nth(B, k)) /\ B1 \in {B, B \cup {n + 1}}
    BY <1>1, <1>3
  <1>6. i + 1 = Lesser(Cardinality(B1), MaxTestRuns)
    <2>1. CASE B1 = B
      BY <1>1, <2>1
    <2>2. CASE B1 = B \cup {n + 1} /\ c >= MaxTestRuns
      <3>1. Cardinality(B1) = c + 1
        BY <1>3, <2>2
      <3>2. Lesser(c, MaxTestRuns) = Lesser(c + 1, MaxTestRuns)
        BY <1>3, <2>2, SlotFacts DEF Lesser
      <3>3. QED
        BY <1>1, <3>1, <3>2
    <2>3. QED
      BY <2>1, <2>2
  <1>7. ASSUME NEW k \in 1..(i + 1)
        PROVE  /\ Listed(WindowIn(B1, A1, E1, n + 2, k))
               /\ d[k - 1].points = PointsAt(m, WindowIn(B1, A1, E1, n + 2, k))
    <2> DEFINE W == WindowIn(B, A, E, n + 1, k)
    <2>1. (n + 1 \in A1 /\ k = Lesser(c, MaxTestRuns)) =>
            B1 = B /\ \E e \in E : Nth(B, k) < e
      <3> SUFFICES ASSUME n + 1 \in A1, k = i + 1
                   PROVE  B1 = B /\ \E e \in E : Nth(B, k) < e
        BY <1>1
      <3>1. B1 = B /\ "TEST_RUN_BEGIN" \notin s /\ i >= 0
        BY <1>2
      <3>2. QED
        BY <1>1, <3>1
    <2>2. WindowIn(B1, A1, E1, n + 2, k) = W
      BY <1>1, <1>5, <2>1, WindowSame
    <2>3. Listed(W) /\ d[k - 1].points = PointsAt(l, W)
      BY <1>1
    <2>4. W \in SUBSET (1..n)
      BY DEF WindowIn, UpTo
    <2> HIDE DEF W
    <2>5. PointsAt(m, W) = PointsAt(l, W)
      BY <2>3, <2>4, PointsSame
    <2>6. QED
      BY <2>2, <2>3, <2>5
  <1>8. i >= 0 => ("TEST_RUN_BEGIN" \in t <=> \A e \in E1 : ~(Nth(B1, i + 1) < e))
    <2> SUFFICES ASSUME i >= 0
                 PROVE  "TEST_RUN_BEGIN" \in t <=> \A e \in E1 : ~(Nth(B1, i + 1) < e)
      OBVIOUS
    <2>1. PICK b : b = Nth(B, i + 1) /\ b = Nth(B1, i + 1) /\ b \in 1..n
      BY <1>1, <1>2, <1>4, <1>5 DEF Listed
    <2>2. "TEST_RUN_BEGIN" \in s <=> \A e \in E : ~(b < e)
      BY <1>1, <2>1
    <2>3. CASE n + 1 \in E1
      BY <2>1, <2>3
    <2>4. CASE n + 1 \notin E1
      <3>1. E1 = E
        BY <2>4 DEF UpTo
      <3>2. QED
        BY <2>1, <2>2, <2>4, <3>1
    <2>5. QED
      BY <2>3, <2>4
  <1>9. Matches(m, B1, A1, E1, n + 2, i, d, t)
    BY <1>5, <1>6, <1>7, <1>8 DEF Matches
  <1>10. QED
    BY <1>9

\* A TEST_RUN_BEGIN, when data[] has room.
LineBegins(n, h, g, l, m, A, B, B1, E, i, j, d, f, s, t) ==
  /\ n \in Nat /\ h = n + 1 /\ g = n + 2
  /\ i \in -1..(MaxTestRuns - 1) /\ i + 1 < MaxTestRuns /\ j = i + 1
  /\ d \in [Slots -> Run] /\ f = [d EXCEPT ![i + 1] = NewRun]
  /\ UpTo(n, A, A) /\ UpTo(n, E, E) /\ UpTo(n, B, B1) /\ B1 = B \cup {h}
  /\ \A k \in 1..n : m[k] = l[k]
  /\ Matches(l, B, A, E, h, i, d, s)
  /\ "TEST_RUN_BEGIN" \in t

LEMMA MatchesBegin ==
  ASSUME NEW n, NEW h, NEW g, NEW l, NEW m, NEW A, NEW B, NEW B1, NEW E,
         NEW i, NEW i1, NEW d, NEW f, NEW s, NEW t,
         LineBegins(n, h, g, l, m, A, B, B1, E, i, i1, d, f, s, t)
  PROVE  Matches(m, B1, A, E, g, i1, f, t)
  <1> SUFFICES ASSUME n \in Nat, h = n + 1, g = n + 2,
                      i \in -1..(MaxTestRuns - 1), i + 1 < MaxTestRuns, i1 = i + 1,
                      d \in [Slots -> Run], f = [d EXCEPT ![i + 1] = NewRun],
                      UpTo(n, A, A), UpTo(n, E, E), UpTo(n, B, B1), B1 = B \cup {h},
                      \A j \in 1..n : m[j] = l[j],
                      Matches(l, B, A, E, h, i, d, s),
                      "TEST_RUN_BEGIN" \in t
               PROVE  Matches(m, B1, A, E, g, i1, f, t)
    BY DEF LineBegins
  <1> DEFINE c == Cardinality(B)
  <1>1. /\ Listed(B) /\ i + 1 = Lesser(c, MaxTestRuns)
        /\ \A k \in 1..(i + 1) :
             /\ Listed(WindowIn(B, A, E, n + 1, k))
             /\ d[k - 1].points = PointsAt(l, WindowIn(B, A, E, n + 1, k))
    <2>1. Matches(l, B, A, E, n + 1, i, d, s)
      OBVIOUS
    <2>2. QED
      BY <2>1 DEF Matches
  <1>2. /\ n + 1 \in Int /\ n + 1 \notin A
        /\ B \in SUBSET Int /\ \A j \in B : j \in 1..n /\ j < n + 1
    BY DEF UpTo
  <1>3. /\ c \in Nat /\ Listed(B1) /\ Cardinality(B1) = c + 1
        /\ Nth(B1, c + 1) = n + 1
    <2>1. PICK x \in Int : x = n + 1 /\ B1 = B \cup {x}
      BY <1>2
    <2>2. \A j \in B : j < x
      BY <1>2, <2>1
    <2>3. /\ Listed(B \cup {x}) /\ Cardinality(B) \in Nat
          /\ Cardinality(B \cup {x}) = Cardinality(B) + 1
          /\ Nth(B \cup {x}, Cardinality(B) + 1) = x
      BY <1>1, <1>2, <2>2, ListedMore
    <2>4. QED
      BY <2>1, <2>3
  <1>4. i + 1 = c
    BY <1>1, <1>3, SlotFacts DEF Lesser
  <1>5. i + 2 = Lesser(Cardinality(B1), MaxTestRuns)
    BY <1>3, <1>4, SlotFacts DEF Lesser
  <1>6. /\ i + 1 \in Slots /\ f[i + 1].points = <<>>
        /\ \A k \in 1..(i + 1) : f[k - 1] = d[k - 1]
    BY SlotFacts DEF NewRun
  <1>7. ASSUME NEW k \in 1..(i + 1)
        PROVE  /\ Listed(WindowIn(B1, A, E, n + 2, k))
               /\ f[k - 1].points = PointsAt(m, WindowIn(B1, A, E, n + 2, k))
    <2> DEFINE W == WindowIn(B, A, E, n + 1, k)
    <2>2. WindowIn(B1, A, E, n + 2, k) = W
      BY <1>1, <1>2, WindowSame
    <2>3. Listed(W) /\ d[k - 1].points = PointsAt(l, W)
      BY <1>1
    <2>4. W \in SUBSET (1..n)
      BY DEF WindowIn, UpTo
    <2> HIDE DEF W
    <2>5. PointsAt(m, W) = PointsAt(l, W)
      BY <2>3, <2>4, PointsSame
    <2>6. QED
      BY <1>6, <2>2, <2>3, <2>5
  <1>8. /\ Listed(WindowIn(B1, A, E, n + 2, i + 2))
        /\ f[i + 1].points = PointsAt(m, WindowIn(B1, A, E, n + 2, i + 2))
    <2>1. Nth(B1, i + 2) = n + 1
      BY <1>3, <1>4
    <2>2. WindowIn(B1, A, E, n + 2, i + 2) = {}
      <3>1. \A j \in A : ~(n + 1 < j)
        <4>1. \A j \in A : j \in 1..n
          BY DEF UpTo
        <4>2. QED
          BY <4>1
      <3>2. QED
        BY <2>1, <3>1 DEF WindowIn
    <2>3. PointsAt(m, {}) = <<>>
      BY ListedNone DEF PointsAt
    <2>4. QED
      BY <1>6, <2>2, <2>3, ListedNone
  <1>9. \A e \in E : ~(Nth(B1, i + 2) < e)
    BY <1>3, <1>4 DEF UpTo
  <1>10. ASSUME NEW k \in 1..(i + 2)
         PROVE  /\ Listed(WindowIn(B1, A, E, n + 2, k))
                /\ f[k - 1].points = PointsAt(m, WindowIn(B1, A, E, n + 2, k))
    <2>1. CASE k = i + 2
      <3>1. k - 1 = i + 1
        BY <2>1
      <3>2. QED
        BY <1>8, <2>1, <3>1
    <2>2. CASE k # i + 2
      <3>1. k \in 1..(i + 1)
        BY <2>2
      <3>2. QED
        BY <1>7, <3>1
    <2>3. QED
      BY <2>1, <2>2
  <1>11. (i + 1) + 1 = i + 2
    OBVIOUS
  <1>12. Matches(m, B1, A, E, n + 2, i + 1, f, t)
    BY <1>3, <1>5, <1>9, <1>10, <1>11 DEF Matches
  <1>13. QED
    BY <1>12

\* A sample of the open run.
LineSamples(n, h, g, l, m, A, A1, B, E, i, d, f, s, x, y) ==
  /\ n \in Nat /\ h = n + 1 /\ g = n + 2
  /\ i \in 0..(MaxTestRuns - 1) /\ x \in Int /\ y \in Int
  /\ d \in [Slots -> Run] /\ f = [d EXCEPT ![i] = AddPoint(d[i], x, y)]
  /\ UpTo(n, A, A1) /\ A1 = A \cup {h} /\ UpTo(n, E, E) /\ UpTo(n, B, B)
  /\ \A j \in 1..n : m[j] = l[j]
  /\ Matches(l, B, A, E, h, i, d, s)
  /\ "TEST_RUN_BEGIN" \in s
  /\ SampleAt(m, h) = [x |-> x, y |-> y]

LEMMA MatchesSample ==
  ASSUME NEW n, NEW h, NEW g, NEW l, NEW m, NEW A, NEW A1, NEW B, NEW E,
         NEW i, NEW d, NEW f, NEW s, NEW x, NEW y,
         LineSamples(n, h, g, l, m, A, A1, B, E, i, d, f, s, x, y)
  PROVE  Matches(m, B, A1, E, g, i, f, s)
  <1> SUFFICES ASSUME n \in Nat, h = n + 1, g = n + 2,
                      i \in 0..(MaxTestRuns - 1), x \in Int, y \in Int,
                      d \in [Slots -> Run], f = [d EXCEPT ![i] = AddPoint(d[i], x, y)],
                      UpTo(n, A, A1), A1 = A \cup {h}, UpTo(n, E, E), UpTo(n, B, B),
                      \A j \in 1..n : m[j] = l[j],
                      Matches(l, B, A, E, h, i, d, s),
                      "TEST_RUN_BEGIN" \in s,
                      SampleAt(m, h) = [x |-> x, y |-> y]
               PROVE  Matches(m, B, A1, E, g, i, f, s)
    BY DEF LineSamples
  <1> DEFINE c == Cardinality(B)
             pt == [x |-> x, y |-> y]
  <1>1. /\ Listed(B) /\ i + 1 = Lesser(c, MaxTestRuns)
        /\ \A k \in 1..(i + 1) :
             /\ Listed(WindowIn(B, A, E, n + 1, k))
             /\ d[k - 1].points = PointsAt(l, WindowIn(B, A, E, n + 1, k))
        /\ \A e \in E : ~(Nth(B, i + 1) < e)
    <2>1. Matches(l, B, A, E, n + 1, i, d, s)
      OBVIOUS
    <2>2. QED
      BY <2>1 DEF Matches
  <1>2. /\ n + 1 \in Int /\ \A j \in A : j \in 1..n
        /\ B \in SUBSET Int /\ \A j \in B : j \in 1..n /\ j < n + 1
    BY DEF UpTo
  <1>3. c \in Nat /\ i + 1 \in 1..c /\ Nth(B, i + 1) \in 1..n
    <2>1. c \in Nat
      BY <1>1, FS_CardinalityType DEF Listed
    <2>2. i + 1 \in 1..c
      BY <1>1, <2>1, SlotFacts DEF Lesser
    <2>3. QED
      BY <1>1, <1>2, <2>1, <2>2 DEF Listed
  <1>4. pt \in Point /\ i \in Slots
    BY SlotFacts DEF Point
  <1>5. /\ f[i].points = data_append_point(d[i].points, x, y) /\ d[i].points \in Seq(Point)
        /\ \A k \in 1..i : f[k - 1] = d[k - 1]
    <2>1. d[i] \in Run
      BY <1>4
    <2>2. AddPoint(d[i], x, y).points = data_append_point(d[i].points, x, y)
      BY <2>1 DEF AddPoint, Run
    <2>3. d[i].points \in Seq(Point)
      BY <2>1 DEF Run
    <2>4. f[i] = AddPoint(d[i], x, y) /\ \A k \in Slots : k # i => f[k] = d[k]
      BY <1>4
    <2>5. \A k \in 1..i : k - 1 \in Slots /\ k - 1 # i
      BY SlotFacts
    <2> HIDE DEF pt
    <2>6. QED
      BY <2>2, <2>3, <2>4, <2>5
  <1>6. SampleAt(m, n + 1) = pt
    OBVIOUS
  <1> HIDE DEF pt
  <1>7. ASSUME NEW k \in 1..i
        PROVE  /\ Listed(WindowIn(B, A1, E, n + 2, k))
               /\ f[k - 1].points = PointsAt(m, WindowIn(B, A1, E, n + 2, k))
    <2> DEFINE W == WindowIn(B, A, E, n + 1, k)
    <2>1. k \in 1..Lesser(c, MaxTestRuns) /\ k # Lesser(c, MaxTestRuns)
      BY <1>1
    <2>2. WindowIn(B, A1, E, n + 2, k) = W
      <3>1. UpTo(n, B, B) /\ UpTo(n, E, E) /\ UpTo(n, A, A1)
        OBVIOUS
      <3>2. QED
        BY <1>1, <2>1, <3>1, WindowSame
    <2>3. Listed(W) /\ d[k - 1].points = PointsAt(l, W)
      BY <1>1
    <2>4. W \in SUBSET (1..n)
      BY <1>2 DEF WindowIn
    <2> HIDE DEF W
    <2>5. PointsAt(m, W) = PointsAt(l, W)
      BY <2>3, <2>4, PointsSame
    <2>6. QED
      BY <1>5, <2>2, <2>3, <2>5
  <1>8. /\ Listed(WindowIn(B, A1, E, n + 2, i + 1))
        /\ f[i].points = PointsAt(m, WindowIn(B, A1, E, n + 2, i + 1))
    <2> DEFINE W == WindowIn(B, A, E, n + 1, i + 1)
    <2>1. WindowIn(B, A1, E, n + 2, i + 1) = W \cup {n + 1}
      <3>1. PICK b \in 1..n : b = Nth(B, i + 1)
        BY <1>3
      <3>2. ~(i + 1 < Lesser(c, MaxTestRuns))
        BY <1>1
      <3>3. \A e \in E : ~(b < e)
        BY <1>1, <3>1
      <3>4. /\ W = {j \in A : b < j /\ j < n + 1 /\ \A e \in E : ~(b < e /\ e < j)}
            /\ WindowIn(B, A1, E, n + 2, i + 1) =
                 {j \in A1 : b < j /\ j < n + 2 /\ \A e \in E : ~(b < e /\ e < j)}
        BY <3>1, <3>2 DEF WindowIn
      <3>5. \A j : (j \in A1 /\ b < j /\ j < n + 2) <=> (j \in A /\ b < j /\ j < n + 1) \/ j = n + 1
        BY <1>2
      <3> HIDE DEF W
      <3>6. QED
        BY <3>3, <3>4, <3>5
    <2>2. Listed(W) /\ d[i].points = PointsAt(l, W)
      <3>1. i + 1 \in 1..(i + 1) /\ (i + 1) - 1 = i
        OBVIOUS
      <3>2. QED
        BY <1>1, <3>1
    <2>3. W \in SUBSET (1..n)
      BY <1>2 DEF WindowIn
    <2> HIDE DEF W
    <2>4. PointsAt(m, W \cup {n + 1}) = data_append_point(PointsAt(l, W), x, y)
      <3>1. PointsAt(l, W) \in Seq(Point)
        BY <1>5, <2>2
      <3>2. QED
        BY <1>6, <2>2, <2>3, <3>1, PointsMore DEF pt
    <2>5. Listed(W \cup {n + 1})
      <3>1. n + 1 \in Int /\ W \in SUBSET Int /\ \A j \in W : j < n + 1
        BY <2>3
      <3>2. QED
        BY <2>2, <3>1, ListedMore
    <2>6. QED
      BY <1>5, <2>1, <2>2, <2>4, <2>5
  <1>9. ASSUME NEW k \in 1..(i + 1)
        PROVE  /\ Listed(WindowIn(B, A1, E, n + 2, k))
               /\ f[k - 1].points = PointsAt(m, WindowIn(B, A1, E, n + 2, k))
    <2>1. CASE k = i + 1
      <3>1. k - 1 = i
        BY <2>1
      <3>2. QED
        BY <1>8, <2>1, <3>1
    <2>2. CASE k # i + 1
      <3>1. k \in 1..i
        BY <2>2
      <3>2. QED
        BY <1>7, <3>1
    <2>3. QED
      BY <2>1, <2>2
  <1>10. Matches(m, B, A1, E, n + 2, i, f, s)
    BY <1>1, <1>9 DEF Matches
  <1>11. QED
    BY <1>10

\* Why the reports match: until the end of the test, data[0..index] are its runs.
\* The first stamp is the origin of time.  (Without -a.)
RunsTracked ==
  (pc = "reading" /\ "a" \notin opts) =>
    /\ start_secs = IF log = <<>> THEN -1 ELSE log[1].stamp
    /\ SectionStart(Here) \in 0..Len(log)
    /\ Matches(log, RunBegins(Here), At("SAMPLE"), At("TEST_RUN_END"), Here, index,
               data, state)

RunsInv == StatsInv /\ RunsTracked /\ ReportsMatchLog

\* What a line changes of the runs of the test.
LEMMA BeginsGrow ==
  ASSUME TypeOK, NEW b \in Bodies, NEW step \in StampSteps, ReadLine(b, step),
         SectionStart(Here) \in 0..Len(log)
  PROVE  /\ RunBegins(Len(log))' = RunBegins(Here)
         /\ RunBegins(Here)' = IF b.tag = "TEST_END" THEN {}
                               ELSE IF b.tag = "TEST_RUN_BEGIN" THEN RunBegins(Here) \cup {Here}
                               ELSE RunBegins(Here)
  <1>1. PICK n \in Nat : n = Len(log)
    BY AtGrows
  <1>2. Len(log') = n + 1 /\ Here = n + 1 /\ Here' = n + 2
    BY <1>1, AtGrows DEF Here
  <1>3. PICK s \in 0..n : s = SectionStart(Here)
    BY <1>1
  <1>4. /\ SectionStart(Here)' = (IF b.tag = "TEST_END" THEN n + 1 ELSE s)
        /\ SectionStart(Len(log))' = s
    BY <1>2, <1>3, SectionGrows
  <1>5. PICK P, Q : P = At("TEST_RUN_BEGIN") /\ Q = At("TEST_RUN_BEGIN")'
    OBVIOUS
  <1>6. /\ \A i : i \in P => i \in 1..n
        /\ \A i : i \in Q <=> i \in P \/ (i = n + 1 /\ b.tag = "TEST_RUN_BEGIN")
    BY <1>1, <1>5, AtGrows
  <1>7. RunBegins(Here) = {j \in P : s < j /\ j < n + 1}
    BY <1>2, <1>3, <1>5 DEF RunBegins
  <1>8. RunBegins(Len(log))' = {j \in Q : s < j /\ j < n + 1}
    BY <1>2, <1>4, <1>5 DEF RunBegins
  <1>9. RunBegins(Here)' =
          {j \in Q : (IF b.tag = "TEST_END" THEN n + 1 ELSE s) < j /\ j < n + 2}
    BY <1>2, <1>4, <1>5 DEF RunBegins
  <1>10. {j \in Q : s < j /\ j < n + 1} = {j \in P : s < j /\ j < n + 1}
    BY <1>6
  <1>11. CASE b.tag = "TEST_END"
    <2>1. {j \in Q : n + 1 < j /\ j < n + 2} = {}
      BY <1>6
    <2>2. QED
      BY <1>7, <1>8, <1>9, <1>10, <1>11, <2>1
  <1>12. CASE b.tag = "TEST_RUN_BEGIN"
    <2>1. {j \in Q : s < j /\ j < n + 2} = {j \in P : s < j /\ j < n + 1} \cup {n + 1}
      BY <1>6, <1>12
    <2>2. QED
      BY <1>2, <1>7, <1>8, <1>9, <1>10, <1>12, <2>1
  <1>13. CASE b.tag \notin {"TEST_END", "TEST_RUN_BEGIN"}
    <2>1. {j \in Q : s < j /\ j < n + 2} = {j \in P : s < j /\ j < n + 1}
      BY <1>6, <1>13
    <2>2. QED
      BY <1>7, <1>8, <1>9, <1>10, <1>13, <2>1
  <1>14. QED
    BY <1>11, <1>12, <1>13

\* What a line does to the runs, when data_parse() goes on after it.
LEMMA LineRuns ==
  ASSUME NEW b \in Bodies, NEW step \in StampSteps, Line(b, step), pc' = "reading",
         "a" \notin opts
  PROVE  /\ b.tag = "TEST_END" => index' = -1
         /\ (b.tag = "TEST_END" /\ "x" \notin opts) =>
              reports' = Append(reports, data_analyse(<<>>, data, index + 1))
         /\ b.tag = "TEST_RUN_BEGIN" =>
              /\ state' = test_run_begin(state, index, data).state
              /\ index' = test_run_begin(state, index, data).index
              /\ data' = test_run_begin(state, index, data).data
         /\ b.tag = "TEST_RUN_END" =>
              state' = test_run_end(state) /\ index' = index /\ data' = data
         /\ (b.tag = "SAMPLE" /\ "TEST_RUN_BEGIN" \notin state) =>
              state' = state /\ index' = index /\ data' = data
         /\ (b.tag = "SAMPLE" /\ "TEST_RUN_BEGIN" \in state) =>
              /\ index >= 0 /\ index' = index /\ state' = state
              /\ data' = [data EXCEPT ![index] = AddPoint(data[index], sec, b.y)]
         /\ b.tag \in {"TEST_CLIENT", "TEST_BEGIN", "OTHER"} =>
              /\ index' = index /\ data' = data
              /\ ("TEST_RUN_BEGIN" \in state') = ("TEST_RUN_BEGIN" \in state)
  <1>1. AtSample = [state |-> state, index |-> index, data |-> data]
    BY DEF AtSample
  <1>2. b.tag = "SAMPLE" => SampleSkipped(b) \/ SampleRecorded(b)
    BY DEF Line, TestClient, TestBegin, TestEndPrints, TestEndExtracts, TestEndCannotCreate,
           TestEndNoArch, TestRunBegin, TestRunEnd, OtherTag, SampleOutOfBounds, SampleNoMemory
  <1>3. b.tag = "SAMPLE" =>
          \/ "TEST_RUN_BEGIN" \notin state /\ state' = state /\ index' = index /\ data' = data
          \/ /\ "TEST_RUN_BEGIN" \in state
             /\ index >= 0 /\ index' = index /\ state' = state
             /\ data' = [data EXCEPT ![index] = AddPoint(data[index], sec, b.y)]
    BY <1>1, <1>2 DEF SampleSkipped, SampleRecorded, scanVars
  <1>4. b.tag = "TEST_END" => TestEndPrints(b) \/ TestEndExtracts(b) \/ TestEndCannotCreate(b)
    BY DEF Line, TestClient, TestBegin, TestEndNoArch, TestRunBegin, TestRunEnd, OtherTag,
           SampleSkipped, SampleRecorded, SampleOutOfBounds, SampleNoMemory
  <1>5. /\ b.tag = "TEST_END" => index' = -1
        /\ (b.tag = "TEST_END" /\ "x" \notin opts) =>
             reports' = Append(reports, data_analyse(<<>>, data, index + 1))
    BY <1>4 DEF TestEndPrints, TestEndExtracts, TestEndCannotCreate, TestEnded
  <1>6. /\ b.tag = "TEST_RUN_BEGIN" => TestRunBegin(b)
        /\ b.tag = "TEST_RUN_END" => TestRunEnd(b)
        /\ b.tag \in {"TEST_CLIENT", "TEST_BEGIN", "OTHER"} =>
             TestClient(b) \/ TestBegin(b) \/ OtherTag(b)
    BY DEF Line, TestClient, TestBegin, TestEndPrints, TestEndExtracts, TestEndCannotCreate,
           TestEndNoArch, TestRunBegin, TestRunEnd, OtherTag, SampleSkipped, SampleRecorded,
           SampleOutOfBounds, SampleNoMemory
  <1>7. b.tag = "TEST_RUN_BEGIN" =>
          /\ state' = test_run_begin(state, index, data).state
          /\ index' = test_run_begin(state, index, data).index
          /\ data' = test_run_begin(state, index, data).data
    BY <1>6 DEF TestRunBegin
  <1>8. b.tag = "TEST_RUN_END" =>
          state' = test_run_end(state) /\ index' = index /\ data' = data
    BY <1>6 DEF TestRunEnd
  <1>9. b.tag \in {"TEST_CLIENT", "TEST_BEGIN", "OTHER"} =>
          /\ index' = index /\ data' = data
          /\ ("TEST_RUN_BEGIN" \in state') = ("TEST_RUN_BEGIN" \in state)
    BY <1>6 DEF TestClient, TestBegin, OtherTag, scanVars
  <1>10. QED
    BY <1>3, <1>5, <1>7, <1>8, <1>9

\* The time of a sample, from the first line's.
LEMMA Origin ==
  ASSUME TypeOK, NEW b \in Bodies, NEW step \in StampSteps, ReadLine(b, step),
         start_secs = IF log = <<>> THEN -1 ELSE log[1].stamp
  PROVE  /\ log' # <<>> /\ start_secs' = log'[1].stamp
         /\ sec = log'[Len(log')].stamp - log'[1].stamp
         /\ b.y = log'[Len(log')].body.y
  <1>1. /\ Len(log) \in Nat /\ Len(log') = Len(log) + 1
        /\ \A i \in 1..Len(log) : log'[i] = log[i]
        /\ log'[Len(log) + 1] = [stamp |-> stamp', body |-> b]
    BY LogGrows
  <1>2. start_secs' = IF start_secs < 0 THEN stamp' ELSE start_secs
    BY DEF ReadLine
  <1>3. log' # <<>>
    <2>1. log' \in Seq([stamp : Nat, body : Body])
      BY LineType
    <2>2. QED
      BY <1>1, <2>1
  <1>4. start_secs' = log'[1].stamp
    <2>1. CASE log = <<>>
      <3>1. Len(log) + 1 = 1 /\ start_secs < 0
        BY <2>1
      <3>2. log'[1].stamp = stamp'
        BY <1>1, <3>1
      <3>3. QED
        BY <1>2, <3>1, <3>2
    <2>2. CASE log # <<>>
      <3>1. log \in Seq([stamp : Nat, body : Body])
        BY DEF TypeOK
      <3>2. 1 \in 1..Len(log) /\ log[1] \in [stamp : Nat, body : Body]
        <4>1. Len(log) # 0
          BY <2>2, <3>1
        <4>2. 1 \in 1..Len(log)
          BY <1>1, <4>1
        <4>3. QED
          BY <3>1, <4>2, ElementOfSeq
      <3>3. start_secs = log[1].stamp /\ start_secs \in Nat /\ log'[1] = log[1]
        BY <1>1, <2>2, <3>2
      <3>4. QED
        BY <1>2, <3>3
    <2>3. QED
      BY <2>1, <2>2
  <1>5. log'[Len(log')].stamp = stamp' /\ log'[Len(log')].body.y = b.y
    BY <1>1
  <1>6. QED
    BY <1>3, <1>4, <1>5 DEF sec

\* What a line with this tag does to the log and to its samples, begins and ends.
Grown(tag, n, h, g, l, m, A, A1, B, B1, E, E1) ==
  /\ n \in Nat /\ n = Len(log) /\ h = n + 1 /\ g = n + 2 /\ l = log /\ m = log'
  /\ UpTo(n, A, A1) /\ UpTo(n, E, E1) /\ UpTo(n, B, B)
  /\ A1 = (IF tag = "SAMPLE" THEN A \cup {h} ELSE A)
  /\ E1 = (IF tag = "TEST_RUN_END" THEN E \cup {h} ELSE E)
  /\ B1 = (IF tag = "TEST_END" THEN {}
           ELSE IF tag = "TEST_RUN_BEGIN" THEN B \cup {h} ELSE B)
  /\ Matches(l, B, A, E, h, index, data, state)

\* A line read without -a, as a step of the runs.
LEMMA MatchesLine ==
  ASSUME StatsInv, "a" \notin opts, NEW b \in Bodies, NEW step \in StampSteps,
         Line(b, step), pc' = "reading",
         start_secs = IF log = <<>> THEN -1 ELSE log[1].stamp,
         NEW n, NEW h, NEW g, NEW l, NEW m, NEW A, NEW A1, NEW B, NEW B1, NEW E, NEW E1,
         Grown(b.tag, n, h, g, l, m, A, A1, B, B1, E, E1)
  PROVE  Matches(m, B1, A1, E1, g, index', data', state')
  <1> SUFFICES ASSUME n \in Nat, n = Len(log), h = n + 1, g = n + 2, l = log, m = log',
                      UpTo(n, A, A1), UpTo(n, E, E1), UpTo(n, B, B),
                      A1 = (IF b.tag = "SAMPLE" THEN A \cup {h} ELSE A),
                      E1 = (IF b.tag = "TEST_RUN_END" THEN E \cup {h} ELSE E),
                      B1 = (IF b.tag = "TEST_END" THEN {}
                            ELSE IF b.tag = "TEST_RUN_BEGIN" THEN B \cup {h} ELSE B),
                      Matches(l, B, A, E, h, index, data, state)
               PROVE  Matches(m, B1, A1, E1, g, index', data', state')
    BY DEF Grown
  <1>a. index \in -1..(MaxTestRuns - 1) /\ data \in [Slots -> Run]
    BY DEF StatsInv, TypeOK
  <1>1. PICK i \in -1..(MaxTestRuns - 1), d \in [Slots -> Run], s \in {state}, t \in {state'} :
          i = index /\ d = data /\ s = state /\ t = state'
    BY <1>a
  <1>2. Matches(l, B, A, E, h, i, d, s)
    BY <1>1
  <1>3. ReadLine(b, step) /\ TypeOK
    BY DEF Line, StatsInv
  <1>4. \A j \in 1..n : m[j] = l[j]
    BY <1>3, LogGrows
  <1>5. /\ UpTo(n, A, A) /\ UpTo(n, E, E)
        /\ b.tag # "TEST_END" => UpTo(n, B, B1)
    BY DEF UpTo
  <1>6. h \notin A /\ h \notin E /\ h \notin B
    BY DEF UpTo
  <1>7. CASE b.tag = "TEST_END"
    <2>1. B1 = {} /\ index' = -1
      BY <1>7, LineRuns
    <2>2. PICK i1, d1 : i1 = index' /\ d1 = data'
      OBVIOUS
    <2>3. Matches(m, B1, A1, E1, g, i1, d1, t)
      BY <2>1, <2>2, MatchesNone
    <2>4. QED
      BY <1>1, <2>2, <2>3
  <1>8. CASE b.tag = "TEST_RUN_BEGIN"
    <2>1. /\ state' = test_run_begin(state, index, data).state
          /\ index' = test_run_begin(state, index, data).index
          /\ data' = test_run_begin(state, index, data).data
      BY <1>8, LineRuns
    <2>2. A1 = A /\ E1 = E /\ B1 = B \cup {h}
      BY <1>8
    <2>3. CASE i + 1 >= MaxTestRuns
      <3>1. t = s /\ index' = i /\ data' = d
        BY <1>1, <2>1, <2>3 DEF test_run_begin
      <3>2. Cardinality(B) >= MaxTestRuns
        <4>1. i + 1 = Lesser(Cardinality(B), MaxTestRuns) /\ Listed(B)
          BY <1>2 DEF Matches
        <4>2. Cardinality(B) \in Nat
          BY <4>1, FS_CardinalityType DEF Listed
        <4>3. QED
          BY <2>3, <4>1, <4>2, SlotFacts DEF Lesser
      <3>3. LineKept(n, h, g, l, m, A, A1, B, B1, E, E1, i, d, s, t)
        BY <1>2, <1>4, <1>5, <1>6, <1>8, <2>2, <3>1, <3>2 DEF LineKept
      <3>4. Matches(m, B1, A1, E1, g, i, d, t)
        BY <3>3, MatchesKept
      <3>5. QED
        BY <1>1, <3>1, <3>4
    <2>4. CASE ~(i + 1 >= MaxTestRuns)
      <3>1. /\ "TEST_RUN_BEGIN" \in t /\ index' = i + 1
            /\ data' = [d EXCEPT ![i + 1] = NewRun]
        BY <1>1, <2>1, <2>4 DEF test_run_begin
      <3>2. i + 1 < MaxTestRuns
        BY <2>4, SlotFacts
      <3>3. PICK i1, f : i1 = i + 1 /\ f = [d EXCEPT ![i + 1] = NewRun]
        OBVIOUS
      <3>4. LineBegins(n, h, g, l, m, A, B, B1, E, i, i1, d, f, s, t)
        BY <1>2, <1>4, <1>5, <1>8, <2>2, <3>1, <3>2, <3>3 DEF LineBegins
      <3>5. Matches(m, B1, A, E, g, i1, f, t)
        BY <3>4, MatchesBegin
      <3>6. A1 = A /\ E1 = E
        BY <2>2
      <3>7. index' = i1 /\ data' = f /\ state' = t
        BY <1>1, <3>1, <3>3
      <3>8. QED
        BY <3>5, <3>6, <3>7
    <2>5. QED
      BY <2>3, <2>4
  <1>9. CASE b.tag = "TEST_RUN_END"
    <2>1. "TEST_RUN_BEGIN" \notin t /\ index' = i /\ data' = d
      BY <1>1, <1>9, LineRuns DEF test_run_end
    <2>2. A1 = A /\ B1 = B /\ h \in E1
      BY <1>9
    <2>3. LineKept(n, h, g, l, m, A, A1, B, B1, E, E1, i, d, s, t)
      BY <1>2, <1>4, <1>5, <1>6, <1>9, <2>1, <2>2 DEF LineKept
    <2>4. Matches(m, B1, A1, E1, g, i, d, t)
      BY <2>3, MatchesKept
    <2>5. QED
      BY <1>1, <2>1, <2>4
  <1>10. CASE b.tag = "SAMPLE" /\ "TEST_RUN_BEGIN" \notin s
    <2>1. t = s /\ index' = i /\ data' = d
      BY <1>1, <1>10, LineRuns
    <2>2. E1 = E /\ B1 = B
      BY <1>10
    <2>3. LineKept(n, h, g, l, m, A, A1, B, B1, E, E1, i, d, s, t)
      BY <1>2, <1>4, <1>5, <1>6, <1>10, <2>1, <2>2 DEF LineKept
    <2>4. Matches(m, B1, A1, E1, g, i, d, t)
      BY <2>3, MatchesKept
    <2>5. QED
      BY <1>1, <2>1, <2>4
  <1>11. CASE b.tag = "SAMPLE" /\ "TEST_RUN_BEGIN" \in s
    <2>1. /\ index >= 0 /\ index' = index /\ t = s
          /\ data' = [data EXCEPT ![index] = AddPoint(data[index], sec, b.y)]
      BY <1>1, <1>11, LineRuns
    <2>2. PICK x \in Int, y \in Int : x = sec /\ y = b.y
      BY <1>3, LineType
    <2>3. /\ i \in 0..(MaxTestRuns - 1) /\ index' = i
          /\ data' = [d EXCEPT ![i] = AddPoint(d[i], x, y)]
      BY <1>1, <2>1, <2>2, SlotFacts
    <2>4. A1 = A \cup {h} /\ E1 = E /\ B1 = B
      BY <1>11
    <2>5. SampleAt(m, h) = [x |-> x, y |-> y]
      <3>1. Len(log') = h
        BY <1>3, LogGrows
      <3>2. QED
        BY <1>3, <2>2, <3>1, Origin DEF SampleAt
    <2>6. PICK f : f = [d EXCEPT ![i] = AddPoint(d[i], x, y)]
      OBVIOUS
    <2>7. LineSamples(n, h, g, l, m, A, A1, B, E, i, d, f, s, x, y)
      BY <1>2, <1>4, <1>5, <1>11, <2>3, <2>4, <2>5, <2>6 DEF LineSamples
    <2>8. Matches(m, B, A1, E, g, i, f, s)
      BY <2>7, MatchesSample
    <2>9. index' = i /\ data' = f /\ state' = s /\ E1 = E /\ B1 = B
      BY <1>1, <2>1, <2>3, <2>4, <2>6
    <2>10. QED
      BY <2>8, <2>9
  <1>12. CASE b.tag \in {"TEST_CLIENT", "TEST_BEGIN", "OTHER"}
    <2>1. index' = i /\ data' = d /\ ("TEST_RUN_BEGIN" \in t <=> "TEST_RUN_BEGIN" \in s)
      BY <1>1, <1>12, LineRuns
    <2>2. A1 = A /\ E1 = E /\ B1 = B
      BY <1>12
    <2>3. LineKept(n, h, g, l, m, A, A1, B, B1, E, E1, i, d, s, t)
      BY <1>2, <1>4, <1>5, <1>6, <2>1, <2>2 DEF LineKept
    <2>4. Matches(m, B1, A1, E1, g, i, d, t)
      BY <2>3, MatchesKept
    <2>5. QED
      BY <1>1, <2>1, <2>4
  <1>13. b.tag \in AllTags
    BY DEF Bodies, Body
  <1>14. QED
    BY <1>7, <1>8, <1>9, <1>10, <1>11, <1>12, <1>13 DEF AllTags

\* The lines of one kind are among those read, and a line adds itself.
LEMMA AtUpTo ==
  ASSUME TypeOK, NEW b \in Bodies, NEW step \in StampSteps, ReadLine(b, step),
         NEW n \in Nat, n = Len(log), NEW h, h = n + 1, NEW tag,
         NEW S, S = At(tag), NEW T, T = At(tag)'
  PROVE  UpTo(n, S, T) /\ T = (IF b.tag = tag THEN S \cup {h} ELSE S)
  <1>1. /\ \A i : i \in S => i \in 1..n
        /\ \A i : i \in T <=> i \in S \/ (i = h /\ b.tag = tag)
    BY AtGrows
  <1>2. T = (IF b.tag = tag THEN S \cup {h} ELSE S)
    BY <1>1
  <1>3. QED
    BY <1>1 DEF UpTo

\* The report just written has the runs of its test, each with the samples of its
\* window.
RunsReported ==
  LET i == Len(log)
      runs == reports[Len(reports)].runs
  IN /\ Listed(RunBegins(i)) /\ Len(runs) = RunsOf(i)
     /\ \A k \in 1..RunsOf(i) :
          Listed(Window(i, k)) /\ runs[k].points = PointsOf(Window(i, k))

\* It has, wherever it is written to.
LEMMA RunsWritten ==
  ASSUME StatsInv, NEW b \in Bodies, NEW step \in StampSteps, Line(b, step),
         NEW to \in {<<>>} \cup (Hosts \X Words \X Archs),
         reports' = Append(reports, data_analyse(to, data, index + 1)),
         NEW n \in Nat, n = Len(log), NEW h, h = n + 1,
         NEW A, A = At("SAMPLE")', NEW E, E = At("TEST_RUN_END")',
         NEW B, B = RunBegins(Len(log))', UpTo(n, A, A),
         Matches(log, B, A, E, h, index, data, state)
  PROVE  RunsReported'
  <1>1. ReadLine(b, step) /\ TypeOK
    BY DEF Line, StatsInv
  <1>2. Len(log') = h /\ \A j \in 1..n : log'[j] = log[j]
    BY <1>1, LogGrows
  <1>3. RunsOf(Len(log))' = Lesser(Cardinality(B), MaxTestRuns)
    BY DEF RunsOf
  <1>4. \A k : Window(Len(log), k)' = WindowIn(B, A, E, h, k)
    BY <1>2, <1>3 DEF Window, WindowIn
  <1>5. \A S : PointsOf(S)' = PointsAt(log', S)
    BY DEF PointsOf, PointsAt, SampleAt
  <1>6. /\ index + 1 = Lesser(Cardinality(B), MaxTestRuns)
        /\ \A k \in 1..(index + 1) :
             /\ Listed(WindowIn(B, A, E, h, k))
             /\ data[k - 1].points = PointsAt(log, WindowIn(B, A, E, h, k))
    BY DEF Matches
  <1> DEFINE r == data_analyse(to, data, index + 1)
  <1>7. reports' = Append(reports, r)
    OBVIOUS
  <1>8. r.runs = [k \in 1..(index + 1) |-> data[k - 1]]
    BY DEF data_analyse
  <1>9. r \in Report /\ reports \in Seq(Report)
    BY <1>1, ReportType DEF TypeOK
  <1> HIDE DEF r
  <1>10. reports'[Len(reports')] = r
    BY <1>7, <1>9
  <1>11. index + 1 \in Nat
    BY <1>1, SlotFacts DEF TypeOK
  <1>12. Len(r.runs) = RunsOf(Len(log))'
    <2>1. r.runs \in Seq(Run)
      BY <1>9 DEF Report
    <2>2. DOMAIN r.runs = 1..(index + 1)
      BY <1>8
    <2>3. Len(r.runs) = index + 1
      BY <1>11, <2>1, <2>2, LenProperties
    <2>4. QED
      BY <1>3, <1>6, <2>3
  <1>13. ASSUME NEW k \in 1..(index + 1)
         PROVE  /\ Listed(Window(Len(log), k))'
                /\ r.runs[k].points = PointsOf(Window(Len(log), k))'
    <2> DEFINE W == WindowIn(B, A, E, h, k)
    <2>1. Listed(W) /\ data[k - 1].points = PointsAt(log, W)
      BY <1>6
    <2>2. W \in SUBSET (1..n)
      BY DEF WindowIn, UpTo
    <2> HIDE DEF W
    <2>3. PICK l, m : l = log /\ m = log'
      OBVIOUS
    <2>4. PointsAt(m, W) = PointsAt(l, W)
      BY <1>2, <2>1, <2>2, <2>3, PointsSame
    <2>5. PointsOf(Window(Len(log), k))' = PointsAt(m, W)
      <3>1. Window(Len(log), k)' = W
        BY <1>4 DEF W
      <3>2. PointsOf(Window(Len(log), k))' = PointsAt(m, Window(Len(log), k)')
        BY <2>3 DEF PointsOf, PointsAt, SampleAt
      <3>3. QED
        BY <3>1, <3>2
    <2>6. Listed(Window(Len(log), k))'
      <3>1. Window(Len(log), k)' = W
        BY <1>4 DEF W
      <3>2. QED
        BY <2>1, <3>1
    <2>7. QED
      BY <1>8, <2>1, <2>3, <2>4, <2>5, <2>6
  <1>14. Listed(RunBegins(Len(log)))'
    <2>1. Listed(B)
      BY DEF Matches
    <2>2. QED
      BY <2>1
  <1>15. QED
    <2>1. 1..(index + 1) = 1..RunsOf(Len(log))'
      BY <1>3, <1>6
    <2>2. \A k \in 1..RunsOf(Len(log))' :
            Listed(Window(Len(log), k))' /\ r.runs[k].points = PointsOf(Window(Len(log), k))'
      BY <1>13, <2>1
    <2>3. QED
      BY <1>10, <1>12, <1>14, <2>2 DEF RunsReported

LEMMA RunsLine ==
  ASSUME RunsInv, NEW b \in Bodies, NEW step \in StampSteps, Line(b, step)
  PROVE  RunsTracked' /\ ReportsMatchLog'
  <1>1. TypeOK /\ StatsInv /\ ReadLine(b, step) /\ pc = "reading" /\ opts' = opts
    BY DEF RunsInv, StatsInv, Line, ReadLine
  <1> SUFFICES ASSUME pc' = "reading", "a" \notin opts
               PROVE  RunsTracked' /\ ReportsMatchLog'
    BY <1>1 DEF RunsTracked, ReportsMatchLog, JustReported
  <1>2. /\ start_secs = IF log = <<>> THEN -1 ELSE log[1].stamp
        /\ SectionStart(Here) \in 0..Len(log)
        /\ Matches(log, RunBegins(Here), At("SAMPLE"), At("TEST_RUN_END"), Here, index,
                   data, state)
    BY <1>1 DEF RunsInv, RunsTracked
  <1>3. PICK n \in Nat : n = Len(log)
    BY <1>1, LogGrows
  <1>4. PICK h, g : h = n + 1 /\ g = n + 2
    OBVIOUS
  <1>5. /\ Len(log') = h /\ Here = h /\ Here' = g
        /\ log'[h] = [stamp |-> stamp', body |-> b]
    BY <1>1, <1>3, <1>4, LogGrows DEF Here
  <1>6. PICK A, A1, E, E1, B, B1, l, m :
          /\ A = At("SAMPLE") /\ A1 = At("SAMPLE")'
          /\ E = At("TEST_RUN_END") /\ E1 = At("TEST_RUN_END")'
          /\ B = RunBegins(Here) /\ B1 = RunBegins(Here)'
          /\ l = log /\ m = log'
    OBVIOUS
  <1>7. UpTo(n, A, A1) /\ A1 = (IF b.tag = "SAMPLE" THEN A \cup {h} ELSE A)
    BY <1>1, <1>3, <1>4, <1>6, AtUpTo
  <1>8. UpTo(n, E, E1) /\ E1 = (IF b.tag = "TEST_RUN_END" THEN E \cup {h} ELSE E)
    BY <1>1, <1>3, <1>4, <1>6, AtUpTo
  <1>9. /\ B1 = (IF b.tag = "TEST_END" THEN {}
                 ELSE IF b.tag = "TEST_RUN_BEGIN" THEN B \cup {h} ELSE B)
        /\ B = RunBegins(Len(log))'
    BY <1>1, <1>2, <1>5, <1>6, BeginsGrow
  <1>10. UpTo(n, B, B)
    <2>1. B \subseteq At("TEST_RUN_BEGIN")
      BY <1>6 DEF RunBegins
    <2>2. At("TEST_RUN_BEGIN") \subseteq 1..n
      BY <1>3 DEF At
    <2>3. QED
      BY <2>1, <2>2 DEF UpTo
  <1>11. Matches(l, B, A, E, h, index, data, state)
    BY <1>2, <1>5, <1>6
  <1>12. Matches(m, B1, A1, E1, g, index', data', state')
    <2>1. Grown(b.tag, n, h, g, l, m, A, A1, B, B1, E, E1)
      BY <1>3, <1>4, <1>6, <1>7, <1>8, <1>9, <1>10, <1>11 DEF Grown
    <2>2. start_secs = IF log = <<>> THEN -1 ELSE log[1].stamp
      BY <1>2
    <2>3. QED
      BY <1>1, <2>1, <2>2, MatchesLine
  <1>13. RunsTracked'
    <2>1. start_secs' = log'[1].stamp /\ log' # <<>>
      BY <1>1, <1>2, Origin
    <2>2. SectionStart(Here)' \in 0..Len(log')
      <3>1. PICK s \in 0..n : s = SectionStart(Here)
        BY <1>2, <1>3
      <3>2. SectionStart(Here)' = (IF b.tag = "TEST_END" THEN h ELSE s)
        BY <1>1, <1>2, <1>5, <3>1, SectionGrows
      <3>3. (IF b.tag = "TEST_END" THEN h ELSE s) \in 0..h
        BY <1>4
      <3>4. QED
        BY <1>5, <3>2, <3>3
    <2>3. Matches(log, RunBegins(Here), At("SAMPLE"), At("TEST_RUN_END"), Here, index,
                  data, state)'
      BY <1>5, <1>6, <1>12
    <2>4. QED
      BY <2>1, <2>2, <2>3 DEF RunsTracked
  <1>14. ReportsMatchLog'
    <2>1. log'[Len(log')].body = b
      BY <1>5
    <2> SUFFICES ASSUME b.tag = "TEST_END", "x" \notin opts
                 PROVE  ReportsMatchLog'
      BY <1>1, <2>1 DEF ReportsMatchLog, JustReported
    <2>2. A = At("SAMPLE")' /\ E = At("TEST_RUN_END")'
      BY <1>6, <1>7, <1>8
    <2>3. UpTo(n, A, A)
      BY <1>7 DEF UpTo
    <2>4. Matches(log, B, A, E, h, index, data, state)
      BY <1>6, <1>11
    <2>5. reports' = Append(reports, data_analyse(<<>>, data, index + 1))
      BY LineRuns
    <2>6. RunsReported'
      BY <1>1, <1>3, <1>4, <1>9, <2>2, <2>3, <2>4, <2>5, RunsWritten
    <2>7. QED
      BY <2>6 DEF RunsReported, ReportsMatchLog
  <1>15. QED
    BY <1>13, <1>14

LEMMA RunsStep == RunsInv /\ [Next]_vars => RunsInv'
  <1> SUFFICES ASSUME RunsInv, [Next]_vars
               PROVE  RunsInv'
    OBVIOUS
  <1>1. StatsInv'
    BY StatsStep DEF RunsInv
  <1> SUFFICES RunsTracked' /\ ReportsMatchLog'
    BY <1>1 DEF RunsInv
  <1>2. CASE (\E o \in OptionSets : Getopt(o)) \/ ShowHelp \/ OpenFails \/ CloseFile \/ Exit
    <2>1. pc' = "main" \/ pc' = "exited"
      BY <1>2 DEF Getopt, ShowHelp, OpenFails, CloseFile, Exit
    <2>2. QED
      BY <2>1 DEF RunsTracked, ReportsMatchLog, JustReported
  <1>3. CASE OpenFile
    <2>1. log' = <<>> /\ start_secs' = -1 /\ index' = -1
      BY <1>3 DEF OpenFile
    <2>2. Len(log') = 0 /\ 1..Len(log') = {}
      <3>1. Len(log') = 0
        BY <2>1
      <3>2. QED
        BY <3>1
    <2>3. At("TEST_END")' = {} /\ At("TEST_RUN_BEGIN")' = {}
      BY <2>2 DEF At
    <2>4. SectionStart(Here)' = 0
      BY <2>3 DEF SectionStart, Latest
    <2>5. RunBegins(Here)' = {}
      BY <2>3 DEF RunBegins
    <2>6. PICK l, A, E, h, B, i, d, s :
            /\ l = log' /\ A = At("SAMPLE")' /\ E = At("TEST_RUN_END")' /\ h = Here'
            /\ B = RunBegins(Here)' /\ i = index' /\ d = data' /\ s = state'
      OBVIOUS
    <2>7. Matches(l, B, A, E, h, i, d, s)
      BY <2>1, <2>5, <2>6, MatchesNone
    <2>8. Matches(log, RunBegins(Here), At("SAMPLE"), At("TEST_RUN_END"), Here, index,
                  data, state)'
      BY <2>6, <2>7
    <2>9. RunsTracked'
      BY <2>1, <2>2, <2>4, <2>8 DEF RunsTracked
    <2>10. QED
      BY <2>1, <2>9 DEF ReportsMatchLog, JustReported
  <1>4. CASE \E b \in Bodies, step \in StampSteps : Line(b, step)
    BY <1>4, RunsLine
  <1>5. CASE UNCHANGED vars
    <2>1. /\ pc' = pc /\ opts' = opts /\ index' = index /\ state' = state /\ data' = data
          /\ start_secs' = start_secs /\ reports' = reports /\ log' = log
      BY <1>5 DEF vars, scanVars
    <2>2. RunsTracked'
      BY <2>1 DEF RunsInv, RunsTracked, RunBegins, SectionStart, At, Here
    <2>3. ReportsMatchLog'
      <3>1. \A tag : At(tag)' = At(tag)
        BY <2>1 DEF At
      <3>2. \A i : RunBegins(i)' = RunBegins(i)
        BY <3>1 DEF RunBegins, SectionStart
      <3>3. \A i : RunsOf(i)' = RunsOf(i)
        BY <3>2 DEF RunsOf
      <3>4. \A i, k : Window(i, k)' = Window(i, k)
        BY <3>1, <3>2, <3>3 DEF Window
      <3>5. \A i, k : PointsOf(Window(i, k))' = PointsOf(Window(i, k))
        BY <2>1, <3>4 DEF PointsOf
      <3>6. QED
        BY <2>1, <3>3, <3>5 DEF RunsInv, ReportsMatchLog, JustReported
    <2>4. QED
      BY <2>2, <2>3
  <1>6. QED
    BY <1>2, <1>3, <1>4, <1>5 DEF Next

\* statstool reports what the log says, whatever was lost, repeated or reordered on
\* the way to it: the report of a test printed at TEST_END has one run per
\* TEST_RUN_BEGIN, up to MAX_TEST_RUNS, each with the samples of its stretch of the
\* log, in order and timed from the first line.
THEOREM StatsReportsMatch == Spec => []ReportsMatchLog
  <1>1. Init => RunsInv
    BY StatsInit DEF Init, RunsInv, RunsTracked, ReportsMatchLog, JustReported
  <1>2. RunsInv => ReportsMatchLog
    BY DEF RunsInv
  <1>3. QED
    BY <1>1, <1>2, RunsStep, PTL DEF Spec

-----------------------------------------------------------------------------
(* The last report *)

\* Of one log file: there are no more reports than ends of tests, and if there are as
\* many the last one is that of the test that has just ended.  (A test leaves no report
\* if its file cannot be created.  Without -a.)
LastReport ==
  /\ files > 0 => reports = <<>> /\ pc \notin {"reading", "eof"}
  /\ (pc = "reading" /\ "a" \notin opts) =>
       /\ Len(reports) <= Cardinality(At("TEST_END"))
       /\ (JustReported /\ Len(reports) = Cardinality(At("TEST_END"))) =>
            NamedAsAnnounced /\ RunsReported

LastInv == NamesInv /\ RunsInv /\ LastReport

\* One more TEST_END, or none.
LEMMA EndsCounted ==
  ASSUME TypeOK, NEW b \in Bodies, NEW step \in StampSteps, ReadLine(b, step),
         NEW c, c = Cardinality(At("TEST_END"))
  PROVE  /\ c \in Nat
         /\ Cardinality(At("TEST_END"))' = IF b.tag = "TEST_END" THEN c + 1 ELSE c
  <1>1. PICK n \in Nat, h \in Nat : n = Len(log) /\ h = n + 1
    BY LogGrows
  <1>2. PICK S, T : S = At("TEST_END") /\ T = At("TEST_END")'
    OBVIOUS
  <1>3. UpTo(n, S, T) /\ T = (IF b.tag = "TEST_END" THEN S \cup {h} ELSE S)
    BY <1>1, <1>2, AtUpTo
  <1>4. IsFiniteSet(S) /\ h \notin S
    <2>1. S \subseteq 1..n /\ 1 \in Int /\ n \in Int
      BY <1>3 DEF UpTo
    <2>2. IsFiniteSet(1..n)
      BY <2>1, FS_Interval
    <2>3. IsFiniteSet(S)
      BY <2>1, <2>2, FS_Subset
    <2>4. h \notin 1..n
      BY <1>1
    <2>5. QED
      BY <2>1, <2>3, <2>4
  <1>5. c \in Nat /\ c = Cardinality(S) /\ Cardinality(S \cup {h}) = c + 1
    BY <1>2, <1>4, FS_CardinalityType, FS_AddElement
  <1>6. Cardinality(T) = IF b.tag = "TEST_END" THEN c + 1 ELSE c
    BY <1>3, <1>5
  <1>7. QED
    BY <1>2, <1>5, <1>6

\* What the end of a test writes is the report of that test.
LEMMA LastRuns ==
  ASSUME StatsInv, RunsTracked, pc = "reading", "a" \notin opts,
         NEW b \in Bodies, NEW step \in StampSteps, Line(b, step), b.tag = "TEST_END",
         NEW to \in {<<>>} \cup (Hosts \X Words \X Archs),
         reports' = Append(reports, data_analyse(to, data, index + 1))
  PROVE  RunsReported'
  <1>1. TypeOK /\ ReadLine(b, step)
    BY DEF StatsInv, Line
  <1>2. PICK n \in Nat, h \in Nat : n = Len(log) /\ h = n + 1
    <2>1. Len(log) \in Nat /\ Len(log) + 1 \in Nat
      BY <1>1, LogGrows
    <2>2. QED
      BY <2>1
  <1>3. Here = h
    BY <1>2 DEF Here
  <1>4. PICK A, E, B : A = At("SAMPLE")' /\ E = At("TEST_RUN_END")' /\ B = RunBegins(Len(log))'
    OBVIOUS
  <1>5. A = At("SAMPLE") /\ UpTo(n, A, A)
    <2>1. PICK S : S = At("SAMPLE")
      OBVIOUS
    <2>2. UpTo(n, S, A) /\ A = S
      BY <1>1, <1>2, <1>4, <2>1, AtUpTo
    <2>3. QED
      BY <2>1, <2>2
  <1>6. E = At("TEST_RUN_END")
    BY <1>1, <1>2, <1>4, AtUpTo
  <1>7. B = RunBegins(Here)
    BY <1>1, <1>4, BeginsGrow DEF RunsTracked
  <1>8. Matches(log, B, A, E, h, index, data, state)
    BY <1>3, <1>5, <1>6, <1>7 DEF RunsTracked
  <1>9. QED
    BY <1>2, <1>4, <1>5, <1>8, RunsWritten

LEMMA LastLine ==
  ASSUME LastInv, NEW b \in Bodies, NEW step \in StampSteps, Line(b, step), MaxFiles = 1
  PROVE  LastReport'
  <1>1. /\ StatsInv /\ TypeOK /\ ReadLine(b, step) /\ pc = "reading"
        /\ opts' = opts /\ files' = files
    BY DEF LastInv, NamesInv, StatsInv, Line, ReadLine
  <1>2. ~(files > 0)
    BY <1>1 DEF LastInv, LastReport
  <1> SUFFICES ASSUME pc' = "reading", "a" \notin opts
               PROVE  /\ Len(reports') <= Cardinality(At("TEST_END"))'
                      /\ (JustReported' /\ Len(reports') = Cardinality(At("TEST_END"))') =>
                           NamedAsAnnounced' /\ RunsReported'
    BY <1>1, <1>2 DEF LastReport
  <1>3. PICK c : c = Cardinality(At("TEST_END"))
    OBVIOUS
  <1>4. c \in Nat /\ Cardinality(At("TEST_END"))' = IF b.tag = "TEST_END" THEN c + 1 ELSE c
    BY <1>1, <1>3, EndsCounted
  <1>5. PICK m \in Nat : m = Len(reports) /\ m <= c
    <2>1. Len(reports) \in Nat
      BY <1>1 DEF TypeOK
    <2>2. QED
      BY <1>1, <1>3, <2>1 DEF LastInv, LastReport
  <1>6. JustReported' => b.tag = "TEST_END"
    <2>1. PICK h : h = Len(log) + 1 /\ h = Len(log')
      BY <1>1, LogGrows
    <2>2. log'[h] = [stamp |-> stamp', body |-> b]
      BY <1>1, <2>1, LogGrows
    <2>3. log'[h].body = b
      BY <2>2
    <2>4. QED
      BY <2>1, <2>3 DEF JustReported
  <1>7. CASE reports' = reports
    BY <1>4, <1>5, <1>6, <1>7
  <1>8. ASSUME b.tag = "TEST_END", NEW to \in {<<>>} \cup (Hosts \X Words \X Archs),
               to = <<>> <=> "x" \notin opts,
               reports' = Append(reports, data_analyse(to, data, index + 1))
        PROVE  Len(reports') <= Cardinality(At("TEST_END"))' /\ NamedAsAnnounced' /\ RunsReported'
    <2>1. PICK r \in Report : r = data_analyse(to, data, index + 1)
      BY <1>1, ReportType
    <2>2. Len(reports') = m + 1
      <3>1. reports \in Seq(Report)
        BY <1>1 DEF TypeOK
      <3>2. QED
        BY <1>5, <1>8, <2>1, <3>1
    <2>3. Len(reports') <= Cardinality(At("TEST_END"))'
      BY <1>4, <1>5, <1>8, <2>2
    <2>4. NamedAsAnnounced'
      BY <1>1, <1>8, NamesWritten DEF LastInv, NamesInv
    <2>5. RunsReported'
      BY <1>1, <1>8, LastRuns DEF LastInv, RunsInv
    <2>6. QED
      BY <2>3, <2>4, <2>5
  <1>9. QED
    BY <1>1, <1>7, <1>8, LineReports

LEMMA LastStep == MaxFiles = 1 /\ LastInv /\ [Next]_vars => LastReport'
  <1> SUFFICES ASSUME MaxFiles = 1, LastInv, [Next]_vars
               PROVE  LastReport'
    OBVIOUS
  <1>0. files \in 0..1
    BY DEF LastInv, NamesInv, StatsInv, TypeOK
  <1>1. CASE (\E o \in OptionSets : Getopt(o)) \/ ShowHelp \/ Exit \/ OpenFails \/ CloseFile
    <2>1. /\ pc' \in {"main", "exited"} /\ files' \in 0..files
          /\ files' > 0 => reports' = reports
      BY <1>0, <1>1 DEF Getopt, ShowHelp, Exit, OpenFails, CloseFile, LastInv, LastReport
    <2>2. QED
      BY <1>0, <2>1 DEF LastInv, LastReport
  <1>2. CASE OpenFile
    <2>1. log' = <<>> /\ files' = 0 /\ reports' = reports /\ reports = <<>>
      <3>1. files > 0 => reports = <<>>
        BY DEF LastInv, LastReport
      <3>2. files > 0 /\ files' = files - 1 /\ log' = <<>> /\ reports' = reports
        BY <1>2 DEF OpenFile
      <3>3. QED
        BY <1>0, <3>1, <3>2
    <2>2. At("TEST_END")' = {}
      <3>1. Len(log') = 0 /\ 1..0 = {}
        BY <2>1
      <3>2. QED
        BY <3>1 DEF At
    <2>3. Len(reports') = 0 /\ Cardinality(At("TEST_END"))' = 0
      BY <2>1, <2>2, FS_EmptySet
    <2>4. QED
      BY <2>1, <2>3 DEF LastReport, JustReported
  <1>3. CASE \E b \in Bodies, step \in StampSteps : Line(b, step)
    BY <1>3, LastLine
  <1>4. CASE UNCHANGED vars
    <2>1. /\ pc' = pc /\ opts' = opts /\ files' = files /\ reports' = reports /\ log' = log
      BY <1>4 DEF vars
    <2>2. \A tag : At(tag)' = At(tag)
      BY <2>1 DEF At
    <2>3. /\ \A i : SectionStart(i)' = SectionStart(i) /\ RunBegins(i)' = RunBegins(i)
          /\ \A i : RunsOf(i)' = RunsOf(i)
          /\ \A i, tag : LastIn(tag, i)' = LastIn(tag, i)
      BY <2>2 DEF RunBegins, SectionStart, LastIn, RunsOf
    <2>4. \A i, k : Window(i, k)' = Window(i, k)
      BY <2>2, <2>3 DEF Window
    <2>5. \A i, k : PointsOf(Window(i, k))' = PointsOf(Window(i, k))
      BY <2>1, <2>4 DEF PointsOf
    <2>6. NamedAsAnnounced' <=> NamedAsAnnounced
      BY <2>1, <2>3 DEF NamedAsAnnounced
    <2>7. RunsReported' <=> RunsReported
      BY <2>1, <2>3, <2>4, <2>5 DEF RunsReported
    <2>8. Cardinality(At("TEST_END"))' = Cardinality(At("TEST_END"))
      BY <2>2
    <2>9. JustReported' <=> JustReported
      BY <2>1 DEF JustReported
    <2>10. QED
      BY <2>1, <2>6, <2>7, <2>8, <2>9 DEF LastInv, LastReport
  <1>5. QED
    BY <1>1, <1>2, <1>3, <1>4 DEF Next

\* If statstool has written as many reports as tests have ended, the last one is that of
\* the test that has just ended, with its names, its runs and their samples, whatever
\* was lost, repeated or reordered on the way to the log, and wherever it is written.
THEOREM StatsLastReport == MaxFiles = 1 => (Spec => []LastReport)
  <1> SUFFICES ASSUME MaxFiles = 1 PROVE Spec => []LastReport
    OBVIOUS
  <1>1. Init => LastInv
    BY StatsInit
    DEF Init, LastInv, NamesInv, NamesTracked, RunsInv, RunsTracked,
        ReportsMatchLog, JustReported, LastReport
  <1>2. LastInv /\ [Next]_vars => LastInv'
    BY NamesStep, RunsStep, LastStep DEF LastInv
  <1>3. LastInv => LastReport
    BY DEF LastInv
  <1>4. QED
    BY <1>1, <1>2, <1>3, PTL DEF Spec

-----------------------------------------------------------------------------
(* The samples a report counts *)

\* Each position is the k-th for some k, and a later one has a greater k.
LEMMA NthAll ==
  ASSUME NEW S \in SUBSET Int, IsFiniteSet(S), NEW i \in S
  PROVE  /\ Cardinality(S) \in Nat
         /\ \E k \in 1..Cardinality(S) : k = Cardinality({j \in S : j <= i}) /\ Nth(S, k) = i
         /\ \A m \in S : m <= i => Cardinality({j \in S : j <= m}) <= Cardinality({j \in S : j <= i})
  <1> DEFINE P(m) == {j \in S : j <= m}
  <1>1. \A m \in S : IsFiniteSet(P(m)) /\ Cardinality(P(m)) \in Nat /\ Cardinality(P(m)) <= Cardinality(S)
    <2> SUFFICES ASSUME NEW m \in S
                 PROVE  IsFiniteSet(P(m)) /\ Cardinality(P(m)) \in Nat /\ Cardinality(P(m)) <= Cardinality(S)
      OBVIOUS
    <2>1. P(m) \in SUBSET S
      OBVIOUS
    <2> HIDE DEF P
    <2>2. QED
      BY <2>1, FS_Subset, FS_CardinalityType
  <1>2. P(i) # {}
    <2>1. i \in P(i)
      OBVIOUS
    <2>2. QED
      BY <2>1
  <1>3. ASSUME NEW m \in S, m <= i PROVE Cardinality(P(m)) <= Cardinality(P(i))
    <2>1. P(m) \in SUBSET P(i)
      <3>1. \A j \in S : j \in Int /\ (j <= m => j <= i)
        BY <1>3
      <3>2. QED
        BY <3>1
    <2> HIDE DEF P
    <2>2. QED
      BY <1>1, <2>1, FS_Subset
  <1>4. PICK k : k = Cardinality(P(i))
    OBVIOUS
  <1>5. Nth(S, k) = i
    BY <1>4, NthIs
  <1>6. k \in 1..Cardinality(S) /\ Cardinality(S) \in Nat
    <2> HIDE DEF P
    <2>1. k # 0
      BY <1>1, <1>2, <1>4, FS_EmptySet
    <2>2. Cardinality(S) \in Nat
      BY FS_CardinalityType
    <2>3. QED
      BY <1>1, <1>4, <2>1, <2>2
  <1>7. QED
    BY <1>3, <1>4, <1>5, <1>6

\* The points of a run are those of the samples in its window.
LEMMA PointsListed ==
  ASSUME NEW W \in SUBSET Int, Listed(W), NEW v
  PROVE  (\E p \in Range(PointsOf(W)) : p.y = v) <=> (\E j \in W : log[j].body.y = v)
  <1>1. IsFiniteSet(W) /\ \A k \in 1..Cardinality(W) : Nth(W, k) \in W
    BY DEF Listed
  <1>2. PICK q : q = PointsOf(W)
    OBVIOUS
  <1>3. DOMAIN q = 1..Cardinality(W) /\ \A m \in 1..Cardinality(W) : q[m].y = log[Nth(W, m)].body.y
    BY <1>2 DEF PointsOf
  <1>4. \A p : p \in Range(q) <=> \E m \in 1..Cardinality(W) : p = q[m]
    BY <1>3 DEF Range
  <1>5. ASSUME NEW j \in W PROVE \E m \in 1..Cardinality(W) : Nth(W, m) = j
    BY <1>1, NthAll
  <1>6. ASSUME NEW m \in 1..Cardinality(W), q[m].y = v
        PROVE  \E j \in W : log[j].body.y = v
    BY <1>1, <1>3, <1>6
  <1>7. ASSUME NEW j \in W, log[j].body.y = v
        PROVE  \E m \in 1..Cardinality(W) : q[m].y = v
    BY <1>3, <1>5, <1>7
  <1>8. (\E p \in Range(q) : p.y = v) <=> (\E m \in 1..Cardinality(W) : q[m].y = v)
    BY ONLY <1>4
  <1>9. QED
    BY <1>2, <1>6, <1>7, <1>8

\* A sample is in the window of some run if and only if a run began before it and none
\* has ended since, as long as data[] has room for all runs.
LEMMA WindowsCover ==
  ASSUME NEW n \in Nat, Listed(RunBegins(n)), MaxTestRuns \in Nat,
         Cardinality(RunBegins(n)) <= MaxTestRuns, NEW i
  PROVE  (\E k \in 1..RunsOf(n) : i \in Window(n, k)) <=>
         /\ i \in At("SAMPLE") /\ i < n
         /\ \E b \in RunBegins(n) :
              b < i /\ \A e \in At("TEST_RUN_END") : ~(b < e /\ e < i)
  <1>1. PICK B : B = RunBegins(n)
    OBVIOUS
  <1>2. /\ B \in SUBSET (1..n) /\ \A j \in B : j \in Int /\ j < n
        /\ \A j \in B : log[j].body.tag = "TEST_RUN_BEGIN"
    BY <1>1 DEF RunBegins, At
  <1>3. IsFiniteSet(B) /\ B \in SUBSET Int /\ \A k \in 1..Cardinality(B) : Nth(B, k) \in B
    BY <1>1, <1>2 DEF Listed
  <1>4. PICK c \in Nat : c = Cardinality(B) /\ RunsOf(n) = c
    <2>1. Cardinality(B) \in Nat
      BY <1>3, FS_CardinalityType
    <2>2. QED
      BY <1>1, <2>1 DEF RunsOf, Lesser
  <1>5. \A k \in 1..c : i \in Window(n, k) <=>
          /\ i \in At("SAMPLE") /\ Nth(B, k) < i /\ i < (IF k < c THEN Nth(B, k + 1) ELSE n)
          /\ \A e \in At("TEST_RUN_END") : ~(Nth(B, k) < e /\ e < i)
    BY <1>1, <1>4 DEF Window
  <1>6. ASSUME NEW k \in 1..c, i \in Window(n, k)
        PROVE  /\ i \in At("SAMPLE") /\ i < n
               /\ \E b \in B : b < i /\ \A e \in At("TEST_RUN_END") : ~(b < e /\ e < i)
    <2>1. Nth(B, k) \in B /\ (k < c => Nth(B, k + 1) \in B)
      BY <1>3, <1>4
    <2>2. i \in Int
      BY <1>5, <1>6 DEF At
    <2>3. i < n
      <3>1. PICK x : x = IF k < c THEN Nth(B, k + 1) ELSE n
        OBVIOUS
      <3>2. i < x
        BY <1>5, <1>6, <3>1
      <3>3. \/ k < c /\ x = Nth(B, k + 1)
            \/ x = n
        BY <3>1
      <3>4. x \in B \/ x = n
        BY <2>1, <3>3
      <3>5. x \in Int /\ x <= n
        <4>1. x \in B => x \in Int /\ x < n
          BY <1>2
        <4>2. \A y \in Int : y < n => y <= n
          OBVIOUS
        <4>3. n \in Int /\ n <= n
          OBVIOUS
        <4>4. QED
          BY <3>4, <4>1, <4>2, <4>3
      <3>6. QED
        BY <2>2, <3>2, <3>5
    <2>4. QED
      BY <1>5, <1>6, <2>1, <2>3
  <1>7. ASSUME i \in At("SAMPLE"), i < n, NEW b \in B, b < i,
               \A e \in At("TEST_RUN_END") : ~(b < e /\ e < i)
        PROVE  \E k \in 1..c : i \in Window(n, k)
    <2>1. i \in Int /\ log[i].body.tag = "SAMPLE"
      BY <1>7 DEF At
    <2>2. PICK T : T = {j \in B : j < i}
      OBVIOUS
    <2>3. T \in SUBSET (0..n) /\ T # {}
      <3>1. b \in T /\ T \subseteq B
        BY <1>7, <2>2
      <3>2. \A j \in 1..n : j \in 0..n
        OBVIOUS
      <3>3. QED
        BY <1>2, <3>1, <3>2
    <2>4. PICK g \in T : \A j \in T : j <= g
      BY <2>3, GreatestExists
    <2>5. g \in B /\ g < i /\ b <= g /\ g \in Int
      BY <1>2, <1>7, <2>2, <2>4
    <2>6. PICK k \in 1..c : k = Cardinality({j \in B : j <= g}) /\ Nth(B, k) = g
      BY <1>3, <1>4, <2>5, NthAll
    <2>7. ASSUME k < c PROVE i < Nth(B, k + 1)
      <3>1. k + 1 \in 1..Cardinality(B)
        BY <1>4, <2>7
      <3>2. PICK h \in B : h = Nth(B, k + 1) /\ Cardinality({j \in B : j <= h}) = k + 1
        BY <1>1, <3>1 DEF Listed
      <3>3. ~(h <= g)
        <4>1. h <= g => k + 1 <= k
          BY <1>3, <2>5, <2>6, <3>2, NthAll
        <4>2. QED
          BY <4>1
      <3>4. h \notin T /\ h \in Int /\ h # i
        BY <1>2, <2>1, <2>4, <3>3
      <3>5. ~(h < i)
        BY <2>2, <3>4
      <3>6. QED
        BY <2>1, <3>2, <3>4, <3>5
    <2>8. \A e \in At("TEST_RUN_END") : ~(g < e /\ e < i)
      <3>1. b \in Int /\ \A e \in At("TEST_RUN_END") : e \in Int
        BY <1>2 DEF At
      <3>2. QED
        BY <1>7, <2>1, <2>5, <3>1
    <2>9. QED
      BY <1>5, <1>7, <2>5, <2>6, <2>7, <2>8
  <1>8. QED
    BY <1>1, <1>4, <1>6, <1>7

\* v is a reading of one of the runs if and only if some sample read it in a run that
\* began before and had not ended, in the test that ends at n.
ReadInRun(n, runs, v) ==
  (\E k \in 1..Len(runs) : \E p \in Range(runs[k].points) : p.y = v) <=>
  \E i \in At("SAMPLE") :
    /\ i < n /\ log[i].body.y = v
    /\ \E b \in RunBegins(n) :
         b < i /\ \A e \in At("TEST_RUN_END") : ~(b < e /\ e < i)

\* So the readings of the report are those of these samples.
LEMMA SamplesCounted ==
  ASSUME RunsReported, MaxTestRuns \in Nat, NEW n \in Nat, n = Len(log),
         Cardinality(RunBegins(n)) <= MaxTestRuns,
         NEW runs, runs = reports[Len(reports)].runs, NEW v
  PROVE  ReadInRun(n, runs, v)
  <1>1. /\ Listed(RunBegins(n)) /\ Len(runs) = RunsOf(n)
        /\ \A k \in 1..RunsOf(n) :
             Listed(Window(n, k)) /\ runs[k].points = PointsOf(Window(n, k))
    BY DEF RunsReported
  <1>2. ASSUME NEW k \in 1..RunsOf(n)
        PROVE  (\E p \in Range(runs[k].points) : p.y = v) <=>
               (\E j \in Window(n, k) : log[j].body.y = v)
    <2>1. Window(n, k) \in SUBSET Int
      BY DEF Window, At
    <2>2. PICK W \in SUBSET Int : W = Window(n, k)
      BY <2>1
    <2>3. Listed(W) /\ runs[k].points = PointsOf(W)
      BY <1>1, <2>2
    <2>4. (\E p \in Range(PointsOf(W)) : p.y = v) <=> (\E j \in W : log[j].body.y = v)
      BY <2>3, PointsListed
    <2>5. QED
      BY <2>2, <2>3, <2>4
  <1>3. \A i : (\E k \in 1..RunsOf(n) : i \in Window(n, k)) <=>
         /\ i \in At("SAMPLE") /\ i < n
         /\ \E b \in RunBegins(n) :
              b < i /\ \A e \in At("TEST_RUN_END") : ~(b < e /\ e < i)
    BY <1>1, WindowsCover
  <1> DEFINE C(k) == \E p \in Range(runs[k].points) : p.y = v
             M(i) == \E b \in RunBegins(n) :
                       b < i /\ \A e \in At("TEST_RUN_END") : ~(b < e /\ e < i)
  <1>4. \A k \in 1..RunsOf(n) : C(k) <=> (\E j \in Window(n, k) : log[j].body.y = v)
    BY <1>2
  <1>5. \A i : (\E k \in 1..RunsOf(n) : i \in Window(n, k)) <=> i \in At("SAMPLE") /\ i < n /\ M(i)
    BY <1>3
  <1> HIDE DEF C, M
  <1>6. (\E k \in 1..RunsOf(n) : C(k)) <=>
        \E i \in At("SAMPLE") : i < n /\ log[i].body.y = v /\ M(i)
    BY ONLY <1>4, <1>5
  <1>7. QED
    BY <1>1, <1>6 DEF ReadInRun, C, M

=============================================================================
